---------------------------- MODULE LocalFirstProofs ----------------------------
(***************************************************************************)
(* Proofs about LocalFirstEnvironment, for packages with scripts of any    *)
(* length.  A package that was judged has nothing left to tell, if it      *)
(* stays within the distances that two turns of the queue can bridge.      *)
(***************************************************************************)
EXTENDS LocalFirstEnvironment, Histories

-----------------------------------------------------------------------------
(***************************************************************************)
(* The packages that can be judged.                                        *)
(***************************************************************************)

\* How many of its awaits a package may put, once a request has ended, before the next
\* request of the task and before what its subscribers are told.
StartTolerance == 3
NotifyTolerance == 6

\* What a package can still do to an observation that is read.
Significant == CacheOps \cup {"notify", "post"}

Hops(s, i, j) == {k \in i..j : s[k] = "hop"}

\* A script is tolerated if what follows a request, up to the next one, follows in time.
\* What precedes the answer the adapter waits for is free.
Tolerated(s) ==
  \A i, j \in 1..Len(s) :
    /\ i < j
    /\ s[i] = "idb"
    /\ \A k \in (i + 1)..(j - 1) : s[k] # "idb"
    /\ \A k \in i..Len(s) : s[k] \notin Answers
    => /\ s[j] = "idb" => Cardinality(Hops(s, i + 1, j)) <= StartTolerance
       /\ s[j] \in Significant => Cardinality(Hops(s, i + 1, j)) <= NotifyTolerance

WithinTolerance == \A t \in Tasks : Tolerated(product.script[t])

-----------------------------------------------------------------------------
(***************************************************************************)
(* The queue: whom its jobs resume, and who stands before the adapter.     *)
(***************************************************************************)

JobSet == {AdapterJob} \cup [to : Tasks \cup {"peer"}, msg : Tasks \cup {"none"}]

Queued(queue, to) == \E i \in 1..Len(queue) : queue[i].to = to
Ahead(queue, t) ==
  \E i, j \in 1..Len(queue) : i < j /\ queue[i].to = t /\ queue[j].to = "adapter"
Message(queue) == \E i \in 1..Len(queue) : queue[i].to = "receive" /\ queue[i].msg # "none"
Single(queue) ==
  \A i, j \in 1..Len(queue) : queue[i].to = queue[j].to /\ queue[i].to # "peer" => i = j

\* A job is the adapter's, or that of a task or of the peer.
LEMMA JobsOf ==
  /\ AdapterJob \in JobSet /\ AdapterJob.to = "adapter" /\ AdapterJob.msg = "none"
  /\ \A j \in JobSet : /\ j.to \in Tasks \cup {"peer", "adapter"}
                       /\ j.msg \in Tasks \cup {"none"}
                       /\ j.to = "adapter" => j = AdapterJob
  /\ \A t \in Tasks \cup {"peer"}, m \in Tasks \cup {"none"} :
       Job(t, m) \in JobSet /\ Job(t, m).to = t /\ Job(t, m).msg = m
BY DEF JobSet, AdapterJob, Job, Tasks

\* The queues the event loop starts a turn with.
LEMMA EmptyQueue ==
  /\ <<>> \in Seq(JobSet) /\ Single(<<>>) /\ ~Message(<<>>)
  /\ \A x : ~Queued(<<>>, x) /\ ~Ahead(<<>>, x)
BY DEF Queued, Ahead, Message, Single

LEMMA AdapterAlone ==
  /\ <<AdapterJob>> \in Seq(JobSet) /\ Single(<<AdapterJob>>) /\ ~Message(<<AdapterJob>>)
  /\ \A x : (Queued(<<AdapterJob>>, x) <=> x = "adapter") /\ ~Ahead(<<AdapterJob>>, x)
  /\ Len(<<AdapterJob>>) = 1
<1> DEFINE q == <<AdapterJob>>
<1>1. Len(q) = 1 /\ q[1] = AdapterJob /\ q \in Seq(JobSet)
  BY JobsOf
<1>2. \A i \in 1..Len(q) : i = 1
  BY <1>1
<1> HIDE DEF q
<1>3. QED
  <2>1. Queued(q, "adapter")
    BY <1>1, JobsOf DEF Queued
  <2>2. \A x : Queued(q, x) => x = "adapter"
    BY <1>1, <1>2, JobsOf DEF Queued
  <2>3. (\A x : ~Ahead(q, x)) /\ Single(q) /\ ~Message(q)
    BY <1>1, <1>2, JobsOf DEF Ahead, Single, Message
  <2>4. QED
    BY <1>1, <2>1, <2>2, <2>3 DEF q

\* A job is added at the end.
LEMMA JobAdded ==
  ASSUME NEW q \in Seq(JobSet), NEW job \in JobSet
  PROVE  /\ Append(q, job) \in Seq(JobSet) /\ Append(q, job) # <<>>
         /\ \A x : Queued(Append(q, job), x) <=> Queued(q, x) \/ x = job.to
         /\ \A x \in Tasks : Ahead(Append(q, job), x)
                               <=> Ahead(q, x) \/ (job.to = "adapter" /\ Queued(q, x))
         /\ Single(q) /\ (job.to = "peer" \/ ~Queued(q, job.to)) => Single(Append(q, job))
         /\ Message(Append(q, job)) <=> Message(q) \/ (job.to = "receive" /\ job.msg # "none")
<1> DEFINE p == Append(q, job)
<1>1. /\ p \in Seq(JobSet) /\ p # <<>> /\ Len(p) = Len(q) + 1 /\ Len(q) \in Nat
      /\ p[Len(q) + 1] = job /\ \A i \in 1..Len(q) : p[i] = q[i]
  BY AppendProperties
<1> HIDE DEF p
<1>2. \A x : Queued(p, x) <=> Queued(q, x) \/ x = job.to
  BY <1>1 DEF Queued
<1>3. \A x \in Tasks : Ahead(p, x) <=> Ahead(q, x) \/ (job.to = "adapter" /\ Queued(q, x))
  <2> TAKE x \in Tasks
  <2>1. x # "adapter"
    BY DEF Tasks
  <2>2. ASSUME Ahead(p, x)
        PROVE  Ahead(q, x) \/ (job.to = "adapter" /\ Queued(q, x))
    BY <1>1, <2>2 DEF Ahead, Queued
  <2>3. Ahead(q, x) => Ahead(p, x)
    BY <1>1 DEF Ahead
  <2>4. ASSUME job.to = "adapter", Queued(q, x)
        PROVE  Ahead(p, x)
    <3>1. PICK i \in 1..Len(q) : q[i].to = x
      BY <2>4 DEF Queued
    <3>2. i < Len(q) + 1 /\ i \in 1..Len(p) /\ Len(q) + 1 \in 1..Len(p)
      BY <1>1
    <3>3. p[i].to = x /\ p[Len(q) + 1].to = "adapter"
      BY <1>1, <2>4, <3>1
    <3>4. QED
      BY <3>2, <3>3 DEF Ahead
  <2>5. QED
    BY <2>2, <2>3, <2>4
<1>4. ASSUME Single(q), job.to = "peer" \/ ~Queued(q, job.to)
      PROVE  Single(p)
  BY <1>1, <1>4 DEF Single, Queued
<1>5. Message(p) <=> Message(q) \/ (job.to = "receive" /\ job.msg # "none")
  BY <1>1 DEF Message
<1>6. QED
  BY <1>1, <1>2, <1>3, <1>4, <1>5 DEF p

\* The first job is taken.
LEMMA JobTaken ==
  ASSUME NEW q \in Seq(JobSet), q # <<>>, Single(q)
  PROVE  /\ Tail(q) \in Seq(JobSet) /\ Single(Tail(q)) /\ Head(q) \in JobSet
         /\ Queued(q, Head(q).to)
         /\ \A x : x # "peer" => (Queued(Tail(q), x) <=> Queued(q, x) /\ x # Head(q).to)
         /\ \A x \in Tasks : Ahead(Tail(q), x) <=> Ahead(q, x) /\ x # Head(q).to
         /\ Queued(q, "adapter") /\ Head(q).to # "adapter" => Ahead(q, Head(q).to)
         /\ Head(q).to = "adapter" => \A x : ~Ahead(q, x)
         /\ Message(Tail(q)) <=> Message(q) /\ ~(Head(q).to = "receive" /\ Head(q).msg # "none")
         /\ Head(q).to = "receive" /\ Head(q).msg # "none" => Message(q)
         /\ Head(q).to = "receive" /\ Message(q) => Head(q).msg # "none"
<1> DEFINE p == Tail(q)
<1>1. /\ p \in Seq(JobSet) /\ Len(q) \in Nat \ {0} /\ Len(p) = Len(q) - 1
      /\ \A i \in 1..Len(p) : p[i] = q[i + 1]
      /\ Head(q) = q[1] /\ q[1] \in JobSet
  BY HeadTailProperties, EmptySeq, LenProperties
<1>2. \A i \in 1..Len(q) : i = 1 \/ (i - 1 \in 1..Len(p) /\ q[i] = p[i - 1])
  BY <1>1
<1>3. 1 \in 1..Len(q) /\ \A i \in 1..Len(p) : i + 1 \in 1..Len(q)
  BY <1>1
<1> HIDE DEF p
<1>4. Queued(q, q[1].to)
  BY <1>3 DEF Queued
<1>5. \A x : x # "peer" => (Queued(p, x) <=> Queued(q, x) /\ x # q[1].to)
  <2> SUFFICES ASSUME NEW x, x # "peer"
               PROVE  Queued(p, x) <=> Queued(q, x) /\ x # q[1].to
    OBVIOUS
  <2>1. ASSUME Queued(p, x)
        PROVE  Queued(q, x) /\ x # q[1].to
    <3>1. PICK i \in 1..Len(p) : p[i].to = x
      BY <2>1 DEF Queued
    <3>2. i + 1 \in 1..Len(q) /\ q[i + 1].to = x /\ i + 1 # 1
      BY <1>1, <1>3, <3>1
    <3>3. QED
      BY <1>3, <3>2 DEF Queued, Single
  <2>2. ASSUME Queued(q, x), x # q[1].to
        PROVE  Queued(p, x)
    BY <1>2, <2>2 DEF Queued
  <2>3. QED
    BY <2>1, <2>2
<1>6. \A x \in Tasks : Ahead(p, x) <=> Ahead(q, x) /\ x # q[1].to
  <2> TAKE x \in Tasks
  <2>1. x # "adapter" /\ x # "peer"
    BY DEF Tasks
  <2>2. ASSUME Ahead(p, x)
        PROVE  Ahead(q, x) /\ x # q[1].to
    <3>1. PICK i \in 1..Len(p) : \E j \in 1..Len(p) : i < j /\ p[i].to = x /\ p[j].to = "adapter"
      BY <2>2 DEF Ahead
    <3>2. PICK j \in 1..Len(p) : i < j /\ p[i].to = x /\ p[j].to = "adapter"
      BY <3>1
    <3>3. i + 1 \in 1..Len(q) /\ j + 1 \in 1..Len(q) /\ i + 1 < j + 1 /\ i + 1 # 1
      BY <1>3, <3>2
    <3>4. q[i + 1].to = x /\ q[j + 1].to = "adapter"
      BY <1>1, <3>2
    <3>5. QED
      BY <1>3, <2>1, <3>3, <3>4 DEF Ahead, Single
  <2>3. ASSUME Ahead(q, x), x # q[1].to
        PROVE  Ahead(p, x)
    <3>1. PICK i \in 1..Len(q) : \E j \in 1..Len(q) : i < j /\ q[i].to = x /\ q[j].to = "adapter"
      BY <2>3 DEF Ahead
    <3>2. PICK j \in 1..Len(q) : i < j /\ q[i].to = x /\ q[j].to = "adapter"
      BY <3>1
    <3>3. i # 1 /\ j # 1
      BY <2>3, <3>2
    <3>4. i - 1 \in 1..Len(p) /\ j - 1 \in 1..Len(p) /\ i - 1 < j - 1
      BY <1>2, <3>2, <3>3
    <3>5. p[i - 1].to = x /\ p[j - 1].to = "adapter"
      BY <1>2, <3>2, <3>3
    <3>6. QED
      BY <3>4, <3>5 DEF Ahead
  <2>4. QED
    BY <2>2, <2>3
<1>7. ASSUME Queued(q, "adapter"), q[1].to # "adapter"
      PROVE  Ahead(q, q[1].to)
  <2>1. PICK j \in 1..Len(q) : q[j].to = "adapter"
    BY <1>7 DEF Queued
  <2>2. 1 < j
    BY <1>7, <2>1
  <2>3. QED
    BY <1>3, <2>1, <2>2 DEF Ahead
<1>8. ASSUME q[1].to = "adapter", NEW x, Ahead(q, x)
      PROVE  FALSE
  <2>1. PICK i \in 1..Len(q) : \E j \in 1..Len(q) : i < j /\ q[i].to = x /\ q[j].to = "adapter"
    BY <1>8 DEF Ahead
  <2>2. PICK j \in 1..Len(q) : i < j /\ q[i].to = x /\ q[j].to = "adapter"
    BY <2>1
  <2>3. j = 1
    BY <1>3, <1>8, <2>2 DEF Single
  <2>4. QED
    BY <2>2, <2>3
<1>9. Single(p)
  <2> SUFFICES ASSUME NEW i \in 1..Len(p), NEW j \in 1..Len(p),
                      p[i].to = p[j].to, p[i].to # "peer"
               PROVE  i = j
    BY DEF Single
  <2>1. i + 1 = j + 1
    BY <1>1, <1>3 DEF Single
  <2>2. QED
    BY <2>1
<1>10. Message(p) <=> Message(q) /\ ~(q[1].to = "receive" /\ q[1].msg # "none")
  <2>1. ASSUME Message(p)
        PROVE  Message(q) /\ ~(q[1].to = "receive" /\ q[1].msg # "none")
    <3>1. PICK i \in 1..Len(p) : p[i].to = "receive" /\ p[i].msg # "none"
      BY <2>1 DEF Message
    <3>2. i + 1 \in 1..Len(q) /\ q[i + 1].to = "receive" /\ q[i + 1].msg # "none" /\ i + 1 # 1
      BY <1>1, <1>3, <3>1
    <3>3. QED
      BY <1>3, <3>2 DEF Message, Single
  <2>2. ASSUME Message(q), ~(q[1].to = "receive" /\ q[1].msg # "none")
        PROVE  Message(p)
    BY <1>2, <2>2 DEF Message
  <2>3. QED
    BY <2>1, <2>2
<1>11. /\ q[1].to = "receive" /\ q[1].msg # "none" => Message(q)
       /\ q[1].to = "receive" /\ Message(q) => q[1].msg # "none"
  BY <1>3 DEF Message, Single
<1>12. QED
  BY <1>1, <1>4, <1>5, <1>6, <1>7, <1>8, <1>9, <1>10, <1>11 DEF p

\* The adapter, at the head of the queue, goes to its end.
LEMMA AdapterTurns ==
  ASSUME NEW q \in Seq(JobSet), q # <<>>, Single(q), Head(q).to = "adapter"
  PROVE  LET p == Append(Tail(q), AdapterJob)
         IN /\ p \in Seq(JobSet) /\ Single(p) /\ (Message(p) <=> Message(q))
            /\ Queued(q, "adapter") /\ Queued(p, "adapter")
            /\ \A x \in Tasks : (Queued(p, x) <=> Queued(q, x)) /\ (Ahead(p, x) <=> Queued(q, x))
            /\ \A x \in Tasks : ~Ahead(q, x)
<1> DEFINE r == Tail(q)
           p == Append(r, AdapterJob)
<1>1. /\ r \in Seq(JobSet) /\ Single(r) /\ Queued(q, "adapter") /\ ~Queued(r, "adapter")
      /\ (Message(r) <=> Message(q))
      /\ \A x \in Tasks : (Queued(r, x) <=> Queued(q, x)) /\ ~Ahead(q, x) /\ ~Ahead(r, x)
  BY JobTaken DEF Tasks
<1> HIDE DEF r
<1>2. /\ p \in Seq(JobSet)
      /\ \A x : Queued(p, x) <=> Queued(r, x) \/ x = AdapterJob.to
      /\ \A x \in Tasks : Ahead(p, x)
                            <=> Ahead(r, x) \/ (AdapterJob.to = "adapter" /\ Queued(r, x))
      /\ Single(r) /\ (AdapterJob.to = "peer" \/ ~Queued(r, AdapterJob.to)) => Single(p)
      /\ Message(p) <=> Message(r) \/ (AdapterJob.to = "receive" /\ AdapterJob.msg # "none")
  BY <1>1, JobAdded, JobsOf
<1> HIDE DEF p
<1>3. /\ p \in Seq(JobSet) /\ Single(p) /\ (Message(p) <=> Message(q))
      /\ Queued(q, "adapter") /\ Queued(p, "adapter")
      /\ \A x \in Tasks : (Queued(p, x) <=> Queued(q, x)) /\ (Ahead(p, x) <=> Queued(q, x))
      /\ \A x \in Tasks : ~Ahead(q, x)
  BY <1>1, <1>2, JobsOf DEF Tasks
<1>4. QED
  BY <1>3 DEF p, r

-----------------------------------------------------------------------------
(***************************************************************************)
(* Types.                                                                  *)
(***************************************************************************)

Settling == {"idle", "observing", "checking", "marking"}
Early == {"window", "clear", "next", "subscribe", "subscribed", "observe", "active", "patched"}
Late == {"relay", "inbox", "delivered", "quiet", "quiescent"}
Places == Settling \cup Early \cup Late \cup {"setup", "stored", "read"}

Adapters == [at : Places, hops : Nat, then : {"none", "window", "next", "relay", "read"},
             observed : Nat, marker : Nat, before : Nat, after : Nat]
Trackers == [generation : Nat, pending : Nat, idle : BOOLEAN, activity : SUBSET Nat]
Relays == [inbox : Seq(Tasks \cup {"none"}), posted : Nat, retransmissions : Nat,
           waiting : BOOLEAN, sent : Tasks \cup {"none"}]

TypeOK ==
  /\ product \in Products
  /\ jobs \in Seq(JobSet)
  /\ running \in Tasks \cup {"none"}
  /\ macros \subseteq Tasks \cup {"immediate"}
  /\ rest \in [Tasks -> Seq(Ops)]
  /\ tracker \in Trackers
  /\ relay \in Relays
  /\ calls \in Nat
  /\ adapter \in Adapters

\* The scripts of a package.
LEMMA ScriptsOf ==
  ASSUME product \in Products
  PROVE  /\ product.script \in [Tasks -> Seq(Ops)]
         /\ \A t \in Tasks : product.script[t] \in Seq(Ops)
         /\ AnswersOnce(product.script)
<1>1. product \in [row : Rows, channels : {0, 1}, script : [Tasks -> Seq(Ops)]]
  BY ProductsAssumption
<1>2. QED
  BY <1>1, AnswersAssumption

LEMMA InitTypes == Init => TypeOK
<1> SUFFICES ASSUME Init PROVE TypeOK
  OBVIOUS
<1>1. jobs \in Seq(JobSet)
  BY AdapterAlone DEF Init
<1>2. rest \in [Tasks -> Seq(Ops)]
  BY DEF Init
<1>3. tracker \in Trackers
  BY DEF Init, Trackers
<1>4. relay \in Relays
  BY DEF Init, Relays
<1>5. adapter \in Adapters
  BY DEF Init, Adapters, Places
<1>6. QED
  BY <1>1, <1>2, <1>3, <1>4, <1>5 DEF Init, TypeOK

\* What is put into the queue, and into the adapter's place, has its type.
LEMMA LaterTypes ==
  ASSUME jobs \in Seq(JobSet), jobs # <<>>, NEW a \in Adapters, NEW at \in Places,
         NEW n \in Nat \ {0}, Later(a, at, n)
  PROVE  jobs' \in Seq(JobSet) /\ adapter' \in Adapters
<1>1. jobs' \in Seq(JobSet)
  BY HeadTailProperties, AppendProperties, JobsOf DEF Later
<1>2. n - 1 \in Nat
  OBVIOUS
<1>3. QED
  BY <1>1, <1>2 DEF Later, Adapters

LEMMA WaitTypes ==
  ASSUME TypeOK, jobs # <<>>, NEW a \in Adapters, WaitForIdle(a)
  PROVE  jobs' \in Seq(JobSet) /\ adapter' \in Adapters /\ tracker' \in Trackers
<1>1. CASE /\ tracker' = [tracker EXCEPT !.idle = TRUE]
           /\ adapter' = [a EXCEPT !.at = "idle"] /\ jobs' = Tail(jobs)
  BY <1>1, HeadTailProperties DEF TypeOK, Adapters, Trackers, Places, Settling
<1>2. CASE Later(a, "observing", 1) /\ UNCHANGED tracker
  BY <1>2, LaterTypes DEF TypeOK, Places, Settling
<1>3. QED
  BY <1>1, <1>2 DEF WaitForIdle

\* A job taken or added leaves a queue.
LEMMA QueueTypes ==
  ASSUME NEW q \in Seq(JobSet)
  PROVE  /\ \A job \in JobSet : Append(q, job) \in Seq(JobSet)
         /\ q # <<>> => /\ Tail(q) \in Seq(JobSet) /\ Head(q) \in JobSet
                        /\ \A job \in JobSet : Append(Tail(q), job) \in Seq(JobSet)
                        /\ \A job \in JobSet : <<job>> \o Tail(q) \in Seq(JobSet)
BY HeadTailProperties, AppendProperties, ConcatProperties

LEMMA RestTypes ==
  ASSUME rest \in [Tasks -> Seq(Ops)], NEW t \in Tasks
  PROVE  /\ rest[t] # <<>> => [rest EXCEPT ![t] = Tail(@)] \in [Tasks -> Seq(Ops)]
         /\ product \in Products => [rest EXCEPT ![t] = product.script[t]] \in [Tasks -> Seq(Ops)]
BY HeadTailProperties, ScriptsOf

\* The records with other values in some of their fields.
LEMMA TrackerWith ==
  ASSUME NEW r \in Trackers, NEW g \in Nat, NEW p \in Nat, NEW a \in SUBSET Nat
  PROVE  [r EXCEPT !.generation = g, !.pending = p, !.activity = a] \in Trackers
BY DEF Trackers

LEMMA RelayWith ==
  ASSUME NEW r \in Relays, NEW b \in Seq(Tasks \cup {"none"}), NEW n \in Nat,
         NEW m \in Tasks \cup {"none"}
  PROVE  /\ [r EXCEPT !.posted = n] \in Relays
         /\ [r EXCEPT !.inbox = b, !.retransmissions = n, !.sent = m] \in Relays
         /\ [r EXCEPT !.inbox = b, !.posted = 0, !.retransmissions = 0] \in Relays
<1>1. [r EXCEPT !.posted = n] \in Relays
  BY DEF Relays
<1>2. [r EXCEPT !.inbox = b, !.retransmissions = n, !.sent = m] \in Relays
  BY DEF Relays
<1>3. [r EXCEPT !.inbox = b, !.posted = 0, !.retransmissions = 0] \in Relays
  BY DEF Relays
<1>4. QED
  BY <1>1, <1>2, <1>3

LEMMA PackageTypes ==
  ASSUME TypeOK, PackageStep, \A t \in Tasks : t \in macros => tracker.pending # 0
  PROVE  TypeOK'
<1> PICK t \in Tasks : \/ Hop(t) \/ StartRequest(t) \/ SetCache(t) \/ Notify(t) \/ PostMessage(t)
                       \/ Resolve(t) \/ Return(t) \/ TaskEnds(t) \/ ResumeTask(t) \/ RequestEnds(t)
  BY DEF PackageStep
<1> USE DEF TypeOK
<1>0. /\ AdapterJob \in JobSet
      /\ \A to \in Tasks \cup {"peer"}, m \in Tasks \cup {"none"} : Job(to, m) \in JobSet
  BY JobsOf
<1>1. CASE Hop(t)
  <2>1. jobs' \in Seq(JobSet)
    BY <1>0, <1>1, QueueTypes DEF Hop
  <2>2. QED
    BY <1>1, <2>1, RestTypes DEF Hop, Runs, logVars
<1>2. CASE StartRequest(t)
  <2>1. jobs' \in Seq(JobSet)
    BY <1>0, <1>2, QueueTypes DEF StartRequest
  <2>2. tracker' \in Trackers
    <3> DEFINE left == tracker.activity \ {m \in tracker.activity : tracker.generation + 1 > m}
    <3>1. tracker.generation + 1 \in Nat /\ tracker.pending + 1 \in Nat /\ left \in SUBSET Nat
      BY DEF Trackers
    <3>2. tracker' = [tracker EXCEPT !.generation = tracker.generation + 1,
                                     !.pending = tracker.pending + 1, !.activity = left]
      BY <1>2 DEF StartRequest
    <3> HIDE DEF left
    <3>3. QED
      BY <3>1, <3>2, TrackerWith
  <2>3. QED
    BY <1>2, <2>1, <2>2, RestTypes DEF StartRequest, Runs, logVars
<1>3. CASE SetCache(t)
  BY <1>3, RestTypes DEF SetCache, Runs, loopVars, logVars
<1>4. CASE Notify(t)
  BY <1>4, RestTypes DEF Notify, Runs, loopVars
<1>5. CASE PostMessage(t)
  <2>1. jobs' \in Seq(JobSet)
    BY <1>0, <1>5, QueueTypes DEF PostMessage
  <2>2. relay' \in Relays
    <3>1. relay.posted + 1 \in Nat /\ <<>> \in Seq(Tasks \cup {"none"})
      BY DEF Relays
    <3>2. relay' = [relay EXCEPT !.posted = relay.posted + 1]
      BY <1>5 DEF PostMessage
    <3>3. QED
      BY <3>1, <3>2, RelayWith
  <2>3. QED
    BY <1>5, <2>1, <2>2, RestTypes DEF PostMessage, Runs, logVars
<1>6. CASE Resolve(t)
  <2>1. jobs' \in Seq(JobSet)
    BY <1>0, <1>6, QueueTypes DEF Resolve
  <2>2. QED
    BY <1>6, <2>1, RestTypes DEF Resolve, Runs, logVars
<1>7. CASE Return(t)
  <2>1. jobs' \in Seq(JobSet)
    BY <1>0, <1>7, QueueTypes DEF Return
  <2>2. adapter' \in Adapters
    BY <1>7 DEF Return, Adapters
  <2>3. QED
    BY <1>7, <2>1, <2>2, RestTypes DEF Return, Runs, logVars
<1>8. CASE TaskEnds(t)
  BY <1>8 DEF TaskEnds, packageVars, logVars
<1>9. CASE ResumeTask(t)
  BY <1>9, QueueTypes DEF ResumeTask, NextJob, packageVars, logVars
<1>10. CASE RequestEnds(t)
  <2>1. jobs' \in Seq(JobSet)
    BY <1>10, AdapterAlone, EmptyQueue DEF RequestEnds
  <2>2. tracker.pending - 1 \in Nat
    BY <1>10 DEF RequestEnds, Trackers
  <2>3. tracker' \in Trackers
    BY <1>10, <2>2 DEF RequestEnds, Trackers
  <2>4. QED
    BY <1>10, <2>1, <2>3 DEF RequestEnds, packageVars, logVars
<1>11. QED
  BY <1>1, <1>2, <1>3, <1>4, <1>5, <1>6, <1>7, <1>8, <1>9, <1>10

LEMMA LoopTypes == TypeOK /\ LoopStep => TypeOK'
<1> SUFFICES ASSUME TypeOK, LoopStep PROVE TypeOK'
  OBVIOUS
<1> USE DEF TypeOK
<1>1. CASE PeerReceives
  <2>1. jobs' \in Seq(JobSet)
    BY <1>1, QueueTypes, JobsOf DEF PeerReceives, NextJob
  <2>2. Head(jobs).msg \in Tasks \cup {"none"}
    BY <1>1, QueueTypes, JobsOf DEF PeerReceives, NextJob
  <2>3. Append(relay.inbox, Head(jobs).msg) \in Seq(Tasks \cup {"none"})
    BY <2>2, AppendProperties DEF Relays
  <2>4. relay' \in Relays
    BY <1>1, <2>3 DEF PeerReceives, Relays
  <2>5. QED
    BY <1>1, <2>1, <2>4 DEF PeerReceives, packageVars, logVars
<1>2. CASE ProductReceives
  BY <1>2, QueueTypes, RestTypes DEF ProductReceives, NextJob, logVars, Tasks
<1>3. CASE ImmediateFires
  BY <1>3, AdapterAlone DEF ImmediateFires, packageVars, logVars
<1>4. CASE RunsDry
  BY <1>4 DEF RunsDry, loopVars, packageVars, logVars
<1>5. QED
  BY <1>1, <1>2, <1>3, <1>4 DEF LoopStep

LEMMA AdapterTypes ==
  ASSUME TypeOK, AdapterStep,
         adapter.at = "marking" => adapter.then # "none",
         Resumed("inbox") => relay.inbox # <<>>
  PROVE  TypeOK'
<1> USE DEF TypeOK
<1>0. /\ adapter \in Adapters
      /\ \A then \in {"window", "next", "relay", "read"} :
           [adapter EXCEPT !.then = then] \in Adapters
      /\ [adapter EXCEPT !.then = "relay", !.after = calls] \in Adapters
      /\ [adapter EXCEPT !.observed = tracker.generation] \in Adapters
      /\ [adapter EXCEPT !.marker = tracker.generation] \in Adapters
  BY DEF Adapters, Trackers
<1>p. \A at \in Places : /\ [adapter EXCEPT !.at = at] \in Adapters
                         /\ [adapter EXCEPT !.at = at, !.before = calls] \in Adapters
  BY DEF Adapters
<1>q. /\ Settling \subseteq Places /\ Early \subseteq Places /\ Late \subseteq Places
      /\ {"setup", "stored", "read"} \subseteq Places
  BY DEF Places
<1> USE DEF Settling, Early, Late, packageVars, logVars
<1>1. CASE AwaitHop
  <2>1. adapter' \in Adapters
    <3>1. adapter.hops - 1 \in Nat
      BY <1>1 DEF AwaitHop, Adapters
    <3>2. QED
      BY <1>1, <3>1 DEF AwaitHop, Adapters
  <2>2. QED
    BY <1>1, <2>1, QueueTypes, JobsOf DEF AwaitHop, NextJob
<1>2. CASE StillWaiting
  BY <1>0, <1>2, WaitTypes DEF StillWaiting, Resumed, NextJob
<1>3. CASE Observe
  BY <1>0, <1>3, <1>q, LaterTypes DEF Observe, Resumed, NextJob
<1>4. CASE Check
  <2>1. CASE Later(adapter, "marking", 1) /\ UNCHANGED tracker
    BY <1>0, <1>4, <1>q, <2>1, LaterTypes DEF Check, Resumed, NextJob
  <2>2. CASE WaitForIdle(adapter)
    BY <1>0, <1>4, <2>2, WaitTypes DEF Check, Resumed, NextJob
  <2>3. QED
    BY <1>4, <2>1, <2>2 DEF Check
<1>5. CASE Mark
  <2> DEFINE n == IF adapter.then = "read" /\ Row = "broadcast" THEN 3 ELSE 2
  <2>1. n \in Nat \ {0} /\ adapter.then \in {"none", "window", "next", "relay", "read"}
    BY DEF Adapters
  <2> HIDE DEF n
  <2>2. adapter.then \in Places
    BY <1>5, <1>q, <2>1 DEF Mark, Resumed
  <2>3. Later([adapter EXCEPT !.marker = tracker.generation], adapter.then, n)
    BY <1>5 DEF Mark, n
  <2>4. QED
    BY <1>0, <1>5, <2>1, <2>2, <2>3, LaterTypes DEF Mark, Resumed, NextJob
<1>6. CASE Setup
  BY <1>6, <1>p, <1>q, QueueTypes, RestTypes DEF Setup, Call, Resumed, NextJob, Tasks
<1>7. CASE Stored
  BY <1>0, <1>7, WaitTypes DEF Stored, StableIdle, Resumed, NextJob
<1>8. CASE BeginObservationWindow
  BY <1>0, <1>8, <1>q, LaterTypes DEF BeginObservationWindow, Resumed, NextJob
<1>9. CASE ClearWindow
  <2>1. relay' \in Relays
    <3>1. <<>> \in Seq(Tasks \cup {"none"})
      OBVIOUS
    <3>2. QED
      BY <1>9, <3>1, RelayWith DEF ClearWindow
  <2>2. QED
    BY <1>0, <1>9, <1>q, <2>1, LaterTypes DEF ClearWindow, Resumed, NextJob
<1>10. ASSUME CallSubscribe, jobs # <<>>
       PROVE  /\ jobs' \in Seq(JobSet) /\ adapter' \in Adapters
              /\ running' \in Tasks \cup {"none"} /\ rest' \in [Tasks -> Seq(Ops)]
  BY <1>10, <1>p, <1>q, QueueTypes, RestTypes, JobsOf DEF CallSubscribe, Call, Tasks
<1>11. CASE NextAction
  <2>1. CASE Later(adapter, "subscribe", 3) /\ UNCHANGED <<running, rest>>
    BY <1>0, <1>11, <1>q, <2>1, LaterTypes DEF NextAction, Resumed, NextJob
  <2>2. CASE CallSubscribe
    BY <1>10, <1>11, <2>2 DEF NextAction, Resumed, NextJob
  <2>3. QED
    BY <1>11, <2>1, <2>2 DEF NextAction, BetweenActions
<1>12. CASE Subscribe
  BY <1>10, <1>12 DEF Subscribe, Resumed, NextJob
<1>13. CASE Subscribed
  <2>1. CASE Later(adapter, "observe", 3) /\ UNCHANGED <<running, rest>>
    BY <1>0, <1>13, <1>q, <2>1, LaterTypes DEF Subscribed, Resumed, NextJob
  <2>2. CASE jobs' = jobs /\ UNCHANGED <<running, rest>> /\ adapter' = [adapter EXCEPT !.at = "observe"]
    BY <1>13, <1>p, <1>q, <2>2 DEF Subscribed, Resumed, NextJob
  <2>3. QED
    BY <1>13, <2>1, <2>2 DEF Subscribed, BetweenActions
<1>14. CASE SettleAfter
  <2>1. CASE /\ tracker' = [tracker EXCEPT !.activity = @ \cup {adapter.marker}]
             /\ adapter' = [adapter EXCEPT !.at = "active"] /\ jobs' = Tail(jobs)
    <3>1. tracker' \in Trackers
      BY <2>1 DEF Trackers, Adapters
    <3>2. QED
      BY <1>14, <1>p, <1>q, <2>1, <3>1, QueueTypes DEF SettleAfter, Resumed, NextJob
  <2>2. CASE StableIdle("read")
    BY <1>0, <1>14, <2>2, WaitTypes DEF SettleAfter, StableIdle, Resumed, NextJob
  <2>3. QED
    BY <1>14, <2>1, <2>2 DEF SettleAfter
<1>15. CASE Active
  BY <1>0, <1>15, WaitTypes DEF Active, StableIdle, Resumed, NextJob
<1>16. CASE Patch
  BY <1>16, <1>p, <1>q, QueueTypes, RestTypes DEF Patch, Call, Resumed, NextJob, Tasks
<1>17. CASE Patched
  BY <1>0, <1>17, WaitTypes DEF Patched, Resumed, NextJob
<1>18. ASSUME Retransmit, jobs # <<>>, relay.inbox # <<>>
       PROVE  jobs' \in Seq(JobSet) /\ adapter' \in Adapters /\ relay' \in Relays
  <2>1. Head(relay.inbox) \in Tasks \cup {"none"} /\ Tail(relay.inbox) \in Seq(Tasks \cup {"none"})
    BY <1>18, HeadTailProperties DEF Relays
  <2>2. relay' \in Relays
    <3>1. relay.retransmissions + 1 \in Nat
      BY DEF Relays
    <3>2. relay' = [relay EXCEPT !.inbox = Tail(relay.inbox),
                                 !.retransmissions = relay.retransmissions + 1,
                                 !.sent = Head(relay.inbox)]
      BY <1>18 DEF Retransmit
    <3>3. QED
      BY <2>1, <3>1, <3>2, RelayWith
  <2>3. Job("receive", Head(relay.inbox)) \in JobSet
    BY <2>1, JobsOf DEF Tasks
  <2>4. QED
    BY <1>18, <1>p, <1>q, <2>2, <2>3, QueueTypes DEF Retransmit
<1>19. CASE RetransmitOnce
  <2>1. CASE relay.inbox # <<>> /\ Retransmit
    BY <1>18, <1>19, <2>1 DEF RetransmitOnce, Resumed, NextJob
  <2>2. CASE /\ relay' = [relay EXCEPT !.waiting = TRUE]
             /\ adapter' = [adapter EXCEPT !.at = "inbox"] /\ jobs' = Tail(jobs)
    <3>1. relay' \in Relays
      BY <2>2 DEF Relays
    <3>2. QED
      BY <1>19, <1>p, <1>q, <2>2, <3>1, QueueTypes DEF RetransmitOnce, Resumed, NextJob
  <2>3. QED
    BY <1>19, <2>1, <2>2 DEF RetransmitOnce
<1>20. CASE InboxFilled
  BY <1>18, <1>20 DEF InboxFilled, Resumed, NextJob
<1>21. CASE Delivered
  BY <1>0, <1>21, <1>q, LaterTypes DEF Delivered, Resumed, NextJob
<1>22. CASE AwaitImmediate
  BY <1>22, <1>p, <1>q, QueueTypes DEF AwaitImmediate, Resumed, NextJob
<1>23. CASE Quiescent
  BY <1>0, <1>23, WaitTypes DEF Quiescent, StableIdle, Resumed, NextJob
<1>24. CASE Read
  BY <1>24 DEF Read, loopVars
<1>25. QED
  BY <1>1, <1>2, <1>3, <1>4, <1>5, <1>6, <1>7, <1>8, <1>9, <1>11, <1>12, <1>13, <1>14,
     <1>15, <1>16, <1>17, <1>19, <1>20, <1>21, <1>22, <1>23, <1>24 DEF AdapterStep

-----------------------------------------------------------------------------
(***************************************************************************)
(* The invariant.                                                          *)
(***************************************************************************)

\* What a task has left is the end of its script.
ScriptOf(t) == product.script[t]
Done(t) == Len(ScriptOf(t)) - Len(rest[t])
Left(t) == (Done(t) + 1)..Len(ScriptOf(t))
ScriptOK ==
  \A t \in Tasks :
    /\ Len(rest[t]) <= Len(ScriptOf(t))
    /\ \A i \in 1..Len(rest[t]) : rest[t][i] = ScriptOf(t)[Done(t) + i]

\* A task is in one place: on the stack, in the queue, or behind an open request.
Absent(t) == ~Queued(jobs, t) /\ running # t /\ t \notin macros
Behind(t) == Done(t) \in 1..Len(ScriptOf(t)) /\ ScriptOf(t)[Done(t)] = "idb"
TaskOK ==
  /\ Single(jobs)
  /\ \A t \in Tasks : /\ running = t => ~Queued(jobs, t) /\ t \notin macros
                      /\ Queued(jobs, t) => t \notin macros
                      /\ Absent(t) => rest[t] = <<>>
                      /\ t \in macros => Behind(t)
  /\ tracker.pending = Cardinality(macros \cap Tasks)

\* Where the adapter can be, by what it does after the rest it awaits, and which tasks it
\* has not called yet.
StageOK ==
  /\ adapter.then = "none" => adapter.at \in {"setup", "stored"}
  /\ adapter.then \in {"window", "next"} => adapter.at \in Settling \cup Early
  /\ adapter.then = "relay" => adapter.at \in Settling \cup Late
  /\ adapter.then = "read" => adapter.at \in Settling \cup {"read"}

BeforeRelay == adapter.then \in {"none", "window", "next"}
CallOK ==
  /\ adapter.at = "setup" => Absent("setup")
  /\ BeforeRelay /\ adapter.at \notin {"subscribed", "observe", "active", "patched"} => Absent("subscribe")
  /\ BeforeRelay /\ adapter.at # "patched" => Absent("patch")
  /\ BeforeRelay => Absent("receive")
  /\ adapter.then = "relay" /\ adapter.at \notin {"delivered", "quiet", "quiescent"} => Absent("receive")

\* The adapter has one continuation: in the queue, or with what it waits for.
Waits == {"stored", "idle", "active", "patched", "inbox", "delivered", "quiescent"}
HasAnswer(t) == \E i \in 1..Len(rest[t]) : rest[t][i] \in Answers
WaitsAt(at) == adapter.at = at /\ ~Queued(jobs, "adapter")
WaitOK ==
  /\ adapter.at \notin Waits => Queued(jobs, "adapter")
  /\ tracker.idle => WaitsAt("idle")
  /\ tracker.activity # {} => WaitsAt("active")
  /\ relay.waiting => WaitsAt("inbox")
  /\ "immediate" \in macros => WaitsAt("quiescent")
  /\ HasAnswer("setup") => WaitsAt("stored")
  /\ ~HasAnswer("subscribe")
  /\ HasAnswer("patch") => WaitsAt("patched")
  /\ HasAnswer("receive") \/ Message(jobs) => WaitsAt("delivered")

\* What woke the adapter: a message, an open request, or the queue that ran empty.  Until
\* the package's requests are awaited, those opened after the marker are still open.
OpenOK ==
  /\ adapter.at = "inbox" /\ Queued(jobs, "adapter") => relay.inbox # <<>>
  /\ adapter.marker <= tracker.generation
  /\ \A m \in tracker.activity : m <= tracker.generation
  /\ adapter.at \in {"window", "clear", "next", "subscribe", "subscribed", "observe"} =>
       tracker.generation <= adapter.marker + tracker.pending
  /\ adapter.at = "active" /\ Queued(jobs, "adapter") => tracker.pending # 0
  /\ adapter.at = "quiescent" /\ Queued(jobs, "adapter") =>
       running = "none" /\ \A t \in Tasks : ~Queued(jobs, t)

\* The last rest.  How often the adapter goes to the end of the queue before it checks the
\* rest, and before it reads.
CheckIn(a) == CASE a.at = "idle" -> 3 [] a.at = "observing" -> 2
                [] a.at = "checking" -> a.hops [] OTHER -> 0
ReadIn(a) == CASE a.at = "idle" -> 6 [] a.at = "observing" -> 5
               [] a.at = "checking" -> a.hops + 3 [] a.at = "marking" -> 2
               [] OTHER -> a.hops

\* How often a task is resumed up to an operation it has left, and whether before the
\* adapter is.
Turns(t) == IF Queued(jobs, t) THEN 1 ELSE 0
Lead(t) == IF Ahead(jobs, t) THEN 1 ELSE 0
Distance(t, j) == Cardinality(Hops(ScriptOf(t), Done(t) + 1, j)) + Turns(t)
Before(t, j) == \A k \in (Done(t) + 1)..(j - 1) : ScriptOf(t)[k] # "idb"
Paced(t) ==
  \A j \in Left(t) : Before(t, j) =>
    /\ ScriptOf(t)[j] = "idb" => Distance(t, j) <= CheckIn(adapter) + Lead(t)
    /\ ScriptOf(t)[j] \in Significant => Distance(t, j) <= ReadIn(adapter) + Lead(t)

\* A package within tolerance keeps pace with the adapter, and starts no request after the
\* check.
RestOK ==
  WithinTolerance /\ adapter.then = "read" =>
    /\ Queued(jobs, "adapter") /\ tracker.pending = 0 => \A t \in Tasks : Paced(t)
    /\ adapter.at \in {"marking", "read"} =>
         /\ tracker.pending = 0
         /\ \A t \in Tasks : \A j \in Left(t) : ScriptOf(t)[j] # "idb"

Going == TypeOK /\ ScriptOK /\ TaskOK /\ StageOK /\ CallOK /\ WaitOK /\ OpenOK /\ RestOK
QuietInv == /\ WithinTolerance => SettledIsQuiet
            /\ result = "none" => Going

-----------------------------------------------------------------------------
(***************************************************************************)
(* Counting.                                                               *)
(***************************************************************************)

\* The tasks are finitely many, and the open requests are counted.
LEMMA OpenTasks ==
  ASSUME NEW S \in SUBSET Tasks
  PROVE  /\ IsFiniteSet(S) /\ Cardinality(S) \in Nat /\ (Cardinality(S) = 0 <=> S = {})
         /\ \A t \in S : Cardinality(S \ {t}) = Cardinality(S) - 1
         /\ \A t \in Tasks \ S : Cardinality(S \cup {t}) = Cardinality(S) + 1
<1>1. IsFiniteSet(Tasks)
  <2>1. Tasks = {"setup"} \cup {"subscribe"} \cup {"patch"} \cup {"receive"}
    BY DEF Tasks
  <2>2. \A x : IsFiniteSet({x})
    BY FS_Singleton
  <2>3. IsFiniteSet({"setup"} \cup {"subscribe"})
    BY <2>2, FS_Union
  <2>4. IsFiniteSet({"setup"} \cup {"subscribe"} \cup {"patch"})
    BY <2>2, <2>3, FS_Union
  <2>5. QED
    BY <2>1, <2>2, <2>4, FS_Union
<1>2. IsFiniteSet(S)
  BY <1>1, FS_Subset
<1>3. Cardinality(S) \in Nat
  BY <1>2, FS_CardinalityType
<1>4. Cardinality(S) = 0 <=> S = {}
  BY <1>2, FS_EmptySet
<1>5. \A t \in S : Cardinality(S \ {t}) = Cardinality(S) - 1
  BY <1>2, FS_RemoveElement
<1>6. \A t \in Tasks \ S : Cardinality(S \cup {t}) = Cardinality(S) + 1
  BY <1>2, FS_AddElement
<1>7. QED
  BY <1>2, <1>3, <1>4, <1>5, <1>6

\* The awaits up to a position.
LEMMA HopsOf ==
  ASSUME NEW s, NEW i \in Nat, NEW j \in Nat
  PROVE  /\ Cardinality(Hops(s, i, j)) \in Nat
         /\ i <= j /\ s[i] = "hop" =>
              Cardinality(Hops(s, i, j)) = Cardinality(Hops(s, i + 1, j)) + 1
         /\ i <= j /\ s[i] # "hop" =>
              Cardinality(Hops(s, i, j)) = Cardinality(Hops(s, i + 1, j))
<1>1. IsFiniteSet(i..j) /\ IsFiniteSet((i + 1)..j)
  BY FS_Interval
<1>2. Hops(s, i, j) \subseteq i..j /\ Hops(s, i + 1, j) \subseteq (i + 1)..j
  BY DEF Hops
<1>3. IsFiniteSet(Hops(s, i, j)) /\ IsFiniteSet(Hops(s, i + 1, j))
  BY <1>1, <1>2, FS_Subset
<1>4. Cardinality(Hops(s, i, j)) \in Nat
  BY <1>3, FS_CardinalityType
<1>5. ASSUME i <= j, s[i] = "hop"
      PROVE  Cardinality(Hops(s, i, j)) = Cardinality(Hops(s, i + 1, j)) + 1
  <2>1. Hops(s, i, j) = Hops(s, i + 1, j) \cup {i}
    BY <1>5 DEF Hops
  <2>2. i \notin Hops(s, i + 1, j)
    BY DEF Hops
  <2>3. QED
    BY <1>3, <2>1, <2>2, FS_AddElement
<1>6. ASSUME i <= j, s[i] # "hop"
      PROVE  Hops(s, i, j) = Hops(s, i + 1, j)
  BY <1>6 DEF Hops
<1>7. QED
  BY <1>4, <1>5, <1>6

-----------------------------------------------------------------------------
(***************************************************************************)
(* What a task has done and has left.                                      *)
(***************************************************************************)

\* A task is somewhere in its script, and what it has left begins where it is.
LEMMA ScriptPositions ==
  ASSUME TypeOK, ScriptOK, NEW t \in Tasks
  PROVE  /\ ScriptOf(t) \in Seq(Ops) /\ Len(ScriptOf(t)) \in Nat
         /\ rest[t] \in Seq(Ops) /\ Len(rest[t]) \in Nat /\ Done(t) \in Nat
         /\ Len(rest[t]) = Len(ScriptOf(t)) - Done(t)
         /\ Left(t) = {} <=> rest[t] = <<>>
         /\ \A j \in Left(t) : j \in Nat /\ j \in 1..Len(ScriptOf(t)) /\ Done(t) + 1 <= j
         /\ \A j \in Left(t) : /\ j - Done(t) \in 1..Len(rest[t])
                               /\ rest[t][j - Done(t)] = ScriptOf(t)[j]
         /\ \A i \in 1..Len(rest[t]) : Done(t) + i \in Left(t)
<1>1. /\ ScriptOf(t) \in Seq(Ops) /\ Len(ScriptOf(t)) \in Nat
      /\ rest[t] \in Seq(Ops) /\ Len(rest[t]) \in Nat
  BY ScriptsOf, LenProperties DEF TypeOK, ScriptOf
<1>2. Len(rest[t]) <= Len(ScriptOf(t))
  BY DEF ScriptOK
<1>3. Done(t) \in Nat /\ Len(rest[t]) = Len(ScriptOf(t)) - Done(t)
  BY <1>1, <1>2 DEF Done
<1>4. Len(rest[t]) = 0 <=> rest[t] = <<>>
  BY <1>1, EmptySeq
<1>5. Left(t) = {} <=> Len(rest[t]) = 0
  <2>1. CASE Len(rest[t]) = 0
    <3>1. Done(t) + 1 > Len(ScriptOf(t))
      BY <1>1, <1>3, <2>1
    <3>2. QED
      BY <1>1, <1>3, <2>1, <3>1 DEF Left
  <2>2. CASE Len(rest[t]) # 0
    <3>1. Done(t) + 1 <= Len(ScriptOf(t))
      BY <1>1, <1>3, <2>2
    <3>2. Done(t) + 1 \in Left(t)
      BY <1>1, <1>3, <3>1 DEF Left
    <3>3. QED
      BY <2>2, <3>2
  <2>3. QED
    BY <2>1, <2>2
<1>6. ASSUME NEW j \in Left(t)
      PROVE  /\ j \in Nat /\ j \in 1..Len(ScriptOf(t)) /\ Done(t) + 1 <= j
             /\ j - Done(t) \in 1..Len(rest[t]) /\ Done(t) + (j - Done(t)) = j
  BY <1>1, <1>3 DEF Left
<1>7. ASSUME NEW j \in Left(t)
      PROVE  rest[t][j - Done(t)] = ScriptOf(t)[j]
  BY <1>6 DEF ScriptOK
<1>8. \A i \in 1..Len(rest[t]) : Done(t) + i \in Left(t)
  BY <1>1, <1>3 DEF Left
<1>9. QED
  BY <1>1, <1>3, <1>4, <1>5, <1>6, <1>7, <1>8

\* A task does the next operation of its script.
LEMMA OneOperation ==
  ASSUME TypeOK, ScriptOK, product' = product, NEW t \in Tasks, rest[t] # <<>>,
         rest' = [rest EXCEPT ![t] = Tail(@)]
  PROVE  /\ ScriptOK'
         /\ Done(t) + 1 \in Left(t) /\ ScriptOf(t)[Done(t) + 1] = Head(rest[t])
         /\ Done(t)' = Done(t) + 1
         /\ \A u \in Tasks \ {t} : Done(u)' = Done(u) /\ rest'[u] = rest[u]
         /\ \A u \in Tasks : ScriptOf(u)' = ScriptOf(u)
         /\ \A u \in Tasks : HasAnswer(u)' => HasAnswer(u)
<1>1. \A u \in Tasks : ScriptOf(u)' = ScriptOf(u)
  BY DEF ScriptOf
<1>2. \A u \in Tasks \ {t} : rest'[u] = rest[u]
  BY DEF TypeOK
<1>3. rest'[t] = Tail(rest[t])
  BY DEF TypeOK
<1>4. /\ rest[t] \in Seq(Ops) /\ Len(rest[t]) \in Nat \ {0} /\ Len(rest'[t]) = Len(rest[t]) - 1
      /\ \A i \in 1..Len(rest'[t]) : rest'[t][i] = rest[t][i + 1]
      /\ Head(rest[t]) = rest[t][1]
  BY <1>3, HeadTailProperties, EmptySeq, LenProperties DEF TypeOK
<1>5. \A u \in Tasks \ {t} : Done(u)' = Done(u)
  BY <1>1, <1>2 DEF Done
<1>6. Done(t)' = Len(ScriptOf(t)) - Len(rest'[t])
  BY <1>1 DEF Done
<1>7. Done(t)' = Done(t) + 1 /\ Done(t) \in Nat /\ Len(ScriptOf(t)) \in Nat
  <2>1. /\ Done(t) \in Nat /\ Len(ScriptOf(t)) \in Nat
        /\ Len(rest[t]) = Len(ScriptOf(t)) - Done(t)
    BY ScriptPositions
  <2>2. QED
    BY <1>4, <1>6, <2>1
<1>8. ScriptOK'
  <2> SUFFICES ASSUME NEW u \in Tasks
               PROVE  /\ Len(rest'[u]) <= Len(ScriptOf(u)')
                      /\ \A i \in 1..Len(rest'[u]) : rest'[u][i] = ScriptOf(u)'[Done(u)' + i]
    BY DEF ScriptOK
  <2>1. CASE u = t
    <3>1. Len(rest[t]) <= Len(ScriptOf(t))
      BY DEF ScriptOK
    <3>2. ASSUME NEW i \in 1..Len(rest'[t])
          PROVE  rest'[t][i] = ScriptOf(t)[Done(t)' + i]
      <4>1. i \in Nat /\ i + 1 \in 1..Len(rest[t])
        BY <1>4
      <4>2. Done(t) + (i + 1) = Done(t)' + i
        BY <1>7, <4>1
      <4>3. rest[t][i + 1] = ScriptOf(t)[Done(t) + (i + 1)]
        BY <4>1 DEF ScriptOK
      <4>4. QED
        BY <1>4, <4>2, <4>3
    <3>3. QED
      BY <1>1, <1>4, <1>7, <2>1, <3>1, <3>2
  <2>2. CASE u # t
    BY <1>1, <1>2, <1>5, <2>2 DEF ScriptOK
  <2>3. QED
    BY <2>1, <2>2
<1>9. Done(t) + 1 \in Left(t) /\ ScriptOf(t)[Done(t) + 1] = Head(rest[t])
  BY <1>4, ScriptPositions DEF ScriptOK
<1>10. ASSUME NEW u \in Tasks, HasAnswer(u)'
       PROVE  HasAnswer(u)
  <2>1. PICK i \in 1..Len(rest'[u]) : rest'[u][i] \in Answers
    BY <1>10 DEF HasAnswer
  <2>2. CASE u = t
    <3>1. i + 1 \in 1..Len(rest[t]) /\ rest[t][i + 1] \in Answers
      BY <1>4, <2>1, <2>2
    <3>2. QED
      BY <2>2, <3>1 DEF HasAnswer
  <2>3. CASE u # t
    BY <1>2, <2>1, <2>3 DEF HasAnswer
  <2>4. QED
    BY <2>2, <2>3
<1>11. QED
  BY <1>1, <1>2, <1>5, <1>7, <1>8, <1>9, <1>10

\* A task that has given its answer has no other.
LEMMA AnsweredOnce ==
  ASSUME TypeOK, ScriptOK, product' = product, NEW t \in Tasks, rest[t] # <<>>,
         rest' = [rest EXCEPT ![t] = Tail(@)], Head(rest[t]) \in Answers
  PROVE  /\ HasAnswer(t) /\ ~HasAnswer(t)'
         /\ Head(rest[t]) = "resolve" => t \in {"setup", "patch"}
         /\ Head(rest[t]) = "return" => t = "receive"
<1>1. AnswersOnce(product.script)
  BY ScriptsOf DEF TypeOK
<1>2. /\ ScriptOK' /\ Done(t)' = Done(t) + 1 /\ ScriptOf(t)' = ScriptOf(t)
      /\ Done(t) + 1 \in Left(t) /\ ScriptOf(t)[Done(t) + 1] = Head(rest[t])
  BY OneOperation
<1>3. /\ Done(t) \in Nat /\ Done(t) + 1 \in 1..Len(ScriptOf(t)) /\ Len(ScriptOf(t)) \in Nat
      /\ Len(rest[t]) = Len(ScriptOf(t)) - Done(t) /\ rest[t] \in Seq(Ops)
  BY <1>2, ScriptPositions
<1>4. Len(rest'[t]) = Len(rest[t]) - 1 /\ Len(rest[t]) \in Nat \ {0} /\ Head(rest[t]) = rest[t][1]
  BY <1>3, HeadTailProperties, EmptySeq, LenProperties DEF TypeOK
<1>5. HasAnswer(t)
  BY <1>4 DEF HasAnswer
<1>6. ASSUME HasAnswer(t)'
      PROVE  FALSE
  <2>1. PICK i \in 1..Len(rest'[t]) : rest'[t][i] \in Answers
    BY <1>6 DEF HasAnswer
  <2>2. rest'[t][i] = ScriptOf(t)[Done(t) + 1 + i]
    BY <1>2, <2>1 DEF ScriptOK
  <2>3. i \in Nat /\ 1 <= i /\ i <= Len(rest[t]) - 1
    BY <1>4, <2>1
  <2> DEFINE k == Done(t) + 1
             l == Done(t) + 1 + i
  <2>4. k \in 1..Len(ScriptOf(t)) /\ l \in 1..Len(ScriptOf(t)) /\ k # l
    BY <1>3, <2>3
  <2>5. ScriptOf(t)[k] \in Answers /\ ScriptOf(t)[l] \in Answers
    BY <1>2, <2>1, <2>2
  <2> HIDE DEF k, l
  <2>6. QED
    BY <1>1, <2>4, <2>5 DEF AnswersOnce, ScriptOf
<1>7. QED
  BY <1>1, <1>2, <1>3, <1>5, <1>6 DEF AnswersOnce, ScriptOf

\* What nobody changes stays as it is.
LEMMA SameScripts ==
  ASSUME product' = product, NEW t \in Tasks, rest'[t] = rest[t]
  PROVE  /\ ScriptOf(t)' = ScriptOf(t) /\ Done(t)' = Done(t) /\ Left(t)' = Left(t)
         /\ (Behind(t)' <=> Behind(t)) /\ (HasAnswer(t)' <=> HasAnswer(t))
<1>1. ScriptOf(t)' = ScriptOf(t)
  BY DEF ScriptOf
<1>2. Done(t)' = Done(t)
  BY <1>1 DEF Done
<1>3. QED
  BY <1>1, <1>2 DEF Left, Behind, HasAnswer

-----------------------------------------------------------------------------
(***************************************************************************)
(* Pace.                                                                   *)
(***************************************************************************)

\* The allowances are numbers.
LEMMA PaceNumbers ==
  ASSUME NEW a \in Adapters
  PROVE  CheckIn(a) \in Nat /\ ReadIn(a) \in Nat
<1>1. a.hops \in Nat /\ a.hops + 3 \in Nat
  BY DEF Adapters
<1>2. QED
  BY <1>1 DEF CheckIn, ReadIn

\* A task that does nothing keeps its pace if the adapter comes no nearer than the task does.
LEMMA PaceKept ==
  ASSUME TypeOK, TypeOK', ScriptOK, product' = product, NEW t \in Tasks, rest'[t] = rest[t],
         Paced(t),
         Turns(t)' + CheckIn(adapter) + Lead(t) <= Turns(t) + CheckIn(adapter)' + Lead(t)',
         Turns(t)' + ReadIn(adapter) + Lead(t) <= Turns(t) + ReadIn(adapter)' + Lead(t)'
  PROVE  Paced(t)'
<1>1. ScriptOf(t)' = ScriptOf(t) /\ Done(t)' = Done(t) /\ Left(t)' = Left(t)
  BY SameScripts
<1>2. SUFFICES ASSUME NEW j \in Left(t), Before(t, j)
               PROVE  /\ ScriptOf(t)[j] = "idb" => Distance(t, j)' <= CheckIn(adapter)' + Lead(t)'
                      /\ ScriptOf(t)[j] \in Significant => Distance(t, j)' <= ReadIn(adapter)' + Lead(t)'
  BY <1>1 DEF Paced, Before
<1> DEFINE c == Cardinality(Hops(ScriptOf(t), Done(t) + 1, j))
<1>3. j \in Nat /\ Done(t) + 1 \in Nat
  BY ScriptPositions
<1>4. c \in Nat
  BY <1>3, HopsOf
<1>5. Distance(t, j) = c + Turns(t) /\ Distance(t, j)' = c + Turns(t)'
  BY <1>1 DEF Distance
<1> HIDE DEF c
<1>6. /\ CheckIn(adapter) \in Nat /\ ReadIn(adapter) \in Nat
      /\ CheckIn(adapter)' \in Nat /\ ReadIn(adapter)' \in Nat
      /\ Turns(t) \in Nat /\ Lead(t) \in Nat /\ Turns(t)' \in Nat /\ Lead(t)' \in Nat
  <2>1. CheckIn(adapter) \in Nat /\ ReadIn(adapter) \in Nat
    BY PaceNumbers DEF TypeOK
  <2>2. CheckIn(adapter') \in Nat /\ ReadIn(adapter') \in Nat
    BY PaceNumbers DEF TypeOK
  <2>3. QED
    BY <2>1, <2>2 DEF Turns, Lead
<1>7. /\ ScriptOf(t)[j] = "idb" => Distance(t, j) <= CheckIn(adapter) + Lead(t)
      /\ ScriptOf(t)[j] \in Significant => Distance(t, j) <= ReadIn(adapter) + Lead(t)
  BY <1>2 DEF Paced
<1>8. QED
  BY <1>4, <1>5, <1>6, <1>7

\* A task that goes on, without opening a request, keeps its pace: an await it puts brings
\* it into the queue.
LEMMA PaceInTask ==
  ASSUME TypeOK, TypeOK', ScriptOK, product' = product, NEW t \in Tasks, rest[t] # <<>>,
         rest' = [rest EXCEPT ![t] = Tail(@)], Head(rest[t]) # "idb", adapter' = adapter,
         ~Queued(jobs, t), Queued(jobs', t) <=> Head(rest[t]) = "hop",
         ~Ahead(jobs, t), Paced(t)
  PROVE  Paced(t)'
<1>1. /\ ScriptOf(t)' = ScriptOf(t) /\ Done(t)' = Done(t) + 1
      /\ Done(t) + 1 \in Left(t) /\ ScriptOf(t)[Done(t) + 1] = Head(rest[t])
  BY OneOperation
<1>2. Done(t) \in Nat /\ Len(ScriptOf(t)) \in Nat
  BY ScriptPositions
<1>3. SUFFICES ASSUME NEW j \in Left(t)', Before(t, j)'
               PROVE  /\ ScriptOf(t)[j] = "idb" => Distance(t, j)' <= CheckIn(adapter)' + Lead(t)'
                      /\ ScriptOf(t)[j] \in Significant => Distance(t, j)' <= ReadIn(adapter)' + Lead(t)'
  BY <1>1 DEF Paced
<1>4. j \in Left(t) /\ j \in Nat /\ Done(t) + 1 <= j
  BY <1>1, <1>2 DEF Left
<1>5. Before(t, j)
  <2> SUFFICES ASSUME NEW k \in (Done(t) + 1)..(j - 1)
               PROVE  ScriptOf(t)[k] # "idb"
    BY DEF Before
  <2>1. CASE k = Done(t) + 1
    BY <1>1, <2>1
  <2>2. CASE k # Done(t) + 1
    <3>1. k \in (Done(t)' + 1)..(j - 1)
      BY <1>1, <1>2, <1>4, <2>2
    <3>2. QED
      BY <1>1, <1>3, <3>1 DEF Before
  <2>3. QED
    BY <2>1, <2>2
<1> DEFINE c == Cardinality(Hops(ScriptOf(t), Done(t) + 1, j))
           d == Cardinality(Hops(ScriptOf(t), Done(t) + 1 + 1, j))
<1>6. /\ c \in Nat /\ d \in Nat
      /\ Head(rest[t]) = "hop" => c = d + 1
      /\ Head(rest[t]) # "hop" => c = d
  <2> DEFINE i == Done(t) + 1
  <2>1. i \in Nat /\ i + 1 \in Nat
    BY <1>2
  <2>2. i <= j /\ ScriptOf(t)[i] = Head(rest[t])
    BY <1>1, <1>4
  <2> HIDE DEF i
  <2>3. /\ Cardinality(Hops(ScriptOf(t), i, j)) \in Nat
        /\ Cardinality(Hops(ScriptOf(t), i + 1, j)) \in Nat
    BY <1>4, <2>1, HopsOf
  <2>4. /\ ScriptOf(t)[i] = "hop" =>
             Cardinality(Hops(ScriptOf(t), i, j)) = Cardinality(Hops(ScriptOf(t), i + 1, j)) + 1
        /\ ScriptOf(t)[i] # "hop" =>
             Cardinality(Hops(ScriptOf(t), i, j)) = Cardinality(Hops(ScriptOf(t), i + 1, j))
    BY <1>4, <2>1, <2>2, HopsOf
  <2>5. QED
    BY <2>2, <2>3, <2>4 DEF i
<1>7. Distance(t, j) = c + Turns(t) /\ Distance(t, j)' = d + Turns(t)'
  BY <1>1 DEF Distance
<1> HIDE DEF c, d
<1>8. /\ Turns(t) = 0 /\ Lead(t) = 0 /\ Lead(t)' \in {0, 1}
      /\ Head(rest[t]) = "hop" => Turns(t)' = 1
      /\ Head(rest[t]) # "hop" => Turns(t)' = 0
  BY DEF Turns, Lead
<1>9. Distance(t, j) = Distance(t, j)' /\ Distance(t, j) \in Nat
  BY <1>6, <1>7, <1>8
<1>10. /\ ScriptOf(t)[j] = "idb" => Distance(t, j) <= CheckIn(adapter) + Lead(t)
       /\ ScriptOf(t)[j] \in Significant => Distance(t, j) <= ReadIn(adapter) + Lead(t)
  BY <1>4, <1>5 DEF Paced
<1>11. CheckIn(adapter) \in Nat /\ ReadIn(adapter) \in Nat
  BY PaceNumbers DEF TypeOK
<1>12. QED
  BY <1>8, <1>9, <1>10, <1>11

\* A task that has nothing left keeps every pace.
LEMMA PaceOfNothing ==
  ASSUME TypeOK, ScriptOK, NEW t \in Tasks, rest[t] = <<>>
  PROVE  Paced(t)
BY ScriptPositions DEF Paced

\* A request ends, the last one, and wakes the adapter: what the task does next is within
\* the tolerances.
LEMMA PaceAfterRequest ==
  ASSUME TypeOK, ScriptOK, WithinTolerance, NEW t \in Tasks, Behind(t), ~HasAnswer(t),
         adapter.at = "idle", ~Queued(jobs, t)
  PROVE  Paced(t)
<1>1. /\ Done(t) \in 1..Len(ScriptOf(t)) /\ ScriptOf(t)[Done(t)] = "idb"
      /\ Len(ScriptOf(t)) \in Nat /\ Done(t) \in Nat
  BY ScriptPositions DEF Behind
<1>2. SUFFICES ASSUME NEW j \in Left(t), Before(t, j)
               PROVE  /\ ScriptOf(t)[j] = "idb" => Distance(t, j) <= CheckIn(adapter) + Lead(t)
                      /\ ScriptOf(t)[j] \in Significant => Distance(t, j) <= ReadIn(adapter) + Lead(t)
  BY DEF Paced
<1>3. j \in 1..Len(ScriptOf(t)) /\ Done(t) < j /\ j \in Nat
  BY <1>1, ScriptPositions
<1>4. ASSUME NEW k \in Done(t)..Len(ScriptOf(t))
      PROVE  ScriptOf(t)[k] \notin Answers
  <2>1. CASE k = Done(t)
    BY <1>1, <2>1 DEF Answers
  <2>2. CASE k # Done(t)
    <3>1. k \in Left(t)
      BY <1>1, <2>2 DEF Left
    <3>2. k - Done(t) \in 1..Len(rest[t]) /\ rest[t][k - Done(t)] = ScriptOf(t)[k]
      BY <3>1, ScriptPositions
    <3>3. QED
      BY <3>2 DEF HasAnswer
  <2>3. QED
    BY <2>1, <2>2
<1>5. Tolerated(ScriptOf(t))
  BY DEF WithinTolerance, ScriptOf
<1>6. /\ ScriptOf(t)[j] = "idb" => Cardinality(Hops(ScriptOf(t), Done(t) + 1, j)) <= 3
      /\ ScriptOf(t)[j] \in Significant => Cardinality(Hops(ScriptOf(t), Done(t) + 1, j)) <= 6
  BY <1>1, <1>2, <1>3, <1>4, <1>5 DEF Tolerated, Before, StartTolerance, NotifyTolerance
<1>7. Turns(t) = 0 /\ Lead(t) \in {0, 1} /\ CheckIn(adapter) = 3 /\ ReadIn(adapter) = 6
  BY DEF Turns, Lead, CheckIn, ReadIn
<1>8. Cardinality(Hops(ScriptOf(t), Done(t) + 1, j)) \in Nat
  <2>1. Done(t) + 1 \in Nat
    BY <1>1
  <2>2. QED
    BY <1>3, <2>1, HopsOf
<1>9. QED
  BY <1>6, <1>7, <1>8 DEF Distance

-----------------------------------------------------------------------------
(***************************************************************************)
(* The package's steps.                                                    *)
(***************************************************************************)

\* The task on the stack does an operation.
LEMMA OnTheStack ==
  ASSUME Going, NEW t \in Tasks, NEW op, Runs(t, op), product' = product
  PROVE  /\ ScriptOK' /\ rest[t] # <<>> /\ Head(rest[t]) = op /\ running = t
         /\ rest' = [rest EXCEPT ![t] = Tail(@)]
         /\ ~Queued(jobs, t) /\ t \notin macros /\ ~Ahead(jobs, t) /\ ~Absent(t)
         /\ Done(t) + 1 \in Left(t) /\ ScriptOf(t)[Done(t) + 1] = op
         /\ Done(t)' = Done(t) + 1
         /\ \A u \in Tasks \ {t} : /\ rest'[u] = rest[u] /\ (Behind(u)' <=> Behind(u))
                                   /\ Left(u)' = Left(u) /\ running # u
         /\ \A u \in Tasks : ScriptOf(u)' = ScriptOf(u) /\ Left(u)' \subseteq Left(u)
         /\ \A u \in Tasks : HasAnswer(u)' => HasAnswer(u)
         /\ (WithinTolerance' <=> WithinTolerance)
<1>1. /\ rest[t] # <<>> /\ Head(rest[t]) = op /\ running = t
      /\ rest' = [rest EXCEPT ![t] = Tail(@)]
  BY DEF Runs
<1>2. ~Queued(jobs, t) /\ t \notin macros
  BY <1>1 DEF Going, TaskOK
<1>3. ~Ahead(jobs, t)
  BY <1>2 DEF Ahead, Queued
<1>4. /\ ScriptOK' /\ Done(t) + 1 \in Left(t) /\ ScriptOf(t)[Done(t) + 1] = op
      /\ Done(t)' = Done(t) + 1
      /\ \A u \in Tasks \ {t} : rest'[u] = rest[u]
      /\ \A u \in Tasks : ScriptOf(u)' = ScriptOf(u)
      /\ \A u \in Tasks : HasAnswer(u)' => HasAnswer(u)
  BY <1>1, OneOperation DEF Going
<1>5. \A u \in Tasks \ {t} : (Behind(u)' <=> Behind(u)) /\ Left(u)' = Left(u)
  BY <1>4, SameScripts
<1>6. Left(t)' \subseteq Left(t)
  <2>1. Done(t) \in Nat /\ Len(ScriptOf(t)) \in Nat
    BY ScriptPositions DEF Going
  <2>2. QED
    BY <1>4, <2>1 DEF Left
<1>7. WithinTolerance' <=> WithinTolerance
  BY DEF WithinTolerance
<1>8. QED
  BY <1>1, <1>2, <1>3, <1>4, <1>5, <1>6, <1>7 DEF Absent

\* What a step may do to the queue without anybody noticing: the tasks keep their places.
SamePlaces(t) ==
  /\ \A u \in Tasks : u # t => (Queued(jobs', u) <=> Queued(jobs, u))
  /\ \A u \in Tasks : Ahead(jobs', u) <=> Ahead(jobs, u)
  /\ Queued(jobs', "adapter") <=> Queued(jobs, "adapter")
  /\ Message(jobs') <=> Message(jobs)
  /\ Single(jobs')

\* An operation that opens no request and answers nobody.
LEMMA RunKeeps ==
  ASSUME Going, TypeOK', NEW t \in Tasks, NEW op, op # "idb", Runs(t, op),
         product' = product, macros' = macros, tracker' = tracker, adapter' = adapter,
         relay'.inbox = relay.inbox, relay'.waiting = relay.waiting,
         SamePlaces(t), Queued(jobs', t) <=> op = "hop",
         running' = IF op = "hop" THEN "none" ELSE t
  PROVE  Going'
<1>1. /\ ScriptOK' /\ rest[t] # <<>> /\ Head(rest[t]) = op /\ running = t
      /\ rest' = [rest EXCEPT ![t] = Tail(@)]
      /\ ~Queued(jobs, t) /\ t \notin macros /\ ~Ahead(jobs, t) /\ ~Absent(t)
      /\ \A u \in Tasks \ {t} : /\ rest'[u] = rest[u] /\ (Behind(u)' <=> Behind(u))
                                /\ running # u
      /\ \A u \in Tasks : ScriptOf(u)' = ScriptOf(u) /\ Left(u)' \subseteq Left(u)
      /\ \A u \in Tasks : HasAnswer(u)' => HasAnswer(u)
      /\ (WithinTolerance' <=> WithinTolerance)
  BY OnTheStack
<1> USE DEF Going
<1>2. \A u \in Tasks : Absent(u) => Absent(u)'
  <2> SUFFICES ASSUME NEW u \in Tasks, Absent(u)
               PROVE  Absent(u)'
    OBVIOUS
  <2>1. u # t /\ u # "none"
    BY <1>1 DEF Tasks
  <2>2. running' # u
    BY <2>1
  <2>3. QED
    BY <2>1, <2>2 DEF Absent, SamePlaces
<1>3. ~Absent(t)'
  BY DEF Absent
<1>4. TaskOK'
  <2>1. \A u \in Tasks : /\ running' = u => ~Queued(jobs', u) /\ u \notin macros'
                         /\ Queued(jobs', u) => u \notin macros'
    BY <1>1 DEF TaskOK, SamePlaces, Tasks
  <2>2. \A u \in Tasks : Absent(u)' => rest'[u] = <<>>
    <3> SUFFICES ASSUME NEW u \in Tasks, Absent(u)'
                 PROVE  rest'[u] = <<>>
      OBVIOUS
    <3>1. u # t /\ Absent(u)
      BY <1>1, <1>3 DEF Absent, SamePlaces
    <3>2. QED
      BY <1>1, <3>1 DEF TaskOK
  <2>3. \A u \in Tasks : u \in macros' => Behind(u)'
    BY <1>1 DEF TaskOK
  <2>4. QED
    BY <2>1, <2>2, <2>3 DEF TaskOK, SamePlaces
<1>5. StageOK'
  BY DEF StageOK
<1>6. CallOK'
  BY <1>2 DEF CallOK, BeforeRelay, Tasks
<1>7. WaitOK'
  BY <1>1 DEF WaitOK, WaitsAt, SamePlaces, Tasks
<1>8. OpenOK'
  <2>1. ~(adapter.at = "quiescent" /\ Queued(jobs, "adapter"))
    BY <1>1 DEF OpenOK, Tasks
  <2>2. QED
    BY <2>1 DEF OpenOK, SamePlaces
<1>9. RestOK'
  <2> SUFFICES ASSUME WithinTolerance, adapter.then = "read"
               PROVE  /\ Queued(jobs, "adapter") /\ tracker.pending = 0 => \A u \in Tasks : Paced(u)'
                      /\ adapter.at \in {"marking", "read"} =>
                           /\ tracker.pending = 0
                           /\ \A u \in Tasks : \A j \in Left(u)' : ScriptOf(u)'[j] # "idb"
    BY <1>1 DEF RestOK, SamePlaces
  <2>1. ASSUME Queued(jobs, "adapter"), tracker.pending = 0, NEW u \in Tasks
        PROVE  Paced(u)'
    <3>1. Paced(u)
      BY <2>1 DEF RestOK
    <3>2. CASE u = t
      BY <1>1, <3>1, <3>2, PaceInTask
    <3>3. CASE u # t
      <4>1. Turns(u)' = Turns(u) /\ Lead(u)' = Lead(u) /\ Turns(u) \in Nat /\ Lead(u) \in Nat
        BY <3>3 DEF Turns, Lead, SamePlaces
      <4>2. CheckIn(adapter) \in Nat /\ ReadIn(adapter) \in Nat
        BY PaceNumbers DEF TypeOK
      <4>3. rest'[u] = rest[u]
        BY <1>1, <3>3
      <4>4. QED
        BY <3>1, <4>1, <4>2, <4>3, PaceKept
    <3>4. QED
      BY <3>2, <3>3
  <2>2. ASSUME adapter.at \in {"marking", "read"}
        PROVE  /\ tracker.pending = 0
               /\ \A u \in Tasks : \A j \in Left(u)' : ScriptOf(u)'[j] # "idb"
    BY <1>1, <2>2 DEF RestOK
  <2>3. QED
    BY <2>1, <2>2
<1>10. QED
  BY <1>1, <1>4, <1>5, <1>6, <1>7, <1>8, <1>9

LEMMA HopKeeps ==
  ASSUME Going, TypeOK', NEW t \in Tasks, Hop(t)
  PROVE  Going'
<1>1. Job(t, "none") \in JobSet /\ Job(t, "none").to = t /\ Job(t, "none").msg = "none"
  BY JobsOf
<1>2. ~Queued(jobs, t)
  BY DEF Hop, Runs, Going, TaskOK
<1>3. SamePlaces(t) /\ Queued(jobs', t)
  BY <1>1, <1>2, JobAdded DEF Hop, SamePlaces, Going, TypeOK, TaskOK, Tasks
<1>4. QED
  BY <1>3, RunKeeps DEF Hop

LEMMA PostMessageKeeps ==
  ASSUME Going, TypeOK', NEW t \in Tasks, PostMessage(t)
  PROVE  Going'
<1>1. Job("peer", t) \in JobSet /\ Job("peer", t).to = "peer"
  BY JobsOf
<1>2. ~Queued(jobs, t)
  BY DEF PostMessage, Runs, Going, TaskOK
<1>3. SamePlaces(t) /\ ~Queued(jobs', t)
  BY <1>1, <1>2, JobAdded DEF PostMessage, SamePlaces, Going, TypeOK, TaskOK, Tasks
<1>4. relay'.inbox = relay.inbox /\ relay'.waiting = relay.waiting
  BY DEF PostMessage, Going, TypeOK, Relays
<1>5. running' = t
  BY DEF PostMessage, Runs
<1>6. QED
  BY <1>3, <1>4, <1>5, RunKeeps DEF PostMessage

LEMMA SpeakKeeps ==
  ASSUME Going, TypeOK', NEW t \in Tasks, SetCache(t) \/ Notify(t)
  PROVE  Going'
<1>1. PICK op \in CacheOps \cup {"notify"} : Runs(t, op)
  BY DEF SetCache, Notify
<1>2. op # "idb" /\ op # "hop"
  BY DEF CacheOps
<1>3. /\ jobs' = jobs /\ running' = running /\ macros' = macros /\ tracker' = tracker
      /\ adapter' = adapter /\ relay' = relay /\ product' = product
  BY DEF SetCache, Notify, loopVars
<1>4. running = t /\ ~Queued(jobs, t) /\ Single(jobs)
  BY <1>1 DEF Runs, Going, TaskOK
<1>5. SamePlaces(t)
  BY <1>3, <1>4 DEF SamePlaces
<1>6. QED
  BY <1>1, <1>2, <1>3, <1>4, <1>5, RunKeeps

\* The package answers: the adapter goes on behind what is in the queue.
LEMMA AnswerKeeps ==
  ASSUME Going, TypeOK', NEW t \in Tasks, Resolve(t) \/ Return(t)
  PROVE  Going'
<1>1. PICK op \in Answers : Runs(t, op)
  BY DEF Resolve, Return, Answers
<1>2. /\ product' = product /\ running' = running /\ macros' = macros /\ tracker' = tracker
      /\ relay' = relay /\ jobs' = Append(jobs, AdapterJob)
  BY DEF Resolve, Return
<1>3. /\ ScriptOK' /\ rest[t] # <<>> /\ Head(rest[t]) = op /\ running = t
      /\ rest' = [rest EXCEPT ![t] = Tail(@)]
      /\ ~Queued(jobs, t) /\ t \notin macros /\ ~Absent(t)
      /\ \A u \in Tasks \ {t} : rest'[u] = rest[u] /\ (Behind(u)' <=> Behind(u)) /\ running # u
      /\ \A u \in Tasks : HasAnswer(u)' => HasAnswer(u)
  BY <1>1, <1>2, OnTheStack
<1> USE DEF Going
<1>4. /\ HasAnswer(t) /\ ~HasAnswer(t)' /\ t \in {"setup", "patch", "receive"}
  BY <1>1, <1>2, <1>3, AnsweredOnce DEF Answers
<1>5. ~Queued(jobs, "adapter") /\ adapter.at \in {"stored", "patched", "delivered"}
      /\ (t = "setup" => adapter.at = "stored") /\ (t = "patch" => adapter.at = "patched")
      /\ (t = "receive" => adapter.at = "delivered")
  BY <1>4 DEF WaitOK, WaitsAt
<1>6. adapter'.at = adapter.at /\ adapter'.then = adapter.then /\ adapter'.marker = adapter.marker
  BY DEF Resolve, Return, TypeOK, Adapters
<1>7. /\ Queued(jobs', "adapter") /\ Single(jobs') /\ (Message(jobs') <=> Message(jobs))
      /\ \A u \in Tasks : Queued(jobs', u) <=> Queued(jobs, u)
  BY <1>2, <1>5, JobAdded, JobsOf DEF TypeOK, TaskOK, Tasks
<1>8. \A u \in Tasks : Absent(u)' <=> Absent(u)
  BY <1>2, <1>7 DEF Absent
<1>9. TaskOK'
  <2>1. \A u \in Tasks : /\ running' = u => ~Queued(jobs', u) /\ u \notin macros'
                         /\ Queued(jobs', u) => u \notin macros'
    BY <1>2, <1>7 DEF TaskOK
  <2>2. \A u \in Tasks : Absent(u)' => rest'[u] = <<>>
    BY <1>3, <1>8 DEF TaskOK
  <2>3. \A u \in Tasks : u \in macros' => Behind(u)'
    BY <1>2, <1>3 DEF TaskOK
  <2>4. QED
    BY <1>2, <1>7, <2>1, <2>2, <2>3 DEF TaskOK
<1>10. StageOK'
  BY <1>6 DEF StageOK
<1>11. CallOK'
  BY <1>6, <1>8 DEF CallOK, BeforeRelay, Tasks
<1>12. WaitOK'
  <2>1. tracker.idle = FALSE /\ tracker.activity = {} /\ relay.waiting = FALSE /\ "immediate" \notin macros
    BY <1>5 DEF WaitOK, WaitsAt, TypeOK, Trackers, Relays
  <2>2. ~HasAnswer("setup")' /\ ~HasAnswer("patch")' /\ ~HasAnswer("subscribe")'
    BY <1>3, <1>4, <1>5 DEF WaitOK, WaitsAt, Tasks
  <2>3. ~HasAnswer("receive")'
    BY <1>3, <1>4, <1>5 DEF WaitOK, WaitsAt, Tasks
  <2>4. ~Message(jobs)
    <3>1. CASE adapter.at # "delivered"
      BY <3>1 DEF WaitOK, WaitsAt
    <3>2. CASE adapter.at = "delivered"
      <4>1. t = "receive" /\ ~Queued(jobs, "receive")
        BY <1>3, <1>4, <1>5, <3>2
      <4>2. QED
        BY <4>1 DEF Message, Queued
    <3>3. QED
      BY <3>1, <3>2
  <2>5. QED
    BY <1>2, <1>7, <2>1, <2>2, <2>3, <2>4 DEF WaitOK
<1>13. OpenOK'
  BY <1>2, <1>5, <1>6 DEF OpenOK
<1>14. RestOK'
  <2>1. adapter.then # "read"
    BY <1>5 DEF StageOK, Settling
  <2>2. QED
    BY <1>6, <2>1 DEF RestOK
<1>15. QED
  BY <1>3, <1>9, <1>10, <1>11, <1>12, <1>13, <1>14

\* A request is opened: who waits for activity goes on, and nobody has passed the check.
LEMMA StartRequestKeeps ==
  ASSUME Going, TypeOK', NEW t \in Tasks, StartRequest(t)
  PROVE  Going'
<1> DEFINE woken == {m \in tracker.activity : tracker.generation + 1 > m}
<1>1. /\ Runs(t, "idb") /\ product' = product /\ running' = "none" /\ macros' = macros \cup {t}
      /\ relay' = relay /\ adapter' = adapter
      /\ jobs' = IF woken # {} THEN Append(jobs, AdapterJob) ELSE jobs
      /\ tracker' = [tracker EXCEPT !.generation = @ + 1, !.pending = @ + 1,
                                    !.activity = @ \ woken]
  BY DEF StartRequest
<1>2. /\ ScriptOK' /\ rest[t] # <<>> /\ running = t
      /\ ~Queued(jobs, t) /\ t \notin macros /\ ~Absent(t)
      /\ Done(t) + 1 \in Left(t) /\ ScriptOf(t)[Done(t) + 1] = "idb"
      /\ Done(t)' = Done(t) + 1
      /\ \A u \in Tasks \ {t} : rest'[u] = rest[u] /\ (Behind(u)' <=> Behind(u)) /\ running # u
      /\ \A u \in Tasks : ScriptOf(u)' = ScriptOf(u)
      /\ \A u \in Tasks : HasAnswer(u)' => HasAnswer(u)
      /\ (WithinTolerance' <=> WithinTolerance)
  BY <1>1, OnTheStack
<1> USE DEF Going
<1>3. /\ tracker.generation \in Nat /\ tracker.pending \in Nat /\ tracker.activity \subseteq Nat
      /\ tracker.idle \in BOOLEAN
  BY DEF TypeOK, Trackers
<1>4. woken = tracker.activity
  BY <1>3 DEF OpenOK
<1>5. /\ tracker'.generation = tracker.generation + 1 /\ tracker'.pending = tracker.pending + 1
      /\ tracker'.idle = tracker.idle /\ tracker'.activity = {}
  BY <1>1, <1>4 DEF TypeOK, Trackers
<1> HIDE DEF woken
<1>6. tracker.activity # {} => adapter.at = "active" /\ ~Queued(jobs, "adapter")
  BY DEF WaitOK, WaitsAt
<1>7. /\ Queued(jobs', "adapter") <=> Queued(jobs, "adapter") \/ tracker.activity # {}
      /\ Single(jobs') /\ (Message(jobs') <=> Message(jobs))
      /\ \A u \in Tasks : Queued(jobs', u) <=> Queued(jobs, u)
  BY <1>1, <1>4, <1>6, JobAdded, JobsOf DEF TypeOK, TaskOK, Tasks
<1>8. \A u \in Tasks : /\ Absent(u) => Absent(u)'
                       /\ Absent(u)' => u # t /\ Absent(u)
  BY <1>1, <1>2, <1>7 DEF Absent, Tasks
<1>9. TaskOK'
  <2>1. \A u \in Tasks : /\ running' = u => ~Queued(jobs', u) /\ u \notin macros'
                         /\ Queued(jobs', u) => u \notin macros'
    BY <1>1, <1>2, <1>7 DEF TaskOK, Tasks
  <2>2. \A u \in Tasks : Absent(u)' => rest'[u] = <<>>
    BY <1>2, <1>8 DEF TaskOK
  <2>3. \A u \in Tasks : u \in macros' => Behind(u)'
    <3>1. Behind(t)'
      <4>1. Done(t) + 1 \in 1..Len(ScriptOf(t))
        BY <1>2, ScriptPositions
      <4>2. QED
        BY <1>2, <4>1 DEF Behind
    <3>2. QED
      BY <1>1, <1>2, <3>1 DEF TaskOK
  <2>4. tracker'.pending = Cardinality(macros' \cap Tasks)
    <3>1. macros \cap Tasks \in SUBSET Tasks /\ t \in Tasks \ (macros \cap Tasks)
      BY <1>2
    <3>2. macros' \cap Tasks = (macros \cap Tasks) \cup {t}
      BY <1>1
    <3>3. QED
      BY <1>5, <3>1, <3>2, OpenTasks DEF TaskOK
  <2>5. QED
    BY <1>7, <2>1, <2>2, <2>3, <2>4 DEF TaskOK
<1>10. StageOK'
  BY <1>1 DEF StageOK
<1>11. CallOK'
  BY <1>1, <1>8 DEF CallOK, BeforeRelay, Tasks
<1>12. WaitOK'
  <2>1. "immediate" \in macros' <=> "immediate" \in macros
    BY <1>1 DEF Tasks
  <2>2. CASE tracker.activity = {}
    BY <1>1, <1>2, <1>5, <1>7, <2>1, <2>2 DEF WaitOK, WaitsAt, Tasks
  <2>3. CASE tracker.activity # {}
    BY <1>1, <1>2, <1>3, <1>5, <1>6, <1>7, <2>1, <2>3 DEF WaitOK, WaitsAt, Tasks
  <2>4. QED
    BY <2>2, <2>3
<1>13. OpenOK'
  <2>1. ~(adapter.at = "quiescent" /\ Queued(jobs, "adapter"))
    BY <1>2 DEF OpenOK, Tasks
  <2>2. adapter.marker \in Nat
    BY DEF TypeOK, Adapters
  <2>3. adapter.at \in {"window", "clear", "next", "subscribe", "subscribed", "observe"} =>
          tracker'.generation <= adapter.marker + tracker'.pending
    BY <1>3, <1>5, <2>2 DEF OpenOK
  <2>4. tracker'.pending # 0
    BY <1>3, <1>5
  <2>5. adapter.marker <= tracker'.generation
    BY <1>3, <1>5, <2>2 DEF OpenOK
  <2>6. QED
    BY <1>1, <1>5, <1>6, <1>7, <2>1, <2>3, <2>4, <2>5 DEF OpenOK
<1>14. RestOK'
  <2>1. tracker'.pending # 0
    BY <1>3, <1>5
  <2>2. WithinTolerance /\ adapter.then = "read" => adapter.at \notin {"marking", "read"}
    BY <1>2 DEF RestOK
  <2>3. QED
    BY <1>1, <1>2, <2>1, <2>2 DEF RestOK
<1>15. QED
  BY <1>2, <1>9, <1>10, <1>11, <1>12, <1>13, <1>14

\* A step that only changes who is on the stack and in the queue, and brings nobody behind
\* the adapter.
LEMMA PlaceKeeps ==
  ASSUME Going, TypeOK', product' = product, rest' = rest, adapter' = adapter,
         tracker' = tracker, macros' = macros, relay'.waiting = FALSE \/ relay' = relay,
         relay.inbox # <<>> => relay'.inbox # <<>>,
         Single(jobs'), Queued(jobs', "adapter") <=> Queued(jobs, "adapter"),
         Message(jobs') => Message(jobs),
         adapter.at # "quiescent" \/ ~Queued(jobs, "adapter") \/ running' = "none",
         \A u \in Tasks : /\ Absent(u) => Absent(u)'
                          /\ Absent(u)' => rest[u] = <<>>
                          /\ running' = u => ~Queued(jobs', u) /\ u \notin macros
                          /\ Queued(jobs', u) => u \notin macros
                          /\ Queued(jobs', u) => Queued(jobs, u)
                          /\ Queued(jobs', u) /\ ~Ahead(jobs', u) => ~Ahead(jobs, u)
                          /\ ~Queued(jobs', u) /\ Queued(jobs, u) /\ ~Ahead(jobs, u) => ~Queued(jobs, "adapter")
                          /\ ~Queued(jobs, u) => ~Ahead(jobs, u)
  PROVE  Going'
<1> USE DEF Going
<1>1. \A u \in Tasks : /\ ScriptOf(u)' = ScriptOf(u) /\ Done(u)' = Done(u) /\ Left(u)' = Left(u)
                       /\ (Behind(u)' <=> Behind(u)) /\ (HasAnswer(u)' <=> HasAnswer(u))
  BY SameScripts
<1>2. ScriptOK'
  BY <1>1 DEF ScriptOK
<1>3. TaskOK'
  BY <1>1 DEF TaskOK
<1>4. StageOK'
  BY DEF StageOK
<1>5. CallOK'
  BY DEF CallOK, BeforeRelay, Tasks
<1>6. WaitOK'
  BY <1>1 DEF WaitOK, WaitsAt, Tasks
<1>7. OpenOK'
  BY DEF OpenOK
<1>8. RestOK'
  <2>1. WithinTolerance' <=> WithinTolerance
    BY DEF WithinTolerance
  <2>2. ASSUME WithinTolerance, adapter.then = "read", Queued(jobs, "adapter"),
               tracker.pending = 0, NEW u \in Tasks
        PROVE  Paced(u)'
    <3>1. Paced(u)
      BY <2>2 DEF RestOK
    <3>2. CheckIn(adapter) \in Nat /\ ReadIn(adapter) \in Nat
      BY PaceNumbers DEF TypeOK
    <3>3. Turns(u)' + Lead(u) <= Turns(u) + Lead(u)'
      BY <2>2 DEF Turns, Lead
    <3>4. Turns(u) \in Nat /\ Lead(u) \in Nat /\ Turns(u)' \in Nat /\ Lead(u)' \in Nat
      BY DEF Turns, Lead
    <3>5. /\ Turns(u)' + CheckIn(adapter) + Lead(u) <= Turns(u) + CheckIn(adapter)' + Lead(u)'
          /\ Turns(u)' + ReadIn(adapter) + Lead(u) <= Turns(u) + ReadIn(adapter)' + Lead(u)'
      BY <3>2, <3>3, <3>4
    <3>6. QED
      BY <3>1, <3>5, PaceKept
  <2>3. QED
    BY <1>1, <2>1, <2>2 DEF RestOK
<1>9. QED
  BY <1>2, <1>3, <1>4, <1>5, <1>6, <1>7, <1>8

LEMMA TaskEndsKeeps ==
  ASSUME Going, TypeOK', NEW t \in Tasks, TaskEnds(t)
  PROVE  Going'
<1>1. /\ running = t /\ rest[t] = <<>> /\ running' = "none" /\ product' = product
      /\ jobs' = jobs /\ macros' = macros /\ rest' = rest /\ tracker' = tracker
      /\ relay' = relay /\ adapter' = adapter
  BY DEF TaskEnds, packageVars
<1>2. Single(jobs) /\ \A u \in Tasks : Queued(jobs, u) => u \notin macros
  BY DEF Going, TaskOK
<1>3. \A u \in Tasks : /\ Absent(u) => Absent(u)'
                       /\ Absent(u)' => rest[u] = <<>>
  BY <1>1 DEF Going, TaskOK, Absent, Tasks
<1>4. \A u \in Tasks : ~Queued(jobs, u) => ~Ahead(jobs, u)
  BY DEF Queued, Ahead
<1>5. QED
  BY <1>1, <1>2, <1>3, <1>4, PlaceKeeps DEF Tasks

LEMMA ResumeTaskKeeps ==
  ASSUME Going, TypeOK', NEW t \in Tasks, ResumeTask(t)
  PROVE  Going'
<1>1. /\ running = "none" /\ jobs # <<>> /\ Head(jobs).to = t /\ jobs' = Tail(jobs)
      /\ running' = t /\ product' = product /\ macros' = macros /\ rest' = rest
      /\ tracker' = tracker /\ relay' = relay /\ adapter' = adapter
  BY DEF ResumeTask, NextJob, packageVars
<1>2. jobs \in Seq(JobSet) /\ Single(jobs)
  BY DEF Going, TypeOK, TaskOK
<1>3. t # "adapter" /\ t # "peer" /\ t # "none" /\ \A u \in Tasks : u # "adapter" /\ u # "peer" /\ u # "none"
  BY DEF Tasks
<1>4. /\ Single(jobs') /\ Queued(jobs, t)
      /\ Queued(jobs', "adapter") <=> Queued(jobs, "adapter")
      /\ \A u \in Tasks : Queued(jobs', u) <=> Queued(jobs, u) /\ u # t
      /\ \A u \in Tasks : Ahead(jobs', u) <=> Ahead(jobs, u) /\ u # t
      /\ Queued(jobs, "adapter") => Ahead(jobs, t)
      /\ Message(jobs') => Message(jobs)
  BY <1>1, <1>2, <1>3, JobTaken
<1>5. adapter.at # "quiescent" \/ ~Queued(jobs, "adapter")
  BY <1>4 DEF Going, OpenOK
<1>6. \A u \in Tasks : Queued(jobs, u) => u \notin macros
  BY DEF Going, TaskOK
<1>7. \A u \in Tasks : /\ Absent(u) => Absent(u)'
                       /\ Absent(u)' => rest[u] = <<>>
  BY <1>1, <1>3, <1>4 DEF Going, TaskOK, Absent
<1>8. \A u \in Tasks : ~Queued(jobs, u) => ~Ahead(jobs, u)
  BY DEF Queued, Ahead
<1>9. QED
  BY <1>1, <1>3, <1>4, <1>5, <1>6, <1>7, <1>8, PlaceKeeps

\* A request ends when nothing else is left to run.
LEMMA RequestEndsKeeps ==
  ASSUME Going, TypeOK', NEW t \in Tasks, RequestEnds(t)
  PROVE  Going'
<1> DEFINE woken == tracker.idle /\ tracker.pending = 1
<1>1. /\ running = "none" /\ jobs = <<>> /\ t \in macros /\ macros' = macros \ {t}
      /\ running' = t /\ product' = product /\ rest' = rest /\ relay' = relay /\ adapter' = adapter
      /\ jobs' = IF woken THEN <<AdapterJob>> ELSE <<>>
      /\ tracker' = [tracker EXCEPT !.pending = @ - 1, !.idle = @ /\ ~woken]
  BY DEF RequestEnds, Idle, packageVars
<1> USE DEF Going
<1>2. /\ tracker.generation \in Nat /\ tracker.pending \in Nat /\ tracker.idle \in BOOLEAN
  BY DEF TypeOK, Trackers
<1>3. /\ tracker'.generation = tracker.generation /\ tracker'.pending = tracker.pending - 1
      /\ tracker'.idle = (tracker.idle /\ ~woken) /\ tracker'.activity = tracker.activity
  BY <1>1 DEF TypeOK, Trackers
<1>4. /\ \A x : ~Queued(jobs, x) /\ ~Ahead(jobs, x)
      /\ ~Message(jobs)
  BY <1>1, EmptyQueue
<1>5. /\ Single(jobs') /\ ~Message(jobs') /\ (Queued(jobs', "adapter") <=> woken)
      /\ \A u \in Tasks : ~Queued(jobs', u) /\ ~Ahead(jobs', u)
  BY <1>1, EmptyQueue, AdapterAlone DEF Tasks
<1>6. adapter.at \in Waits
  BY <1>4 DEF WaitOK
<1>7. woken => adapter.at = "idle" /\ tracker.activity = {} /\ ~relay.waiting /\ "immediate" \notin macros
  BY DEF WaitOK, WaitsAt
<1> HIDE DEF woken
<1>8. \A u \in Tasks : /\ ScriptOf(u)' = ScriptOf(u) /\ Left(u)' = Left(u)
                       /\ (Behind(u)' <=> Behind(u)) /\ (HasAnswer(u)' <=> HasAnswer(u))
  BY <1>1, SameScripts
<1>9. ScriptOK'
  BY <1>1, SameScripts DEF ScriptOK
<1>10. \A u \in Tasks : /\ Absent(u) => Absent(u)'
                        /\ Absent(u)' => u # t /\ Absent(u)
  BY <1>1, <1>4, <1>5 DEF Absent, Tasks
<1>11. TaskOK'
  <2>1. macros \cap Tasks \in SUBSET Tasks /\ t \in macros \cap Tasks
    BY <1>1
  <2>2. macros' \cap Tasks = (macros \cap Tasks) \ {t}
    BY <1>1
  <2>3. tracker'.pending = Cardinality(macros' \cap Tasks)
    BY <1>3, <2>1, <2>2, OpenTasks DEF TaskOK
  <2>4. \A u \in Tasks : u \in macros' => Behind(u)'
    BY <1>1, <1>8 DEF TaskOK
  <2>5. \A u \in Tasks : Absent(u)' => rest'[u] = <<>>
    BY <1>1, <1>10 DEF TaskOK
  <2>6. t \notin macros'
    BY <1>1
  <2>7. QED
    BY <1>1, <1>5, <2>3, <2>4, <2>5, <2>6 DEF TaskOK
<1>12. StageOK'
  BY <1>1 DEF StageOK
<1>13. CallOK'
  BY <1>1, <1>10 DEF CallOK, BeforeRelay, Tasks
<1>14. WaitOK'
  <2>1. "immediate" \in macros' <=> "immediate" \in macros
    BY <1>1 DEF Tasks
  <2>2. CASE woken
    BY <1>1, <1>3, <1>4, <1>5, <1>6, <1>7, <1>8, <2>1, <2>2 DEF WaitOK, WaitsAt, Tasks
  <2>3. CASE ~woken
    BY <1>1, <1>3, <1>4, <1>5, <1>6, <1>8, <2>1, <2>3 DEF WaitOK, WaitsAt, Tasks
  <2>4. QED
    BY <2>2, <2>3
<1>15. OpenOK'
  BY <1>1, <1>3, <1>5, <1>6, <1>7 DEF OpenOK, Waits
<1>16. RestOK'
  <2>1. WithinTolerance' <=> WithinTolerance
    BY <1>1 DEF WithinTolerance
  <2>2. ASSUME WithinTolerance, woken, NEW u \in Tasks
        PROVE  Paced(u)'
    <3>1. Paced(u)
      <4>1. CASE u = t
        <5>1. Behind(t)
          BY <1>1 DEF TaskOK
        <5>2. ~HasAnswer(t)
          BY <1>7, <2>2 DEF WaitOK, WaitsAt, Tasks
        <5>3. QED
          BY <1>4, <1>7, <2>2, <4>1, <5>1, <5>2, PaceAfterRequest
      <4>2. CASE u # t
        <5>1. macros \cap Tasks \in SUBSET Tasks /\ t \in macros \cap Tasks
          BY <1>1
        <5>2. Cardinality(macros \cap Tasks) = 1
          BY <2>2 DEF woken, TaskOK
        <5>3. Cardinality((macros \cap Tasks) \ {t}) = 0
          BY <5>1, <5>2, OpenTasks
        <5>4. (macros \cap Tasks) \ {t} \in SUBSET Tasks
          OBVIOUS
        <5>5. (macros \cap Tasks) \ {t} = {}
          BY <5>3, <5>4, OpenTasks
        <5>6. Absent(u)
          BY <1>1, <1>4, <4>2, <5>5 DEF Absent, Tasks
        <5>7. rest[u] = <<>>
          BY <5>6 DEF TaskOK
        <5>8. QED
          BY <5>7, PaceOfNothing
      <4>3. QED
        BY <4>1, <4>2
    <3>2. Turns(u) = 0 /\ Lead(u) = 0 /\ Turns(u)' = 0 /\ Lead(u)' = 0
      BY <1>4, <1>5 DEF Turns, Lead
    <3>3. CheckIn(adapter) \in Nat /\ ReadIn(adapter) \in Nat
      BY PaceNumbers DEF TypeOK
    <3>4. /\ Turns(u)' + CheckIn(adapter) + Lead(u) <= Turns(u) + CheckIn(adapter)' + Lead(u)'
          /\ Turns(u)' + ReadIn(adapter) + Lead(u) <= Turns(u) + ReadIn(adapter)' + Lead(u)'
      BY <1>1, <3>2, <3>3
    <3>5. QED
      BY <1>1, <3>1, <3>4, PaceKept
  <2>3. adapter.at \notin {"marking", "read"}
    BY <1>6 DEF Waits
  <2>4. QED
    BY <1>1, <1>5, <2>1, <2>2, <2>3 DEF RestOK
<1>17. QED
  BY <1>9, <1>11, <1>12, <1>13, <1>14, <1>15, <1>16

\* Every step of the package.
LEMMA PackageKeeps == Going /\ PackageStep => Going'
<1> SUFFICES ASSUME Going, PackageStep PROVE Going'
  OBVIOUS
<1>1. \A t \in Tasks : t \in macros => tracker.pending # 0
  <2>1. macros \cap Tasks \in SUBSET Tasks
    OBVIOUS
  <2>2. QED
    BY <2>1, OpenTasks DEF Going, TaskOK
<1>2. TypeOK'
  BY <1>1, PackageTypes DEF Going
<1>3. PICK t \in Tasks : \/ Hop(t) \/ StartRequest(t) \/ SetCache(t) \/ Notify(t) \/ PostMessage(t)
                         \/ Resolve(t) \/ Return(t) \/ TaskEnds(t) \/ ResumeTask(t) \/ RequestEnds(t)
  BY DEF PackageStep
<1>4. QED
  BY <1>2, <1>3, HopKeeps, StartRequestKeeps, SpeakKeeps, PostMessageKeeps, AnswerKeeps,
     TaskEndsKeeps, ResumeTaskKeeps, RequestEndsKeeps

-----------------------------------------------------------------------------
(***************************************************************************)
(* The event loop's steps.                                                 *)
(***************************************************************************)

\* The peer gets a message, and retransmitOnce with it if it waits for one.
LEMMA PeerReceivesKeeps ==
  ASSUME Going, PeerReceives
  PROVE  Going'
<1>1. /\ running = "none" /\ jobs # <<>> /\ Head(jobs).to = "peer"
      /\ running' = running /\ product' = product /\ macros' = macros /\ rest' = rest
      /\ tracker' = tracker /\ adapter' = adapter
      /\ relay' = [relay EXCEPT !.inbox = Append(@, Head(jobs).msg), !.waiting = FALSE]
      /\ jobs' = IF relay.waiting THEN Append(Tail(jobs), AdapterJob) ELSE Tail(jobs)
  BY DEF PeerReceives, NextJob, packageVars
<1>2. TypeOK'
  BY LoopTypes DEF LoopStep, Going
<1>3. jobs \in Seq(JobSet) /\ Single(jobs)
  BY DEF Going, TypeOK, TaskOK
<1>4. \A u \in Tasks : u # "adapter" /\ u # "peer" /\ u # "none"
  BY DEF Tasks
<1>5. /\ Tail(jobs) \in Seq(JobSet) /\ Single(Tail(jobs))
      /\ Queued(Tail(jobs), "adapter") <=> Queued(jobs, "adapter")
      /\ \A u \in Tasks : Queued(Tail(jobs), u) <=> Queued(jobs, u)
      /\ \A u \in Tasks : Ahead(Tail(jobs), u) <=> Ahead(jobs, u)
      /\ Message(Tail(jobs)) <=> Message(jobs)
  BY <1>1, <1>3, <1>4, JobTaken
<1>6. relay'.waiting = FALSE /\ relay'.inbox # <<>>
  <2>1. relay'.inbox = Append(relay.inbox, Head(jobs).msg) /\ relay'.waiting = FALSE
    BY <1>1 DEF Going, TypeOK, Relays
  <2>2. relay.inbox \in Seq(Tasks \cup {"none"}) /\ Head(jobs).msg \in Tasks \cup {"none"}
    BY <1>1, <1>3, QueueTypes, JobsOf DEF Going, TypeOK, Relays
  <2>3. QED
    BY <2>1, <2>2, AppendProperties
<1>7. CASE ~relay.waiting
  <2>1. jobs' = Tail(jobs)
    BY <1>1, <1>7
  <2>2. \A u \in Tasks : Queued(jobs, u) => u \notin macros
    BY DEF Going, TaskOK
  <2>3. \A u \in Tasks : /\ Absent(u) => Absent(u)'
                         /\ Absent(u)' => rest[u] = <<>>
    BY <1>1, <1>5, <2>1 DEF Going, TaskOK, Absent
  <2>4. \A u \in Tasks : ~Queued(jobs, u) => ~Ahead(jobs, u)
    BY DEF Queued, Ahead
  <2>5. QED
    BY <1>1, <1>2, <1>4, <1>5, <1>6, <2>1, <2>2, <2>3, <2>4, PlaceKeeps
<1>8. CASE relay.waiting
  <2> USE DEF Going
  <2>1. adapter.at = "inbox" /\ ~Queued(jobs, "adapter")
    BY <1>8 DEF WaitOK, WaitsAt
  <2>2. jobs' = Append(Tail(jobs), AdapterJob)
    BY <1>1, <1>8
  <2>3. /\ Queued(jobs', "adapter") /\ Single(jobs') /\ (Message(jobs') <=> Message(jobs))
        /\ \A u \in Tasks : Queued(jobs', u) <=> Queued(jobs, u)
    <3>1. AdapterJob \in JobSet /\ AdapterJob.to = "adapter" /\ AdapterJob.msg = "none"
      BY JobsOf
    <3>2. ~Queued(Tail(jobs), AdapterJob.to)
      BY <1>5, <2>1, <3>1
    <3>3. /\ \A x : Queued(jobs', x) <=> Queued(Tail(jobs), x) \/ x = AdapterJob.to
          /\ Single(jobs')
          /\ Message(jobs') <=> Message(Tail(jobs)) \/ (AdapterJob.to = "receive" /\ AdapterJob.msg # "none")
      BY <1>5, <2>2, <3>1, <3>2, JobAdded
    <3>4. QED
      BY <1>4, <1>5, <3>1, <3>3
  <2>4. \A u \in Tasks : /\ ScriptOf(u)' = ScriptOf(u) /\ Done(u)' = Done(u)
                         /\ (Behind(u)' <=> Behind(u)) /\ (HasAnswer(u)' <=> HasAnswer(u))
    BY <1>1, SameScripts
  <2>5. ScriptOK'
    BY <1>1, <2>4 DEF ScriptOK
  <2>6. \A u \in Tasks : Absent(u)' <=> Absent(u)
    BY <1>1, <2>3 DEF Absent
  <2>7. TaskOK'
    BY <1>1, <2>3, <2>4, <2>6 DEF TaskOK
  <2>8. StageOK'
    BY <1>1 DEF StageOK
  <2>9. CallOK'
    BY <1>1, <2>6 DEF CallOK, BeforeRelay, Tasks
  <2>10. WaitOK'
    BY <1>1, <1>6, <2>1, <2>3, <2>4 DEF WaitOK, WaitsAt, Tasks
  <2>11. OpenOK'
    BY <1>1, <1>6, <2>1 DEF OpenOK
  <2>12. RestOK'
    <3>1. adapter.then # "read"
      BY <2>1 DEF StageOK, Settling
    <3>2. QED
      BY <1>1, <3>1 DEF RestOK
  <2>13. QED
    BY <1>2, <2>5, <2>7, <2>8, <2>9, <2>10, <2>11, <2>12
<1>9. QED
  BY <1>7, <1>8

\* A task is called: it has its whole script before it.
LEMMA Called ==
  ASSUME TypeOK, ScriptOK, product' = product, NEW t \in Tasks,
         rest' = [rest EXCEPT ![t] = product.script[t]]
  PROVE  /\ ScriptOK'
         /\ \A u \in Tasks \ {t} : /\ rest'[u] = rest[u] /\ (Behind(u)' <=> Behind(u))
                                   /\ (HasAnswer(u)' <=> HasAnswer(u))
         /\ t = "subscribe" => ~HasAnswer(t)'
<1>1. rest'[t] = ScriptOf(t) /\ \A u \in Tasks \ {t} : rest'[u] = rest[u]
  BY DEF TypeOK, ScriptOf
<1>2. \A u \in Tasks : ScriptOf(u)' = ScriptOf(u)
  BY DEF ScriptOf
<1>3. \A u \in Tasks \ {t} : /\ Done(u)' = Done(u)
                             /\ (Behind(u)' <=> Behind(u)) /\ (HasAnswer(u)' <=> HasAnswer(u))
  BY <1>1, SameScripts
<1>4. Len(ScriptOf(t)) \in Nat
  BY ScriptPositions
<1>5. Done(t)' = 0
  BY <1>1, <1>2, <1>4 DEF Done
<1>6. ScriptOK'
  <2> SUFFICES ASSUME NEW u \in Tasks
               PROVE  /\ Len(rest'[u]) <= Len(ScriptOf(u)')
                      /\ \A i \in 1..Len(rest'[u]) : rest'[u][i] = ScriptOf(u)'[Done(u)' + i]
    BY DEF ScriptOK
  <2>1. CASE u = t
    <3>1. \A i \in 1..Len(ScriptOf(t)) : 0 + i = i
      BY <1>4
    <3>2. QED
      BY <1>1, <1>2, <1>4, <1>5, <2>1, <3>1
  <2>2. CASE u # t
    BY <1>1, <1>2, <1>3, <2>2 DEF ScriptOK
  <2>3. QED
    BY <2>1, <2>2
<1>7. ASSUME t = "subscribe", HasAnswer(t)'
      PROVE  FALSE
  <2>1. PICK i \in 1..Len(product.script[t]) : product.script[t][i] \in Answers
    BY <1>1, <1>7 DEF HasAnswer, ScriptOf
  <2>2. AnswersOnce(product.script)
    BY ScriptsOf DEF TypeOK
  <2>3. QED
    BY <1>7, <2>1, <2>2 DEF AnswersOnce, Answers
<1>8. QED
  BY <1>1, <1>3, <1>6, <1>7

\* The package's handler is called with the message the adapter sent.
LEMMA ProductReceivesKeeps ==
  ASSUME Going, ProductReceives
  PROVE  Going'
<1>1. /\ running = "none" /\ jobs # <<>> /\ Head(jobs).to = "receive" /\ Head(jobs).msg # "none"
      /\ jobs' = Tail(jobs) /\ running' = "receive" /\ product' = product /\ macros' = macros
      /\ rest' = [rest EXCEPT !["receive"] = product.script["receive"]]
      /\ tracker' = tracker /\ adapter' = adapter /\ relay' = relay
  BY DEF ProductReceives, NextJob
<1>2. TypeOK'
  BY LoopTypes DEF LoopStep, Going
<1>3. \A u \in Tasks : u # "adapter" /\ u # "peer" /\ u # "none"
  BY DEF Tasks
<1>4. jobs \in Seq(JobSet) /\ Single(jobs) /\ "receive" \in Tasks
  BY DEF Going, TypeOK, TaskOK, Tasks
<1>5. /\ Single(jobs') /\ Queued(jobs, "receive") /\ Message(jobs) /\ ~Message(jobs')
      /\ Queued(jobs', "adapter") <=> Queued(jobs, "adapter")
      /\ \A u \in Tasks : Queued(jobs', u) <=> Queued(jobs, u) /\ u # "receive"
  BY <1>1, <1>3, <1>4, JobTaken
<1> USE DEF Going
<1>6. adapter.at = "delivered" /\ ~Queued(jobs, "adapter")
  BY <1>5 DEF WaitOK, WaitsAt
<1>7. /\ ScriptOK'
      /\ \A u \in Tasks \ {"receive"} : /\ rest'[u] = rest[u] /\ (Behind(u)' <=> Behind(u))
                                        /\ (HasAnswer(u)' <=> HasAnswer(u))
  BY <1>1, <1>4, Called
<1>8. "receive" \notin macros
  BY <1>4, <1>5 DEF TaskOK
<1>9. \A u \in Tasks : /\ Absent(u) => Absent(u)'
                       /\ Absent(u)' => u # "receive" /\ Absent(u)
  BY <1>1, <1>3, <1>5 DEF Absent
<1>10. TaskOK'
  <2>1. \A u \in Tasks : /\ running' = u => ~Queued(jobs', u) /\ u \notin macros'
                         /\ Queued(jobs', u) => u \notin macros'
    BY <1>1, <1>5, <1>8 DEF TaskOK
  <2>2. \A u \in Tasks : Absent(u)' => rest'[u] = <<>>
    BY <1>7, <1>9 DEF TaskOK
  <2>3. \A u \in Tasks : u \in macros' => Behind(u)'
    BY <1>1, <1>7, <1>8 DEF TaskOK
  <2>4. QED
    BY <1>1, <1>5, <2>1, <2>2, <2>3 DEF TaskOK
<1>11. StageOK'
  BY <1>1 DEF StageOK
<1>12. CallOK'
  BY <1>1, <1>9 DEF CallOK, BeforeRelay, Tasks
<1>13. WaitOK'
  BY <1>1, <1>5, <1>6, <1>7 DEF WaitOK, WaitsAt, Tasks
<1>14. OpenOK'
  BY <1>1, <1>6 DEF OpenOK
<1>15. RestOK'
  <2>1. adapter.then # "read"
    BY <1>6 DEF StageOK, Settling
  <2>2. QED
    BY <1>1, <2>1 DEF RestOK
<1>16. QED
  BY <1>2, <1>7, <1>10, <1>11, <1>12, <1>13, <1>14, <1>15

\* An immediate fires when the queue is empty: nothing but requests is left of the package.
LEMMA ImmediateFiresKeeps ==
  ASSUME Going, ImmediateFires
  PROVE  Going'
<1>1. /\ running = "none" /\ jobs = <<>> /\ "immediate" \in macros
      /\ macros' = macros \ {"immediate"} /\ jobs' = <<AdapterJob>>
      /\ running' = running /\ product' = product /\ rest' = rest
      /\ tracker' = tracker /\ adapter' = adapter /\ relay' = relay
  BY DEF ImmediateFires, Idle, packageVars
<1>2. TypeOK'
  BY LoopTypes DEF LoopStep, Going
<1> USE DEF Going
<1>3. adapter.at = "quiescent" /\ ~Queued(jobs, "adapter")
  BY <1>1 DEF WaitOK, WaitsAt
<1>4. \A u \in Tasks : u # "adapter" /\ u # "immediate" /\ u # "none"
  BY DEF Tasks
<1>5. /\ Queued(jobs', "adapter") /\ Single(jobs') /\ ~Message(jobs') /\ ~Message(jobs)
      /\ \A u \in Tasks : ~Queued(jobs', u) /\ ~Queued(jobs, u)
  BY <1>1, <1>4, AdapterAlone, EmptyQueue
<1>6. \A u \in Tasks : /\ ScriptOf(u)' = ScriptOf(u) /\ Done(u)' = Done(u)
                       /\ (Behind(u)' <=> Behind(u)) /\ (HasAnswer(u)' <=> HasAnswer(u))
  BY <1>1, SameScripts
<1>7. ScriptOK'
  BY <1>1, <1>6 DEF ScriptOK
<1>8. \A u \in Tasks : (u \in macros' <=> u \in macros) /\ (Absent(u)' <=> Absent(u))
  BY <1>1, <1>4, <1>5 DEF Absent
<1>9. TaskOK'
  <2>1. macros' \cap Tasks = macros \cap Tasks
    BY <1>8
  <2>2. QED
    BY <1>1, <1>5, <1>6, <1>8, <2>1 DEF TaskOK
<1>10. StageOK'
  BY <1>1 DEF StageOK
<1>11. CallOK'
  BY <1>1, <1>8 DEF CallOK, BeforeRelay, Tasks
<1>12. WaitOK'
  BY <1>1, <1>3, <1>5, <1>6 DEF WaitOK, WaitsAt, Tasks
<1>13. OpenOK'
  BY <1>1, <1>3, <1>5 DEF OpenOK
<1>14. RestOK'
  <2>1. adapter.then # "read"
    BY <1>3 DEF StageOK, Settling
  <2>2. QED
    BY <1>1, <2>1 DEF RestOK
<1>15. QED
  BY <1>2, <1>7, <1>9, <1>10, <1>11, <1>12, <1>13, <1>14

-----------------------------------------------------------------------------
(***************************************************************************)
(* The adapter's steps.                                                    *)
(***************************************************************************)

\* When the adapter is resumed, nothing waits for anything, and it is before all tasks.
LEMMA AdapterRuns ==
  ASSUME Going, NextJob("adapter")
  PROVE  /\ jobs \in Seq(JobSet) /\ jobs # <<>> /\ Head(jobs) = AdapterJob
         /\ running = "none" /\ Single(jobs) /\ Queued(jobs, "adapter")
         /\ tracker.idle = FALSE /\ tracker.activity = {} /\ relay.waiting = FALSE
         /\ "immediate" \notin macros /\ ~Message(jobs)
         /\ \A u \in Tasks : ~HasAnswer(u) /\ ~Ahead(jobs, u)
         /\ \A u \in Tasks : Absent(u) <=> ~Queued(jobs, u) /\ u \notin macros
<1>1. /\ jobs \in Seq(JobSet) /\ jobs # <<>> /\ Head(jobs).to = "adapter" /\ running = "none"
      /\ Single(jobs)
  BY DEF NextJob, Going, TypeOK, TaskOK
<1>2. /\ Queued(jobs, "adapter") /\ \A u \in Tasks : ~Ahead(jobs, u)
      /\ Head(jobs) \in JobSet
  BY <1>1, JobTaken
<1>3. Head(jobs) = AdapterJob
  BY <1>1, <1>2, JobsOf
<1>4. /\ tracker.idle = FALSE /\ tracker.activity = {} /\ relay.waiting = FALSE
      /\ "immediate" \notin macros /\ ~Message(jobs)
  BY <1>2 DEF Going, WaitOK, WaitsAt, TypeOK, Trackers, Relays
<1>5. \A u \in Tasks : ~HasAnswer(u)
  BY <1>2 DEF Going, WaitOK, WaitsAt, Tasks
<1>6. \A u \in Tasks : Absent(u) <=> ~Queued(jobs, u) /\ u \notin macros
  BY <1>1 DEF Absent, Tasks
<1>7. QED
  BY <1>1, <1>2, <1>3, <1>4, <1>5, <1>6

\* The adapter goes to the end of the queue, or leaves it.
LEMMA AdapterQueue ==
  ASSUME Going, NextJob("adapter")
  PROVE  /\ jobs' = Append(Tail(jobs), AdapterJob) =>
              /\ Single(jobs') /\ Queued(jobs', "adapter") /\ ~Message(jobs')
              /\ \A u \in Tasks : /\ Queued(jobs', u) <=> Queued(jobs, u)
                                  /\ Ahead(jobs', u) <=> Queued(jobs, u)
         /\ jobs' = Tail(jobs) =>
              /\ Single(jobs') /\ ~Queued(jobs', "adapter") /\ ~Message(jobs')
              /\ \A u \in Tasks : Queued(jobs', u) <=> Queued(jobs, u)
         /\ <<AdapterJob>> \o Tail(jobs) = jobs
<1>1. /\ jobs \in Seq(JobSet) /\ jobs # <<>> /\ Head(jobs) = AdapterJob
      /\ Single(jobs) /\ Queued(jobs, "adapter") /\ ~Message(jobs)
  BY AdapterRuns
<1>2. Head(jobs).to = "adapter" /\ AdapterJob.to = "adapter"
  BY <1>1, JobsOf
<1>3. \A u \in Tasks : u # "adapter" /\ u # "peer"
  BY DEF Tasks
<1>4. jobs' = Append(Tail(jobs), AdapterJob) =>
        /\ Single(jobs') /\ Queued(jobs', "adapter") /\ ~Message(jobs')
        /\ \A u \in Tasks : /\ Queued(jobs', u) <=> Queued(jobs, u)
                            /\ Ahead(jobs', u) <=> Queued(jobs, u)
  BY <1>1, <1>2, AdapterTurns
<1>5. /\ Single(Tail(jobs)) /\ ~Queued(Tail(jobs), "adapter") /\ ~Message(Tail(jobs))
      /\ \A u \in Tasks : Queued(Tail(jobs), u) <=> Queued(jobs, u)
  BY <1>1, <1>2, <1>3, JobTaken
<1>6. <<AdapterJob>> \o Tail(jobs) = jobs
  <2>1. /\ Tail(jobs) \in Seq(JobSet) /\ Len(jobs) \in Nat \ {0} /\ Len(Tail(jobs)) = Len(jobs) - 1
        /\ \A i \in 1..Len(Tail(jobs)) : Tail(jobs)[i] = jobs[i + 1]
        /\ jobs[1] = AdapterJob
    BY <1>1, HeadTailProperties, EmptySeq, LenProperties
  <2> DEFINE whole == <<AdapterJob>> \o Tail(jobs)
  <2>2. AdapterJob \in JobSet
    BY JobsOf
  <2>3. <<AdapterJob>> \in Seq(JobSet) /\ Len(<<AdapterJob>>) = 1 /\ <<AdapterJob>>[1] = AdapterJob
    BY <2>2
  <2>4. /\ whole \in Seq(JobSet) /\ Len(whole) = 1 + Len(Tail(jobs))
        /\ \A i \in 1..Len(whole) : whole[i] = IF i <= 1 THEN <<AdapterJob>>[i]
                                               ELSE Tail(jobs)[i - 1]
    BY <2>1, <2>3, ConcatProperties
  <2> HIDE DEF whole
  <2>5. Len(whole) = Len(jobs)
    BY <2>1, <2>4
  <2>6. \A i \in 1..Len(whole) : whole[i] = jobs[i]
    <3> TAKE i \in 1..Len(whole)
    <3>1. CASE i = 1
      BY <2>1, <2>3, <2>4, <3>1
    <3>2. CASE i # 1
      <4>1. i - 1 \in 1..Len(Tail(jobs)) /\ ~(i <= 1) /\ (i - 1) + 1 = i
        BY <2>1, <2>4, <3>2
      <4>2. QED
        BY <2>1, <2>4, <4>1
    <3>3. QED
      BY <3>1, <3>2
  <2>7. QED
    BY <1>1, <2>4, <2>5, <2>6, SeqEqual DEF whole
<1>7. QED
  BY <1>4, <1>5, <1>6

\* As long as the tasks keep their places, they are as they were.
LEMMA TasksStay ==
  ASSUME Going, NextJob("adapter"), product' = product, running' = running, rest' = rest,
         \A u \in Tasks : u \in macros' <=> u \in macros,
         tracker'.pending = tracker.pending, Single(jobs'),
         \A u \in Tasks : Queued(jobs', u) <=> Queued(jobs, u)
  PROVE  /\ ScriptOK' /\ TaskOK'
         /\ \A u \in Tasks : /\ Absent(u)' <=> Absent(u)
                             /\ ~HasAnswer(u)'
                             /\ ScriptOf(u)' = ScriptOf(u) /\ Left(u)' = Left(u)
         /\ WithinTolerance' <=> WithinTolerance
<1> USE DEF Going
<1>1. \A u \in Tasks : /\ ScriptOf(u)' = ScriptOf(u) /\ Done(u)' = Done(u) /\ Left(u)' = Left(u)
                       /\ (Behind(u)' <=> Behind(u)) /\ (HasAnswer(u)' <=> HasAnswer(u))
  BY SameScripts
<1>2. ScriptOK'
  BY <1>1 DEF ScriptOK
<1>3. \A u \in Tasks : Absent(u)' <=> Absent(u)
  BY DEF Absent
<1>4. macros' \cap Tasks = macros \cap Tasks
  OBVIOUS
<1>5. TaskOK'
  BY <1>1, <1>3, <1>4 DEF TaskOK
<1>6. WithinTolerance' <=> WithinTolerance
  BY DEF WithinTolerance
<1>7. QED
  BY <1>1, <1>2, <1>3, <1>5, <1>6, AdapterRuns

\* The adapter goes to the end of the queue, past whoever is in it: it comes nearer to its
\* reading by one turn at most.
LEMMA TurnKeeps ==
  ASSUME Going, TypeOK', NextJob("adapter"), jobs' = Append(Tail(jobs), AdapterJob),
         product' = product, running' = running, rest' = rest, macros' = macros,
         tracker' = tracker, relay'.waiting = relay.waiting,
         StageOK',
         (\A u \in Tasks : Absent(u)' <=> Absent(u)) => CallOK',
         (\A u \in Tasks : Queued(jobs', u) <=> Queued(jobs, u)) => OpenOK',
         WithinTolerance /\ adapter'.then = "read" /\ tracker.pending = 0 =>
           \/ \A u \in Tasks : rest[u] = <<>>
           \/ /\ adapter.then = "read"
              /\ CheckIn(adapter) <= CheckIn(adapter') + 1
              /\ ReadIn(adapter) <= ReadIn(adapter') + 1,
         WithinTolerance /\ adapter'.then = "read" /\ adapter'.at \in {"marking", "read"} =>
           /\ tracker.pending = 0
           /\ \A u \in Tasks : \A j \in Left(u) : ScriptOf(u)[j] # "idb"
  PROVE  Going'
<1> USE DEF Going
<1>1. /\ running = "none" /\ tracker.idle = FALSE /\ tracker.activity = {}
      /\ relay.waiting = FALSE /\ "immediate" \notin macros /\ Queued(jobs, "adapter")
      /\ \A u \in Tasks : ~HasAnswer(u) /\ ~Ahead(jobs, u)
      /\ \A u \in Tasks : Absent(u) <=> ~Queued(jobs, u) /\ u \notin macros
  BY AdapterRuns
<1>2. /\ Single(jobs') /\ Queued(jobs', "adapter") /\ ~Message(jobs')
      /\ \A u \in Tasks : /\ Queued(jobs', u) <=> Queued(jobs, u)
                          /\ Ahead(jobs', u) <=> Queued(jobs, u)
  BY AdapterQueue
<1>3. /\ ScriptOK' /\ TaskOK'
      /\ \A u \in Tasks : /\ Absent(u)' <=> Absent(u)
                          /\ ~HasAnswer(u)'
                          /\ ScriptOf(u)' = ScriptOf(u) /\ Left(u)' = Left(u)
      /\ WithinTolerance' <=> WithinTolerance
  BY <1>2, TasksStay
<1>4. WaitOK'
  BY <1>1, <1>2, <1>3 DEF WaitOK, Tasks
<1>5. RestOK'
  <2>1. ASSUME WithinTolerance, adapter'.then = "read", tracker.pending = 0, NEW u \in Tasks
        PROVE  Paced(u)'
    <3>1. CASE rest[u] = <<>>
      <4>1. Left(u) = {}
        BY <3>1, ScriptPositions
      <4>2. Left(u)' = {}
        BY <1>3, <4>1
      <4>3. QED
        BY <4>2 DEF Paced
    <3>2. CASE rest[u] # <<>>
      <4>1. /\ adapter.then = "read"
            /\ CheckIn(adapter) <= CheckIn(adapter') + 1
            /\ ReadIn(adapter) <= ReadIn(adapter') + 1
        BY <2>1, <3>2
      <4>2. Paced(u)
        BY <1>1, <2>1, <4>1 DEF RestOK
      <4>3. Queued(jobs, u)
        <5>1. macros \cap Tasks \in SUBSET Tasks /\ Cardinality(macros \cap Tasks) = 0
          BY <2>1 DEF TaskOK
        <5>2. macros \cap Tasks = {}
          BY <5>1, OpenTasks
        <5>3. ~Absent(u)
          BY <3>2 DEF TaskOK
        <5>4. QED
          BY <1>1, <5>2, <5>3
      <4>4. Turns(u) = 1 /\ Turns(u)' = 1 /\ Lead(u) = 0 /\ Lead(u)' = 1
        BY <1>1, <1>2, <4>3 DEF Turns, Lead
      <4>5. /\ CheckIn(adapter) \in Nat /\ ReadIn(adapter) \in Nat
            /\ CheckIn(adapter') \in Nat /\ ReadIn(adapter') \in Nat
        BY PaceNumbers DEF TypeOK
      <4>6. CheckIn(adapter)' = CheckIn(adapter') /\ ReadIn(adapter)' = ReadIn(adapter')
        BY DEF CheckIn, ReadIn
      <4>7. /\ Turns(u)' + CheckIn(adapter) + Lead(u) <= Turns(u) + CheckIn(adapter)' + Lead(u)'
            /\ Turns(u)' + ReadIn(adapter) + Lead(u) <= Turns(u) + ReadIn(adapter)' + Lead(u)'
        BY <4>1, <4>4, <4>5, <4>6
      <4>8. QED
        BY <4>2, <4>7, PaceKept
    <3>3. QED
      BY <3>1, <3>2
  <2>2. QED
    BY <1>3, <2>1 DEF RestOK
<1>6. QED
  BY <1>2, <1>3, <1>4, <1>5

\* The adapter leaves the queue and waits.
LEMMA LeaveKeeps ==
  ASSUME Going, TypeOK', NextJob("adapter"), jobs' = Tail(jobs),
         product' = product, running' = running, rest' = rest,
         \A u \in Tasks : u \in macros' <=> u \in macros,
         tracker'.pending = tracker.pending,
         adapter'.at \in Waits, StageOK', OpenOK',
         (\A u \in Tasks : Absent(u)' <=> Absent(u)) => CallOK',
         tracker'.idle => adapter'.at = "idle",
         tracker'.activity # {} => adapter'.at = "active",
         relay'.waiting => adapter'.at = "inbox",
         "immediate" \in macros' => adapter'.at = "quiescent"
  PROVE  Going'
<1>1. /\ Single(jobs') /\ ~Queued(jobs', "adapter") /\ ~Message(jobs')
      /\ \A u \in Tasks : Queued(jobs', u) <=> Queued(jobs, u)
  BY AdapterQueue
<1>2. /\ ScriptOK' /\ TaskOK'
      /\ \A u \in Tasks : (Absent(u)' <=> Absent(u)) /\ ~HasAnswer(u)'
  BY <1>1, TasksStay
<1>3. WaitOK'
  BY <1>1, <1>2 DEF WaitOK, WaitsAt, Tasks
<1>4. RestOK'
  BY <1>1 DEF RestOK, Waits
<1>5. QED
  BY <1>1, <1>2, <1>3, <1>4 DEF Going

\* waitForIdle, from wherever it is called.
LEMMA WaitKeeps ==
  ASSUME Going, NextJob("adapter"), NEW a \in Adapters, WaitForIdle(a),
         product' = product, running' = running, rest' = rest, macros' = macros, relay' = relay,
         calls' = calls,
         a.marker = adapter.marker, a.then # "none",
         a.then \in {"window", "next"} => Absent("subscribe") /\ Absent("patch") /\ Absent("receive"),
         a.then = "relay" => Absent("receive"),
         WithinTolerance /\ a.then = "read" /\ tracker.pending = 0 =>
           \/ \A u \in Tasks : rest[u] = <<>>
           \/ adapter.then = "read" /\ CheckIn(adapter) <= 3 /\ ReadIn(adapter) <= 6
  PROVE  Going'
<1>1. TypeOK'
  BY WaitTypes DEF Going, TypeOK, NextJob
<1>2. /\ tracker.idle = FALSE /\ tracker.activity = {} /\ relay.waiting = FALSE
      /\ "immediate" \notin macros
  BY AdapterRuns
<1>3. /\ adapter'.then = a.then /\ adapter'.at \in {"idle", "observing"}
      /\ a.then \in {"window", "next", "relay", "read"}
  BY DEF WaitForIdle, Later, Adapters
<1>4. StageOK'
  BY <1>3 DEF StageOK, Settling
<1>5. (\A u \in Tasks : Absent(u)' <=> Absent(u)) => CallOK'
  BY <1>3 DEF CallOK, BeforeRelay, Tasks
<1>6. CASE /\ tracker' = [tracker EXCEPT !.idle = TRUE]
           /\ adapter' = [a EXCEPT !.at = "idle"] /\ jobs' = Tail(jobs)
  <2>1. /\ tracker'.pending = tracker.pending /\ tracker'.activity = {}
        /\ tracker'.generation = tracker.generation
        /\ adapter'.at = "idle" /\ adapter'.marker = adapter.marker
    BY <1>2, <1>6 DEF Going, TypeOK, Trackers, Adapters
  <2>2. OpenOK'
    BY <2>1 DEF Going, OpenOK
  <2>3. QED
    BY <1>1, <1>2, <1>4, <1>5, <1>6, <2>1, <2>2, LeaveKeeps DEF Waits
<1>7. CASE tracker.pending = 0 /\ Later(a, "observing", 1) /\ UNCHANGED tracker
  <2>1. /\ jobs' = Append(Tail(jobs), AdapterJob) /\ tracker' = tracker
        /\ adapter'.at = "observing" /\ adapter'.marker = adapter.marker
    BY <1>7 DEF Later, Adapters
  <2>2. OpenOK'
    BY <1>2, <2>1 DEF Going, OpenOK
  <2>3. CheckIn(adapter') = 2 /\ ReadIn(adapter') = 5
    BY <2>1 DEF CheckIn, ReadIn
  <2>4. CheckIn(adapter) \in Nat /\ ReadIn(adapter) \in Nat
    BY PaceNumbers DEF Going, TypeOK
  <2>5. CheckIn(adapter) <= 3 /\ ReadIn(adapter) <= 6 =>
          CheckIn(adapter) <= CheckIn(adapter') + 1 /\ ReadIn(adapter) <= ReadIn(adapter') + 1
    BY <2>3, <2>4
  <2>6. QED
    BY <1>1, <1>3, <1>4, <1>5, <2>1, <2>2, <2>5, TurnKeeps
<1>8. QED
  BY <1>6, <1>7 DEF WaitForIdle

\* When no request is open, whoever has something left is in the queue.
LEMMA NothingOpen ==
  ASSUME Going, NextJob("adapter"), tracker.pending = 0
  PROVE  \A u \in Tasks : u \notin macros /\ (rest[u] # <<>> => Queued(jobs, u))
<1>1. macros \cap Tasks \in SUBSET Tasks /\ Cardinality(macros \cap Tasks) = 0
  BY DEF Going, TaskOK
<1>2. macros \cap Tasks = {}
  BY <1>1, OpenTasks
<1>3. \A u \in Tasks : /\ Absent(u) <=> ~Queued(jobs, u) /\ u \notin macros
                       /\ Absent(u) => rest[u] = <<>>
  BY AdapterRuns DEF Going, TaskOK
<1>4. QED
  BY <1>2, <1>3

\* A task in the queue is a turn away at least.
LEMMA NoTurnLeft ==
  ASSUME Going, NextJob("adapter"), tracker.pending = 0, NEW u \in Tasks, NEW j \in Left(u)
  PROVE  Distance(u, j) > Lead(u)
<1>1. rest[u] # <<>>
  BY ScriptPositions DEF Going
<1>2. Queued(jobs, u) /\ ~Ahead(jobs, u)
  BY <1>1, NothingOpen, AdapterRuns
<1>3. Turns(u) = 1 /\ Lead(u) = 0
  BY <1>2 DEF Turns, Lead
<1>4. j \in Nat /\ Done(u) + 1 \in Nat
  BY ScriptPositions DEF Going
<1>5. Cardinality(Hops(ScriptOf(u), Done(u) + 1, j)) \in Nat
  BY <1>4, HopsOf
<1>6. QED
  BY <1>3, <1>5 DEF Distance

\* When the rest is checked and found stable, a package within tolerance opens no request
\* any more.
LEMMA NoRequestLeft ==
  ASSUME Going, Resumed("checking"), tracker.pending = 0, WithinTolerance,
         adapter.then = "read", NEW u \in Tasks, NEW i \in Left(u)
  PROVE  ScriptOf(u)[i] # "idb"
<1> SUFFICES ASSUME ScriptOf(u)[i] = "idb" PROVE FALSE
  OBVIOUS
<1> DEFINE S == {j \in Left(u) : ScriptOf(u)[j] = "idb"}
<1>1. S \in SUBSET Nat /\ S # {}
  BY ScriptPositions DEF Going
<1>2. PICK j \in S : \A other \in S : j <= other
  BY <1>1, SmallestExists
<1>3. /\ Done(u) \in Nat /\ j \in Nat /\ Len(ScriptOf(u)) \in Nat
      /\ Left(u) = (Done(u) + 1)..Len(ScriptOf(u)) /\ j \in Left(u)
  BY ScriptPositions DEF Going, Left
<1>4. Before(u, j)
  <2> SUFFICES ASSUME NEW k \in (Done(u) + 1)..(j - 1), ScriptOf(u)[k] = "idb"
               PROVE  FALSE
    BY DEF Before
  <2>1. k \in S /\ k < j
    BY <1>3
  <2>2. QED
    BY <1>2, <1>3, <2>1
<1>5. Paced(u)
  BY AdapterRuns DEF Going, RestOK, Resumed
<1>6. CheckIn(adapter) = 0
  BY DEF CheckIn, Resumed
<1>7. Distance(u, j) <= CheckIn(adapter) + Lead(u)
  BY <1>3, <1>4, <1>5 DEF Paced
<1>8. Distance(u, j) > Lead(u)
  BY <1>3, NoTurnLeft DEF Resumed
<1>9. Lead(u) \in Nat /\ Distance(u, j) \in Nat
  <2>1. Done(u) + 1 \in Nat
    BY <1>3
  <2>2. Cardinality(Hops(ScriptOf(u), Done(u) + 1, j)) \in Nat
    BY <1>3, <2>1, HopsOf
  <2>3. Turns(u) \in Nat /\ Lead(u) \in Nat
    BY DEF Turns, Lead
  <2>4. QED
    BY <2>2, <2>3 DEF Distance
<1>10. QED
  BY <1>6, <1>7, <1>8, <1>9

\* The adapter's step has its type.
LEMMA AdapterTyped ==
  ASSUME Going, AdapterStep
  PROVE  TypeOK'
<1>1. adapter.at = "marking" => adapter.then # "none"
  BY DEF Going, StageOK
<1>2. ASSUME Resumed("inbox")
      PROVE  relay.inbox # <<>>
  BY <1>2, AdapterRuns DEF Going, OpenOK, Resumed
<1>3. QED
  BY <1>1, <1>2, AdapterTypes DEF Going

-----------------------------------------------------------------------------
\* An await of the adapter that takes several jobs.
LEMMA AwaitHopKeeps ==
  ASSUME Going, AwaitHop
  PROVE  Going'
<1>1. /\ NextJob("adapter") /\ adapter.hops > 0
      /\ adapter' = [adapter EXCEPT !.hops = @ - 1] /\ jobs' = Append(Tail(jobs), AdapterJob)
      /\ product' = product /\ running' = running /\ rest' = rest /\ macros' = macros
      /\ tracker' = tracker /\ relay' = relay
  BY DEF AwaitHop, packageVars
<1>2. TypeOK'
  BY AdapterTyped DEF AdapterStep
<1> USE DEF Going
<1>3. /\ adapter'.at = adapter.at /\ adapter'.then = adapter.then
      /\ adapter'.marker = adapter.marker /\ adapter'.hops = adapter.hops - 1
      /\ adapter.hops \in Nat
  BY <1>1 DEF TypeOK, Adapters
<1>4. StageOK'
  BY <1>3 DEF StageOK
<1>5. (\A u \in Tasks : Absent(u)' <=> Absent(u)) => CallOK'
  BY <1>3 DEF CallOK, BeforeRelay, Tasks
<1>6. (\A u \in Tasks : Queued(jobs', u) <=> Queued(jobs, u)) => OpenOK'
  BY <1>1, <1>3, AdapterRuns DEF OpenOK
<1>7. CheckIn(adapter) <= CheckIn(adapter') + 1 /\ ReadIn(adapter) <= ReadIn(adapter') + 1
  BY <1>3 DEF CheckIn, ReadIn
<1>8. WithinTolerance /\ adapter'.then = "read" /\ adapter'.at \in {"marking", "read"} =>
        /\ tracker.pending = 0
        /\ \A u \in Tasks : \A j \in Left(u) : ScriptOf(u)[j] # "idb"
  BY <1>3 DEF RestOK
<1>9. QED
  BY <1>1, <1>2, <1>3, <1>4, <1>5, <1>6, <1>7, <1>8, TurnKeeps

\* waitForIdle is called again, when a request ended or the rest was not stable.
LEMMA StillWaitingKeeps ==
  ASSUME Going, StillWaiting
  PROVE  Going'
<1>1. /\ NextJob("adapter") /\ adapter.at = "idle" /\ WaitForIdle(adapter)
      /\ product' = product /\ running' = running /\ rest' = rest /\ macros' = macros
      /\ relay' = relay /\ calls' = calls
  BY DEF StillWaiting, Resumed, packageVars, logVars
<1>2. /\ adapter.then # "none"
      /\ adapter.then \in {"window", "next"} => Absent("subscribe") /\ Absent("patch") /\ Absent("receive")
      /\ adapter.then = "relay" => Absent("receive")
  BY <1>1 DEF Going, StageOK, CallOK, BeforeRelay
<1>3. CheckIn(adapter) <= 3 /\ ReadIn(adapter) <= 6
  BY <1>1 DEF CheckIn, ReadIn
<1>4. adapter \in Adapters
  BY DEF Going, TypeOK
<1>5. QED
  BY <1>1, <1>2, <1>3, <1>4, WaitKeeps

\* The generation is read, and compared two turns later.
LEMMA ObserveKeeps ==
  ASSUME Going, Observe
  PROVE  Going'
<1>1. /\ NextJob("adapter") /\ adapter.at = "observing"
      /\ adapter' = [[adapter EXCEPT !.observed = tracker.generation] EXCEPT !.at = "checking", !.hops = 2 - 1]
      /\ jobs' = Append(Tail(jobs), AdapterJob)
      /\ product' = product /\ running' = running /\ rest' = rest /\ macros' = macros
      /\ tracker' = tracker /\ relay' = relay
  BY DEF Observe, Resumed, Later, packageVars
<1>2. TypeOK'
  BY AdapterTyped DEF AdapterStep
<1> USE DEF Going
<1>3. /\ adapter'.at = "checking" /\ adapter'.then = adapter.then
      /\ adapter'.marker = adapter.marker /\ adapter'.hops = 1
  BY <1>1 DEF TypeOK, Adapters
<1>4. StageOK'
  BY <1>1, <1>3 DEF StageOK, Settling
<1>5. (\A u \in Tasks : Absent(u)' <=> Absent(u)) => CallOK'
  BY <1>1, <1>3 DEF CallOK, BeforeRelay, Tasks
<1>6. (\A u \in Tasks : Queued(jobs', u) <=> Queued(jobs, u)) => OpenOK'
  BY <1>1, <1>3 DEF OpenOK
<1>7. CheckIn(adapter) <= CheckIn(adapter') + 1 /\ ReadIn(adapter) <= ReadIn(adapter') + 1
  BY <1>1, <1>3 DEF CheckIn, ReadIn
<1>8. QED
  BY <1>1, <1>2, <1>3, <1>4, <1>5, <1>6, <1>7, TurnKeeps

\* The rest is stable, or it is waited for anew.
LEMMA CheckKeeps ==
  ASSUME Going, Check
  PROVE  Going'
<1>1. /\ NextJob("adapter") /\ Resumed("checking") /\ adapter.at = "checking" /\ adapter.hops = 0
      /\ product' = product /\ running' = running /\ rest' = rest /\ macros' = macros
      /\ relay' = relay /\ calls' = calls
  BY DEF Check, Resumed, packageVars, logVars
<1>2. TypeOK'
  BY AdapterTyped DEF AdapterStep
<1> USE DEF Going
<1>3. CheckIn(adapter) = 0 /\ ReadIn(adapter) = 3
  BY <1>1 DEF CheckIn, ReadIn
<1>4. CASE Stable /\ Later(adapter, "marking", 1) /\ UNCHANGED tracker
  <2>1. /\ adapter'.at = "marking" /\ adapter'.then = adapter.then
        /\ adapter'.marker = adapter.marker /\ tracker' = tracker
        /\ jobs' = Append(Tail(jobs), AdapterJob) /\ tracker.pending = 0
    BY <1>4 DEF Later, Stable, TypeOK, Adapters
  <2>2. StageOK'
    BY <1>1, <2>1 DEF StageOK, Settling
  <2>3. (\A u \in Tasks : Absent(u)' <=> Absent(u)) => CallOK'
    BY <1>1, <2>1 DEF CallOK, BeforeRelay, Tasks
  <2>4. (\A u \in Tasks : Queued(jobs', u) <=> Queued(jobs, u)) => OpenOK'
    BY <1>1, <2>1 DEF OpenOK
  <2>5. CheckIn(adapter) <= CheckIn(adapter') + 1 /\ ReadIn(adapter) <= ReadIn(adapter') + 1
    BY <1>3, <2>1 DEF CheckIn, ReadIn
  <2>6. WithinTolerance /\ adapter'.then = "read" =>
          \A u \in Tasks : \A j \in Left(u) : ScriptOf(u)[j] # "idb"
    BY <1>1, <2>1, NoRequestLeft
  <2>7. QED
    BY <1>1, <1>2, <2>1, <2>2, <2>3, <2>4, <2>5, <2>6, TurnKeeps
<1>5. CASE WaitForIdle(adapter)
  <2>1. /\ adapter.then # "none"
        /\ adapter.then \in {"window", "next"} =>
             Absent("subscribe") /\ Absent("patch") /\ Absent("receive")
        /\ adapter.then = "relay" => Absent("receive")
    BY <1>1 DEF StageOK, CallOK, BeforeRelay
  <2>2. adapter \in Adapters /\ CheckIn(adapter) <= 3 /\ ReadIn(adapter) <= 6
    BY <1>3 DEF TypeOK
  <2>3. QED
    BY <1>1, <1>5, <2>1, <2>2, WaitKeeps
<1>6. QED
  BY <1>4, <1>5 DEF Check

\* The generation becomes the marker, and the adapter goes on where it was going.
LEMMA MarkKeeps ==
  ASSUME Going, Mark
  PROVE  Going'
<1> DEFINE n == IF adapter.then = "read" /\ Row = "broadcast" THEN 3 ELSE 2
<1>1. /\ NextJob("adapter") /\ adapter.at = "marking" /\ adapter.hops = 0
      /\ adapter' = [[adapter EXCEPT !.marker = tracker.generation] EXCEPT !.at = adapter.then, !.hops = n - 1]
      /\ jobs' = Append(Tail(jobs), AdapterJob)
      /\ product' = product /\ running' = running /\ rest' = rest /\ macros' = macros
      /\ tracker' = tracker /\ relay' = relay
  BY DEF Mark, Resumed, Later, packageVars
<1>2. TypeOK'
  BY AdapterTyped DEF AdapterStep
<1> USE DEF Going
<1>3. /\ adapter'.at = adapter.then /\ adapter'.then = adapter.then
      /\ adapter'.marker = tracker.generation /\ adapter'.hops \in {1, 2}
      /\ adapter.then \in {"window", "next", "relay", "read"}
  <2>1. adapter.then # "none"
    BY <1>1 DEF StageOK
  <2>2. QED
    BY <1>1, <2>1 DEF TypeOK, Adapters
<1> HIDE DEF n
<1>4. StageOK'
  BY <1>3 DEF StageOK, Early, Late
<1>5. (\A u \in Tasks : Absent(u)' <=> Absent(u)) => CallOK'
  BY <1>1, <1>3 DEF CallOK, BeforeRelay, Tasks
<1>6. (\A u \in Tasks : Queued(jobs', u) <=> Queued(jobs, u)) => OpenOK'
  <2>1. tracker.generation \in Nat /\ tracker.pending \in Nat /\ tracker.activity = {}
    BY <1>1, AdapterRuns DEF TypeOK, Trackers
  <2>2. QED
    BY <1>1, <1>3, <2>1 DEF OpenOK
<1>7. adapter'.then = "read" =>
        CheckIn(adapter) <= CheckIn(adapter') + 1 /\ ReadIn(adapter) <= ReadIn(adapter') + 1
  BY <1>1, <1>3 DEF CheckIn, ReadIn
<1>8. WithinTolerance /\ adapter'.then = "read" =>
        /\ tracker.pending = 0
        /\ \A u \in Tasks : \A j \in Left(u) : ScriptOf(u)[j] # "idb"
  BY <1>1, <1>3 DEF RestOK
<1>9. QED
  BY <1>1, <1>2, <1>3, <1>4, <1>5, <1>6, <1>7, <1>8, TurnKeeps

-----------------------------------------------------------------------------
\* The adapter goes on to what it does next.
LEMMA GoesOnKeeps ==
  ASSUME Going, TypeOK', NextJob("adapter"), NEW at \in Places, NEW n \in Nat \ {0},
         Later(adapter, at, n),
         product' = product, running' = running, rest' = rest, macros' = macros,
         tracker' = tracker, relay'.waiting = relay.waiting,
         \/ adapter.at = "window" /\ at = "clear"
         \/ adapter.at = "clear" /\ at = "next"
         \/ adapter.at = "next" /\ at = "subscribe"
         \/ adapter.at = "subscribed" /\ at = "observe"
         \/ adapter.at = "delivered" /\ at = "quiet"
  PROVE  Going'
<1> USE DEF Going
<1>1. /\ adapter'.at = at /\ adapter'.then = adapter.then /\ adapter'.marker = adapter.marker
      /\ jobs' = Append(Tail(jobs), AdapterJob)
  BY DEF Later, TypeOK, Adapters
<1>2. adapter.then \in {"window", "next", "relay"} /\ adapter.then # "read"
  BY DEF StageOK, Settling, TypeOK, Adapters
<1>3. StageOK'
  BY <1>1, <1>2 DEF StageOK, Settling, Early, Late
<1>4. (\A u \in Tasks : Absent(u)' <=> Absent(u)) => CallOK'
  BY <1>1, <1>2 DEF CallOK, BeforeRelay, Tasks, StageOK, Settling, Early, Late
<1>5. (\A u \in Tasks : Queued(jobs', u) <=> Queued(jobs, u)) => OpenOK'
  BY <1>1 DEF OpenOK
<1>6. QED
  BY <1>1, <1>2, <1>3, <1>4, <1>5, TurnKeeps

\* The actions of the adapter that change nothing but where it is.
LEMMA PassingKeeps ==
  ASSUME Going, BeginObservationWindow \/ ClearWindow \/ Delivered
  PROVE  Going'
<1>1. TypeOK'
  BY AdapterTyped DEF AdapterStep
<1>2. {"clear", "next", "quiet"} \subseteq Places /\ 1 \in Nat \ {0}
  BY DEF Places, Early, Late
<1>3. CASE BeginObservationWindow
  <2>1. /\ NextJob("adapter") /\ adapter.at = "window" /\ Later(adapter, "clear", 1)
        /\ product' = product /\ running' = running /\ rest' = rest /\ macros' = macros
        /\ tracker' = tracker /\ relay' = relay
    BY <1>3 DEF BeginObservationWindow, Resumed, packageVars
  <2>2. QED
    BY <1>1, <1>2, <2>1, GoesOnKeeps
<1>4. CASE ClearWindow
  <2>1. /\ NextJob("adapter") /\ adapter.at = "clear" /\ Later(adapter, "next", 1)
        /\ product' = product /\ running' = running /\ rest' = rest /\ macros' = macros
        /\ tracker' = tracker /\ relay'.waiting = relay.waiting
    BY <1>4 DEF ClearWindow, Resumed, packageVars, Going, TypeOK, Relays
  <2>2. QED
    BY <1>1, <1>2, <2>1, GoesOnKeeps
<1>5. CASE Delivered
  <2>1. /\ NextJob("adapter") /\ adapter.at = "delivered" /\ Later(adapter, "quiet", 1)
        /\ product' = product /\ running' = running /\ rest' = rest /\ macros' = macros
        /\ tracker' = tracker /\ relay' = relay
    BY <1>5 DEF Delivered, Resumed, packageVars
  <2>2. QED
    BY <1>1, <1>2, <2>1, GoesOnKeeps
<1>6. QED
  BY <1>3, <1>4, <1>5

\* The adapter calls the package.
LEMMA CallKeeps ==
  ASSUME Going, NextJob("adapter"), NEW t \in Tasks, Absent(t), Call(t),
         product' = product, macros' = macros, tracker' = tracker,
         jobs' = jobs \/ jobs' = Tail(jobs)
  PROVE  /\ ScriptOK' /\ TaskOK' /\ ~Message(jobs')
         /\ \A u \in Tasks \ {t} : (Absent(u)' <=> Absent(u)) /\ ~HasAnswer(u)'
         /\ t = "subscribe" => ~HasAnswer(t)'
<1>1. /\ running = "none" /\ running' = t /\ rest' = [rest EXCEPT ![t] = product.script[t]]
      /\ Single(jobs) /\ ~Message(jobs) /\ \A u \in Tasks : ~HasAnswer(u)
  BY AdapterRuns DEF Call
<1>2. /\ Single(jobs') /\ ~Message(jobs')
      /\ \A u \in Tasks : Queued(jobs', u) <=> Queued(jobs, u)
  BY <1>1, AdapterQueue
<1> USE DEF Going
<1>3. /\ ScriptOK'
      /\ \A u \in Tasks \ {t} : /\ rest'[u] = rest[u] /\ (Behind(u)' <=> Behind(u))
                                /\ (HasAnswer(u)' <=> HasAnswer(u))
      /\ t = "subscribe" => ~HasAnswer(t)'
  BY <1>1, Called
<1>4. t # "none" /\ ~Queued(jobs, t) /\ t \notin macros /\ ~Absent(t)'
  BY <1>1 DEF Absent, Tasks
<1>5. \A u \in Tasks \ {t} : Absent(u)' <=> Absent(u)
  BY <1>1, <1>2 DEF Absent, Tasks
<1>6. TaskOK'
  <2>1. \A u \in Tasks : /\ running' = u => ~Queued(jobs', u) /\ u \notin macros'
                         /\ Queued(jobs', u) => u \notin macros'
    BY <1>1, <1>2, <1>4 DEF TaskOK
  <2>2. \A u \in Tasks : Absent(u)' => rest'[u] = <<>>
    BY <1>3, <1>4, <1>5 DEF TaskOK
  <2>3. \A u \in Tasks : u \in macros' => Behind(u)'
    BY <1>3, <1>4 DEF TaskOK
  <2>4. QED
    BY <1>2, <2>1, <2>2, <2>3 DEF TaskOK
<1>7. QED
  BY <1>1, <1>2, <1>3, <1>5, <1>6

\* Storage.set or replace is called.
LEMMA SetupKeeps ==
  ASSUME Going, Setup
  PROVE  Going'
<1>1. /\ NextJob("adapter") /\ adapter.at = "setup" /\ Call("setup") /\ jobs' = Tail(jobs)
      /\ adapter' = [adapter EXCEPT !.at = "stored"]
      /\ product' = product /\ macros' = macros /\ tracker' = tracker /\ relay' = relay
  BY DEF Setup, Resumed
<1>2. TypeOK'
  BY AdapterTyped DEF AdapterStep
<1> USE DEF Going
<1>3. /\ adapter'.at = "stored" /\ adapter'.then = adapter.then
      /\ adapter'.marker = adapter.marker /\ adapter.then = "none"
  BY <1>1 DEF TypeOK, Adapters, StageOK, Settling, Early, Late
<1>4. "setup" \in Tasks /\ Absent("setup")
  BY <1>1 DEF CallOK, Tasks
<1>5. /\ ScriptOK' /\ TaskOK' /\ ~Message(jobs') /\ ~Queued(jobs', "adapter")
      /\ \A u \in Tasks \ {"setup"} : (Absent(u)' <=> Absent(u)) /\ ~HasAnswer(u)'
  BY <1>1, <1>4, CallKeeps, AdapterQueue
<1>6. /\ tracker.idle = FALSE /\ tracker.activity = {} /\ relay.waiting = FALSE
      /\ "immediate" \notin macros
  BY <1>1, AdapterRuns
<1>7. StageOK'
  BY <1>3 DEF StageOK
<1>8. CallOK'
  BY <1>1, <1>3, <1>5 DEF CallOK, BeforeRelay, Tasks
<1>9. WaitOK'
  BY <1>1, <1>3, <1>5, <1>6 DEF WaitOK, WaitsAt, Waits, Tasks
<1>10. OpenOK'
  BY <1>1, <1>3 DEF OpenOK
<1>11. RestOK'
  BY <1>3 DEF RestOK
<1>12. QED
  BY <1>2, <1>5, <1>7, <1>8, <1>9, <1>10, <1>11

\* The setup is done.
LEMMA StoredKeeps ==
  ASSUME Going, Stored
  PROVE  Going'
<1> DEFINE a == [adapter EXCEPT !.then = IF Row = "broadcast" THEN "window" ELSE "next"]
<1>1. /\ NextJob("adapter") /\ adapter.at = "stored" /\ WaitForIdle(a)
      /\ product' = product /\ running' = running /\ rest' = rest /\ macros' = macros
      /\ relay' = relay /\ calls' = calls
  BY DEF Stored, StableIdle, Resumed, packageVars, logVars
<1>2. a \in Adapters /\ a.marker = adapter.marker /\ a.then \in {"window", "next"}
  BY DEF Going, TypeOK, Adapters
<1> HIDE DEF a
<1>3. BeforeRelay
  BY <1>1 DEF Going, StageOK, Settling, Late, BeforeRelay, TypeOK, Adapters
<1>4. Absent("subscribe") /\ Absent("patch") /\ Absent("receive")
  BY <1>1, <1>3 DEF Going, CallOK
<1>5. QED
  BY <1>1, <1>2, <1>4, WaitKeeps

\* subscribe() is called: the adapter goes on before any job.
LEMMA CallSubscribeKeeps ==
  ASSUME Going, TypeOK', NextJob("adapter"), CallSubscribe, adapter.at \in {"next", "subscribe"},
         product' = product, macros' = macros, tracker' = tracker, relay' = relay
  PROVE  Going'
<1> USE DEF Going
<1>1. /\ Call("subscribe") /\ jobs' = jobs /\ "subscribe" \in Tasks
      /\ adapter' = [adapter EXCEPT !.at = "subscribed"]
  BY AdapterQueue DEF CallSubscribe, Tasks
<1>2. /\ adapter'.at = "subscribed" /\ adapter'.then = adapter.then
      /\ adapter'.marker = adapter.marker /\ adapter.then \in {"window", "next"}
  BY <1>1 DEF TypeOK, Adapters, StageOK, Settling, Late
<1>3. Absent("subscribe")
  BY <1>2 DEF CallOK, BeforeRelay
<1>4. /\ ScriptOK' /\ TaskOK' /\ ~Message(jobs')
      /\ \A u \in Tasks \ {"subscribe"} : (Absent(u)' <=> Absent(u)) /\ ~HasAnswer(u)'
      /\ ~HasAnswer("subscribe")'
  BY <1>1, <1>3, CallKeeps
<1>5. /\ tracker.idle = FALSE /\ tracker.activity = {} /\ relay.waiting = FALSE
      /\ "immediate" \notin macros /\ Queued(jobs, "adapter")
  BY AdapterRuns
<1>6. StageOK'
  BY <1>2 DEF StageOK, Early
<1>7. CallOK'
  BY <1>2, <1>4 DEF CallOK, BeforeRelay, Tasks
<1>8. WaitOK'
  BY <1>1, <1>4, <1>5 DEF WaitOK, Tasks
<1>9. OpenOK'
  BY <1>1, <1>2, <1>5 DEF OpenOK
<1>10. RestOK'
  BY <1>2 DEF RestOK
<1>11. QED
  BY <1>4, <1>6, <1>7, <1>8, <1>9, <1>10

\* The adapter comes to subscribe, with the jobs of the interpreter or without.
LEMMA SubscribeKeeps ==
  ASSUME Going, NextAction \/ Subscribe
  PROVE  Going'
<1>1. TypeOK'
  BY AdapterTyped DEF AdapterStep
<1>2. /\ NextJob("adapter") /\ adapter.at \in {"next", "subscribe"}
      /\ product' = product /\ macros' = macros /\ tracker' = tracker /\ relay' = relay
  BY DEF NextAction, Subscribe, Resumed
<1>3. CASE CallSubscribe
  BY <1>1, <1>2, <1>3, CallSubscribeKeeps
<1>4. CASE adapter.at = "next" /\ Later(adapter, "subscribe", 3) /\ UNCHANGED <<running, rest>>
  <2>1. "subscribe" \in Places /\ 3 \in Nat \ {0}
    BY DEF Places, Early
  <2>2. QED
    BY <1>1, <1>2, <1>4, <2>1, GoesOnKeeps
<1>5. QED
  BY <1>3, <1>4 DEF NextAction, Subscribe, BetweenActions, Resumed

\* subscribe() has returned.
LEMMA SubscribedKeeps ==
  ASSUME Going, Subscribed
  PROVE  Going'
<1>1. TypeOK'
  BY AdapterTyped DEF AdapterStep
<1>2. /\ NextJob("adapter") /\ adapter.at = "subscribed" /\ running' = running /\ rest' = rest
      /\ product' = product /\ macros' = macros /\ tracker' = tracker /\ relay' = relay
  BY DEF Subscribed, BetweenActions, Resumed
<1>3. CASE Later(adapter, "observe", 3)
  <2>1. "observe" \in Places /\ 3 \in Nat \ {0}
    BY DEF Places, Early
  <2>2. QED
    BY <1>1, <1>2, <1>3, <2>1, GoesOnKeeps
<1>4. CASE jobs' = jobs /\ adapter' = [adapter EXCEPT !.at = "observe"]
  <2> USE DEF Going
  <2>1. /\ adapter'.at = "observe" /\ adapter'.then = adapter.then
        /\ adapter'.marker = adapter.marker /\ adapter.then \in {"window", "next"}
    BY <1>2, <1>4 DEF TypeOK, Adapters, StageOK, Settling, Late
  <2>2. /\ tracker.idle = FALSE /\ tracker.activity = {} /\ relay.waiting = FALSE
        /\ "immediate" \notin macros /\ Queued(jobs, "adapter") /\ Single(jobs) /\ ~Message(jobs)
    BY <1>2, AdapterRuns
  <2>3. /\ ScriptOK' /\ TaskOK'
        /\ \A u \in Tasks : (Absent(u)' <=> Absent(u)) /\ ~HasAnswer(u)'
    BY <1>2, <1>4, <2>2, TasksStay
  <2>4. StageOK'
    BY <2>1 DEF StageOK, Early
  <2>5. CallOK'
    BY <1>2, <2>1, <2>3 DEF CallOK, BeforeRelay, Tasks
  <2>6. WaitOK'
    BY <1>2, <1>4, <2>2, <2>3 DEF WaitOK, Tasks
  <2>7. OpenOK'
    BY <1>2, <2>1 DEF OpenOK
  <2>8. RestOK'
    BY <2>1 DEF RestOK
  <2>9. QED
    BY <1>1, <2>3, <2>4, <2>5, <2>6, <2>7, <2>8
<1>5. QED
  BY <1>3, <1>4 DEF Subscribed, BetweenActions

-----------------------------------------------------------------------------
\* The subscription's requests are waited for, or their first one.
LEMMA SettleAfterKeeps ==
  ASSUME Going, SettleAfter
  PROVE  Going'
<1>1. /\ NextJob("adapter") /\ adapter.at = "observe"
      /\ product' = product /\ running' = running /\ rest' = rest /\ macros' = macros
      /\ relay' = relay /\ calls' = calls
  BY DEF SettleAfter, Resumed, packageVars, logVars
<1>2. TypeOK'
  BY AdapterTyped DEF AdapterStep
<1> USE DEF Going
<1>3. adapter.then \in {"window", "next"}
  BY <1>1 DEF TypeOK, Adapters, StageOK, Settling, Late
<1>4. /\ tracker.idle = FALSE /\ tracker.activity = {} /\ relay.waiting = FALSE
      /\ "immediate" \notin macros
  BY <1>1, AdapterRuns
<1>5. CASE /\ tracker' = [tracker EXCEPT !.activity = @ \cup {adapter.marker}]
           /\ adapter' = [adapter EXCEPT !.at = "active"] /\ jobs' = Tail(jobs)
  <2>1. /\ adapter'.at = "active" /\ adapter'.then = adapter.then
        /\ adapter'.marker = adapter.marker
    BY <1>5 DEF TypeOK, Adapters
  <2>2. /\ tracker'.pending = tracker.pending /\ tracker'.generation = tracker.generation
        /\ tracker'.idle = FALSE /\ tracker'.activity = {adapter.marker}
    BY <1>4, <1>5 DEF TypeOK, Trackers
  <2>3. ~Queued(jobs', "adapter")
    BY <1>1, <1>5, AdapterQueue
  <2>4. StageOK'
    BY <1>3, <2>1 DEF StageOK, Early
  <2>5. (\A u \in Tasks : Absent(u)' <=> Absent(u)) => CallOK'
    BY <1>1, <2>1 DEF CallOK, BeforeRelay, Tasks
  <2>6. OpenOK'
    BY <2>1, <2>2, <2>3 DEF OpenOK
  <2>7. QED
    BY <1>1, <1>2, <1>4, <1>5, <2>1, <2>2, <2>4, <2>5, <2>6, LeaveKeeps DEF Waits
<1>6. CASE tracker.generation > adapter.marker /\ StableIdle("read")
  <2> DEFINE a == [adapter EXCEPT !.then = "read"]
  <2>1. /\ a \in Adapters /\ a.marker = adapter.marker /\ a.then = "read"
        /\ WaitForIdle(a)
    BY <1>6 DEF StableIdle, TypeOK, Adapters
  <2> HIDE DEF a
  <2>2. tracker.pending # 0
    <3>1. tracker.generation <= adapter.marker + tracker.pending
      BY <1>1 DEF OpenOK
    <3>2. adapter.marker \in Nat /\ tracker.generation \in Nat
      BY DEF TypeOK, Adapters, Trackers
    <3>3. QED
      BY <1>6, <3>1, <3>2
  <2>3. QED
    BY <1>1, <2>1, <2>2, WaitKeeps
<1>7. QED
  BY <1>5, <1>6 DEF SettleAfter

\* Activity has woken the adapter, so that a request is open.
LEMMA ActiveKeeps ==
  ASSUME Going, Active
  PROVE  Going'
<1> DEFINE a == [adapter EXCEPT !.then = "read"]
<1>1. /\ NextJob("adapter") /\ adapter.at = "active" /\ WaitForIdle(a)
      /\ product' = product /\ running' = running /\ rest' = rest /\ macros' = macros
      /\ relay' = relay /\ calls' = calls
  BY DEF Active, StableIdle, Resumed, packageVars, logVars
<1>2. a \in Adapters /\ a.marker = adapter.marker /\ a.then = "read"
  BY DEF Going, TypeOK, Adapters
<1> HIDE DEF a
<1>3. tracker.pending # 0
  BY <1>1, AdapterRuns DEF Going, OpenOK
<1>4. QED
  BY <1>1, <1>2, <1>3, WaitKeeps

\* The patch is called, and its promise awaited.
LEMMA PatchKeeps ==
  ASSUME Going, Patch
  PROVE  Going'
<1>1. /\ NextJob("adapter") /\ adapter.at = "observe" /\ Call("patch") /\ jobs' = Tail(jobs)
      /\ adapter' = [adapter EXCEPT !.at = "patched", !.before = calls]
      /\ product' = product /\ macros' = macros /\ tracker' = tracker /\ relay' = relay
  BY DEF Patch, Resumed
<1>2. TypeOK'
  BY AdapterTyped DEF AdapterStep
<1> USE DEF Going
<1>3. /\ adapter'.at = "patched" /\ adapter'.then = adapter.then
      /\ adapter'.marker = adapter.marker /\ adapter.then \in {"window", "next"}
  BY <1>1 DEF TypeOK, Adapters, StageOK, Settling, Late
<1>4. "patch" \in Tasks /\ Absent("patch")
  BY <1>1, <1>3 DEF CallOK, BeforeRelay, Tasks
<1>5. /\ ScriptOK' /\ TaskOK' /\ ~Message(jobs') /\ ~Queued(jobs', "adapter")
      /\ \A u \in Tasks \ {"patch"} : (Absent(u)' <=> Absent(u)) /\ ~HasAnswer(u)'
  BY <1>1, <1>4, CallKeeps, AdapterQueue
<1>6. /\ tracker.idle = FALSE /\ tracker.activity = {} /\ relay.waiting = FALSE
      /\ "immediate" \notin macros
  BY <1>1, AdapterRuns
<1>7. StageOK'
  BY <1>3 DEF StageOK, Early
<1>8. CallOK'
  BY <1>1, <1>3, <1>5 DEF CallOK, BeforeRelay, Tasks
<1>9. WaitOK'
  BY <1>1, <1>3, <1>5, <1>6 DEF WaitOK, WaitsAt, Waits, Tasks
<1>10. OpenOK'
  BY <1>1, <1>3, <1>6 DEF OpenOK
<1>11. RestOK'
  BY <1>3 DEF RestOK
<1>12. QED
  BY <1>2, <1>5, <1>7, <1>8, <1>9, <1>10, <1>11

\* The patch has resolved.
LEMMA PatchedKeeps ==
  ASSUME Going, Patched
  PROVE  Going'
<1> DEFINE a == [adapter EXCEPT !.then = "relay", !.after = calls]
<1>1. /\ NextJob("adapter") /\ adapter.at = "patched" /\ WaitForIdle(a)
      /\ product' = product /\ running' = running /\ rest' = rest /\ macros' = macros
      /\ relay' = relay /\ calls' = calls
  BY DEF Patched, Resumed, packageVars, logVars
<1>2. a \in Adapters /\ a.marker = adapter.marker /\ a.then = "relay"
  BY DEF Going, TypeOK, Adapters
<1> HIDE DEF a
<1>3. Absent("receive")
  BY <1>1 DEF Going, StageOK, CallOK, BeforeRelay, Settling, Late, TypeOK, Adapters
<1>4. QED
  BY <1>1, <1>2, <1>3, WaitKeeps

\* The message goes back to the package, to its one channel.
LEMMA RetransmitKeeps ==
  ASSUME Going, TypeOK', NextJob("adapter"), Retransmit, result' = result,
         adapter.at \in {"relay", "inbox"}, relay.inbox # <<>>,
         product' = product, running' = running, rest' = rest, macros' = macros,
         tracker' = tracker, result = "none"
  PROVE  Going'
<1> USE DEF Going
<1>1. /\ adapter' = [adapter EXCEPT !.at = "delivered"]
      /\ jobs' = Append(Tail(jobs), Job("receive", Head(relay.inbox)))
      /\ relay'.waiting = relay.waiting
  BY DEF Retransmit, TypeOK, Relays
<1>2. /\ adapter'.at = "delivered" /\ adapter'.then = adapter.then
      /\ adapter'.marker = adapter.marker /\ adapter.then = "relay"
  BY <1>1 DEF TypeOK, Adapters, StageOK, Settling, Early
<1>3. /\ jobs \in Seq(JobSet) /\ jobs # <<>> /\ Head(jobs) = AdapterJob
      /\ running = "none" /\ Single(jobs)
      /\ tracker.idle = FALSE /\ tracker.activity = {} /\ relay.waiting = FALSE
      /\ "immediate" \notin macros /\ ~Message(jobs)
      /\ \A u \in Tasks : ~HasAnswer(u)
      /\ \A u \in Tasks : Absent(u) <=> ~Queued(jobs, u) /\ u \notin macros
  BY AdapterRuns
<1>4. ~Queued(jobs, "receive") /\ "receive" \notin macros
  BY <1>2, <1>3 DEF CallOK, Tasks
<1>5. \A u \in Tasks : u # "adapter" /\ u # "peer" /\ u # "none"
  BY DEF Tasks
<1>6. /\ Tail(jobs) \in Seq(JobSet) /\ Single(Tail(jobs)) /\ ~Queued(Tail(jobs), "adapter")
      /\ \A u \in Tasks : Queued(Tail(jobs), u) <=> Queued(jobs, u)
  BY <1>3, <1>5, JobTaken, JobsOf
<1> DEFINE job == Job("receive", Head(relay.inbox))
<1>7. job \in JobSet /\ job.to = "receive"
  <2>1. Head(relay.inbox) \in Tasks \cup {"none"} /\ "receive" \in Tasks
    BY HeadTailProperties DEF TypeOK, Relays, Tasks
  <2>2. QED
    BY <2>1, JobsOf
<1> HIDE DEF job
<1>8. /\ Single(jobs') /\ ~Queued(jobs', "adapter")
      /\ \A u \in Tasks : Queued(jobs', u) <=> Queued(jobs, u) \/ u = "receive"
  <2>1. ~Queued(Tail(jobs), job.to)
    BY <1>4, <1>6, <1>7 DEF Tasks
  <2>2. /\ \A x : Queued(jobs', x) <=> Queued(Tail(jobs), x) \/ x = job.to
        /\ Single(jobs')
    BY <1>1, <1>6, <1>7, <2>1, JobAdded DEF job
  <2>3. QED
    BY <1>6, <1>7, <2>2
<1>9. \A u \in Tasks : /\ ScriptOf(u)' = ScriptOf(u) /\ Done(u)' = Done(u)
                       /\ (Behind(u)' <=> Behind(u)) /\ (HasAnswer(u)' <=> HasAnswer(u))
  BY SameScripts
<1>10. ScriptOK'
  BY <1>9 DEF ScriptOK
<1>11. \A u \in Tasks : Absent(u)' <=> Absent(u) /\ u # "receive"
  BY <1>3, <1>5, <1>8 DEF Absent
<1>12. TaskOK'
  <2>1. \A u \in Tasks : /\ running' = u => ~Queued(jobs', u) /\ u \notin macros'
                         /\ Queued(jobs', u) => u \notin macros'
    BY <1>3, <1>4, <1>5, <1>8 DEF TaskOK
  <2>2. \A u \in Tasks : Absent(u)' => rest'[u] = <<>>
    BY <1>11 DEF TaskOK
  <2>3. \A u \in Tasks : u \in macros' => Behind(u)'
    BY <1>9 DEF TaskOK
  <2>4. QED
    BY <1>8, <2>1, <2>2, <2>3 DEF TaskOK
<1>13. StageOK'
  BY <1>2 DEF StageOK, Late
<1>14. CallOK'
  BY <1>2 DEF CallOK, BeforeRelay
<1>15. WaitOK'
  BY <1>1, <1>2, <1>3, <1>8, <1>9 DEF WaitOK, WaitsAt, Waits, Tasks
<1>16. OpenOK'
  BY <1>2, <1>3 DEF OpenOK
<1>17. RestOK'
  BY <1>2 DEF RestOK
<1>18. QED
  BY <1>10, <1>12, <1>13, <1>14, <1>15, <1>16, <1>17

\* The adapter retransmits, when there is a message or once there is one.
LEMMA RelayKeeps ==
  ASSUME Going, RetransmitOnce \/ InboxFilled, result' = result
  PROVE  Going'
<1>1. TypeOK'
  BY AdapterTyped DEF AdapterStep
<1>2. /\ NextJob("adapter") /\ adapter.at \in {"relay", "inbox"} /\ result = "none"
      /\ product' = product /\ running' = running /\ rest' = rest /\ macros' = macros
      /\ tracker' = tracker
  BY DEF RetransmitOnce, InboxFilled, Resumed, NextJob, packageVars
<1>3. CASE relay.inbox # <<>> /\ Retransmit
  BY <1>1, <1>2, <1>3, RetransmitKeeps
<1>4. ASSUME InboxFilled
      PROVE  relay.inbox # <<>> /\ Retransmit
  BY <1>2, <1>4, AdapterRuns DEF Going, OpenOK, InboxFilled, Resumed
<1>5. CASE /\ adapter.at = "relay" /\ relay' = [relay EXCEPT !.waiting = TRUE]
           /\ adapter' = [adapter EXCEPT !.at = "inbox"] /\ jobs' = Tail(jobs)
  <2> USE DEF Going
  <2>1. /\ adapter'.at = "inbox" /\ adapter'.then = adapter.then
        /\ adapter'.marker = adapter.marker /\ adapter.then = "relay"
    BY <1>5 DEF TypeOK, Adapters, StageOK, Settling, Early
  <2>2. tracker.idle = FALSE /\ tracker.activity = {} /\ "immediate" \notin macros
    BY <1>2, AdapterRuns
  <2>3. ~Queued(jobs', "adapter")
    BY <1>2, <1>5, AdapterQueue
  <2>4. StageOK'
    BY <2>1 DEF StageOK, Late
  <2>5. (\A u \in Tasks : Absent(u)' <=> Absent(u)) => CallOK'
    BY <1>5, <2>1 DEF CallOK, BeforeRelay, Tasks
  <2>6. OpenOK'
    BY <1>2, <2>1, <2>2, <2>3 DEF OpenOK
  <2>7. QED
    BY <1>1, <1>2, <1>5, <2>1, <2>2, <2>4, <2>5, <2>6, LeaveKeeps DEF Waits
<1>6. QED
  BY <1>3, <1>4, <1>5 DEF RetransmitOnce, Resumed

\* An immediate is awaited.
LEMMA AwaitImmediateKeeps ==
  ASSUME Going, AwaitImmediate
  PROVE  Going'
<1>1. /\ NextJob("adapter") /\ adapter.at = "quiet" /\ macros' = macros \cup {"immediate"}
      /\ jobs' = Tail(jobs) /\ adapter' = [adapter EXCEPT !.at = "quiescent"]
      /\ product' = product /\ running' = running /\ rest' = rest
      /\ tracker' = tracker /\ relay' = relay
  BY DEF AwaitImmediate, Resumed, packageVars
<1>2. TypeOK'
  BY AdapterTyped DEF AdapterStep
<1> USE DEF Going
<1>3. /\ adapter'.at = "quiescent" /\ adapter'.then = adapter.then
      /\ adapter'.marker = adapter.marker /\ adapter.then = "relay"
  BY <1>1 DEF TypeOK, Adapters, StageOK, Settling, Early
<1>4. tracker.idle = FALSE /\ tracker.activity = {} /\ relay.waiting = FALSE
  BY <1>1, AdapterRuns
<1>5. ~Queued(jobs', "adapter")
  BY <1>1, AdapterQueue
<1>6. StageOK'
  BY <1>3 DEF StageOK, Late
<1>7. (\A u \in Tasks : Absent(u)' <=> Absent(u)) => CallOK'
  BY <1>1, <1>3 DEF CallOK, BeforeRelay, Tasks
<1>8. OpenOK'
  BY <1>1, <1>3, <1>4, <1>5 DEF OpenOK
<1>9. \A u \in Tasks : u \in macros' <=> u \in macros
  BY <1>1 DEF Tasks
<1>10. QED
  BY <1>1, <1>2, <1>3, <1>4, <1>6, <1>7, <1>8, <1>9, LeaveKeeps DEF Waits

\* The immediate has fired: the queue ran empty, and only requests can still be open.
LEMMA QuiescentKeeps ==
  ASSUME Going, Quiescent
  PROVE  Going'
<1> DEFINE a == [adapter EXCEPT !.then = "read"]
<1>1. /\ NextJob("adapter") /\ adapter.at = "quiescent" /\ WaitForIdle(a)
      /\ product' = product /\ running' = running /\ rest' = rest /\ macros' = macros
      /\ relay' = relay /\ calls' = calls
  BY DEF Quiescent, StableIdle, Resumed, packageVars, logVars
<1>2. a \in Adapters /\ a.marker = adapter.marker /\ a.then = "read"
  BY DEF Going, TypeOK, Adapters
<1> HIDE DEF a
<1>3. \A u \in Tasks : ~Queued(jobs, u)
  BY <1>1, AdapterRuns DEF Going, OpenOK
<1>4. tracker.pending = 0 => \A u \in Tasks : rest[u] = <<>>
  BY <1>1, <1>3, NothingOpen
<1>5. QED
  BY <1>1, <1>2, <1>4, WaitKeeps

-----------------------------------------------------------------------------
(***************************************************************************)
(* The theorem.                                                            *)
(***************************************************************************)

\* Nothing of it changes unless the event loop, the package, the tracker, the relay or the
\* adapter do.
LEMMA GoingStays ==
  ASSUME Going, product' = product, loopVars' = loopVars, rest' = rest, tracker' = tracker,
         relay' = relay, calls' = calls, adapter' = adapter
  PROVE  Going'
<1> USE DEF Going
<1>1. jobs' = jobs /\ running' = running /\ macros' = macros
  BY DEF loopVars
<1>2. TypeOK'
  BY <1>1 DEF TypeOK
<1>3. \A u \in Tasks : /\ ScriptOf(u)' = ScriptOf(u) /\ Done(u)' = Done(u) /\ Left(u)' = Left(u)
                       /\ (Behind(u)' <=> Behind(u)) /\ (HasAnswer(u)' <=> HasAnswer(u))
  BY SameScripts
<1>4. ScriptOK'
  BY <1>3 DEF ScriptOK
<1>5. \A u \in Tasks : Absent(u)' <=> Absent(u)
  BY <1>1 DEF Absent
<1>6. TaskOK'
  BY <1>1, <1>3, <1>5 DEF TaskOK
<1>7. StageOK'
  BY DEF StageOK
<1>8. CallOK'
  BY <1>5 DEF CallOK, BeforeRelay, Tasks
<1>9. WaitOK'
  BY <1>1, <1>3 DEF WaitOK, WaitsAt, Tasks
<1>10. OpenOK'
  BY <1>1 DEF OpenOK
<1>11. RestOK'
  <2>1. WithinTolerance' <=> WithinTolerance
    BY DEF WithinTolerance
  <2>2. ASSUME NEW u \in Tasks, Paced(u)
        PROVE  Paced(u)'
    <3>1. CheckIn(adapter)' = CheckIn(adapter) /\ ReadIn(adapter)' = ReadIn(adapter)
      BY DEF CheckIn, ReadIn
    <3>2. Lead(u)' = Lead(u) /\ Turns(u)' = Turns(u)
      BY <1>1 DEF Lead, Turns
    <3>3. QED
      BY <1>3, <2>2, <3>1, <3>2 DEF Paced, Before, Distance
  <2>3. QED
    BY <1>1, <1>3, <2>1, <2>2 DEF RestOK
<1>12. QED
  BY <1>2, <1>4, <1>6, <1>7, <1>8, <1>9, <1>10, <1>11

\* The observation is read: what a task within tolerance has left is an await away, and it
\* is not before the adapter any more.
LEMMA ReadIsQuiet ==
  ASSUME Going, Resumed("read"), WithinTolerance, NEW u \in Tasks
  PROVE  Positions(rest[u], CacheOps \cup {"notify", "post"}) = {}
<1> SUFFICES ASSUME NEW i \in DOMAIN rest[u], rest[u][i] \in Significant
             PROVE  FALSE
  BY DEF Positions, Significant
<1> USE DEF Going
<1>1. NextJob("adapter") /\ adapter.at = "read" /\ adapter.hops = 0
  BY DEF Resumed
<1>2. adapter.then = "read"
  BY <1>1 DEF TypeOK, Adapters, StageOK, Settling, Early, Late
<1>3. /\ tracker.pending = 0 /\ Paced(u)
      /\ \A j \in Left(u) : ScriptOf(u)[j] # "idb"
  BY <1>1, <1>2, AdapterRuns DEF RestOK
<1>4. /\ i \in 1..Len(rest[u]) /\ Done(u) \in Nat /\ Len(rest[u]) \in Nat
      /\ Len(ScriptOf(u)) \in Nat
  BY ScriptPositions
<1> DEFINE j == Done(u) + i
<1>5. j \in Left(u) /\ ScriptOf(u)[j] = rest[u][i] /\ j \in Nat /\ j <= Len(ScriptOf(u))
  <2>1. j \in Left(u)
    BY <1>4, ScriptPositions
  <2>2. j - Done(u) = i
    BY <1>4
  <2>3. QED
    BY <2>1, <2>2, ScriptPositions
<1> HIDE DEF j
<1>6. Before(u, j)
  <2>1. \A k \in (Done(u) + 1)..(j - 1) : k \in Left(u)
    BY <1>4, <1>5 DEF Left
  <2>2. QED
    BY <1>3, <2>1 DEF Before
<1>7. ReadIn(adapter) = 0
  BY <1>1 DEF ReadIn
<1>8. Distance(u, j) <= ReadIn(adapter) + Lead(u)
  BY <1>3, <1>5, <1>6 DEF Paced
<1>9. Distance(u, j) > Lead(u)
  BY <1>1, <1>3, <1>5, NoTurnLeft
<1>10. Lead(u) \in Nat /\ Distance(u, j) \in Nat
  <2>1. Done(u) + 1 \in Nat
    BY <1>4
  <2>2. Cardinality(Hops(ScriptOf(u), Done(u) + 1, j)) \in Nat
    BY <1>5, <2>1, HopsOf
  <2>3. Turns(u) \in Nat /\ Lead(u) \in Nat
    BY DEF Turns, Lead
  <2>4. QED
    BY <2>2, <2>3 DEF Distance
<1>11. QED
  BY <1>7, <1>8, <1>9, <1>10

\* Nothing is open before the adapter's first step.
LEMMA InitQuiet == Init => QuietInv
<1> SUFFICES ASSUME Init PROVE QuietInv
  OBVIOUS
<1>1. TypeOK
  BY InitTypes
<1>2. /\ Queued(jobs, "adapter") /\ Single(jobs) /\ ~Message(jobs)
      /\ \A u \in Tasks : ~Queued(jobs, u)
  BY AdapterAlone DEF Init, Tasks
<1>3. \A u \in Tasks : rest[u] = <<>> /\ Len(rest[u]) = 0
  BY EmptySeq DEF Init
<1>4. \A u \in Tasks : ~HasAnswer(u)
  BY <1>3 DEF HasAnswer
<1>5. \A u \in Tasks : Absent(u)
  BY <1>2 DEF Absent, Init, Tasks
<1>6. ScriptOK
  BY <1>1, <1>3, ScriptsOf, LenProperties DEF ScriptOK, ScriptOf, Init
<1>7. TaskOK
  <2>1. macros \cap Tasks = {}
    BY DEF Init
  <2>2. Cardinality(macros \cap Tasks) = 0
    BY <2>1, OpenTasks
  <2>3. QED
    BY <1>2, <1>3, <2>2 DEF TaskOK, Init, Tasks
<1>8. StageOK
  BY DEF StageOK, Init
<1>9. CallOK
  BY <1>5 DEF CallOK, Tasks
<1>10. WaitOK
  BY <1>2, <1>4 DEF WaitOK, Init, Tasks
<1>11. OpenOK
  BY DEF OpenOK, Init
<1>12. RestOK
  BY DEF RestOK, Init
<1>13. SettledIsQuiet
  BY DEF SettledIsQuiet, Init, Verdicts
<1>14. QED
  BY <1>1, <1>6, <1>7, <1>8, <1>9, <1>10, <1>11, <1>12, <1>13 DEF QuietInv, Going

\* The adapter's step, unless it is the last one.
LEMMA AdapterKeeps ==
  ASSUME Going, AdapterStep, ~Read, result' = result
  PROVE  Going'
BY AwaitHopKeeps, StillWaitingKeeps, ObserveKeeps, CheckKeeps, MarkKeeps, SetupKeeps,
   StoredKeeps, PassingKeeps, SubscribeKeeps, SubscribedKeeps, SettleAfterKeeps,
   ActiveKeeps, PatchKeeps, PatchedKeeps, RelayKeeps, AwaitImmediateKeeps, QuiescentKeeps
   DEF AdapterStep

\* A step is taken while there is no result, and only few of them end with one.
LEMMA ResultsOf ==
  /\ PackageStep => result = "none" /\ result' = result /\ product' = product
  /\ LoopStep => result = "none" /\ product' = product /\ (RunsDry \/ result' = result)
  /\ AdapterStep => /\ result = "none" /\ product' = product
                    /\ Read \/ result' \in {result, "error"}
<1>1. PackageStep => result = "none" /\ result' = result /\ product' = product
  BY DEF PackageStep, Hop, StartRequest, SetCache, Notify, PostMessage, Resolve, Return,
         TaskEnds, ResumeTask, RequestEnds, Runs, NextJob, Idle
<1>2. LoopStep => result = "none" /\ product' = product /\ (RunsDry \/ result' = result)
  BY DEF LoopStep, PeerReceives, ProductReceives, ImmediateFires, RunsDry, NextJob, Idle
<1>3. ASSUME AdapterStep
      PROVE  result = "none" /\ product' = product /\ (Read \/ result' \in {result, "error"})
  <2> USE DEF Resumed, NextJob
  <2>1. CASE RetransmitOnce \/ InboxFilled
    BY <2>1 DEF RetransmitOnce, InboxFilled, Retransmit
  <2>2. CASE AwaitHop \/ StillWaiting \/ Observe \/ Check \/ Mark \/ Setup \/ Stored
    BY <2>2 DEF AwaitHop, StillWaiting, Observe, Check, Mark, Setup, Stored
  <2>3. CASE BeginObservationWindow \/ ClearWindow \/ NextAction \/ Subscribe \/ Subscribed
    BY <2>3 DEF BeginObservationWindow, ClearWindow, NextAction, Subscribe, Subscribed
  <2>4. CASE SettleAfter \/ Active \/ Patch \/ Patched
    BY <2>4 DEF SettleAfter, Active, Patch, Patched
  <2>5. CASE Delivered \/ AwaitImmediate \/ Quiescent \/ Read
    BY <2>5 DEF Delivered, AwaitImmediate, Quiescent, Read
  <2>6. QED
    BY <1>3, <2>1, <2>2, <2>3, <2>4, <2>5 DEF AdapterStep
<1>4. QED
  BY <1>1, <1>2, <1>3

\* Every step preserves the invariant.
LEMMA NextQuiet == QuietInv /\ [Next]_vars => QuietInv'
<1> SUFFICES ASSUME QuietInv, [Next]_vars PROVE QuietInv'
  OBVIOUS
<1>0. \A r \in {"none", "dry", "error"} : r \notin Verdicts
  BY DEF Verdicts
<1>1. ASSUME Going, Going', result' \in {"none", "dry", "error"}
      PROVE  QuietInv'
  BY <1>0, <1>1 DEF QuietInv, SettledIsQuiet
<1>2. CASE PackageStep
  <2>1. Going /\ result' = "none"
    BY <1>2, ResultsOf DEF QuietInv
  <2>2. QED
    BY <1>1, <1>2, <2>1, PackageKeeps
<1>3. CASE LoopStep
  <2>1. Going /\ result = "none" /\ (RunsDry \/ result' = "none")
    BY <1>3, ResultsOf DEF QuietInv
  <2>2. CASE RunsDry
    <3>1. Going' /\ result' = "dry"
      BY <2>1, <2>2, GoingStays DEF RunsDry, packageVars, logVars
    <3>2. QED
      BY <1>1, <2>1, <3>1
  <2>3. CASE ~RunsDry
    BY <1>1, <1>3, <2>1, <2>3, PeerReceivesKeeps, ProductReceivesKeeps, ImmediateFiresKeeps
    DEF LoopStep
  <2>4. QED
    BY <2>2, <2>3
<1>4. CASE AdapterStep
  <2>1. Going /\ result = "none" /\ product' = product /\ (Read \/ result' \in {"none", "error"})
    BY <1>4, ResultsOf DEF QuietInv
  <2>2. CASE Read
    <3>1. Resumed("read") /\ rest' = rest
      BY <2>2 DEF Read, packageVars
    <3>2. Going'
      BY <2>1, <2>2, GoingStays DEF Read, packageVars, logVars
    <3>3. WithinTolerance' => WithinTolerance
      BY <2>1 DEF WithinTolerance
    <3>4. WithinTolerance' => SettledIsQuiet'
      BY <2>1, <3>1, <3>3, ReadIsQuiet DEF SettledIsQuiet
    <3>5. QED
      BY <3>2, <3>4 DEF QuietInv
  <2>3. CASE ~Read /\ result' = "none"
    BY <1>1, <1>4, <2>1, <2>3, AdapterKeeps
  <2>4. CASE result' = "error"
    BY <1>0, <2>4 DEF QuietInv, SettledIsQuiet
  <2>5. QED
    BY <2>1, <2>2, <2>3, <2>4
<1>5. CASE UNCHANGED vars
  <2>1. /\ product' = product /\ loopVars' = loopVars /\ rest' = rest /\ tracker' = tracker
        /\ relay' = relay /\ calls' = calls /\ adapter' = adapter /\ result' = result
    BY <1>5 DEF vars, packageVars, logVars
  <2>2. result' = "none" => Going'
    BY <2>1, GoingStays DEF QuietInv
  <2>3. WithinTolerance' => WithinTolerance
    BY <2>1 DEF WithinTolerance
  <2>4. SettledIsQuiet => SettledIsQuiet'
    BY <2>1 DEF SettledIsQuiet
  <2>5. QED
    BY <2>2, <2>3, <2>4 DEF QuietInv
<1>6. QED
  BY <1>2, <1>3, <1>4, <1>5 DEF Next, Ended

\* When the environment says that the package has come to rest and the observation is
\* judged, nothing is left of it that could have changed the observation: no notification,
\* no state to come, no message.  It holds for scripts of any length, of a package that puts
\* no more awaits between two requests, or between its last request and what its subscribers
\* are told, than completeAndMark, settleAfter and the evaluator's own awaits bridge.
THEOREM SettledWithinTolerance == Spec => [](WithinTolerance => SettledIsQuiet)
<1>1. QuietInv => (WithinTolerance => SettledIsQuiet)
  BY DEF QuietInv
<1>2. QED
  BY <1>1, InitQuiet, NextQuiet, PTL DEF Spec

=============================================================================
