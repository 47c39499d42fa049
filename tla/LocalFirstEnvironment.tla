------------------------- MODULE LocalFirstEnvironment -------------------------
(***************************************************************************)
(* How a benchmark evaluator decides that the package under test, the      *)
(* local-first store, has come to rest, so that what its subscribers were  *)
(* told can be counted.  There is no delay to wait for: the tracker wraps  *)
(* fake-indexeddb and waits until no request is open and none was opened   *)
(* across two turns of the microtask queue, and the relay plays the other  *)
(* browser tab, sends the package its own message back once and waits for  *)
(* the handler (harness-v0.3/benchmark/local-first-environment.mjs).  The  *)
(* adapter drives both through one of three rows, as the interpreter E     *)
(* (local-first.mjs) or as the direct comparison D (local-first-direct.mjs)*)
(* and the oracle judges what it read (local-first-oracle.mjs).            *)
(*                                                                         *)
(* The microtask queue is modelled job by job, since what the tracker sees *)
(* depends on nothing else: `jobs` is the queue, `running` the piece of    *)
(* the package on the stack, `macros` what the event loop may run once the *)
(* queue is empty.  Every await of the harness is as many jobs here as in  *)
(* Node.  The package is external: a product is a script for each of its   *)
(* tasks, whose "hop" is one await of its own.                             *)
(***************************************************************************)
EXTENDS Naturals, Sequences, FiniteSets

CONSTANT Products  \* what the package may do: its scripts, and the row they are run in

Rows == {"history", "error", "broadcast"}
Callers == {"direct", "interpreter"}
Tasks == {"setup", "subscribe", "patch", "receive"}
CacheOps == {"right", "wrong", "error"}
Ops == CacheOps \cup {"hop", "idb", "notify", "post", "resolve", "return"}
Verdicts == {"pass", "candidate-failure"}

ASSUME ProductsAssumption ==
  Products \subseteq [row : Rows, channels : {0, 1}, script : [Tasks -> Seq(Ops)]]

\* A promise settles once: that of Storage.set or replace, of patch and of the handler.
Answers == {"resolve", "return"}
AnswersOnce(script) ==
  \A t \in Tasks : \A i \in 1..Len(script[t]) : script[t][i] \in Answers =>
    /\ script[t][i] = "resolve" => t \in {"setup", "patch"}
    /\ script[t][i] = "return" => t = "receive"
    /\ \A j \in 1..Len(script[t]) : script[t][j] \in Answers => i = j

ASSUME AnswersAssumption == \A p \in Products : AnswersOnce(p.script)

VARIABLES product, caller,        \* chosen once
          jobs, running, macros,  \* the event loop
          rest, cache,            \* the package: what its tasks have left, its cached state
          tracker,                \* createIndexedDBActivityTracker
          relay,                  \* createBroadcastPeerRelay
          calls, captured,        \* the callback log of the environment
          adapter, result         \* the evaluator, and what it ends with

loopVars == <<jobs, running, macros>>
packageVars == <<rest, cache>>
logVars == <<calls, captured>>
vars == <<product, caller, loopVars, packageVars, tracker, relay, logVars, adapter, result>>

Row == product.row
Job(to, msg) == [to |-> to, msg |-> msg]
AdapterJob == Job("adapter", "none")

Init ==
  /\ product \in Products /\ caller \in Callers
  /\ jobs = <<AdapterJob>> /\ running = "none" /\ macros = {}
  /\ rest = [t \in Tasks |-> <<>>] /\ cache = "none"
  /\ tracker = [generation |-> 0, pending |-> 0, idle |-> FALSE, activity |-> {}]
  /\ relay = [inbox |-> <<>>, posted |-> 0, retransmissions |-> 0, waiting |-> FALSE, sent |-> "none"]
  /\ calls = 0 /\ captured = "none"
  /\ adapter = [at |-> "setup", hops |-> 0, then |-> "none", observed |-> 0, marker |-> 0,
                before |-> 0, after |-> 0]
  /\ result = "none"

-----------------------------------------------------------------------------
(* The package: one operation of the task on the stack.                      *)

Runs(t, op) == /\ result = "none" /\ running = t
               /\ rest[t] # <<>> /\ Head(rest[t]) = op
               /\ rest' = [rest EXCEPT ![t] = Tail(@)]

Hop(t) ==
  /\ Runs(t, "hop")
  /\ jobs' = Append(jobs, Job(t, "none")) /\ running' = "none"
  /\ UNCHANGED <<product, caller, macros, cache, tracker, relay, logVars, adapter, result>>

\* open() or transaction(): the tracker counts it and wakes who waits for activity.
StartRequest(t) ==
  LET woken == {m \in tracker.activity : tracker.generation + 1 > m} IN
  /\ Runs(t, "idb")
  /\ tracker' = [tracker EXCEPT !.generation = @ + 1, !.pending = @ + 1,
                                !.activity = @ \ woken]
  /\ jobs' = IF woken # {} THEN Append(jobs, AdapterJob) ELSE jobs
  /\ macros' = macros \cup {t} /\ running' = "none"
  /\ UNCHANGED <<product, caller, cache, relay, logVars, adapter, result>>

SetCache(t) ==
  /\ \E op \in CacheOps : Runs(t, op) /\ cache' = op
  /\ UNCHANGED <<product, caller, loopVars, tracker, relay, logVars, adapter, result>>

\* The subscriber: it counts, and in the history row captures getCachedHistory().
Notify(t) ==
  /\ Runs(t, "notify")
  /\ calls' = calls + 1 /\ captured' = cache
  /\ UNCHANGED <<product, caller, loopVars, cache, tracker, relay, adapter, result>>

PostMessage(t) ==
  /\ Runs(t, "post")
  /\ relay' = [relay EXCEPT !.posted = @ + 1]
  /\ jobs' = Append(jobs, Job("peer", t))
  /\ UNCHANGED <<product, caller, running, macros, cache, tracker, logVars, adapter, result>>

\* The promise of Storage.set, replace or patch resolves: the adapter awaits it.
Resolve(t) ==
  /\ Runs(t, "resolve")
  /\ jobs' = Append(jobs, AdapterJob)
  /\ UNCHANGED <<product, caller, running, macros, cache, tracker, relay, logVars, adapter, result>>

\* What the message handler returned settles: the target's promise, Promise.all
\* and the await of retransmitOnce take a job each.
Return(t) ==
  /\ Runs(t, "return")
  /\ jobs' = Append(jobs, AdapterJob)
  /\ adapter' = [adapter EXCEPT !.hops = 2]
  /\ UNCHANGED <<product, caller, running, macros, cache, tracker, relay, logVars, result>>

TaskEnds(t) ==
  /\ result = "none" /\ running = t /\ rest[t] = <<>>
  /\ running' = "none"
  /\ UNCHANGED <<product, caller, jobs, macros, packageVars, tracker, relay, logVars, adapter, result>>

-----------------------------------------------------------------------------
(* The event loop.                                                           *)

NextJob(to) == result = "none" /\ running = "none" /\ jobs # <<>> /\ Head(jobs).to = to

ResumeTask(t) ==
  /\ NextJob(t) /\ Head(jobs).msg = "none"
  /\ jobs' = Tail(jobs) /\ running' = t
  /\ UNCHANGED <<product, caller, macros, packageVars, tracker, relay, logVars, adapter, result>>

PeerReceives ==
  /\ NextJob("peer")
  /\ relay' = [relay EXCEPT !.inbox = Append(@, Head(jobs).msg), !.waiting = FALSE]
  /\ jobs' = IF relay.waiting THEN Append(Tail(jobs), AdapterJob) ELSE Tail(jobs)
  /\ UNCHANGED <<product, caller, running, macros, packageVars, tracker, logVars, adapter, result>>

ProductReceives ==
  /\ NextJob("receive") /\ Head(jobs).msg # "none"
  /\ jobs' = Tail(jobs) /\ running' = "receive"
  /\ rest' = [rest EXCEPT !["receive"] = product.script["receive"]]
  /\ UNCHANGED <<product, caller, macros, cache, tracker, relay, logVars, adapter, result>>

Idle == result = "none" /\ running = "none" /\ jobs = <<>>

\* A request ends: the tracker's listener was added first, so it runs first.
RequestEnds(t) ==
  LET idle == tracker.idle /\ tracker.pending = 1 IN
  /\ Idle /\ t \in macros
  /\ macros' = macros \ {t} /\ running' = t
  /\ tracker' = [tracker EXCEPT !.pending = @ - 1, !.idle = @ /\ ~idle]
  /\ jobs' = IF idle THEN <<AdapterJob>> ELSE <<>>
  /\ UNCHANGED <<product, caller, packageVars, relay, logVars, adapter, result>>

ImmediateFires ==
  /\ Idle /\ "immediate" \in macros
  /\ macros' = macros \ {"immediate"} /\ jobs' = <<AdapterJob>>
  /\ UNCHANGED <<product, caller, running, packageVars, tracker, relay, logVars, adapter, result>>

\* Nothing is left to run and the evaluator still waits: Node ends the process
\* and there is no result.
RunsDry ==
  /\ Idle /\ macros = {}
  /\ result' = "dry"
  /\ UNCHANGED <<product, caller, loopVars, packageVars, tracker, relay, logVars, adapter>>

-----------------------------------------------------------------------------
(* The adapter: what it does between two of its awaits.                      *)

Resumed(at) == NextJob("adapter") /\ adapter.hops = 0 /\ adapter.at = at

\* n jobs from now the adapter goes on at `at`.
Later(a, at, n) == /\ adapter' = [a EXCEPT !.at = at, !.hops = n - 1]
                   /\ jobs' = Append(Tail(jobs), AdapterJob)

AwaitHop ==
  /\ NextJob("adapter") /\ adapter.hops > 0
  /\ adapter' = [adapter EXCEPT !.hops = @ - 1]
  /\ jobs' = Append(Tail(jobs), AdapterJob)
  /\ UNCHANGED <<product, caller, running, macros, packageVars, tracker, relay, logVars, result>>

\* Call the package: its task runs at once, up to its first await.
Call(t) == /\ running' = t
           /\ rest' = [rest EXCEPT ![t] = product.script[t]]

\* waitForIdle, called or resumed.
WaitForIdle(a) ==
  \/ /\ tracker.pending # 0
     /\ tracker' = [tracker EXCEPT !.idle = TRUE]
     /\ adapter' = [a EXCEPT !.at = "idle"] /\ jobs' = Tail(jobs)
  \/ /\ tracker.pending = 0
     /\ Later(a, "observing", 1) /\ UNCHANGED tracker

StableIdle(then) == WaitForIdle([adapter EXCEPT !.then = then])

StillWaiting ==
  /\ Resumed("idle") /\ WaitForIdle(adapter)
  /\ UNCHANGED <<product, caller, running, macros, packageVars, relay, logVars, result>>

\* Plausible bug: one turn of the queue is taken for a rest.
ObserveOneTurn ==
  /\ Resumed("observing")
  /\ Later([adapter EXCEPT !.observed = tracker.generation], "checking", 1)
  /\ UNCHANGED <<product, caller, running, macros, packageVars, tracker, relay, logVars, result>>

Observe ==
  /\ Resumed("observing")
  /\ Later([adapter EXCEPT !.observed = tracker.generation], "checking", 2)
  /\ UNCHANGED <<product, caller, running, macros, packageVars, tracker, relay, logVars, result>>

\* Plausible bug: the generation is compared with the marker of the last rest.
StableSinceTheMarker == tracker.pending = 0 /\ tracker.generation = adapter.marker

Stable == tracker.pending = 0 /\ tracker.generation = adapter.observed

Check ==
  /\ Resumed("checking")
  /\ \/ Stable /\ Later(adapter, "marking", 1) /\ UNCHANGED tracker
     \/ ~Stable /\ WaitForIdle(adapter)
  /\ UNCHANGED <<product, caller, running, macros, packageVars, relay, logVars, result>>

\* completeAndMark or settleAfter returns the generation, the environment stores
\* it and the adapter goes on; through the relay it passes one promise more.
Mark ==
  /\ Resumed("marking")
  /\ Later([adapter EXCEPT !.marker = tracker.generation], adapter.then,
           IF adapter.then = "read" /\ Row = "broadcast" THEN 3 ELSE 2)
  /\ UNCHANGED <<product, caller, running, macros, packageVars, tracker, relay, logVars, result>>

Setup ==
  /\ Resumed("setup")
  /\ Call("setup") /\ jobs' = Tail(jobs)
  /\ adapter' = [adapter EXCEPT !.at = "stored"]
  /\ UNCHANGED <<product, caller, macros, cache, tracker, relay, logVars, result>>

Stored ==
  /\ Resumed("stored")
  /\ StableIdle(IF Row = "broadcast" THEN "window" ELSE "next")
  /\ UNCHANGED <<product, caller, running, macros, packageVars, relay, logVars, result>>

BeginObservationWindow ==
  /\ Resumed("window") /\ Later(adapter, "clear", 1)
  /\ UNCHANGED <<product, caller, running, macros, packageVars, tracker, relay, logVars, result>>

ClearWindow ==
  /\ Resumed("clear")
  /\ relay' = [relay EXCEPT !.inbox = <<>>, !.posted = 0, !.retransmissions = 0]
  /\ Later(adapter, "next", 1)
  /\ UNCHANGED <<product, caller, running, macros, packageVars, tracker, logVars, result>>

\* The end of an action.  executePlan takes three jobs to the next one: its await,
\* the one of the schedule controls and contextFor; the comparison takes none.
BetweenActions(at, goesOn) ==
  \/ caller = "interpreter" /\ Later(adapter, at, 3) /\ UNCHANGED <<running, rest>>
  \/ caller = "direct" /\ goesOn

\* The adapter goes on before any job when subscribe() has returned.
CallSubscribe ==
  /\ Call("subscribe")
  /\ jobs' = <<AdapterJob>> \o Tail(jobs)
  /\ adapter' = [adapter EXCEPT !.at = "subscribed"]

NextAction ==
  /\ Resumed("next") /\ BetweenActions("subscribe", CallSubscribe)
  /\ UNCHANGED <<product, caller, macros, cache, tracker, relay, logVars, result>>

Subscribe ==
  /\ Resumed("subscribe") /\ CallSubscribe
  /\ UNCHANGED <<product, caller, macros, cache, tracker, relay, logVars, result>>

Subscribed ==
  /\ Resumed("subscribed")
  /\ BetweenActions("observe", /\ jobs' = jobs /\ UNCHANGED <<running, rest>>
                               /\ adapter' = [adapter EXCEPT !.at = "observe"])
  /\ UNCHANGED <<product, caller, macros, cache, tracker, relay, logVars, result>>

SettleAfter ==
  /\ Resumed("observe") /\ Row # "broadcast"
  /\ \/ /\ tracker.generation <= adapter.marker
        /\ tracker' = [tracker EXCEPT !.activity = @ \cup {adapter.marker}]
        /\ adapter' = [adapter EXCEPT !.at = "active"] /\ jobs' = Tail(jobs)
     \/ tracker.generation > adapter.marker /\ StableIdle("read")
  /\ UNCHANGED <<product, caller, running, macros, packageVars, relay, logVars, result>>

Active ==
  /\ Resumed("active") /\ StableIdle("read")
  /\ UNCHANGED <<product, caller, running, macros, packageVars, relay, logVars, result>>

Patch ==
  /\ Resumed("observe") /\ Row = "broadcast"
  /\ Call("patch") /\ jobs' = Tail(jobs)
  /\ adapter' = [adapter EXCEPT !.at = "patched", !.before = calls]
  /\ UNCHANGED <<product, caller, macros, cache, tracker, relay, logVars, result>>

Patched ==
  /\ Resumed("patched")
  /\ WaitForIdle([adapter EXCEPT !.then = "relay", !.after = calls])
  /\ UNCHANGED <<product, caller, running, macros, packageVars, relay, logVars, result>>

\* retransmitOnce with a message in the inbox: dispatched to the package's channel.
Retransmit ==
  /\ relay' = [relay EXCEPT !.inbox = Tail(@), !.retransmissions = @ + 1, !.sent = Head(relay.inbox)]
  /\ adapter' = [adapter EXCEPT !.at = "delivered"]
  /\ \/ /\ product.channels = 1
        /\ jobs' = Append(Tail(jobs), Job("receive", Head(relay.inbox)))
        /\ UNCHANGED result
     \/ product.channels = 0 /\ jobs' = Tail(jobs) /\ result' = "error"

RetransmitOnce ==
  /\ Resumed("relay")
  /\ \/ relay.inbox # <<>> /\ Retransmit
     \/ /\ relay.inbox = <<>>
        /\ relay' = [relay EXCEPT !.waiting = TRUE]
        /\ adapter' = [adapter EXCEPT !.at = "inbox"] /\ jobs' = Tail(jobs)
        /\ UNCHANGED result
  /\ UNCHANGED <<product, caller, running, macros, packageVars, tracker, logVars>>

InboxFilled ==
  /\ Resumed("inbox") /\ Retransmit
  /\ UNCHANGED <<product, caller, running, macros, packageVars, tracker, logVars>>

Delivered ==
  /\ Resumed("delivered") /\ Later(adapter, "quiet", 1)
  /\ UNCHANGED <<product, caller, running, macros, packageVars, tracker, relay, logVars, result>>

AwaitImmediate ==
  /\ Resumed("quiet")
  /\ macros' = macros \cup {"immediate"} /\ jobs' = Tail(jobs)
  /\ adapter' = [adapter EXCEPT !.at = "quiescent"]
  /\ UNCHANGED <<product, caller, running, packageVars, tracker, relay, logVars, result>>

Quiescent ==
  /\ Resumed("quiescent") /\ StableIdle("read")
  /\ UNCHANGED <<product, caller, running, macros, packageVars, relay, logVars, result>>

-----------------------------------------------------------------------------
(* The observation and its oracle.                                           *)

Judged(passes) == IF passes THEN "pass" ELSE "candidate-failure"

\* Plausible bug: the callbacks of the relayed message are counted from the start.
SelfBroadcastPassInTotal ==
  /\ calls - adapter.before = 1
  /\ relay.posted = 1
  /\ relay.retransmissions = 1

SelfBroadcastPass ==
  /\ adapter.after - adapter.before = 1
  /\ calls - adapter.after = 0
  /\ relay.posted = 1
  /\ relay.retransmissions = 1

Judgement ==
  CASE Row = "history" /\ captured \notin {"right", "wrong"} -> "error"
    [] Row = "history" /\ captured \in {"right", "wrong"} -> Judged(captured = "right")
    [] Row = "error" -> Judged(calls >= 1 /\ cache = "error")
    [] Row = "broadcast" -> Judged(SelfBroadcastPass)

Read ==
  /\ Resumed("read") /\ result' = Judgement
  /\ UNCHANGED <<product, caller, loopVars, packageVars, tracker, relay, logVars, adapter>>

PackageStep == \E t \in Tasks :
  Hop(t) \/ StartRequest(t) \/ SetCache(t) \/ Notify(t) \/ PostMessage(t) \/ Resolve(t)
         \/ Return(t) \/ TaskEnds(t) \/ ResumeTask(t) \/ RequestEnds(t)

LoopStep == PeerReceives \/ ProductReceives \/ ImmediateFires \/ RunsDry

AdapterStep ==
  \/ AwaitHop \/ StillWaiting \/ Observe \/ Check \/ Mark
  \/ Setup \/ Stored \/ BeginObservationWindow \/ ClearWindow \/ NextAction \/ Subscribe
  \/ Subscribed \/ SettleAfter \/ Active \/ Patch \/ Patched \/ RetransmitOnce \/ InboxFilled
  \/ Delivered \/ AwaitImmediate \/ Quiescent \/ Read

Ended == result # "none" /\ UNCHANGED vars

Next == PackageStep \/ LoopStep \/ AdapterStep \/ Ended

\* Node's event loop runs whatever there is to run.
Spec == Init /\ [][Next]_vars /\ WF_vars(PackageStep \/ LoopStep \/ AdapterStep)

-----------------------------------------------------------------------------
(* What must hold.                                                           *)

Positions(s, ops) == {i \in DOMAIN s : s[i] \in ops}
Latest(s, ops, default) ==
  IF Positions(s, ops) = {} THEN default
  ELSE s[CHOOSE i \in Positions(s, ops) : \A j \in Positions(s, ops) : j <= i]
Times(s, op) == Len(SelectSeq(s, LAMBDA o : o = op))

\* What the oracle is after, read off the scripts: the last notification of what was
\* read showed the right state or the error, a patch is announced once and not reloaded.
Told(s) ==
  LET last == CHOOSE i \in Positions(s, {"notify"}) : \A j \in Positions(s, {"notify"}) : j <= i
  IN  IF Positions(s, {"notify"}) = {} THEN "none" ELSE Latest(SubSeq(s, 1, last), CacheOps, "none")

Reads(s) == Positions(s, {"idb"}) # {}

Conforms ==
  CASE Row = "history" -> Reads(product.script["subscribe"]) /\ Told(product.script["subscribe"]) = "right"
    [] Row = "error" -> Reads(product.script["subscribe"]) /\ Told(product.script["subscribe"]) = "error"
    [] Row = "broadcast" -> /\ product.channels = 1
                            /\ Times(product.script["patch"], "notify") = 1
                            /\ Times(product.script["patch"], "post") = 1
                            /\ Times(product.script["receive"], "notify") = 0

\* A verdict is true of the package: it passes if and only if the package does what
\* the row is about, and a package that does it is never lost to an error or to an
\* evaluator that waits for what never comes.
VerdictIsTheProducts ==
  /\ result \in Verdicts => (result = "pass" <=> Conforms)
  /\ Conforms => result \in {"none", "pass"}

\* When the observation is read nothing of the package is left that could still
\* change it: no notification, no state to come, no message of its own.
SettledIsQuiet ==
  result \in Verdicts =>
    \A t \in Tasks : Positions(rest[t], CacheOps \cup {"notify", "post"}) = {}

\* The scenario ends, with a result or without one: every wait of the tracker and
\* of the relay is woken by what it waits for, or the process runs dry.
ScenarioEnds == <>(result # "none")

=============================================================================
