--------------------------- MODULE MeasurementProofs ---------------------------
(***************************************************************************)
(* MeasurementProofs: the theorems of Measurement.  First the order of the *)
(* cases and what it means to take the first ones, then the schedules as   *)
(* functions of the cases and the rows, then the inductive invariant; and  *)
(* of Scorer, which reads a measurement that is over.                      *)
(***************************************************************************)
EXTENDS Scorer, Histories, FiniteSetTheorems

-----------------------------------------------------------------------------
\* The order of the cases.

\* A finite set of cases that are told apart by their coordinates.
SetOfCases(S) ==
  /\ IsFiniteSet(S)
  /\ \A c \in S : /\ \E a \in 1..Len(Arms) : c.arm = Arms[a]
                  /\ c.module \in Nat /\ c.input \in Nat /\ c.truth \in Nat
  /\ \A c1, c2 \in S :
       c1.arm = c2.arm /\ c1.module = c2.module /\ c1.input = c2.input /\ c1.truth = c2.truth
         => c1 = c2

Rank(S, c) == Cardinality({other \in S : Before(other, c)})

\* The first m cases of a set.
First(S, m) == {c \in S : Rank(S, c) < m}

\* An arm is one of the seven and known by its index.
LEMMA ArmsAreIndexed ==
  /\ Len(Arms) = 7
  /\ \A a \in 1..7 : ArmIndex(Arms[a]) = a
<1>1. Len(Arms) = 7
  BY DEF Arms
<1>2. \A a, b \in 1..7 : Arms[a] = Arms[b] => a = b
  <2> SUFFICES ASSUME NEW a \in 1..7, NEW b \in 1..7, Arms[a] = Arms[b] PROVE a = b
    OBVIOUS
  <2>1. /\ a = 1 \/ a = 2 \/ a = 3 \/ a = 4 \/ a = 5 \/ a = 6 \/ a = 7
        /\ b = 1 \/ b = 2 \/ b = 3 \/ b = 4 \/ b = 5 \/ b = 6 \/ b = 7
    OBVIOUS
  <2>2. /\ Arms[1] = "G" /\ Arms[2] = "P" /\ Arms[3] = "A" /\ Arms[4] = "B"
        /\ Arms[5] = "C" /\ Arms[6] = "D" /\ Arms[7] = "E"
    BY DEF Arms
  <2>3. QED
    BY <2>1, <2>2
<1>3. QED
  BY <1>1, <1>2 DEF ArmIndex

\* Before is the lexicographic order of the coordinates.
LEMMA BeforeIsLexicographic ==
  ASSUME NEW c1, NEW c2
  PROVE  Before(c1, c2) <=>
           \/ ArmIndex(c1.arm) < ArmIndex(c2.arm)
           \/ /\ ArmIndex(c1.arm) = ArmIndex(c2.arm)
              /\ \/ c1.module < c2.module
                 \/ /\ c1.module = c2.module
                    /\ \/ c1.input < c2.input
                       \/ c1.input = c2.input /\ c1.truth < c2.truth
<1> DEFINE keys(c) == <<ArmIndex(c.arm), c.module, c.input, c.truth>>
           Step(k) == keys(c1)[k] < keys(c2)[k] /\ \A l \in 1..(k - 1) : keys(c1)[l] = keys(c2)[l]
<1>1. Before(c1, c2) <=> \E k \in 1..4 : Step(k)
  BY DEF Before
<1>2. (\E k \in 1..4 : Step(k)) <=> (Step(1) \/ Step(2) \/ Step(3) \/ Step(4))
  <2> HIDE DEF Step
  <2>1. \A k : k \in 1..4 <=> (k = 1 \/ k = 2 \/ k = 3 \/ k = 4)
    OBVIOUS
  <2>2. QED
    BY <2>1
<1>3. \A c : /\ keys(c)[1] = ArmIndex(c.arm) /\ keys(c)[2] = c.module
             /\ keys(c)[3] = c.input /\ keys(c)[4] = c.truth
  OBVIOUS
<1>4. /\ Step(1) <=> keys(c1)[1] < keys(c2)[1]
      /\ Step(2) <=> keys(c1)[2] < keys(c2)[2] /\ keys(c1)[1] = keys(c2)[1]
      /\ Step(3) <=> keys(c1)[3] < keys(c2)[3] /\ keys(c1)[1] = keys(c2)[1] /\ keys(c1)[2] = keys(c2)[2]
      /\ Step(4) <=> /\ keys(c1)[4] < keys(c2)[4] /\ keys(c1)[1] = keys(c2)[1]
                     /\ keys(c1)[2] = keys(c2)[2] /\ keys(c1)[3] = keys(c2)[3]
  <2> HIDE DEF keys
  <2>1. /\ \A l : ~(l \in 1..0)
        /\ \A l : l \in 1..1 <=> l = 1
        /\ \A l : l \in 1..2 <=> l = 1 \/ l = 2
        /\ \A l : l \in 1..3 <=> l = 1 \/ l = 2 \/ l = 3
    OBVIOUS
  <2>2. 1 - 1 = 0 /\ 2 - 1 = 1 /\ 3 - 1 = 2 /\ 4 - 1 = 3
    OBVIOUS
  <2>3. QED
    BY <2>1, <2>2
<1>5. QED
  <2> HIDE DEF Step, keys
  <2>1. QED
    BY <1>1, <1>2, <1>3, <1>4

\* Before is a strict total order of a set of cases.
LEMMA BeforeIsAnOrder ==
  ASSUME NEW S, SetOfCases(S)
  PROVE  /\ \A c \in S : ~Before(c, c)
         /\ \A c1, c2, c3 \in S : Before(c1, c2) /\ Before(c2, c3) => Before(c1, c3)
         /\ \A c1, c2 \in S : c1 = c2 \/ Before(c1, c2) \/ Before(c2, c1)
<1>1. \A c \in S : /\ ArmIndex(c.arm) \in Nat
                   /\ c.module \in Nat /\ c.input \in Nat /\ c.truth \in Nat
                   /\ c.arm = Arms[ArmIndex(c.arm)]
  BY ArmsAreIndexed DEF SetOfCases
<1>2. \A c1, c2 \in S :
        ArmIndex(c1.arm) = ArmIndex(c2.arm) /\ c1.module = c2.module
          /\ c1.input = c2.input /\ c1.truth = c2.truth => c1 = c2
  <2> SUFFICES ASSUME NEW c1 \in S, NEW c2 \in S, ArmIndex(c1.arm) = ArmIndex(c2.arm),
                      c1.module = c2.module, c1.input = c2.input, c1.truth = c2.truth
               PROVE  c1 = c2
    OBVIOUS
  <2>1. c1.arm = c2.arm
    BY <1>1
  <2>2. QED
    BY <2>1 DEF SetOfCases
<1>3. QED
  BY <1>1, <1>2, BeforeIsLexicographic

\* A part of a set of cases is a set of cases.
LEMMA PartOfCases ==
  ASSUME NEW S, SetOfCases(S), NEW T \in SUBSET S
  PROVE  SetOfCases(T)
<1>1. IsFiniteSet(T)
  BY FS_Subset DEF SetOfCases
<1>2. QED
  BY <1>1 DEF SetOfCases

\* The rank of a case is below the number of cases, and grows with the order.
LEMMA RankGrows ==
  ASSUME NEW S, SetOfCases(S)
  PROVE  /\ Cardinality(S) \in Nat
         /\ \A c \in S : Rank(S, c) \in 0..(Cardinality(S) - 1)
         /\ \A c1, c2 \in S : Before(c1, c2) <=> Rank(S, c1) < Rank(S, c2)
         /\ \A c1, c2 \in S : Rank(S, c1) = Rank(S, c2) => c1 = c2
<1> DEFINE Earlier(c) == {other \in S : Before(other, c)}
<1>1. IsFiniteSet(S) /\ Cardinality(S) \in Nat
  BY FS_CardinalityType DEF SetOfCases
<1>2. \A c \in S : /\ Earlier(c) \in SUBSET S
                   /\ IsFiniteSet(Earlier(c))
                   /\ Cardinality(Earlier(c)) \in Nat
                   /\ Cardinality(Earlier(c)) <= Cardinality(S)
  BY <1>1, FS_Subset, FS_CardinalityType
<1>3. \A c \in S : Rank(S, c) = Cardinality(Earlier(c))
  BY DEF Rank
<1>4. \A c \in S : Rank(S, c) \in 0..(Cardinality(S) - 1)
  <2> SUFFICES ASSUME NEW c \in S PROVE Cardinality(Earlier(c)) \in 0..(Cardinality(S) - 1)
    BY <1>3
  <2>1. c \notin Earlier(c)
    BY BeforeIsAnOrder
  <2>2. Cardinality(Earlier(c)) # Cardinality(S)
    BY <1>1, <1>2, <2>1, FS_Subset
  <2>3. QED
    BY <1>1, <1>2, <2>2
<1>5. \A c1, c2 \in S : Before(c1, c2) => Rank(S, c1) < Rank(S, c2)
  <2> SUFFICES ASSUME NEW c1 \in S, NEW c2 \in S, Before(c1, c2)
               PROVE  Cardinality(Earlier(c1)) < Cardinality(Earlier(c2))
    BY <1>3
  <2>1. Earlier(c1) \in SUBSET Earlier(c2)
    BY BeforeIsAnOrder
  <2>2. c1 \in Earlier(c2) /\ c1 \notin Earlier(c1)
    BY BeforeIsAnOrder
  <2>3. Cardinality(Earlier(c1)) <= Cardinality(Earlier(c2))
        /\ Cardinality(Earlier(c1)) # Cardinality(Earlier(c2))
    BY <1>2, <2>1, <2>2, FS_Subset
  <2>4. QED
    BY <1>2, <2>3
<1>6. \A c1, c2 \in S : c1 = c2 \/ Before(c1, c2) \/ Before(c2, c1)
  BY BeforeIsAnOrder
<1>7. QED
  BY <1>1, <1>4, <1>5, <1>6

\* Every rank is taken.
LEMMA RanksAreTaken ==
  ASSUME NEW S, SetOfCases(S)
  PROVE  \A k \in 0..(Cardinality(S) - 1) : \E c \in S : Rank(S, c) = k
<1> DEFINE f == [c \in S |-> Rank(S, c)]
           K == 0..(Cardinality(S) - 1)
<1>1. IsFiniteSet(S) /\ Cardinality(S) \in Nat
  BY FS_CardinalityType DEF SetOfCases
<1>2. IsFiniteSet(K) /\ Cardinality(K) = Cardinality(S)
  BY <1>1, FS_Interval
<1>3. f \in Injection(S, K)
  BY RankGrows DEF Injection, IsInjective
<1>4. f \in Surjection(S, K)
  BY <1>2, <1>3, FS_Injection
<1>5. QED
  BY <1>4 DEF Surjection

\* Ordered is the enumeration of a set by rank.
LEMMA OrderedByRank ==
  ASSUME NEW S, SetOfCases(S)
  PROVE  /\ Len(Ordered(S)) = Cardinality(S)
         /\ \A n \in 1..Cardinality(S) : Ordered(S)[n] \in S /\ Rank(S, Ordered(S)[n]) = n - 1
         /\ \A c \in S : Ordered(S)[Rank(S, c) + 1] = c
<1>1. Cardinality(S) \in Nat
  BY RankGrows
<1>2. Ordered(S) = [n \in 1..Cardinality(S) |-> CHOOSE c \in S : Rank(S, c) = n - 1]
  BY DEF Ordered, Rank
<1>3. \A n \in 1..Cardinality(S) : Ordered(S)[n] \in S /\ Rank(S, Ordered(S)[n]) = n - 1
  <2> SUFFICES ASSUME NEW n \in 1..Cardinality(S)
               PROVE  Ordered(S)[n] \in S /\ Rank(S, Ordered(S)[n]) = n - 1
    OBVIOUS
  <2>1. n - 1 \in 0..(Cardinality(S) - 1)
    BY <1>1
  <2>2. \E c \in S : Rank(S, c) = n - 1
    BY <2>1, RanksAreTaken
  <2>3. Ordered(S)[n] = CHOOSE c \in S : Rank(S, c) = n - 1
    BY <1>2
  <2>4. QED
    BY <2>2, <2>3
<1>4. Len(Ordered(S)) = Cardinality(S)
  BY <1>1, <1>2, LenProperties, SeqDef
<1>5. \A c \in S : Ordered(S)[Rank(S, c) + 1] = c
  <2> SUFFICES ASSUME NEW c \in S PROVE Ordered(S)[Rank(S, c) + 1] = c
    OBVIOUS
  <2>1. Rank(S, c) + 1 \in 1..Cardinality(S) /\ (Rank(S, c) + 1) - 1 = Rank(S, c)
    BY <1>1, RankGrows
  <2>2. QED
    BY <1>3, <2>1, RankGrows
<1>6. QED
  BY <1>3, <1>4, <1>5

\* A set of cases that is not empty has a first one.
LEMMA FirstCase ==
  ASSUME NEW S, SetOfCases(S), S # {}
  PROVE  \E c \in S : \A other \in S : other = c \/ Before(c, other)
<1>1. IsFiniteSet(S) /\ Cardinality(S) \in Nat /\ Cardinality(S) # 0
  BY FS_CardinalityType, FS_EmptySet DEF SetOfCases
<1>2. PICK c \in S : Rank(S, c) = 0
  BY <1>1, RanksAreTaken
<1>3. \A other \in S : ~(Rank(S, other) < Rank(S, c))
  BY <1>2, RankGrows
<1>4. QED
  BY <1>3, RankGrows, BeforeIsAnOrder

\* The first m cases are at most m; when they leave a case out, they are m and all of
\* them come before it.
LEMMA FirstCases ==
  ASSUME NEW S, SetOfCases(S), NEW m \in Nat
  PROVE  /\ IsFiniteSet(First(S, m))
         /\ Cardinality(First(S, m)) <= m
         /\ \A c \in S \ First(S, m) :
              /\ Cardinality(First(S, m)) = m
              /\ \A other \in First(S, m) : Before(other, c)
<1> DEFINE Q == First(S, m)
           K == 0..(m - 1)
           f == [c \in Q |-> Rank(S, c)]
<1>1. Q \in SUBSET S /\ IsFiniteSet(Q)
  BY FS_Subset DEF SetOfCases, First
<1>2. IsFiniteSet(K) /\ Cardinality(K) = m
  BY FS_Interval
<1>3. f \in Injection(Q, K)
  <2>1. \A c \in Q : Rank(S, c) \in K
    BY RankGrows DEF First
  <2>2. \A c1, c2 \in Q : Rank(S, c1) = Rank(S, c2) => c1 = c2
    BY <1>1, RankGrows
  <2>3. QED
    BY <2>1, <2>2 DEF Injection, IsInjective
<1>4. Cardinality(Q) <= m
  BY <1>2, <1>3, FS_Injection
<1>5. ASSUME NEW c \in S \ Q
      PROVE  Cardinality(Q) = m /\ \A other \in Q : Before(other, c)
  <2>1. Rank(S, c) \in 0..(Cardinality(S) - 1) /\ ~(Rank(S, c) < m) /\ Cardinality(S) \in Nat
    BY RankGrows DEF First
  <2>2. \A k \in K : \E other \in Q : Rank(S, other) = k
    <3> SUFFICES ASSUME NEW k \in K PROVE \E other \in Q : Rank(S, other) = k
      OBVIOUS
    <3>1. k \in 0..(Cardinality(S) - 1) /\ k < m
      BY <2>1
    <3>2. QED
      BY <3>1, RanksAreTaken DEF First
  <2>3. f \in Surjection(Q, K)
    BY <1>3, <2>2 DEF Injection, Surjection
  <2>4. Cardinality(Q) = m
    BY <1>2, <1>3, <2>3, FS_Injection
  <2>5. \A other \in Q : Before(other, c)
    <3> SUFFICES ASSUME NEW other \in Q PROVE Before(other, c)
      OBVIOUS
    <3>1. other \in S /\ Rank(S, other) < m
      BY DEF First
    <3>2. Rank(S, other) < Rank(S, c)
      BY <2>1, <3>1, RankGrows
    <3>3. QED
      BY <3>1, <3>2, RankGrows
  <2>6. QED
    BY <2>4, <2>5
<1>6. QED
  BY <1>1, <1>4, <1>5

-----------------------------------------------------------------------------
\* The selection of an arm.

FirstOfGroups(raw) ==
  {c \in raw : \A other \in raw : Before(other, c) => other.duplicateGroup # c.duplicateGroup}

SelectedOf(raw) == First(FirstOfGroups(raw), candidateMaximumPerArm)

\* The selected candidates are at most the quota, no two of a duplicate group, and who is
\* passed over has a twin among them or comes after a full quota.
LEMMA SelectionIsTheFirst ==
  ASSUME NEW raw, SetOfCases(raw)
  PROVE  /\ SelectedOf(raw) \subseteq raw
         /\ IsFiniteSet(SelectedOf(raw))
         /\ Cardinality(SelectedOf(raw)) <= candidateMaximumPerArm
         /\ \A c1, c2 \in SelectedOf(raw) : c1.duplicateGroup = c2.duplicateGroup => c1 = c2
         /\ \A c \in raw \ SelectedOf(raw) :
              \/ \E twin \in SelectedOf(raw) :
                   twin.duplicateGroup = c.duplicateGroup /\ Before(twin, c)
              \/ /\ Cardinality(SelectedOf(raw)) = candidateMaximumPerArm
                 /\ \A other \in SelectedOf(raw) : Before(other, c)
<1> DEFINE firsts == FirstOfGroups(raw)
           chosen == SelectedOf(raw)
<1>1. firsts \in SUBSET raw /\ SetOfCases(firsts) /\ candidateMaximumPerArm \in Nat
  BY PartOfCases, MeasurementAssumption DEF FirstOfGroups
<1>2. /\ IsFiniteSet(chosen) /\ Cardinality(chosen) <= candidateMaximumPerArm
      /\ \A c \in firsts \ chosen :
           /\ Cardinality(chosen) = candidateMaximumPerArm
           /\ \A other \in chosen : Before(other, c)
  BY <1>1, FirstCases DEF SelectedOf
<1>3. chosen \subseteq firsts
  BY DEF SelectedOf, First
<1>4. \A c1, c2 \in chosen : c1.duplicateGroup = c2.duplicateGroup => c1 = c2
  BY <1>3, BeforeIsAnOrder DEF FirstOfGroups
<1>5. ASSUME NEW c \in raw \ chosen
      PROVE  \/ \E twin \in chosen : twin.duplicateGroup = c.duplicateGroup /\ Before(twin, c)
             \/ /\ Cardinality(chosen) = candidateMaximumPerArm
                /\ \A other \in chosen : Before(other, c)
  <2> DEFINE group == {other \in raw : other.duplicateGroup = c.duplicateGroup}
  <2>1. CASE c \in firsts
    BY <1>2, <2>1
  <2>2. CASE c \notin firsts
    <3>1. group \in SUBSET raw /\ SetOfCases(group) /\ group # {}
      BY PartOfCases
    <3>2. PICK t \in group : \A other \in group : other = t \/ Before(t, other)
      BY <3>1, FirstCase
    <3>3. \A other \in raw : Before(other, t) => other.duplicateGroup # t.duplicateGroup
      <4> SUFFICES ASSUME NEW other \in raw, Before(other, t), other.duplicateGroup = t.duplicateGroup
                   PROVE  FALSE
        OBVIOUS
      <4>1. other \in group
        OBVIOUS
      <4>2. Before(t, t)
        BY <3>1, <3>2, <4>1, BeforeIsAnOrder
      <4>3. QED
        BY <3>1, <4>2, BeforeIsAnOrder
    <3>4. t \in firsts /\ t # c
      BY <2>2, <3>3 DEF FirstOfGroups
    <3>5. Before(t, c)
      BY <3>2, <3>4
    <3>6. CASE t \in chosen
      BY <3>5, <3>6
    <3>7. CASE t \notin chosen
      <4>1. Cardinality(chosen) = candidateMaximumPerArm /\ \A other \in chosen : Before(other, t)
        BY <1>2, <3>4, <3>7
      <4>2. \A other \in chosen : Before(other, c)
        BY <1>1, <1>3, <3>5, <4>1, BeforeIsAnOrder
      <4>3. QED
        BY <4>1, <4>2
    <3>8. QED
      BY <3>6, <3>7
  <2>3. QED
    BY <2>1, <2>2
<1>6. QED
  BY <1>1, <1>2, <1>3, <1>4, <1>5

-----------------------------------------------------------------------------
\* The schedules, as functions of the cases and the rows.

InitialPosition(cs, c, role) == 2 * Rank(cs, c) + (IF role = "clean" THEN 1 ELSE 2)

RawOf(cs, rs, arm) ==
  {c \in cs :
     /\ c.arm = arm
     /\ rs[InitialPosition(cs, c, "single-patch-defect")].outcome = "violation"
     /\ rs[InitialPosition(cs, c, "clean")].outcome = "pass"}

RetentionOf(cs) == {c \in cs : c.arm = "E"}
ReplayedOf(cs) == {c \in cs : c.arm \in GenerationArms} \cup RetentionOf(cs)
CandidatesOf(cs, rs) ==
  (UNION {SelectedOf(RawOf(cs, rs, arm)) : arm \in GenerationArms}) \cup RetentionOf(cs)

ReplayPosition(cs, c, run) == separateRuns * Rank(ReplayedOf(cs), c) + run

ReplayScheduleOf(cs, rs) ==
  LET ordered == Ordered(ReplayedOf(cs))
  IN [n \in 1..(separateRuns * Len(ordered)) |->
        LET c == ordered[((n - 1) \div separateRuns) + 1]
        IN [case |-> c, role |-> "single-patch-defect", phase |-> "replay",
            replayIndex |-> ((n - 1) % separateRuns) + 1,
            selected |-> c \in CandidatesOf(cs, rs)]]

\* The two sequences of a schedule, one after the other.
LEMMA Joined ==
  ASSUME NEW s, NEW t, History(s), History(t)
  PROVE  /\ Len(s) \in Nat /\ Len(t) \in Nat
         /\ Len(s \o t) = Len(s) + Len(t)
         /\ \A k \in 1..Len(s) : (s \o t)[k] = s[k]
         /\ \A k \in 1..Len(t) : (s \o t)[Len(s) + k] = t[k]
<1> DEFINE S == {s[k] : k \in 1..Len(s)}
           T == {t[k] : k \in 1..Len(t)}
<1>1. s \in Seq(S \cup T) /\ t \in Seq(S \cup T)
  <2>1. s \in Seq(S) /\ t \in Seq(T)
    BY DEF History
  <2>2. QED
    BY <2>1, SeqMonotonic
<1>2. Len(s) \in Nat /\ Len(t) \in Nat
  BY <1>1, LenProperties
<1>3. /\ Len(s \o t) = Len(s) + Len(t)
      /\ \A k \in 1..(Len(s) + Len(t)) : (s \o t)[k] = IF k <= Len(s) THEN s[k] ELSE t[k - Len(s)]
  BY <1>1, ConcatProperties
<1>4. ASSUME NEW k \in 1..Len(t) PROVE (s \o t)[Len(s) + k] = t[k]
  <2>1. /\ Len(s) + k \in 1..(Len(s) + Len(t))
        /\ ~(Len(s) + k <= Len(s))
        /\ (Len(s) + k) - Len(s) = k
    BY <1>2
  <2>2. QED
    BY <1>3, <2>1
<1>5. QED
  BY <1>2, <1>3, <1>4

\* A function on 1..n is a history of length n.
LEMMA EnumerationIsAHistory ==
  ASSUME NEW n \in Nat, NEW s, s = [k \in 1..n |-> s[k]]
  PROVE  History(s) /\ Len(s) = n
<1>1. s \in [1..n -> {s[k] : k \in 1..n}]
  OBVIOUS
<1>2. Len(s) = n
  BY <1>1, SeqDef, LenProperties
<1>3. QED
  BY <1>1, <1>2, SeqDef DEF History

\* The initial schedule has each case at its two positions and nothing else.
LEMMA InitialScheduleIsOfTheCases ==
  ASSUME NEW cs, SetOfCases(cs)
  PROVE  /\ History(InitialScheduleOf(cs))
         /\ Cardinality(cs) \in Nat
         /\ Len(InitialScheduleOf(cs)) = 2 * Cardinality(cs)
         /\ \A n \in 1..(2 * Cardinality(cs)) :
              LET item == InitialScheduleOf(cs)[n]
              IN /\ item.case \in cs
                 /\ item.role \in {"clean", "single-patch-defect"}
                 /\ item.phase = "initial" /\ item.replayIndex = 0 /\ item.selected
                 /\ InitialPosition(cs, item.case, item.role) = n
         /\ \A c \in cs : \A role \in {"clean", "single-patch-defect"} :
              LET item == InitialScheduleOf(cs)[InitialPosition(cs, c, role)]
              IN /\ InitialPosition(cs, c, role) \in 1..(2 * Cardinality(cs))
                 /\ item.case = c /\ item.role = role
<1> DEFINE N == Cardinality(cs)
           f == InitialScheduleOf(cs)
<1>1. N \in Nat /\ Len(Ordered(cs)) = N
  BY RankGrows, OrderedByRank
<1>2. f = [n \in 1..(2 * N) |->
             [case |-> Ordered(cs)[(n + 1) \div 2],
              role |-> IF n % 2 = 1 THEN "clean" ELSE "single-patch-defect",
              phase |-> "initial", replayIndex |-> 0, selected |-> TRUE]]
  BY <1>1 DEF InitialScheduleOf
<1>3. History(f) /\ Len(f) = 2 * N
  BY <1>1, <1>2, EnumerationIsAHistory
<1>4. ASSUME NEW n \in 1..(2 * N)
      PROVE  /\ f[n].case \in cs
             /\ f[n].role \in {"clean", "single-patch-defect"}
             /\ f[n].phase = "initial" /\ f[n].replayIndex = 0 /\ f[n].selected
             /\ InitialPosition(cs, f[n].case, f[n].role) = n
  <2> DEFINE k == (n + 1) \div 2
  <2>1. k \in 1..N /\ n = 2 * (k - 1) + (IF n % 2 = 1 THEN 1 ELSE 2)
    BY <1>1
  <2>2. f[n].case = Ordered(cs)[k] /\ Ordered(cs)[k] \in cs /\ Rank(cs, Ordered(cs)[k]) = k - 1
    BY <1>2, <2>1, OrderedByRank
  <2>3. f[n].role = (IF n % 2 = 1 THEN "clean" ELSE "single-patch-defect")
        /\ f[n].phase = "initial" /\ f[n].replayIndex = 0 /\ f[n].selected
    BY <1>2
  <2> HIDE DEF k
  <2>4. InitialPosition(cs, f[n].case, f[n].role) = 2 * (k - 1) + (IF n % 2 = 1 THEN 1 ELSE 2)
    BY <2>2, <2>3 DEF InitialPosition
  <2>5. QED
    BY <2>1, <2>2, <2>3, <2>4
<1>5. ASSUME NEW c \in cs, NEW role \in {"clean", "single-patch-defect"}
      PROVE  /\ InitialPosition(cs, c, role) \in 1..(2 * N)
             /\ f[InitialPosition(cs, c, role)].case = c
             /\ f[InitialPosition(cs, c, role)].role = role
  <2> DEFINE q == Rank(cs, c)
             n == 2 * q + (IF role = "clean" THEN 1 ELSE 2)
  <2>1. q \in 0..(N - 1) /\ Ordered(cs)[q + 1] = c
    BY RankGrows, OrderedByRank
  <2> HIDE DEF q
  <2>2. n \in 1..(2 * N) /\ (n + 1) \div 2 = q + 1 /\ (n % 2 = 1 <=> role = "clean")
    BY <1>1, <2>1
  <2>3. InitialPosition(cs, c, role) = n
    BY DEF InitialPosition, q
  <2> HIDE DEF n
  <2>4. f[n].case = c /\ f[n].role = (IF n % 2 = 1 THEN "clean" ELSE "single-patch-defect")
    BY <1>2, <2>1, <2>2
  <2>5. QED
    BY <2>2, <2>3, <2>4
<1>6. QED
  BY <1>1, <1>3, <1>4, <1>5

\* Quotient and remainder.
LEMMA Division ==
  ASSUME NEW s \in Nat \ {0}
  PROVE  /\ \A n \in Nat : /\ n \div s \in Nat /\ n % s \in 0..(s - 1)
                           /\ n = (s * (n \div s)) + (n % s)
         /\ \A q \in Nat, m \in 0..(s - 1) : (s * q + m) \div s = q /\ (s * q + m) % s = m
<1>1. ASSUME NEW n \in Nat
      PROVE  n \div s \in Nat /\ n % s \in 0..(s - 1) /\ n = (s * (n \div s)) + (n % s)
  OBVIOUS
<1>2. ASSUME NEW q \in Nat, NEW m \in 0..(s - 1)
      PROVE  (s * q + m) \div s = q /\ (s * q + m) % s = m
  OBVIOUS
<1>3. QED
  BY <1>1, <1>2

LEMMA ProductsGrow ==
  /\ \A s, a, b \in Nat : a <= b => s * a <= s * b /\ a * s <= b * s
  /\ \A s \in Nat \ {0} : \A a, b \in Nat : s * a < s * b => a < b
OBVIOUS

\* The replay schedule has every replay of each replayed case at its position, and
\* nothing else.
LEMMA ReplayScheduleIsOfTheReplayed ==
  ASSUME NEW cs, SetOfCases(cs), NEW rs
  PROVE  LET f == ReplayScheduleOf(cs, rs)
             R == ReplayedOf(cs)
         IN /\ History(f)
            /\ Cardinality(R) \in Nat
            /\ Len(f) = separateRuns * Cardinality(R)
            /\ \A n \in 1..Len(f) :
                 /\ f[n].case \in R
                 /\ f[n].role = "single-patch-defect"
                 /\ f[n].phase = "replay"
                 /\ f[n].replayIndex \in 1..separateRuns
                 /\ f[n].selected <=> f[n].case \in CandidatesOf(cs, rs)
                 /\ ReplayPosition(cs, f[n].case, f[n].replayIndex) = n
            /\ \A c \in R : \A run \in 1..separateRuns :
                 /\ ReplayPosition(cs, c, run) \in 1..Len(f)
                 /\ f[ReplayPosition(cs, c, run)].case = c
                 /\ f[ReplayPosition(cs, c, run)].replayIndex = run
<1> DEFINE R == ReplayedOf(cs)
           N == Cardinality(R)
           f == ReplayScheduleOf(cs, rs)
           s == separateRuns
<1>1. SetOfCases(R) /\ N \in Nat /\ Len(Ordered(R)) = N
  <2>1. R \in SUBSET cs
    BY DEF ReplayedOf, RetentionOf
  <2>2. QED
    BY <2>1, PartOfCases, RankGrows, OrderedByRank
<1>2. s \in Nat \ {0} /\ s * N \in Nat
  BY <1>1, MeasurementAssumption
<1>3. f = [n \in 1..(s * N) |->
             [case |-> Ordered(R)[((n - 1) \div s) + 1],
              role |-> "single-patch-defect", phase |-> "replay",
              replayIndex |-> ((n - 1) % s) + 1,
              selected |-> Ordered(R)[((n - 1) \div s) + 1] \in CandidatesOf(cs, rs)]]
  BY <1>1 DEF ReplayScheduleOf
<1>4. History(f) /\ Len(f) = s * N
  <2> HIDE DEF f
  <2>1. QED
    BY <1>2, <1>3, EnumerationIsAHistory
<1> HIDE DEF s, N, f
<1>5. ASSUME NEW n \in 1..(s * N)
      PROVE  /\ f[n].case \in R
             /\ f[n].role = "single-patch-defect"
             /\ f[n].phase = "replay"
             /\ f[n].replayIndex \in 1..s
             /\ f[n].selected <=> f[n].case \in CandidatesOf(cs, rs)
             /\ ReplayPosition(cs, f[n].case, f[n].replayIndex) = n
  <2> DEFINE q == (n - 1) \div s
             m == (n - 1) % s
  <2>1. n - 1 \in Nat /\ n - 1 < s * N
    BY <1>2
  <2>2. q \in Nat /\ m \in 0..(s - 1) /\ n - 1 = (s * q) + m
    BY <1>2, <2>1, Division
  <2>3. /\ f[n].case = Ordered(R)[q + 1]
        /\ f[n].role = "single-patch-defect" /\ f[n].phase = "replay"
        /\ f[n].replayIndex = m + 1
        /\ f[n].selected <=> f[n].case \in CandidatesOf(cs, rs)
    BY <1>3
  <2> HIDE DEF q, m
  <2>4. q < N
    <3>1. s * q \in Nat /\ s * q < s * N
      BY <1>1, <1>2, <2>1, <2>2
    <3>2. QED
      BY <1>1, <1>2, <2>2, <3>1, ProductsGrow
  <2>5. Ordered(R)[q + 1] \in R /\ Rank(R, Ordered(R)[q + 1]) = q
    <3>1. q + 1 \in 1..N /\ (q + 1) - 1 = q
      BY <1>1, <2>2, <2>4
    <3>2. QED
      BY <1>1, <3>1, OrderedByRank DEF N
  <2>6. ReplayPosition(cs, f[n].case, f[n].replayIndex) = s * q + (m + 1)
    BY <2>3, <2>5 DEF ReplayPosition, s
  <2>7. s * q + (m + 1) = n
    <3>1. s * q \in Nat
      BY <1>2, <2>2
    <3>2. QED
      BY <2>2, <3>1
  <2>8. m + 1 \in 1..s
    BY <1>2, <2>2
  <2>9. QED
    BY <2>3, <2>5, <2>6, <2>7, <2>8
<1>6. ASSUME NEW c \in R, NEW run \in 1..s
      PROVE  /\ ReplayPosition(cs, c, run) \in 1..(s * N)
             /\ f[ReplayPosition(cs, c, run)].case = c
             /\ f[ReplayPosition(cs, c, run)].replayIndex = run
  <2> DEFINE q == Rank(R, c)
             m == run - 1
             n == s * q + run
  <2>1. q \in 0..(N - 1) /\ Ordered(R)[q + 1] = c
    BY <1>1, RankGrows, OrderedByRank DEF N
  <2>2. m \in 0..(s - 1) /\ run = m + 1
    BY <1>2
  <2>3. ReplayPosition(cs, c, run) = n
    BY DEF ReplayPosition, s
  <2> HIDE DEF q, m
  <2>4. n - 1 = s * q + m /\ s * q \in Nat /\ n \in Nat
    BY <1>2, <2>1, <2>2
  <2>5. (n - 1) \div s = q /\ (n - 1) % s = m
    <3>1. (s * q + m) \div s = q /\ (s * q + m) % s = m
      <4>1. q \in Nat
        BY <1>1, <2>1
      <4>2. QED
        BY <1>2, <2>2, <4>1, Division
    <3>2. QED
      BY <2>4, <3>1
  <2>6. n \in 1..(s * N)
    <3>1. s * (q + 1) <= s * N
      BY <1>1, <1>2, <2>1, ProductsGrow
    <3>2. s * (q + 1) = s * q + s
      BY <1>2, <2>1
    <3>3. QED
      BY <1>2, <2>4, <3>1, <3>2
  <2>7. f[n].case = c /\ f[n].replayIndex = run
    BY <1>3, <2>1, <2>2, <2>5, <2>6
  <2> HIDE DEF n
  <2>8. QED
    BY <2>3, <2>6, <2>7
<1>7. QED
  BY <1>1, <1>4, <1>5, <1>6 DEF s, N, f

\* A union has at most as many elements as its parts.
LEMMA UnionIsBounded ==
  ASSUME NEW S, NEW T, IsFiniteSet(S), IsFiniteSet(T)
  PROVE  /\ IsFiniteSet(S \cup T)
         /\ Cardinality(S \cup T) \in Nat
         /\ Cardinality(S \cup T) <= Cardinality(S) + Cardinality(T)
<1>1. IsFiniteSet(S \cap T)
  BY FS_Intersection
<1>2. /\ Cardinality(S) \in Nat /\ Cardinality(T) \in Nat
      /\ Cardinality(S \cap T) \in Nat
  BY <1>1, FS_CardinalityType
<1>3. /\ IsFiniteSet(S \cup T)
      /\ Cardinality(S \cup T) = Cardinality(S) + Cardinality(T) - Cardinality(S \cap T)
  BY FS_Union
<1>4. Cardinality(S \cup T) \in Nat
  BY <1>3, FS_CardinalityType
<1>5. QED
  BY <1>2, <1>3, <1>4

\* The replay candidates are replayed cases, and within the replay budget.
LEMMA CandidatesFitTheBudget ==
  ASSUME NEW cs \in CaseSets, NEW rs
  PROVE  /\ SetOfCases(cs)
         /\ \A arm : RawOf(cs, rs, arm) \subseteq cs /\ SetOfCases(RawOf(cs, rs, arm))
         /\ CandidatesOf(cs, rs) \subseteq ReplayedOf(cs)
         /\ IsFiniteSet(CandidatesOf(cs, rs))
         /\ Cardinality(CandidatesOf(cs, rs)) <= candidateMaximum
<1> DEFINE Sel(arm) == SelectedOf(RawOf(cs, rs, arm))
           E == RetentionOf(cs)
           q == candidateMaximumPerArm
<1>1. SetOfCases(cs)
  BY CasesAssumption DEF SetOfCases
<1>2. \A arm : RawOf(cs, rs, arm) \subseteq cs /\ SetOfCases(RawOf(cs, rs, arm))
  <2>1. \A arm : RawOf(cs, rs, arm) \in SUBSET cs
    BY DEF RawOf
  <2>2. QED
    BY <1>1, <2>1, PartOfCases
<1>3. \A arm : /\ Sel(arm) \subseteq RawOf(cs, rs, arm)
               /\ IsFiniteSet(Sel(arm)) /\ Cardinality(Sel(arm)) \in Nat
               /\ Cardinality(Sel(arm)) <= q
  BY <1>2, SelectionIsTheFirst, FS_CardinalityType
<1>4. IsFiniteSet(E) /\ Cardinality(E) \in Nat
  BY <1>1, FS_Subset, FS_CardinalityType DEF SetOfCases, RetentionOf
<1>5. \A c : c \in CandidatesOf(cs, rs) <=> c \in E \/ \E arm \in GenerationArms : c \in Sel(arm)
  BY DEF CandidatesOf
<1>6. CandidatesOf(cs, rs) = Sel("G") \cup (Sel("P") \cup (Sel("A") \cup (Sel("B") \cup (Sel("C") \cup E))))
  <2> HIDE DEF Sel, E
  <2>1. \A c : (\E arm \in GenerationArms : c \in Sel(arm)) <=>
                 (c \in Sel("G") \/ c \in Sel("P") \/ c \in Sel("A") \/ c \in Sel("B") \/ c \in Sel("C"))
    BY DEF GenerationArms
  <2>2. QED
    BY <1>5, <2>1
<1>7. Cardinality(GenerationArms) = 5
  <2>1. GenerationArms = (((({} \cup {"G"}) \cup {"P"}) \cup {"A"}) \cup {"B"}) \cup {"C"}
    BY DEF GenerationArms
  <2>2. IsFiniteSet({}) /\ Cardinality({}) = 0
    BY FS_EmptySet
  <2> DEFINE S1 == {} \cup {"G"}
             S2 == S1 \cup {"P"}
             S3 == S2 \cup {"A"}
             S4 == S3 \cup {"B"}
  <2>3. IsFiniteSet(S1) /\ Cardinality(S1) = 1
    BY <2>2, FS_AddElement
  <2>4. IsFiniteSet(S2) /\ Cardinality(S2) = 2
    BY <2>3, FS_AddElement
  <2>5. IsFiniteSet(S3) /\ Cardinality(S3) = 3
    BY <2>4, FS_AddElement
  <2>6. IsFiniteSet(S4) /\ Cardinality(S4) = 4
    BY <2>5, FS_AddElement
  <2>7. Cardinality(S4 \cup {"C"}) = 5
    BY <2>6, FS_AddElement
  <2>8. QED
    BY <2>1, <2>7
<1>8. 5 * q + Cardinality(E) <= candidateMaximum /\ q \in Nat /\ candidateMaximum \in Nat
  BY <1>7, CasesAssumption, MeasurementAssumption DEF RetentionOf
<1>9. IsFiniteSet(CandidatesOf(cs, rs)) /\ Cardinality(CandidatesOf(cs, rs)) <= 5 * q + Cardinality(E)
  <2> DEFINE T1 == Sel("C") \cup E
             T2 == Sel("B") \cup T1
             T3 == Sel("A") \cup T2
             T4 == Sel("P") \cup T3
             T5 == Sel("G") \cup T4
  <2> HIDE DEF Sel, E, q
  <2>1. /\ IsFiniteSet(T1) /\ Cardinality(T1) \in Nat
        /\ Cardinality(T1) <= Cardinality(Sel("C")) + Cardinality(E)
    BY <1>3, <1>4, UnionIsBounded
  <2> HIDE DEF T1
  <2>2. /\ IsFiniteSet(T2) /\ Cardinality(T2) \in Nat
        /\ Cardinality(T2) <= Cardinality(Sel("B")) + Cardinality(T1)
    BY <1>3, <2>1, UnionIsBounded
  <2> HIDE DEF T2
  <2>3. /\ IsFiniteSet(T3) /\ Cardinality(T3) \in Nat
        /\ Cardinality(T3) <= Cardinality(Sel("A")) + Cardinality(T2)
    BY <1>3, <2>2, UnionIsBounded
  <2> HIDE DEF T3
  <2>4. /\ IsFiniteSet(T4) /\ Cardinality(T4) \in Nat
        /\ Cardinality(T4) <= Cardinality(Sel("P")) + Cardinality(T3)
    BY <1>3, <2>3, UnionIsBounded
  <2> HIDE DEF T4
  <2>5. /\ IsFiniteSet(T5) /\ Cardinality(T5) \in Nat
        /\ Cardinality(T5) <= Cardinality(Sel("G")) + Cardinality(T4)
    BY <1>3, <2>4, UnionIsBounded
  <2> HIDE DEF T5
  <2>6. CandidatesOf(cs, rs) = T5
    BY <1>6 DEF T1, T2, T3, T4, T5
  <2>7. QED
    BY <1>3, <1>4, <1>8, <2>1, <2>2, <2>3, <2>4, <2>5, <2>6
<1>10. CandidatesOf(cs, rs) \subseteq ReplayedOf(cs)
  <2>1. \A arm : \A c \in Sel(arm) : c \in cs /\ c.arm = arm
    <3> SUFFICES ASSUME NEW arm, NEW c \in Sel(arm) PROVE c \in cs /\ c.arm = arm
      OBVIOUS
    <3>1. c \in RawOf(cs, rs, arm)
      BY <1>3
    <3>2. QED
      BY <3>1 DEF RawOf
  <2>2. QED
    BY <1>5, <2>1 DEF ReplayedOf, RetentionOf
<1>11. Cardinality(CandidatesOf(cs, rs)) <= candidateMaximum
  BY <1>4, <1>8, <1>9, FS_CardinalityType
<1>12. QED
  BY <1>1, <1>2, <1>9, <1>10, <1>11

-----------------------------------------------------------------------------
\* The inductive invariant.

TypeOK ==
  /\ stage \in {"initial", "replay", "measured", "thrown"}
  /\ cases \in CaseSets
  /\ clock \in Nat
  /\ History(rows)
  /\ ledger \in [dockerEvaluations : Nat, replayRuns : Nat, replayCandidates : Nat,
                 elapsedSeconds : Nat, stoppedBy : {"null", "measurement-budget-exhausted"}]

\* The schedules are the ones of the cases and of the rows of the initial runs.
SchedulesOK ==
  /\ initialSchedule = InitialScheduleOf(cases)
  /\ replaySchedule = IF stage = "initial" THEN <<>> ELSE ReplayScheduleOf(cases, rows)

ProgressOK ==
  /\ stage = "initial" => Len(rows) <= Len(initialSchedule)
  /\ stage # "initial" => /\ Len(initialSchedule) <= Len(rows)
                          /\ Len(rows) <= Len(initialSchedule) + Len(replaySchedule)
  /\ stage = "measured" => Len(rows) = Len(initialSchedule) + Len(replaySchedule)

NotRun(row) ==
  /\ row.outcome = "not-run"
  /\ row.evaluationOrdinal = 0
  /\ row.runRecord = {}
  /\ row.reasonCode \in {"budget-exhausted", "replay-not-selected"}

\* A charged row is of an evaluation that could not be recorded, or has the record of
\* its run and the verdict that run is classified as.
Recorded(row, r, evaluations) ==
  /\ row.evaluationOrdinal \in 1..evaluations
  /\ \/ /\ row.outcome = "planner-error"
        /\ row.reasonCode = "runner-infrastructure"
        /\ row.runRecord = {}
     \/ \E record \in row.runRecord :
          /\ row.runRecord = {record}
          /\ record.sequence = r - 1
          /\ row.outcome = Classification(record.run).status
          /\ row.reasonCode = Classification(record.run).reason
          /\ row.outcome \notin {"planner-error", "not-run"}
          /\ row.reasonCode \in {"null", "evaluator-early-exit"}
          /\ record.run.exitsWell => row.outcome = record.run.result

AsScheduled(row, item, r, evaluations) ==
  /\ row.case = item.case
  /\ row.role = item.role
  /\ row.phase = item.phase
  /\ row.replayIndex = item.replayIndex
  /\ NotRun(row) \/ (item.selected /\ Recorded(row, r, evaluations))

\* The rows are those of the scheduled items, in their order.
RowsOK ==
  \A r \in 1..Len(rows) :
    /\ r <= Len(initialSchedule) =>
         AsScheduled(rows[r], initialSchedule[r], r, ledger.dockerEvaluations)
    /\ r > Len(initialSchedule) =>
         AsScheduled(rows[r], replaySchedule[r - Len(initialSchedule)], r, ledger.dockerEvaluations)

ChargedRowsOf(rs) == {r \in 1..Len(rs) : rs[r].evaluationOrdinal # 0}
ChargedReplaysOf(rs) == {r \in 1..Len(rs) : rs[r].phase = "replay" /\ rs[r].evaluationOrdinal # 0}

\* The ledger counts the charged rows, and there are no more than the budget.
CountsOK ==
  /\ ledger.dockerEvaluations <= dockerEvaluationMaximum
  /\ Cardinality(ChargedRowsOf(rows)) = ledger.dockerEvaluations
  /\ Cardinality(ChargedReplaysOf(rows)) = ledger.replayRuns

\* An exhausted budget stays exhausted, and the rows after it are not charged.
ExhaustionOK ==
  /\ \A r \in 1..Len(rows) : rows[r].reasonCode = "budget-exhausted" => ~BudgetLeft
  /\ \A r1, r2 \in 1..Len(rows) :
       r1 < r2 /\ rows[r1].reasonCode = "budget-exhausted" => rows[r2].evaluationOrdinal = 0

ClockOK ==
  clock > wallClockMaximum => \E seconds \in Durations : clock < wallClockMaximum + seconds

\* Nothing but the clock makes the runner throw; a ledger that is closed is valid.
ClosingOK ==
  /\ stage = "thrown" => clock > wallClockMaximum
  /\ stage = "measured" => ValidateBudgetLedger(ledger)

MeasurementInvariant ==
  /\ TypeOK
  /\ SchedulesOK
  /\ ProgressOK
  /\ RowsOK
  /\ CountsOK
  /\ ExhaustionOK
  /\ ClockOK
  /\ ClosingOK

-----------------------------------------------------------------------------
\* What the invariant says of the schedules and of the rows.

\* The selection looks at the rows of the initial runs only.
LEMMA SelectionIsSettled ==
  ASSUME NEW cs, SetOfCases(cs), NEW rs1, NEW rs2,
         \A k \in 1..(2 * Cardinality(cs)) : rs1[k] = rs2[k]
  PROVE  /\ CandidatesOf(cs, rs1) = CandidatesOf(cs, rs2)
         /\ ReplayScheduleOf(cs, rs1) = ReplayScheduleOf(cs, rs2)
<1>1. \A c \in cs : \A role \in {"clean", "single-patch-defect"} :
        rs1[InitialPosition(cs, c, role)] = rs2[InitialPosition(cs, c, role)]
  BY InitialScheduleIsOfTheCases
<1>2. \A arm : RawOf(cs, rs1, arm) = RawOf(cs, rs2, arm)
  BY <1>1 DEF RawOf
<1>3. CandidatesOf(cs, rs1) = CandidatesOf(cs, rs2)
  BY <1>2 DEF CandidatesOf
<1>4. QED
  BY <1>3 DEF ReplayScheduleOf

\* Both schedules are histories; the replay schedule is empty before it is built.
LEMMA SchedulesAreHistories ==
  ASSUME TypeOK, SchedulesOK
  PROVE  /\ SetOfCases(cases)
         /\ History(initialSchedule) /\ Len(initialSchedule) = 2 * Cardinality(cases)
         /\ Cardinality(cases) \in Nat
         /\ History(replaySchedule) /\ (stage = "initial" => Len(replaySchedule) = 0)
         /\ Len(initialSchedule) \in Nat /\ Len(replaySchedule) \in Nat
         /\ Len(Schedule) = Len(initialSchedule) + Len(replaySchedule)
         /\ \A k \in 1..Len(initialSchedule) : Schedule[k] = initialSchedule[k]
         /\ \A k \in 1..Len(replaySchedule) :
              Schedule[Len(initialSchedule) + k] = replaySchedule[k]
<1>1. SetOfCases(cases)
  BY CandidatesFitTheBudget DEF TypeOK
<1>2. /\ History(initialSchedule) /\ Len(initialSchedule) = 2 * Cardinality(cases)
      /\ Cardinality(cases) \in Nat
  BY <1>1, InitialScheduleIsOfTheCases DEF SchedulesOK
<1>3. History(replaySchedule) /\ (stage = "initial" => Len(replaySchedule) = 0)
  <2>1. CASE stage = "initial"
    BY <2>1, HistoryStarts DEF SchedulesOK
  <2>2. CASE stage # "initial"
    BY <1>1, <2>2, ReplayScheduleIsOfTheReplayed DEF SchedulesOK
  <2>3. QED
    BY <2>1, <2>2
<1>4. /\ Len(initialSchedule) \in Nat /\ Len(replaySchedule) \in Nat
      /\ Len(initialSchedule \o replaySchedule) = Len(initialSchedule) + Len(replaySchedule)
      /\ \A k \in 1..Len(initialSchedule) :
           (initialSchedule \o replaySchedule)[k] = initialSchedule[k]
      /\ \A k \in 1..Len(replaySchedule) :
           (initialSchedule \o replaySchedule)[Len(initialSchedule) + k] = replaySchedule[k]
  <2>1. History(initialSchedule) /\ History(replaySchedule)
    BY <1>2, <1>3
  <2>2. /\ Len(initialSchedule) \in Nat /\ Len(replaySchedule) \in Nat
        /\ Len(initialSchedule \o replaySchedule) = Len(initialSchedule) + Len(replaySchedule)
    BY <2>1, Joined
  <2>3. \A k \in 1..Len(initialSchedule) :
          (initialSchedule \o replaySchedule)[k] = initialSchedule[k]
    BY <2>1, Joined
  <2>4. \A k \in 1..Len(replaySchedule) :
          (initialSchedule \o replaySchedule)[Len(initialSchedule) + k] = replaySchedule[k]
    BY <2>1, Joined
  <2>5. QED
    BY <2>2, <2>3, <2>4
<1>5. Schedule = initialSchedule \o replaySchedule
  BY DEF Schedule
<1>6. QED
  BY <1>1, <1>2, <1>3, <1>4, <1>5

\* The item that is due is the next one of its schedule.
LEMMA ItemIsNext ==
  ASSUME TypeOK, SchedulesOK, ProgressOK, Due, stage \in {"initial", "replay"}
  PROVE  /\ Len(rows) \in Nat
         /\ Len(rows) < Len(initialSchedule) + Len(replaySchedule)
         /\ Len(rows) + 1 <= Len(initialSchedule) => Item = initialSchedule[Len(rows) + 1]
         /\ Len(rows) + 1 > Len(initialSchedule) =>
              Item = replaySchedule[Len(rows) + 1 - Len(initialSchedule)]
<1> DEFINE i == Len(initialSchedule)
           k == Len(rows) + 1 - i
<1>1. Len(rows) \in Nat
  BY LenProperties DEF TypeOK, History
<1>2. /\ i \in Nat /\ Len(replaySchedule) \in Nat
      /\ Len(Schedule) = i + Len(replaySchedule)
      /\ \A l \in 1..i : Schedule[l] = initialSchedule[l]
      /\ \A l \in 1..Len(replaySchedule) : Schedule[i + l] = replaySchedule[l]
  BY SchedulesAreHistories
<1>3. Len(rows) < i + Len(replaySchedule)
  BY <1>2 DEF Due
<1>4. Len(rows) + 1 > i => k \in 1..Len(replaySchedule) /\ i + k = Len(rows) + 1
  BY <1>1, <1>2, <1>3
<1>5. Len(rows) + 1 <= i => Len(rows) + 1 \in 1..i
  BY <1>1, <1>2
<1>6. Item = Schedule[Len(rows) + 1]
  BY DEF Item
<1> HIDE DEF k
<1>7. Len(rows) + 1 > i => Item = replaySchedule[k]
  BY <1>2, <1>4, <1>6
<1>8. QED
  BY <1>1, <1>2, <1>3, <1>5, <1>6, <1>7 DEF k

ExecutedAs(row, item, r, ordinal) ==
  /\ row.case = item.case /\ row.role = item.role
  /\ row.phase = item.phase /\ row.replayIndex = item.replayIndex
  /\ row.evaluationOrdinal = ordinal
  /\ row.reasonCode # "budget-exhausted"
  /\ Recorded(row, r, ordinal)

\* The row of an executed item: an infrastructure row, or the record of its run and the
\* verdict that run is classified as.
LEMMA ExecutedRowIsCharged ==
  ASSUME NEW item, NEW ordinal \in Nat \ {0}, NEW sequence \in Nat, NEW outcome \in Outcomes,
         ordinal <= dockerEvaluationMaximum,
         NEW row, row = ExecutedRow(item, ordinal, sequence, outcome)
  PROVE  ExecutedAs(row, item, sequence + 1, ordinal)
<1> DEFINE run == [exitsWell |-> outcome # "unrunnable",
                   result |-> IF outcome = "uncleaned" THEN "pass" ELSE outcome,
                   removed |-> outcome # "uncleaned"]
           normal == Normalized(item, ordinal, sequence, run)
           infrastructure == InfrastructureRow(item, ordinal)
           Goal(r) == ExecutedAs(r, item, sequence + 1, ordinal)
<1>1. outcome \in AllOutcomes
  BY MeasurementAssumption
<1>2. Goal(infrastructure)
  BY DEF InfrastructureRow, Row, Recorded, ExecutedAs
<1>3. row = infrastructure \/ (row = normal /\ outcome # "exception" /\ ValidateMeasurementRow(normal))
  <2>1. CASE outcome = "exception"
    <3>1. Runs(outcome) = {}
      BY <2>1 DEF Runs
    <3>2. QED
      BY <3>1 DEF ExecutedRow
  <2>2. CASE outcome # "exception"
    <3>1. Runs(outcome) = {run}
      BY <2>2 DEF Runs
    <3>2. {Normalized(item, ordinal, sequence, one) : one \in Runs(outcome)} = {normal}
      BY <3>1
    <3>3. row = IF ValidateMeasurementRow(normal) THEN normal ELSE infrastructure
      BY <3>2 DEF ExecutedRow
    <3>4. QED
      BY <2>2, <3>3
  <2>3. QED
    BY <2>1, <2>2
<1>4. ASSUME outcome # "exception", ValidateMeasurementRow(normal)
      PROVE  Goal(normal)
  <2> DEFINE c == Classification(run)
             record == RawRunRecord(sequence, run)
  <2>1. normal = Row(item, c.status, c.reason, ordinal, {record})
    BY DEF Normalized
  <2>2. c.reason \in {"null", "evaluator-early-exit"}
    <3>1. normal.reasonCode = c.reason
      BY <2>1 DEF Row
    <3>2. c.reason \in {"null", "evaluator-early-exit", "malformed-trusted-result:<detail>"}
      BY DEF Classification
    <3>3. QED
      BY <1>4, <3>1, <3>2 DEF ValidateMeasurementRow
  <2>3. c.status \notin {"planner-error", "not-run"} /\ (run.exitsWell => c.status = run.result)
    <3>1. run.exitsWell = (outcome # "unrunnable") /\ run.result = IF outcome = "uncleaned" THEN "pass" ELSE outcome
      OBVIOUS
    <3>2. CASE outcome = "unrunnable"
      <4>1. c = [status |-> "unrunnable", reason |-> "evaluator-early-exit"]
        BY <3>1, <3>2 DEF Classification
      <4>2. QED
        BY <3>1, <3>2, <4>1
    <3>3. CASE outcome # "unrunnable"
      <4>1. outcome # "malformed"
        <5> SUFFICES ASSUME outcome = "malformed" PROVE FALSE
          OBVIOUS
        <5>1. c = [status |-> "unrunnable", reason |-> "malformed-trusted-result:<detail>"]
          BY <3>1, <3>3 DEF Classification
        <5>2. QED
          BY <2>2, <5>1
      <4>2. run.result # "malformed" /\ run.exitsWell
        BY <3>1, <3>3, <4>1
      <4>3. c = [status |-> run.result, reason |-> "null"]
        BY <4>2 DEF Classification
      <4>4. run.result \in AllOutcomes
        BY <1>1, <3>1 DEF AllOutcomes
      <4>5. c.status = run.result
        BY <4>3
      <4> HIDE DEF run, c
      <4>6. QED
        BY <4>4, <4>5 DEF AllOutcomes
    <3>4. QED
      BY <3>2, <3>3
  <2> HIDE DEF c, run
  <2>4. record.sequence = sequence /\ record.run = run
    BY DEF RawRunRecord
  <2> HIDE DEF record
  <2>5. /\ normal.case = item.case /\ normal.role = item.role
        /\ normal.phase = item.phase /\ normal.replayIndex = item.replayIndex
        /\ normal.evaluationOrdinal = ordinal
        /\ normal.reasonCode = c.reason /\ normal.outcome = c.status
        /\ normal.runRecord = {record}
    BY <2>1 DEF Row
  <2> HIDE DEF normal
  <2>6. (sequence + 1) - 1 = sequence /\ ordinal \in 1..ordinal
    OBVIOUS
  <2>7. Recorded(normal, sequence + 1, ordinal)
    BY <2>2, <2>3, <2>4, <2>5, <2>6 DEF Recorded, c
  <2>8. QED
    BY <2>2, <2>5, <2>7 DEF ExecutedAs
<1>5. Goal(row)
  <2> HIDE DEF normal, infrastructure, Goal
  <2>1. QED
    BY <1>2, <1>3, <1>4
<1>6. QED
  BY <1>5

\* A row that is pushed is counted when it is charged.
LEMMA ChargedGrow ==
  ASSUME NEW rs, History(rs), NEW row
  PROVE  /\ IsFiniteSet(ChargedRowsOf(rs)) /\ IsFiniteSet(ChargedReplaysOf(rs))
         /\ Cardinality(ChargedRowsOf(rs)) \in Nat /\ Cardinality(ChargedReplaysOf(rs)) \in Nat
         /\ Cardinality(ChargedRowsOf(Append(rs, row))) =
              Cardinality(ChargedRowsOf(rs)) + (IF row.evaluationOrdinal # 0 THEN 1 ELSE 0)
         /\ Cardinality(ChargedReplaysOf(Append(rs, row))) =
              Cardinality(ChargedReplaysOf(rs))
                + (IF row.phase = "replay" /\ row.evaluationOrdinal # 0 THEN 1 ELSE 0)
<1> DEFINE n == Len(rs)
           next == Append(rs, row)
<1>1. /\ n \in Nat /\ Len(next) = n + 1
      /\ \A k \in 1..n : next[k] = rs[k]
      /\ next[n + 1] = row
  BY HistoryGrows
<1>2. /\ ChargedRowsOf(rs) \in SUBSET (1..n) /\ ChargedReplaysOf(rs) \in SUBSET (1..n)
      /\ IsFiniteSet(1..n)
  BY <1>1, FS_Interval DEF ChargedRowsOf, ChargedReplaysOf
<1>3. /\ IsFiniteSet(ChargedRowsOf(rs)) /\ IsFiniteSet(ChargedReplaysOf(rs))
      /\ Cardinality(ChargedRowsOf(rs)) \in Nat /\ Cardinality(ChargedReplaysOf(rs)) \in Nat
  BY <1>2, FS_Subset, FS_CardinalityType
<1>4. n + 1 \notin ChargedRowsOf(rs) /\ n + 1 \notin ChargedReplaysOf(rs)
  BY <1>1 DEF ChargedRowsOf, ChargedReplaysOf
<1>5. 1..(n + 1) = (1..n) \cup {n + 1}
  BY <1>1
<1> HIDE DEF n, next
<1>6. /\ row.evaluationOrdinal # 0 => ChargedRowsOf(next) = ChargedRowsOf(rs) \cup {n + 1}
      /\ row.evaluationOrdinal = 0 => ChargedRowsOf(next) = ChargedRowsOf(rs)
  BY <1>1, <1>5 DEF ChargedRowsOf, n
<1>7. /\ row.phase = "replay" /\ row.evaluationOrdinal # 0 =>
           ChargedReplaysOf(next) = ChargedReplaysOf(rs) \cup {n + 1}
      /\ ~(row.phase = "replay" /\ row.evaluationOrdinal # 0) =>
           ChargedReplaysOf(next) = ChargedReplaysOf(rs)
  BY <1>1, <1>5 DEF ChargedReplaysOf, n
<1>8. Cardinality(ChargedRowsOf(next)) =
        Cardinality(ChargedRowsOf(rs)) + (IF row.evaluationOrdinal # 0 THEN 1 ELSE 0)
  <2>1. Cardinality(ChargedRowsOf(rs) \cup {n + 1}) = Cardinality(ChargedRowsOf(rs)) + 1
    BY <1>3, <1>4, FS_AddElement
  <2>2. QED
    BY <1>3, <1>6, <2>1
<1>9. Cardinality(ChargedReplaysOf(next)) =
        Cardinality(ChargedReplaysOf(rs))
          + (IF row.phase = "replay" /\ row.evaluationOrdinal # 0 THEN 1 ELSE 0)
  <2>1. Cardinality(ChargedReplaysOf(rs) \cup {n + 1}) = Cardinality(ChargedReplaysOf(rs)) + 1
    BY <1>3, <1>4, FS_AddElement
  <2>2. CASE row.phase = "replay" /\ row.evaluationOrdinal # 0
    BY <1>3, <1>7, <2>1, <2>2
  <2>3. CASE ~(row.phase = "replay" /\ row.evaluationOrdinal # 0)
    <3>1. ChargedReplaysOf(next) = ChargedReplaysOf(rs)
      BY <1>7, <2>3
    <3>2. QED
      BY <1>3, <2>3, <3>1
  <2>4. QED
    BY <2>2, <2>3
<1>10. QED
  BY <1>3, <1>8, <1>9 DEF next

\* A row that is as scheduled stays so when the ledger counts more evaluations.
LEMMA ScheduledStays ==
  ASSUME NEW row, NEW item, NEW r, NEW e1 \in Nat, NEW e2 \in Nat, e1 <= e2,
         AsScheduled(row, item, r, e1)
  PROVE  AsScheduled(row, item, r, e2)
<1>1. \A e : e \in 1..e1 => e \in 1..e2
  OBVIOUS
<1>2. QED
  BY <1>1 DEF AsScheduled, Recorded

\* A step that pushes the row of the item that is due keeps the schedules and the rows.
LEMMA PushKeepsTheRows ==
  ASSUME MeasurementInvariant, stage \in {"initial", "replay"}, Due,
         NEW row, Push(row), UNCHANGED <<stage, cases, scheduleVars>>,
         ledger'.dockerEvaluations \in Nat,
         ledger.dockerEvaluations <= ledger'.dockerEvaluations,
         AsScheduled(row, Item, Len(rows) + 1, ledger'.dockerEvaluations)
  PROVE  /\ History(rows)'
         /\ Len(rows) \in Nat /\ Len(rows') = Len(rows) + 1
         /\ \A k \in 1..Len(rows) : rows'[k] = rows[k]
         /\ rows'[Len(rows) + 1] = row
         /\ SchedulesOK'
         /\ ProgressOK'
         /\ RowsOK'
<1> USE DEF MeasurementInvariant
<1>1. /\ History(rows')
      /\ Len(rows) \in Nat /\ Len(rows') = Len(rows) + 1
      /\ \A k \in 1..Len(rows) : rows'[k] = rows[k]
      /\ rows'[Len(rows) + 1] = row
  BY HistoryGrows DEF Push, TypeOK
<1>2. /\ stage' = stage /\ cases' = cases
      /\ initialSchedule' = initialSchedule /\ replaySchedule' = replaySchedule
  BY DEF scheduleVars
<1>3. /\ SetOfCases(cases)
      /\ Len(initialSchedule) = 2 * Cardinality(cases)
      /\ Len(initialSchedule) \in Nat /\ Len(replaySchedule) \in Nat
      /\ stage = "initial" => Len(replaySchedule) = 0
  BY SchedulesAreHistories
<1>4. /\ Len(rows) < Len(initialSchedule) + Len(replaySchedule)
      /\ Len(rows) + 1 <= Len(initialSchedule) => Item = initialSchedule[Len(rows) + 1]
      /\ Len(rows) + 1 > Len(initialSchedule) =>
           Item = replaySchedule[Len(rows) + 1 - Len(initialSchedule)]
  BY ItemIsNext
<1>5. SchedulesOK'
  <2>1. CASE stage = "initial"
    BY <1>2, <2>1 DEF SchedulesOK
  <2>2. CASE stage # "initial"
    <3>1. Len(initialSchedule) <= Len(rows)
      BY <2>2 DEF ProgressOK
    <3>2. \A k \in 1..(2 * Cardinality(cases)) : rows[k] = rows'[k]
      BY <1>1, <1>3, <3>1
    <3>3. ReplayScheduleOf(cases, rows) = ReplayScheduleOf(cases, rows')
      BY <1>3, <3>2, SelectionIsSettled
    <3>4. QED
      BY <1>2, <2>2, <3>3 DEF SchedulesOK
  <2>3. QED
    BY <2>1, <2>2
<1>6. ProgressOK'
  BY <1>1, <1>2, <1>3, <1>4 DEF ProgressOK
<1>7. RowsOK'
  <2> DEFINE i == Len(initialSchedule)
  <2>1. SUFFICES ASSUME NEW r \in 1..(Len(rows) + 1)
                 PROVE  /\ r <= i => AsScheduled(rows'[r], initialSchedule[r], r, ledger'.dockerEvaluations)
                        /\ r > i => AsScheduled(rows'[r], replaySchedule[r - i], r, ledger'.dockerEvaluations)
    BY <1>1, <1>2 DEF RowsOK
  <2>2. CASE r = Len(rows) + 1
    BY <1>1, <1>4, <2>2
  <2>3. CASE r # Len(rows) + 1
    <3>1. r \in 1..Len(rows) /\ rows'[r] = rows[r]
      BY <1>1, <2>3
    <3>2. /\ r <= i => AsScheduled(rows[r], initialSchedule[r], r, ledger.dockerEvaluations)
          /\ r > i => AsScheduled(rows[r], replaySchedule[r - i], r, ledger.dockerEvaluations)
      BY <3>1 DEF RowsOK
    <3>3. ledger.dockerEvaluations \in Nat
      BY DEF TypeOK
    <3>4. QED
      BY <3>1, <3>2, <3>3, ScheduledStays
  <2>4. QED
    BY <2>2, <2>3
<1>8. QED
  BY <1>1, <1>5, <1>6, <1>7

\* A row of an item of the initial schedule is of an initial run, one of the replay
\* schedule is of a replay of a candidate, or was not run.
LEMMA RowsAreOfTheirPhase ==
  ASSUME MeasurementInvariant, NEW r \in 1..Len(rows)
  PROVE  /\ Len(rows) \in Nat /\ Len(initialSchedule) \in Nat
         /\ r <= Len(initialSchedule) =>
              /\ rows[r].phase = "initial" /\ rows[r].replayIndex = 0
              /\ rows[r].case \in cases /\ rows[r].role \in {"clean", "single-patch-defect"}
              /\ InitialPosition(cases, rows[r].case, rows[r].role) = r
         /\ r > Len(initialSchedule) =>
              /\ stage # "initial"
              /\ r - Len(initialSchedule) \in 1..Len(replaySchedule)
              /\ rows[r].phase = "replay" /\ rows[r].case \in ReplayedOf(cases)
              /\ rows[r].role = "single-patch-defect"
              /\ rows[r].replayIndex \in 1..separateRuns
              /\ ReplayPosition(cases, rows[r].case, rows[r].replayIndex) = r - Len(initialSchedule)
              /\ rows[r].evaluationOrdinal # 0 => rows[r].case \in CandidatesOf(cases, rows)
<1> USE DEF MeasurementInvariant
<1> DEFINE i == Len(initialSchedule)
           k == r - i
<1>1. Len(rows) \in Nat
  BY LenProperties DEF TypeOK, History
<1>2. /\ SetOfCases(cases)
      /\ i = 2 * Cardinality(cases)
      /\ i \in Nat /\ Len(replaySchedule) \in Nat
      /\ stage = "initial" => Len(replaySchedule) = 0
  BY SchedulesAreHistories
<1>3. ASSUME r <= i
      PROVE  /\ rows[r].phase = "initial" /\ rows[r].replayIndex = 0
             /\ rows[r].case \in cases /\ rows[r].role \in {"clean", "single-patch-defect"}
             /\ InitialPosition(cases, rows[r].case, rows[r].role) = r
  <2>1. r \in 1..i /\ AsScheduled(rows[r], initialSchedule[r], r, ledger.dockerEvaluations)
    BY <1>1, <1>2, <1>3 DEF RowsOK
  <2>2. initialSchedule = InitialScheduleOf(cases)
    BY DEF SchedulesOK
  <2>3. /\ initialSchedule[r].case \in cases
        /\ initialSchedule[r].role \in {"clean", "single-patch-defect"}
        /\ initialSchedule[r].phase = "initial" /\ initialSchedule[r].replayIndex = 0
        /\ InitialPosition(cases, initialSchedule[r].case, initialSchedule[r].role) = r
    <3>1. \A n \in 1..(2 * Cardinality(cases)) :
            LET item == InitialScheduleOf(cases)[n]
            IN /\ item.case \in cases
               /\ item.role \in {"clean", "single-patch-defect"}
               /\ item.phase = "initial" /\ item.replayIndex = 0
               /\ InitialPosition(cases, item.case, item.role) = n
      BY <1>2, InitialScheduleIsOfTheCases
    <3>2. r \in 1..(2 * Cardinality(cases))
      BY <1>2, <2>1
    <3>3. QED
      BY <2>2, <3>1, <3>2
  <2>4. QED
    BY <2>1, <2>3 DEF AsScheduled
<1>4. ASSUME r > i
      PROVE  /\ stage # "initial"
             /\ k \in 1..Len(replaySchedule)
             /\ rows[r].phase = "replay" /\ rows[r].case \in ReplayedOf(cases)
             /\ rows[r].role = "single-patch-defect"
             /\ rows[r].replayIndex \in 1..separateRuns
             /\ ReplayPosition(cases, rows[r].case, rows[r].replayIndex) = k
             /\ rows[r].evaluationOrdinal # 0 => rows[r].case \in CandidatesOf(cases, rows)
  <2>1. stage # "initial" /\ k \in 1..Len(replaySchedule)
    BY <1>1, <1>2, <1>4 DEF ProgressOK
  <2>2. AsScheduled(rows[r], replaySchedule[k], r, ledger.dockerEvaluations)
    BY <1>4 DEF RowsOK
  <2>3. replaySchedule = ReplayScheduleOf(cases, rows)
    BY <2>1 DEF SchedulesOK
  <2> HIDE DEF k
  <2>4. /\ replaySchedule[k].case \in ReplayedOf(cases)
        /\ replaySchedule[k].phase = "replay"
        /\ replaySchedule[k].role = "single-patch-defect"
        /\ replaySchedule[k].replayIndex \in 1..separateRuns
        /\ replaySchedule[k].selected => replaySchedule[k].case \in CandidatesOf(cases, rows)
        /\ ReplayPosition(cases, replaySchedule[k].case, replaySchedule[k].replayIndex) = k
    BY <1>2, <2>1, <2>3, ReplayScheduleIsOfTheReplayed
  <2>5. QED
    BY <2>1, <2>2, <2>4 DEF AsScheduled, NotRun
<1>5. QED
  BY <1>1, <1>2, <1>3, <1>4

\* Once the initial runs are over, the outcome of one is that of the row at its position.
LEMMA OutcomesAreSettled ==
  ASSUME MeasurementInvariant, Len(initialSchedule) <= Len(rows)
  PROVE  /\ \A c \in cases : \A role \in {"clean", "single-patch-defect"} :
              InitialOutcome(c, role) = rows[InitialPosition(cases, c, role)].outcome
         /\ \A arm : RawCandidates(arm) = RawOf(cases, rows, arm)
         /\ \A arm : Selected(arm) = SelectedOf(RawOf(cases, rows, arm))
         /\ ReplayCandidates = CandidatesOf(cases, rows)
         /\ ReplaySchedule = ReplayScheduleOf(cases, rows)
<1> USE DEF MeasurementInvariant
<1>1. /\ SetOfCases(cases)
      /\ Len(initialSchedule) = 2 * Cardinality(cases) /\ Len(initialSchedule) \in Nat
  BY SchedulesAreHistories
<1>2. ASSUME NEW c \in cases, NEW role \in {"clean", "single-patch-defect"}
      PROVE  InitialOutcome(c, role) = rows[InitialPosition(cases, c, role)].outcome
  <2> DEFINE p == InitialPosition(cases, c, role)
             Is(r) == rows[r].phase = "initial" /\ rows[r].case = c /\ rows[r].role = role
  <2>1. /\ p \in 1..Len(initialSchedule)
        /\ initialSchedule[p].case = c /\ initialSchedule[p].role = role
    BY <1>1, InitialScheduleIsOfTheCases DEF SchedulesOK
  <2>2. Len(rows) \in Nat
    BY LenProperties DEF TypeOK, History
  <2> HIDE DEF p
  <2>3. p \in 1..Len(rows) /\ p <= Len(initialSchedule)
    BY <1>1, <2>1, <2>2
  <2>4. Is(p)
    <3>1. AsScheduled(rows[p], initialSchedule[p], p, ledger.dockerEvaluations)
      BY <2>3 DEF RowsOK
    <3>2. rows[p].phase = "initial"
      BY <2>3, RowsAreOfTheirPhase
    <3>3. QED
      BY <2>1, <3>1, <3>2 DEF AsScheduled
  <2>5. ASSUME NEW r \in 1..Len(rows), Is(r) PROVE r = p
    <3>1. r <= Len(initialSchedule)
      <4>1. r \in Nat /\ ~(r > Len(initialSchedule))
        BY <2>5, RowsAreOfTheirPhase
      <4>2. QED
        BY <1>1, <4>1
    <3>2. InitialPosition(cases, rows[r].case, rows[r].role) = r
      BY <3>1, RowsAreOfTheirPhase
    <3>3. QED
      BY <2>5, <3>2 DEF p
  <2>6. (CHOOSE r \in 1..Len(rows) : Is(r)) = p
    BY <2>3, <2>4, <2>5
  <2>7. QED
    BY <2>6 DEF InitialOutcome, p
<1>3. \A arm : RawCandidates(arm) = RawOf(cases, rows, arm)
  BY <1>2 DEF RawCandidates, RawOf
<1>4. \A arm : Selected(arm) = SelectedOf(RawOf(cases, rows, arm))
  BY <1>3 DEF Selected, SelectedOf, FirstOfGroups, First, Rank
<1>5. Retention = RetentionOf(cases)
  BY DEF Retention, RetentionOf
<1>6. ReplayCandidates = CandidatesOf(cases, rows)
  BY <1>4, <1>5 DEF ReplayCandidates, CandidatesOf
<1>7. ReplaySchedule = ReplayScheduleOf(cases, rows)
  BY <1>5, <1>6 DEF ReplaySchedule, ReplayScheduleOf, ReplayedOf
<1>8. QED
  BY <1>2, <1>3, <1>4, <1>6, <1>7

\* In a whole measurement, a case has one initial row in each role.
LEMMA InitialRowIsOne ==
  ASSUME MeasurementInvariant, stage = "measured", NEW c \in cases,
         NEW role \in {"clean", "single-patch-defect"}
  PROVE  \E p \in 1..Len(rows) :
           {r \in 1..Len(rows) :
              rows[r].case = c /\ rows[r].phase = "initial" /\ rows[r].role = role} = {p}
<1> USE DEF MeasurementInvariant
<1> DEFINE p == InitialPosition(cases, c, role)
           R == {r \in 1..Len(rows) :
                   rows[r].case = c /\ rows[r].phase = "initial" /\ rows[r].role = role}
<1>1. /\ SetOfCases(cases)
      /\ Len(initialSchedule) = 2 * Cardinality(cases) /\ Len(initialSchedule) \in Nat
      /\ Len(rows) \in Nat /\ Len(initialSchedule) <= Len(rows)
  BY SchedulesAreHistories, LenProperties DEF ProgressOK, TypeOK, History
<1>2. /\ p \in 1..Len(initialSchedule) /\ p \in 1..Len(rows)
      /\ initialSchedule[p].case = c /\ initialSchedule[p].role = role
  BY <1>1, InitialScheduleIsOfTheCases DEF SchedulesOK
<1> HIDE DEF p
<1>3. p \in R
  <2>1. AsScheduled(rows[p], initialSchedule[p], p, ledger.dockerEvaluations)
    BY <1>1, <1>2 DEF RowsOK
  <2>2. rows[p].phase = "initial"
    BY <1>1, <1>2, RowsAreOfTheirPhase
  <2>3. QED
    BY <1>2, <2>1, <2>2 DEF AsScheduled
<1>4. ASSUME NEW r \in R PROVE r = p
  <2>1. r <= Len(initialSchedule)
    BY <1>1, RowsAreOfTheirPhase
  <2>2. InitialPosition(cases, rows[r].case, rows[r].role) = r
    BY <2>1, RowsAreOfTheirPhase
  <2>3. QED
    BY <2>2 DEF p
<1>5. R = {p}
  BY <1>3, <1>4
<1>6. QED
  BY <1>1, <1>2, <1>5

\* And one row for each replay, unless it is of the anchors' arm.
LEMMA ReplayRowIsOne ==
  ASSUME MeasurementInvariant, stage = "measured", NEW c \in cases, c.arm # "D",
         NEW run \in 1..separateRuns
  PROVE  \E p \in 1..Len(rows) :
           {r \in 1..Len(rows) :
              rows[r].case = c /\ rows[r].phase = "replay" /\ rows[r].replayIndex = run} = {p}
<1> USE DEF MeasurementInvariant
<1> DEFINE i == Len(initialSchedule)
           k == ReplayPosition(cases, c, run)
           p == i + k
           R == {r \in 1..Len(rows) :
                   rows[r].case = c /\ rows[r].phase = "replay" /\ rows[r].replayIndex = run}
<1>1. /\ SetOfCases(cases) /\ i \in Nat /\ Len(replaySchedule) \in Nat
      /\ Len(rows) \in Nat /\ Len(rows) = i + Len(replaySchedule)
  BY SchedulesAreHistories, LenProperties DEF ProgressOK, TypeOK, History
<1>2. c \in ReplayedOf(cases)
  <2>1. PICK a \in 1..7 : c.arm = Arms[a]
    BY <1>1, ArmsAreIndexed DEF SetOfCases
  <2>2. a = 1 \/ a = 2 \/ a = 3 \/ a = 4 \/ a = 5 \/ a = 6 \/ a = 7
    OBVIOUS
  <2>3. c.arm \in {"G", "P", "A", "B", "C", "D", "E"}
    BY <2>1, <2>2 DEF Arms
  <2>4. QED
    BY <2>3 DEF ReplayedOf, RetentionOf, GenerationArms
<1>3. replaySchedule = ReplayScheduleOf(cases, rows)
  BY DEF SchedulesOK
<1>4. /\ k \in 1..Len(replaySchedule)
      /\ replaySchedule[k].case = c /\ replaySchedule[k].replayIndex = run
  BY <1>1, <1>2, <1>3, ReplayScheduleIsOfTheReplayed
<1> HIDE DEF k
<1>5. p \in 1..Len(rows) /\ p > i /\ ~(p <= i) /\ p - i = k
  BY <1>1, <1>4
<1> HIDE DEF p
<1>6. p \in R
  <2>1. AsScheduled(rows[p], replaySchedule[p - i], p, ledger.dockerEvaluations)
    BY <1>5 DEF RowsOK
  <2>2. rows[p].phase = "replay"
    BY <1>5, RowsAreOfTheirPhase
  <2>3. QED
    BY <1>4, <1>5, <2>1, <2>2 DEF AsScheduled
<1>7. ASSUME NEW r \in R PROVE r = p
  <2>1. r \in 1..Len(rows) /\ ~(r <= i) /\ r \in Nat
    BY RowsAreOfTheirPhase
  <2>2. r > i
    BY <1>1, <2>1
  <2>3. k = r - i
    BY <2>1, <2>2, RowsAreOfTheirPhase DEF k
  <2>4. QED
    BY <1>1, <2>1, <2>3, <1>5 DEF p
<1>8. R = {p}
  BY <1>6, <1>7
<1>9. QED
  BY <1>5, <1>8

\* Once the replay schedule is built, what is selected for replay are the candidates, and
\* the charged replays are replays of candidates: they fit the budgets of the ledger.
LEMMA ReplaysFitTheBudget ==
  ASSUME MeasurementInvariant, stage # "initial"
  PROVE  /\ SelectedForReplay = CandidatesOf(cases, rows)
         /\ Cardinality({c \in SelectedForReplay : Started(c)}) \in Nat
         /\ Cardinality({c \in SelectedForReplay : Started(c)}) <= candidateMaximum
         /\ Cardinality(ChargedReplaysOf(rows)) <= candidateMaximum * separateRuns
<1> USE DEF MeasurementInvariant
<1> DEFINE C == CandidatesOf(cases, rows)
           Q == ChargedReplaysOf(rows)
           T == C \X (1..separateRuns)
           f == [r \in Q |-> <<rows[r].case, rows[r].replayIndex>>]
<1>1. /\ SetOfCases(cases) /\ C \subseteq ReplayedOf(cases)
      /\ IsFiniteSet(C) /\ Cardinality(C) \in Nat /\ Cardinality(C) <= candidateMaximum
  BY CandidatesFitTheBudget, FS_CardinalityType DEF TypeOK
<1>2. replaySchedule = ReplayScheduleOf(cases, rows)
  BY DEF SchedulesOK
<1>3. separateRuns \in Nat \ {0} /\ candidateMaximum \in Nat
  BY MeasurementAssumption
<1>4. SelectedForReplay = C
  <2>1. \A n \in 1..Len(replaySchedule) :
          replaySchedule[n].selected <=> replaySchedule[n].case \in C
    BY <1>1, <1>2, ReplayScheduleIsOfTheReplayed
  <2>2. ASSUME NEW c \in C
        PROVE  \E n \in 1..Len(replaySchedule) : replaySchedule[n].case = c
    <3>1. c \in ReplayedOf(cases) /\ 1 \in 1..separateRuns
      BY <1>1, <1>3
    <3>2. QED
      BY <1>1, <1>2, <3>1, ReplayScheduleIsOfTheReplayed
  <2> HIDE DEF C
  <2>3. QED
    BY <2>1, <2>2 DEF SelectedForReplay
<1>5. LET S == {c \in SelectedForReplay : Started(c)}
      IN Cardinality(S) \in Nat /\ Cardinality(S) <= candidateMaximum
  <2> DEFINE S == {c \in SelectedForReplay : Started(c)}
  <2>1. S \in SUBSET C
    BY <1>4
  <2> HIDE DEF S
  <2>2. Cardinality(S) \in Nat /\ Cardinality(S) <= Cardinality(C)
    BY <1>1, <2>1, FS_Subset, FS_CardinalityType
  <2>3. QED
    BY <1>1, <1>3, <2>2 DEF S
<1>6. \A r \in Q : /\ r \in 1..Len(rows) /\ r > Len(initialSchedule)
                   /\ rows[r].case \in C /\ rows[r].replayIndex \in 1..separateRuns
                   /\ ReplayPosition(cases, rows[r].case, rows[r].replayIndex)
                        = r - Len(initialSchedule)
  <2> SUFFICES ASSUME NEW r \in Q
               PROVE  /\ r \in 1..Len(rows) /\ r > Len(initialSchedule)
                      /\ rows[r].case \in C /\ rows[r].replayIndex \in 1..separateRuns
                      /\ ReplayPosition(cases, rows[r].case, rows[r].replayIndex)
                           = r - Len(initialSchedule)
    OBVIOUS
  <2>1. r \in 1..Len(rows) /\ rows[r].phase = "replay" /\ rows[r].evaluationOrdinal # 0
    BY DEF ChargedReplaysOf
  <2>2. Len(rows) \in Nat /\ Len(initialSchedule) \in Nat /\ ~(r <= Len(initialSchedule))
    BY <2>1, RowsAreOfTheirPhase
  <2>3. r > Len(initialSchedule)
    BY <2>1, <2>2
  <2>4. QED
    BY <2>1, <2>3, RowsAreOfTheirPhase
<1>7. f \in Injection(Q, T)
  <2>1. f \in [Q -> T]
    BY <1>6
  <2>2. ASSUME NEW r1 \in Q, NEW r2 \in Q, f[r1] = f[r2] PROVE r1 = r2
    <3>1. rows[r1].case = rows[r2].case /\ rows[r1].replayIndex = rows[r2].replayIndex
      BY <2>2
    <3>2. r1 - Len(initialSchedule) = r2 - Len(initialSchedule)
      BY <1>6, <3>1
    <3>3. Len(initialSchedule) \in Nat /\ r1 \in Nat /\ r2 \in Nat
      BY <1>6, RowsAreOfTheirPhase
    <3>4. QED
      BY <3>2, <3>3
  <2>3. QED
    BY <2>1, <2>2 DEF Injection, IsInjective
<1>8. IsFiniteSet(T) /\ Cardinality(T) = Cardinality(C) * separateRuns
  <2>1. IsFiniteSet(1..separateRuns) /\ Cardinality(1..separateRuns) = separateRuns
    BY <1>3, FS_Interval
  <2>2. QED
    BY <1>1, <2>1, FS_Product
<1>9. Cardinality(Q) <= Cardinality(C) * separateRuns
  BY <1>7, <1>8, FS_Injection
<1>10. Cardinality(Q) \in Nat /\ Cardinality(C) * separateRuns \in Nat
  <2>1. Cardinality(C) * separateRuns \in Nat
    BY <1>1, <1>3
  <2>2. QED
    BY <2>1, ChargedGrow DEF TypeOK
<1>11. Cardinality(C) * separateRuns <= candidateMaximum * separateRuns
       /\ candidateMaximum * separateRuns \in Nat
  BY <1>1, <1>3, ProductsGrow
<1>12. Cardinality(Q) <= candidateMaximum * separateRuns
  BY <1>9, <1>10, <1>11
<1>13. QED
  BY <1>4, <1>5, <1>12

-----------------------------------------------------------------------------
\* The invariant holds.

LEMMA MeasurementStarts == Init => MeasurementInvariant
<1> SUFFICES ASSUME Init PROVE MeasurementInvariant
  OBVIOUS
<1> USE DEF Init
<1>1. TypeOK
  BY HistoryStarts DEF TypeOK
<1>2. SchedulesOK
  BY DEF SchedulesOK
<1>3. Len(rows) = 0 /\ Len(initialSchedule) \in Nat /\ 1..0 = {}
  BY <1>1, <1>2, SchedulesAreHistories, HistoryStarts
<1>4. ProgressOK
  BY <1>3 DEF ProgressOK
<1>5. RowsOK
  BY <1>3 DEF RowsOK
<1>6. CountsOK
  <2>1. ChargedRowsOf(rows) = {} /\ ChargedReplaysOf(rows) = {}
    BY <1>3 DEF ChargedRowsOf, ChargedReplaysOf
  <2>2. QED
    <3>1. Cardinality(ChargedRowsOf(rows)) = 0 /\ Cardinality(ChargedReplaysOf(rows)) = 0
      BY <2>1, FS_EmptySet
    <3>2. ledger.dockerEvaluations = 0 /\ ledger.replayRuns = 0
      OBVIOUS
    <3>3. QED
      BY <3>1, <3>2, MeasurementAssumption DEF CountsOK
<1>7. ExhaustionOK
  BY <1>3 DEF ExhaustionOK
<1>8. ClockOK /\ ClosingOK
  BY MeasurementAssumption DEF ClockOK, ClosingOK
<1>9. QED
  BY <1>1, <1>2, <1>4, <1>5, <1>6, <1>7, <1>8 DEF MeasurementInvariant

\* A step of the two loops without budget.
LEMMA BudgetExhaustedKeeps ==
  ASSUME MeasurementInvariant, BudgetExhausted
  PROVE  MeasurementInvariant'
<1> USE DEF MeasurementInvariant
<1> DEFINE row == NotRunRow(Item, "budget-exhausted")
<1>1. /\ stage \in {"initial", "replay"} /\ Due /\ Push(row) /\ ~BudgetLeft
      /\ ledger' = [ledger EXCEPT !.stoppedBy = "measurement-budget-exhausted"]
      /\ UNCHANGED <<stage, cases, clock, scheduleVars>>
  BY DEF BudgetExhausted
<1>2. /\ ledger'.dockerEvaluations = ledger.dockerEvaluations
      /\ ledger'.replayRuns = ledger.replayRuns
      /\ ledger.dockerEvaluations \in Nat
      /\ ledger' \in [dockerEvaluations : Nat, replayRuns : Nat, replayCandidates : Nat,
                      elapsedSeconds : Nat, stoppedBy : {"null", "measurement-budget-exhausted"}]
  BY <1>1 DEF TypeOK
<1>3. /\ row.case = Item.case /\ row.role = Item.role /\ row.phase = Item.phase
      /\ row.replayIndex = Item.replayIndex /\ NotRun(row)
      /\ row.reasonCode = "budget-exhausted" /\ row.evaluationOrdinal = 0
  BY DEF NotRunRow, Row, NotRun
<1> HIDE DEF row
<1>4. AsScheduled(row, Item, Len(rows) + 1, ledger'.dockerEvaluations)
  BY <1>3 DEF AsScheduled
<1>5. /\ History(rows')
      /\ Len(rows) \in Nat /\ Len(rows') = Len(rows) + 1
      /\ \A k \in 1..Len(rows) : rows'[k] = rows[k]
      /\ rows'[Len(rows) + 1] = row
      /\ SchedulesOK' /\ ProgressOK' /\ RowsOK'
  BY <1>1, <1>2, <1>4, PushKeepsTheRows
<1>6. TypeOK'
  BY <1>1, <1>2, <1>5 DEF TypeOK
<1>7. CountsOK'
  <2>1. rows' = Append(rows, row) /\ History(rows)
    BY <1>1 DEF Push, TypeOK
  <2>2. /\ Cardinality(ChargedRowsOf(rows')) = Cardinality(ChargedRowsOf(rows)) + 0
        /\ Cardinality(ChargedReplaysOf(rows')) = Cardinality(ChargedReplaysOf(rows)) + 0
        /\ Cardinality(ChargedRowsOf(rows)) \in Nat /\ Cardinality(ChargedReplaysOf(rows)) \in Nat
    BY <1>3, <2>1, ChargedGrow
  <2>3. QED
    BY <1>2, <2>2 DEF CountsOK
<1>8. ~BudgetLeft'
  BY <1>1, <1>2 DEF BudgetLeft
<1>9. ExhaustionOK'
  <2>1. ASSUME NEW r1 \in 1..(Len(rows) + 1), NEW r2 \in 1..(Len(rows) + 1),
               r1 < r2, rows'[r1].reasonCode = "budget-exhausted"
        PROVE  rows'[r2].evaluationOrdinal = 0
    <3>1. CASE r2 = Len(rows) + 1
      BY <1>3, <1>5, <3>1
    <3>2. CASE r2 # Len(rows) + 1
      <4>1. r1 \in 1..Len(rows) /\ r2 \in 1..Len(rows)
        BY <1>5, <2>1, <3>2
      <4>2. QED
        BY <1>5, <2>1, <4>1 DEF ExhaustionOK
    <3>3. QED
      BY <3>1, <3>2
  <2>2. QED
    BY <1>5, <1>8, <2>1 DEF ExhaustionOK
<1>10. ClockOK' /\ ClosingOK'
  BY <1>1 DEF ClockOK, ClosingOK
<1>11. QED
  BY <1>5, <1>6, <1>7, <1>9, <1>10

\* A replay that was not selected.
LEMMA SkipUnselectedKeeps ==
  ASSUME MeasurementInvariant, SkipUnselected
  PROVE  MeasurementInvariant'
<1> USE DEF MeasurementInvariant
<1> DEFINE row == NotRunRow(Item, "replay-not-selected")
<1>1. /\ stage = "replay" /\ Due /\ Push(row)
      /\ UNCHANGED <<stage, cases, clock, scheduleVars, ledger>>
  BY DEF SkipUnselected
<1>2. ledger.dockerEvaluations \in Nat
  BY DEF TypeOK
<1>3. /\ row.case = Item.case /\ row.role = Item.role /\ row.phase = Item.phase
      /\ row.replayIndex = Item.replayIndex /\ NotRun(row)
      /\ row.reasonCode # "budget-exhausted" /\ row.evaluationOrdinal = 0
  BY DEF NotRunRow, Row, NotRun
<1> HIDE DEF row
<1>4. AsScheduled(row, Item, Len(rows) + 1, ledger'.dockerEvaluations)
  BY <1>3 DEF AsScheduled
<1>5. /\ History(rows')
      /\ Len(rows) \in Nat /\ Len(rows') = Len(rows) + 1
      /\ \A k \in 1..Len(rows) : rows'[k] = rows[k]
      /\ rows'[Len(rows) + 1] = row
      /\ SchedulesOK' /\ ProgressOK' /\ RowsOK'
  BY <1>1, <1>2, <1>4, PushKeepsTheRows
<1>6. TypeOK'
  BY <1>1, <1>5 DEF TypeOK
<1>7. CountsOK'
  <2>1. rows' = Append(rows, row) /\ History(rows)
    BY <1>1 DEF Push, TypeOK
  <2>2. /\ Cardinality(ChargedRowsOf(rows')) = Cardinality(ChargedRowsOf(rows)) + 0
        /\ Cardinality(ChargedReplaysOf(rows')) = Cardinality(ChargedReplaysOf(rows)) + 0
        /\ Cardinality(ChargedRowsOf(rows)) \in Nat /\ Cardinality(ChargedReplaysOf(rows)) \in Nat
    BY <1>3, <2>1, ChargedGrow
  <2>3. QED
    BY <1>1, <2>2 DEF CountsOK
<1>8. BudgetLeft' = BudgetLeft
  BY <1>1 DEF BudgetLeft
<1>9. ExhaustionOK'
  <2>1. ASSUME NEW r1 \in 1..(Len(rows) + 1), rows'[r1].reasonCode = "budget-exhausted"
        PROVE  r1 \in 1..Len(rows) /\ rows[r1].reasonCode = "budget-exhausted"
    BY <1>3, <1>5, <2>1
  <2>2. ASSUME NEW r1 \in 1..(Len(rows) + 1), NEW r2 \in 1..(Len(rows) + 1),
               r1 < r2, rows'[r1].reasonCode = "budget-exhausted"
        PROVE  rows'[r2].evaluationOrdinal = 0
    <3>1. r1 \in 1..Len(rows) /\ rows[r1].reasonCode = "budget-exhausted"
      BY <2>1, <2>2
    <3>2. CASE r2 = Len(rows) + 1
      BY <1>3, <1>5, <3>2
    <3>3. CASE r2 # Len(rows) + 1
      BY <1>5, <2>2, <3>1, <3>3 DEF ExhaustionOK
    <3>4. QED
      BY <3>2, <3>3
  <2>3. QED
    BY <1>5, <1>8, <2>1, <2>2 DEF ExhaustionOK
<1>10. ClockOK' /\ ClosingOK'
  BY <1>1 DEF ClockOK, ClosingOK
<1>11. QED
  BY <1>5, <1>6, <1>7, <1>9, <1>10

\* An evaluation: there was budget left, so no row says that it was exhausted.
LEMMA ExecuteKeeps ==
  ASSUME MeasurementInvariant, NEW outcome \in Outcomes, NEW seconds \in Durations,
         Execute(outcome, seconds)
  PROVE  MeasurementInvariant'
<1> USE DEF MeasurementInvariant
<1> DEFINE ordinal == ledger.dockerEvaluations + 1
           row == ExecutedRow(Item, ordinal, Len(rows), outcome)
<1>1. /\ stage \in {"initial", "replay"} /\ Due /\ Item.selected /\ BudgetLeft /\ Push(row)
      /\ ledger' = [ledger EXCEPT !.dockerEvaluations = ordinal,
                                  !.replayRuns = IF Item.phase = "replay" THEN @ + 1 ELSE @]
      /\ clock' = clock + seconds
      /\ UNCHANGED <<stage, cases, scheduleVars>>
  BY DEF Execute
<1>2. /\ ledger.dockerEvaluations \in Nat /\ ledger.replayRuns \in Nat
      /\ ledger'.dockerEvaluations = ordinal
      /\ ledger'.replayRuns = IF Item.phase = "replay" THEN ledger.replayRuns + 1
                              ELSE ledger.replayRuns
      /\ ledger' \in [dockerEvaluations : Nat, replayRuns : Nat, replayCandidates : Nat,
                      elapsedSeconds : Nat, stoppedBy : {"null", "measurement-budget-exhausted"}]
  <2> DEFINE runs == IF Item.phase = "replay" THEN ledger.replayRuns + 1 ELSE ledger.replayRuns
  <2>1. ledger.dockerEvaluations \in Nat /\ ledger.replayRuns \in Nat
    BY DEF TypeOK
  <2>2. ordinal \in Nat /\ runs \in Nat
    BY <2>1
  <2>3. ledger' = [ledger EXCEPT !.dockerEvaluations = ordinal, !.replayRuns = runs]
    BY <1>1
  <2> HIDE DEF ordinal, runs
  <2>4. /\ ledger'.dockerEvaluations = ordinal /\ ledger'.replayRuns = runs
        /\ ledger' \in [dockerEvaluations : Nat, replayRuns : Nat, replayCandidates : Nat,
                        elapsedSeconds : Nat, stoppedBy : {"null", "measurement-budget-exhausted"}]
    BY <2>2, <2>3 DEF TypeOK
  <2>5. QED
    BY <2>1, <2>4 DEF runs
<1>3. ordinal \in Nat \ {0} /\ ordinal <= dockerEvaluationMaximum
      /\ ledger.dockerEvaluations <= ordinal
  BY <1>1, <1>2, MeasurementAssumption DEF BudgetLeft
<1>4. Len(rows) \in Nat
  BY LenProperties DEF TypeOK, History
<1> HIDE DEF ordinal
<1>5. /\ row.case = Item.case /\ row.role = Item.role /\ row.phase = Item.phase
      /\ row.replayIndex = Item.replayIndex /\ row.evaluationOrdinal = ordinal
      /\ row.reasonCode # "budget-exhausted" /\ Recorded(row, Len(rows) + 1, ordinal)
  <2> DEFINE n == Len(rows)
  <2>1. row = ExecutedRow(Item, ordinal, n, outcome) /\ n \in Nat
    BY <1>4
  <2> HIDE DEF row, n
  <2>2. ExecutedAs(row, Item, n + 1, ordinal)
    BY <1>3, <2>1, ExecutedRowIsCharged
  <2>3. QED
    BY <2>2 DEF ExecutedAs, n
<1> HIDE DEF row
<1>6. AsScheduled(row, Item, Len(rows) + 1, ledger'.dockerEvaluations)
  BY <1>1, <1>2, <1>5 DEF AsScheduled
<1>7. /\ History(rows')
      /\ Len(rows') = Len(rows) + 1
      /\ \A k \in 1..Len(rows) : rows'[k] = rows[k]
      /\ rows'[Len(rows) + 1] = row
      /\ SchedulesOK' /\ ProgressOK' /\ RowsOK'
  BY <1>1, <1>2, <1>3, <1>6, PushKeepsTheRows
<1>8. clock \in Nat /\ seconds \in Nat /\ clock < wallClockMaximum /\ wallClockMaximum \in Nat
  BY <1>1, MeasurementAssumption DEF TypeOK, BudgetLeft
<1>9. TypeOK'
  BY <1>1, <1>2, <1>7, <1>8 DEF TypeOK
<1>10. CountsOK'
  <2>1. rows' = Append(rows, row) /\ History(rows)
    BY <1>1 DEF Push, TypeOK
  <2>2. row.evaluationOrdinal # 0
    BY <1>3, <1>5
  <2>3. Cardinality(ChargedRowsOf(rows')) = Cardinality(ChargedRowsOf(rows)) + 1
    BY <2>1, <2>2, ChargedGrow
  <2>4. Cardinality(ChargedReplaysOf(rows')) =
          Cardinality(ChargedReplaysOf(rows)) + (IF Item.phase = "replay" THEN 1 ELSE 0)
    BY <1>5, <2>1, <2>2, ChargedGrow
  <2>5. /\ Cardinality(ChargedRowsOf(rows)) = ledger.dockerEvaluations
        /\ Cardinality(ChargedReplaysOf(rows)) = ledger.replayRuns
    BY DEF CountsOK
  <2>6. QED
    BY <1>2, <1>3, <2>3, <2>4, <2>5 DEF CountsOK, ordinal
<1>11. ExhaustionOK'
  <2>1. ASSUME NEW r \in 1..(Len(rows) + 1) PROVE rows'[r].reasonCode # "budget-exhausted"
    <3>1. CASE r = Len(rows) + 1
      BY <1>5, <1>7, <3>1
    <3>2. CASE r # Len(rows) + 1
      <4>1. r \in 1..Len(rows)
        BY <1>4, <3>2
      <4>2. QED
        BY <1>1, <1>7, <4>1 DEF ExhaustionOK
    <3>3. QED
      BY <3>1, <3>2
  <2>2. QED
    BY <1>7, <2>1 DEF ExhaustionOK
<1>12. ClockOK'
  <2>1. clock + seconds < wallClockMaximum + seconds
    BY <1>8
  <2>2. QED
    BY <1>1, <2>1 DEF ClockOK
<1>13. ClosingOK'
  BY <1>1 DEF ClosingOK
<1>14. QED
  BY <1>7, <1>9, <1>10, <1>11, <1>12, <1>13

\* The replay schedule is built within its budget.
LEMMA BuildReplayScheduleKeeps ==
  ASSUME MeasurementInvariant, BuildReplaySchedule
  PROVE  MeasurementInvariant'
<1> USE DEF MeasurementInvariant
<1>1. stage = "initial" /\ ~Due /\ UNCHANGED <<cases, clock, rows, initialSchedule, ledger>>
  BY DEF BuildReplaySchedule
<1>2. /\ Len(rows) \in Nat /\ Len(initialSchedule) \in Nat
      /\ Len(rows) = Len(initialSchedule)
  <2>1. Len(rows) \in Nat
    BY LenProperties DEF TypeOK, History
  <2>2. /\ Len(initialSchedule) \in Nat /\ Len(replaySchedule) = 0
        /\ Len(Schedule) = Len(initialSchedule) + Len(replaySchedule)
    BY <1>1, SchedulesAreHistories
  <2>3. Len(rows) <= Len(initialSchedule) /\ ~(Len(rows) < Len(Schedule))
    BY <1>1 DEF ProgressOK, Due
  <2>4. QED
    BY <2>1, <2>2, <2>3
<1>3. /\ ReplayCandidates = CandidatesOf(cases, rows)
      /\ ReplaySchedule = ReplayScheduleOf(cases, rows)
  BY <1>2, OutcomesAreSettled
<1>4. Cardinality(ReplayCandidates) <= candidateMaximum
  BY <1>3, CandidatesFitTheBudget DEF TypeOK
<1>5. stage' = "replay" /\ replaySchedule' = ReplayScheduleOf(cases, rows)
  BY <1>3, <1>4 DEF BuildReplaySchedule
<1>6. SetOfCases(cases)
  BY SchedulesAreHistories
<1>7. Len(replaySchedule') \in Nat
  <2>1. History(ReplayScheduleOf(cases, rows))
    BY <1>6, ReplayScheduleIsOfTheReplayed
  <2>2. QED
    BY <1>5, <2>1, LenProperties DEF History
<1>8. TypeOK' /\ SchedulesOK'
  BY <1>1, <1>5 DEF TypeOK, SchedulesOK
<1>9. ProgressOK'
  BY <1>1, <1>2, <1>5, <1>7 DEF ProgressOK
<1>10. RowsOK'
  <2>1. \A r \in 1..Len(rows) : r <= Len(initialSchedule) /\ ~(r > Len(initialSchedule))
    BY <1>2
  <2>2. QED
    BY <1>1, <2>1 DEF RowsOK
<1>11. CountsOK' /\ ExhaustionOK' /\ ClockOK' /\ ClosingOK'
  BY <1>1, <1>5 DEF CountsOK, ExhaustionOK, BudgetLeft, ClockOK, ClosingOK, ChargedRowsOf, ChargedReplaysOf
<1>12. QED
  BY <1>8, <1>9, <1>10, <1>11

\* The ledger is closed: all its counts are within the budgets but that of the seconds.
LEMMA CloseKeeps ==
  ASSUME MeasurementInvariant, Close
  PROVE  MeasurementInvariant'
<1> USE DEF MeasurementInvariant
<1> DEFINE count == Cardinality({c \in SelectedForReplay : Started(c)})
<1>1. /\ stage = "replay" /\ ~Due
      /\ ledger' = [ledger EXCEPT !.replayCandidates = count, !.elapsedSeconds = clock]
      /\ stage' = IF ValidateBudgetLedger(ledger') THEN "measured" ELSE "thrown"
      /\ UNCHANGED <<cases, clock, rows, scheduleVars>>
  BY DEF Close
<1>2. initialSchedule' = initialSchedule /\ replaySchedule' = replaySchedule
  BY <1>1 DEF scheduleVars
<1>3. /\ count \in Nat /\ count <= candidateMaximum
      /\ Cardinality(ChargedReplaysOf(rows)) <= candidateMaximum * separateRuns
  BY <1>1, ReplaysFitTheBudget
<1> HIDE DEF count
<1>4. /\ ledger'.dockerEvaluations = ledger.dockerEvaluations
      /\ ledger'.replayRuns = ledger.replayRuns
      /\ ledger'.replayCandidates = count
      /\ ledger'.elapsedSeconds = clock
      /\ ledger' \in [dockerEvaluations : Nat, replayRuns : Nat, replayCandidates : Nat,
                      elapsedSeconds : Nat, stoppedBy : {"null", "measurement-budget-exhausted"}]
  BY <1>1, <1>3 DEF TypeOK
<1>5. /\ Len(rows) = Len(initialSchedule) + Len(replaySchedule)
      /\ Len(initialSchedule) \in Nat /\ Len(replaySchedule) \in Nat
  <2>1. Len(rows) \in Nat
    BY LenProperties DEF TypeOK, History
  <2>2. /\ Len(initialSchedule) \in Nat /\ Len(replaySchedule) \in Nat
        /\ Len(Schedule) = Len(initialSchedule) + Len(replaySchedule)
    BY SchedulesAreHistories
  <2>3. /\ Len(rows) <= Len(initialSchedule) + Len(replaySchedule)
        /\ ~(Len(rows) < Len(Schedule))
    BY <1>1 DEF ProgressOK, Due
  <2>4. QED
    BY <2>1, <2>2, <2>3
<1>6. stage' \in {"measured", "thrown"}
  BY <1>1
<1>7. TypeOK'
  BY <1>1, <1>4, <1>6 DEF TypeOK
<1>8. SchedulesOK' /\ ProgressOK'
  BY <1>1, <1>2, <1>5, <1>6 DEF SchedulesOK, ProgressOK
<1>9. RowsOK' /\ CountsOK' /\ ExhaustionOK' /\ ClockOK'
  BY <1>1, <1>2, <1>4 DEF RowsOK, CountsOK, ExhaustionOK, BudgetLeft, ClockOK, ChargedRowsOf, ChargedReplaysOf
<1>10. ClosingOK'
  <2>1. ledger'.dockerEvaluations <= dockerEvaluationMaximum
        /\ ledger'.replayCandidates <= candidateMaximum
        /\ ledger'.replayRuns <= candidateMaximum * separateRuns
    BY <1>3, <1>4 DEF CountsOK
  <2>2. ~ValidateBudgetLedger(ledger') => ~(clock <= wallClockMaximum)
    BY <1>4, <2>1 DEF ValidateBudgetLedger
  <2>3. clock \in Nat /\ wallClockMaximum \in Nat
    BY MeasurementAssumption DEF TypeOK
  <2>4. QED
    BY <1>1, <2>2, <2>3 DEF ClosingOK
<1>11. QED
  BY <1>7, <1>8, <1>9, <1>10

\* Every step of a measurement keeps the invariant.
LEMMA MeasurementKeeps == MeasurementInvariant /\ [Next]_vars => MeasurementInvariant'
<1> SUFFICES ASSUME MeasurementInvariant, [Next]_vars PROVE MeasurementInvariant'
  OBVIOUS
<1>1. CASE BudgetExhausted
  BY <1>1, BudgetExhaustedKeeps
<1>2. ASSUME NEW outcome \in Outcomes, NEW seconds \in Durations, Execute(outcome, seconds)
      PROVE  MeasurementInvariant'
  BY <1>2, ExecuteKeeps
<1>3. CASE SkipUnselected
  BY <1>3, SkipUnselectedKeeps
<1>4. CASE BuildReplaySchedule
  BY <1>4, BuildReplayScheduleKeeps
<1>5. CASE Close
  BY <1>5, CloseKeeps
<1>6. CASE UNCHANGED vars
  BY <1>6 DEF vars, scheduleVars, MeasurementInvariant, TypeOK, SchedulesOK, ProgressOK, RowsOK,
    CountsOK, ExhaustionOK, BudgetLeft, ClockOK, ClosingOK, ChargedRowsOf, ChargedReplaysOf
<1>7. QED
  BY <1>1, <1>2, <1>3, <1>4, <1>5, <1>6 DEF Next, Over

\* The measurement is in one of the states of the invariant, whatever the cases, the
\* outcomes and the durations are.
THEOREM MeasurementInvariantHolds == Spec => []MeasurementInvariant
BY MeasurementStarts, MeasurementKeeps, PTL DEF Spec

-----------------------------------------------------------------------------
\* The properties.

\* Both budgets hold as far as a check before each evaluation can hold them, and nothing
\* but the wall clock makes the runner throw its rows away: the replay schedule never
\* exceeds its budget.
THEOREM MeasurementKeepsItsBudgets == Spec => []BudgetsHold
<1>1. MeasurementInvariant => BudgetsHold
  BY DEF MeasurementInvariant, ExhaustionOK, ClockOK, ClosingOK, BudgetsHold
<1>2. QED
  BY <1>1, MeasurementInvariantHolds, PTL

\* No case drops out of a measurement: one row for each initial evaluation and for each
\* replay.
THEOREM NoCaseDropsOut == Spec => []EveryItemHasItsRow
<1>1. ASSUME MeasurementInvariant, stage = "measured", NEW c \in cases,
             NEW role \in {"clean", "single-patch-defect"}
      PROVE  Cardinality({r \in 1..Len(rows) :
               rows[r].case = c /\ rows[r].phase = "initial" /\ rows[r].role = role}) = 1
  <2> DEFINE R == {r \in 1..Len(rows) : rows[r].case = c /\ rows[r].phase = "initial" /\ rows[r].role = role}
  <2>1. PICK p \in 1..Len(rows) : R = {p}
    BY <1>1, InitialRowIsOne
  <2>2. QED
    BY <2>1, FS_Singleton
<1>2. ASSUME MeasurementInvariant, stage = "measured", NEW c \in cases, c.arm # "D",
             NEW run \in 1..separateRuns
      PROVE  Cardinality({r \in 1..Len(rows) :
               rows[r].case = c /\ rows[r].phase = "replay" /\ rows[r].replayIndex = run}) = 1
  <2> DEFINE R == {r \in 1..Len(rows) : rows[r].case = c /\ rows[r].phase = "replay" /\ rows[r].replayIndex = run}
  <2>1. PICK p \in 1..Len(rows) : R = {p}
    BY <1>2, ReplayRowIsOne
  <2>2. QED
    BY <2>1, FS_Singleton
<1>3. MeasurementInvariant => EveryItemHasItsRow
  BY <1>1, <1>2 DEF EveryItemHasItsRow
<1>4. QED
  BY <1>3, MeasurementInvariantHolds, PTL

\* Replays are spent on the first two-sided candidates of each arm, no two of a duplicate
\* group, up to the quota.
THEOREM ReplaysGoToTheFirst == Spec => []ReplaysAreTheFirstCandidates
<1>1. ASSUME MeasurementInvariant, stage \in {"replay", "measured"}, NEW arm \in GenerationArms
      PROVE  LET chosen == {c \in SelectedForReplay : c.arm = arm}
             IN /\ chosen = SelectedOf(RawOf(cases, rows, arm))
                /\ RawCandidates(arm) = RawOf(cases, rows, arm)
                /\ \A c \in chosen : InitialOutcome(c, "single-patch-defect") = "violation"
                                     /\ InitialOutcome(c, "clean") = "pass"
  <2> USE <1>1 DEF MeasurementInvariant
  <2> DEFINE chosen == {c \in SelectedForReplay : c.arm = arm}
             Sel(a) == SelectedOf(RawOf(cases, rows, a))
  <2>1. Len(initialSchedule) <= Len(rows)
    BY DEF ProgressOK
  <2>2. RawCandidates(arm) = RawOf(cases, rows, arm)
    BY <2>1, OutcomesAreSettled
  <2>3. \A a : Sel(a) \subseteq RawOf(cases, rows, a)
    BY CandidatesFitTheBudget, SelectionIsTheFirst DEF TypeOK
  <2>4. SelectedForReplay = CandidatesOf(cases, rows)
    BY ReplaysFitTheBudget
  <2>5. \A a : \A c \in RawOf(cases, rows, a) : c.arm = a
    BY DEF RawOf
  <2>6. arm # "E"
    BY DEF GenerationArms
  <2>7. \A c : c \in CandidatesOf(cases, rows) <=>
                 (c \in cases /\ c.arm = "E") \/ \E a \in GenerationArms : c \in Sel(a)
    BY DEF CandidatesOf, RetentionOf
  <2> HIDE DEF Sel
  <2>8. chosen = Sel(arm)
    BY <2>3, <2>4, <2>5, <2>6, <2>7
  <2> HIDE DEF chosen
  <2>9. \A c \in chosen : InitialOutcome(c, "single-patch-defect") = "violation"
                          /\ InitialOutcome(c, "clean") = "pass"
    <3>1. \A c \in chosen : c \in RawCandidates(arm)
      BY <2>2, <2>3, <2>8
    <3>2. QED
      BY <3>1 DEF RawCandidates
  <2>10. QED
    BY <2>2, <2>8, <2>9 DEF chosen, Sel
<1>2. MeasurementInvariant => ReplaysAreTheFirstCandidates
  <2> SUFFICES ASSUME MeasurementInvariant, stage \in {"replay", "measured"},
                      NEW arm \in GenerationArms
               PROVE  LET chosen == {c \in SelectedForReplay : c.arm = arm} IN
                      /\ Cardinality(chosen) <= candidateMaximumPerArm
                      /\ \A c \in chosen :
                           /\ InitialOutcome(c, "single-patch-defect") = "violation"
                           /\ InitialOutcome(c, "clean") = "pass"
                      /\ \A c1, c2 \in chosen : c1.duplicateGroup = c2.duplicateGroup => c1 = c2
                      /\ \A c \in RawCandidates(arm) \ chosen :
                           \/ \E twin \in chosen :
                                twin.duplicateGroup = c.duplicateGroup /\ Before(twin, c)
                           \/ /\ Cardinality(chosen) = candidateMaximumPerArm
                              /\ \A other \in chosen : Before(other, c)
    BY DEF ReplaysAreTheFirstCandidates
  <2> DEFINE chosen == {c \in SelectedForReplay : c.arm = arm}
             raw == RawOf(cases, rows, arm)
  <2>1. /\ chosen = SelectedOf(raw)
        /\ RawCandidates(arm) = raw
        /\ \A c \in chosen : InitialOutcome(c, "single-patch-defect") = "violation"
                             /\ InitialOutcome(c, "clean") = "pass"
    BY <1>1
  <2>2. SetOfCases(raw)
    BY CandidatesFitTheBudget DEF MeasurementInvariant, TypeOK
  <2> HIDE DEF chosen, raw
  <2>3. /\ Cardinality(chosen) <= candidateMaximumPerArm
        /\ \A c1, c2 \in chosen : c1.duplicateGroup = c2.duplicateGroup => c1 = c2
        /\ \A c \in raw \ chosen :
             \/ \E twin \in chosen : twin.duplicateGroup = c.duplicateGroup /\ Before(twin, c)
             \/ /\ Cardinality(chosen) = candidateMaximumPerArm
                /\ \A other \in chosen : Before(other, c)
    BY <2>1, <2>2, SelectionIsTheFirst
  <2>4. QED
    BY <2>1, <2>3 DEF chosen
<1>3. QED
  BY <1>2, MeasurementInvariantHolds, PTL

\* An accepted measurement has one run record for each evaluation it was charged, and no
\* verdict without one.
THEOREM EvidenceHasEveryRun == Spec => []EvidenceIsOfEveryRun
<1> DEFINE Unrecorded == \A r \in 1..Len(rows) : rows[r].outcome # "planner-error"
           Removed == \A r \in 1..Len(rows) : \A record \in rows[r].runRecord : record.run.removed
<1>1. ASSUME MeasurementInvariant, stage = "measured"
      PROVE  /\ Len(rows) = Len(Schedule)
             /\ ValidateBudgetLedger(ledger)
             /\ \A r \in 1..Len(rows) :
                  NotRun(rows[r]) \/ Recorded(rows[r], r, ledger.dockerEvaluations)
  <2> USE <1>1 DEF MeasurementInvariant
  <2>1. Len(rows) = Len(Schedule)
    BY SchedulesAreHistories DEF ProgressOK
  <2>2. ASSUME NEW r \in 1..Len(rows)
        PROVE  NotRun(rows[r]) \/ Recorded(rows[r], r, ledger.dockerEvaluations)
    <3>1. r <= Len(initialSchedule) \/ r > Len(initialSchedule)
      BY RowsAreOfTheirPhase
    <3>2. QED
      BY <3>1 DEF RowsOK, AsScheduled
  <2>3. QED
    BY <2>1, <2>2 DEF ClosingOK
<1>2. ASSUME MeasurementInvariant, stage = "measured", NEW r \in 1..Len(rows)
      PROVE  LET row == rows[r] IN
             /\ ValidateMeasurementRow(row)
             /\ ChargedRowHasRecord(row) <=> row.outcome # "planner-error"
             /\ \A record \in row.runRecord :
                  /\ record.sequence = r - 1
                  /\ ValidateRawRunRecord(record, row) <=> record.run.removed
  <2>1. ledger.dockerEvaluations \in Nat /\ ledger.dockerEvaluations <= dockerEvaluationMaximum
        /\ dockerEvaluationMaximum \in Nat
    BY <1>2, MeasurementAssumption DEF MeasurementInvariant, TypeOK, CountsOK
  <2>2. CASE NotRun(rows[r])
    BY <2>1, <2>2 DEF NotRun, ValidateMeasurementRow, ChargedRowHasRecord
  <2>3. CASE Recorded(rows[r], r, ledger.dockerEvaluations)
    BY <2>1, <2>3 DEF Recorded, ValidateMeasurementRow, ChargedRowHasRecord, ValidateRawRunRecord
  <2>4. QED
    BY <1>1, <1>2, <2>2, <2>3
<1>3. ASSUME MeasurementInvariant, stage = "measured"
      PROVE  EvidenceIsValid <=> Unrecorded /\ Removed
  BY <1>1, <1>2, <1>3 DEF EvidenceIsValid
<1>4. ASSUME MeasurementInvariant, stage = "measured", Unrecorded
      PROVE  /\ Cardinality(UNION {rows[r].runRecord : r \in 1..Len(rows)})
                  = ledger.dockerEvaluations
             /\ \A r \in 1..Len(rows) :
                  rows[r].outcome # "not-run" =>
                    \E record \in rows[r].runRecord :
                      record.run.exitsWell => rows[r].outcome = record.run.result
  <2> DEFINE Q == ChargedRowsOf(rows)
             U == UNION {rows[r].runRecord : r \in 1..Len(rows)}
             f == [r \in Q |-> CHOOSE record \in rows[r].runRecord : TRUE]
  <2>1. \A r \in Q : /\ r \in 1..Len(rows)
                     /\ \E record \in rows[r].runRecord :
                          /\ rows[r].runRecord = {record}
                          /\ record.sequence = r - 1
                          /\ record.run.exitsWell => rows[r].outcome = record.run.result
    BY <1>1, <1>4 DEF ChargedRowsOf, NotRun, Recorded
  <2>2. \A r \in 1..Len(rows) : r \notin Q => rows[r].runRecord = {} /\ rows[r].outcome = "not-run"
    <3> SUFFICES ASSUME NEW r \in 1..Len(rows), r \notin Q
                 PROVE  rows[r].runRecord = {} /\ rows[r].outcome = "not-run"
      OBVIOUS
    <3>1. rows[r].evaluationOrdinal = 0
      BY DEF ChargedRowsOf
    <3>2. ~Recorded(rows[r], r, ledger.dockerEvaluations)
      BY <3>1 DEF Recorded
    <3>3. QED
      BY <1>1, <1>4, <3>2 DEF NotRun
  <2>3. \A r \in Q : rows[r].runRecord = {f[r]} /\ f[r].sequence = r - 1
    BY <2>1
  <2> HIDE DEF f
  <2>4. f \in Bijection(Q, U)
    <3>1. f = [r \in Q |-> f[r]]
      BY DEF f
    <3>2. \A r \in Q : f[r] \in U
      BY <2>1, <2>3
    <3>3. \A u \in U : \E r \in Q : f[r] = u
      BY <2>2, <2>3
    <3>4. \A r1, r2 \in Q : f[r1] = f[r2] => r1 = r2
      <4> SUFFICES ASSUME NEW r1 \in Q, NEW r2 \in Q, f[r1] = f[r2] PROVE r1 = r2
        OBVIOUS
      <4>1. r1 - 1 = r2 - 1
        BY <2>3
      <4>2. r1 \in Int /\ r2 \in Int
        BY <2>1
      <4>3. QED
        BY <4>1, <4>2
    <3> HIDE DEF Q, U
    <3>5. QED
      BY <3>1, <3>2, <3>3, <3>4 DEF Bijection, Injection, Surjection, IsInjective
  <2>5. IsFiniteSet(Q) /\ Cardinality(Q) = ledger.dockerEvaluations
    BY <1>4, ChargedGrow DEF MeasurementInvariant, TypeOK, CountsOK
  <2>6. Cardinality(U) = ledger.dockerEvaluations
    <3>1. ExistsBijection(Q, U)
      BY <2>4 DEF ExistsBijection
    <3> HIDE DEF Q, U
    <3>2. QED
      BY <2>5, <3>1, FS_Bijection
  <2>7. \A r \in 1..Len(rows) :
          rows[r].outcome # "not-run" =>
            \E record \in rows[r].runRecord :
              record.run.exitsWell => rows[r].outcome = record.run.result
    BY <2>1, <2>2
  <2>8. QED
    BY <2>6, <2>7
<1>5. MeasurementInvariant => EvidenceIsOfEveryRun
  BY <1>3, <1>4 DEF EvidenceIsOfEveryRun
<1>6. QED
  BY <1>5, MeasurementInvariantHolds, PTL

-----------------------------------------------------------------------------
\* The scorer's look-ups: what they find in a whole measurement.


\* What the scorer looks up at the coordinates of a case.
EvaluatedAt(c, role, run) == OutcomeAt(c.arm, c.input, c.truth, role, run)

\* Unless the indexes conflict, a case is known by its arm, input and truth.
LEMMA CasesAreKnownByTheirTruth ==
  ASSUME MeasurementInvariant, ~IndexesConflict, NEW c1 \in cases, NEW c2 \in cases,
         c1.arm = c2.arm, c1.input = c2.input, c1.truth = c2.truth
  PROVE  c1 = c2
<1>1. c1.module = c2.module
  BY DEF IndexesConflict
<1>2. SetOfCases(cases)
  BY SchedulesAreHistories DEF MeasurementInvariant
<1>3. QED
  BY <1>1, <1>2 DEF SetOfCases

\* A row is of a case, of an initial run with the index 0 or of a replay on the defect.
LEMMA RowsAreOfCases ==
  ASSUME MeasurementInvariant, NEW r \in 1..Len(rows)
  PROVE  /\ rows[r].case \in cases
         /\ \/ /\ rows[r].phase = "initial" /\ rows[r].replayIndex = 0
               /\ rows[r].role \in {"clean", "single-patch-defect"}
            \/ /\ rows[r].phase = "replay" /\ rows[r].replayIndex \in 1..separateRuns
               /\ rows[r].role = "single-patch-defect"
               /\ rows[r].case \in ReplayedOf(cases)
<1>1. r \in Nat /\ Len(initialSchedule) \in Nat
  BY RowsAreOfTheirPhase
<1>2. CASE r <= Len(initialSchedule)
  BY <1>2, RowsAreOfTheirPhase
<1>3. CASE r > Len(initialSchedule)
  <2>1. rows[r].case \in cases
    BY <1>3, RowsAreOfTheirPhase DEF ReplayedOf, RetentionOf
  <2>2. QED
    BY <1>3, <2>1, RowsAreOfTheirPhase
<1>4. QED
  BY <1>1, <1>2, <1>3

\* A coordinate with an outcome is that of a case.
LEMMA OutcomesAreOfCases ==
  ASSUME MeasurementInvariant, NEW arm, NEW input, NEW truth, NEW role, NEW run,
         OutcomeAt(arm, input, truth, role, run) # "missing"
  PROVE  \E c \in cases : c.arm = arm /\ c.input = input /\ c.truth = truth
<1> DEFINE at == {r \in 1..Len(rows) :
               /\ rows[r].case.arm = arm
               /\ rows[r].case.input = input
               /\ rows[r].case.truth = truth
               /\ rows[r].role = role
               /\ rows[r].replayIndex = run}
<1>1. at # {}
  BY DEF OutcomeAt
<1>2. PICK r \in 1..Len(rows) : /\ rows[r].case.arm = arm
                                /\ rows[r].case.input = input
                                /\ rows[r].case.truth = truth
  BY <1>1
<1>3. QED
  BY <1>2, RowsAreOfCases

\* The row at the coordinate of an evaluation is the row of that evaluation.
LEMMA LookedUp ==
  ASSUME NEW c, NEW role, NEW run, NEW p \in 1..Len(rows),
         {r \in 1..Len(rows) :
            /\ rows[r].case.arm = c.arm
            /\ rows[r].case.input = c.input
            /\ rows[r].case.truth = c.truth
            /\ rows[r].role = role
            /\ rows[r].replayIndex = run} = {p}
  PROVE  EvaluatedAt(c, role, run) = rows[p].outcome
<1> DEFINE at == {r \in 1..Len(rows) :
            /\ rows[r].case.arm = c.arm
            /\ rows[r].case.input = c.input
            /\ rows[r].case.truth = c.truth
            /\ rows[r].role = role
            /\ rows[r].replayIndex = run}
<1>1. EvaluatedAt(c, role, run) =
        IF at = {} THEN "missing" ELSE rows[CHOOSE r \in at : TRUE].outcome
  BY DEF EvaluatedAt, OutcomeAt
<1>2. at = {p}
  OBVIOUS
<1> HIDE DEF at
<1>3. (CHOOSE r \in at : TRUE) = p
  BY <1>2
<1>4. QED
  BY <1>1, <1>2, <1>3

\* In a whole measurement, what is looked up for an initial run is its outcome.
LEMMA InitialIsLookedUp ==
  ASSUME MeasurementInvariant, stage = "measured", ~IndexesConflict, NEW c \in cases,
         NEW role \in {"clean", "single-patch-defect"}
  PROVE  EvaluatedAt(c, role, 0) = InitialOutcome(c, role)
<1> DEFINE R == {r \in 1..Len(rows) :
                   rows[r].case = c /\ rows[r].phase = "initial" /\ rows[r].role = role}
           at == {r \in 1..Len(rows) :
                    /\ rows[r].case.arm = c.arm
                    /\ rows[r].case.input = c.input
                    /\ rows[r].case.truth = c.truth
                    /\ rows[r].role = role
                    /\ rows[r].replayIndex = 0}
<1>1. PICK p \in 1..Len(rows) : R = {p}
  BY InitialRowIsOne
<1>2. \A r \in 1..Len(rows) : r \in at <=> r \in R
  <2>1. ASSUME NEW r \in at PROVE r \in R
    <3>1. rows[r].case = c
      BY RowsAreOfCases, CasesAreKnownByTheirTruth
    <3>2. rows[r].phase = "initial"
      BY RowsAreOfCases, MeasurementAssumption
    <3>3. QED
      BY <3>1, <3>2
  <2>2. ASSUME NEW r \in R PROVE r \in at
    <3>1. rows[r].replayIndex = 0
      BY RowsAreOfCases
    <3>2. QED
      BY <3>1
  <2>3. QED
    BY <2>1, <2>2
<1>3. at = {p}
  BY <1>1, <1>2
<1>4. EvaluatedAt(c, role, 0) = rows[p].outcome
  BY <1>3, LookedUp
<1>5. (CHOOSE r \in 1..Len(rows) :
         rows[r].phase = "initial" /\ rows[r].case = c /\ rows[r].role = role) = p
  BY <1>1
<1>6. QED
  BY <1>4, <1>5 DEF InitialOutcome

\* And what is looked up for a replay is the outcome of its row.
LEMMA ReplayIsLookedUp ==
  ASSUME MeasurementInvariant, stage = "measured", ~IndexesConflict, NEW c \in cases,
         c.arm # "D", NEW run \in 1..separateRuns
  PROVE  \E p \in 1..Len(rows) :
           /\ {r \in 1..Len(rows) :
                 rows[r].case = c /\ rows[r].phase = "replay" /\ rows[r].replayIndex = run} = {p}
           /\ EvaluatedAt(c, "single-patch-defect", run) = rows[p].outcome
<1> DEFINE R == {r \in 1..Len(rows) :
                   rows[r].case = c /\ rows[r].phase = "replay" /\ rows[r].replayIndex = run}
           at == {r \in 1..Len(rows) :
                    /\ rows[r].case.arm = c.arm
                    /\ rows[r].case.input = c.input
                    /\ rows[r].case.truth = c.truth
                    /\ rows[r].role = "single-patch-defect"
                    /\ rows[r].replayIndex = run}
<1>1. PICK p \in 1..Len(rows) : R = {p}
  BY ReplayRowIsOne
<1>2. \A r \in 1..Len(rows) : r \in at <=> r \in R
  <2>1. ASSUME NEW r \in at PROVE r \in R
    <3>1. rows[r].case = c
      BY RowsAreOfCases, CasesAreKnownByTheirTruth
    <3>2. rows[r].phase = "replay"
      BY RowsAreOfCases, MeasurementAssumption
    <3>3. QED
      BY <3>1, <3>2
  <2>2. ASSUME NEW r \in R PROVE r \in at
    BY RowsAreOfCases
  <2>3. QED
    BY <2>1, <2>2
<1>3. at = {p}
  BY <1>1, <1>2
<1>4. EvaluatedAt(c, "single-patch-defect", run) = rows[p].outcome
  BY <1>3, LookedUp
<1>5. QED
  BY <1>1, <1>4

\* A case selected for replay is one of an arm that is replayed, and all of E are.
LEMMA SelectedAreReplayed ==
  ASSUME MeasurementInvariant, stage = "measured"
  PROVE  /\ \A c \in SelectedForReplay : c \in cases /\ c.arm # "D"
         /\ Retention \subseteq SelectedForReplay
<1>1. SelectedForReplay = CandidatesOf(cases, rows)
  BY ReplaysFitTheBudget
<1>2. cases \in CaseSets
  BY DEF MeasurementInvariant, TypeOK
<1>3. CandidatesOf(cases, rows) \subseteq ReplayedOf(cases)
  BY <1>2, CandidatesFitTheBudget
<1>4. \A c \in ReplayedOf(cases) : c \in cases /\ c.arm # "D"
  BY DEF ReplayedOf, RetentionOf, GenerationArms
<1>5. Retention \subseteq CandidatesOf(cases, rows)
  BY DEF CandidatesOf, RetentionOf, Retention
<1>6. QED
  BY <1>1, <1>3, <1>4, <1>5

\* The pair of a case is that of its two initial outcomes.
LEMMA PairIsOfTheInitialRuns ==
  ASSUME MeasurementInvariant, stage = "measured", ~IndexesConflict, NEW c \in cases
  PROVE  /\ CleanOf(c.arm, c.input, c.truth) = InitialOutcome(c, "clean")
         /\ DefectOf(c.arm, c.input, c.truth) = InitialOutcome(c, "single-patch-defect")
         /\ Raw(c) <=> /\ InitialOutcome(c, "clean") = "pass"
                       /\ InitialOutcome(c, "single-patch-defect") = "violation"
         /\ PairComplete(c.arm, c.input, c.truth) <=>
              /\ Completed(InitialOutcome(c, "clean"))
              /\ Completed(InitialOutcome(c, "single-patch-defect"))
<1>1. /\ CleanOf(c.arm, c.input, c.truth) = InitialOutcome(c, "clean")
      /\ DefectOf(c.arm, c.input, c.truth) = InitialOutcome(c, "single-patch-defect")
  BY InitialIsLookedUp DEF EvaluatedAt, CleanOf, DefectOf
<1>2. QED
  BY <1>1 DEF Raw, PairRaw, PairComplete

\* A row with the outcome of a run was charged.
LEMMA OutcomesAreCharged ==
  ASSUME MeasurementInvariant, NEW r \in 1..Len(rows), rows[r].outcome # "not-run"
  PROVE  rows[r].evaluationOrdinal # 0
<1>1. /\ Len(rows) \in Nat /\ Len(initialSchedule) \in Nat
      /\ ledger.dockerEvaluations \in Nat
  BY RowsAreOfTheirPhase DEF MeasurementInvariant, TypeOK
<1>2. ~NotRun(rows[r])
  BY DEF NotRun
<1>3. Recorded(rows[r], r, ledger.dockerEvaluations)
  <2>1. r <= Len(initialSchedule) \/ r > Len(initialSchedule)
    BY <1>1
  <2>2. QED
    BY <1>2, <2>1 DEF MeasurementInvariant, RowsOK, AsScheduled
<1>4. QED
  BY <1>1, <1>3 DEF Recorded

\* What the scorer confirms is what all evaluations of the case have shown.
LEMMA ConfirmedIsCaught ==
  ASSUME MeasurementInvariant, stage = "measured", ~IndexesConflict, NEW c \in SelectedForReplay
  PROVE  Confirmed(c) <=> Caught(c)
<1> DEFINE Replay(run) == EvaluatedAt(c, "single-patch-defect", run)
           RowOf(run, p) == {r \in 1..Len(rows) :
                      rows[r].case = c /\ rows[r].phase = "replay" /\ rows[r].replayIndex = run} = {p}
<1>1. c \in cases /\ c.arm # "D"
  BY SelectedAreReplayed
<1>2. \A run \in 1..separateRuns : \E p \in 1..Len(rows) :
        RowOf(run, p) /\ Replay(run) = rows[p].outcome
  BY <1>1, ReplayIsLookedUp
<1>3. ReplayOutcomes(c) = {Replay(run) : run \in 1..separateRuns}
  BY DEF ReplayOutcomes, EvaluatedAt
<1>4. separateRuns \in Nat /\ 1 \in 1..separateRuns
  BY MeasurementAssumption
<1>5. ASSUME Confirmed(c) PROVE Caught(c)
  <2> SUFFICES ASSUME NEW r \in 1..Len(rows), rows[r].case = c
               PROVE  rows[r].outcome = IF rows[r].role = "clean" THEN "pass" ELSE "violation"
    BY DEF Caught
  <2>1. CASE rows[r].phase = "initial"
    <3>1. rows[r].role \in {"clean", "single-patch-defect"}
      BY <2>1, RowsAreOfCases
    <3>2. PICK p \in 1..Len(rows) :
            {q \in 1..Len(rows) :
               rows[q].case = c /\ rows[q].phase = "initial" /\ rows[q].role = rows[r].role} = {p}
      BY <1>1, <3>1, InitialRowIsOne
    <3>3. (CHOOSE q \in 1..Len(rows) :
             rows[q].phase = "initial" /\ rows[q].case = c /\ rows[q].role = rows[r].role) = r
      BY <2>1, <3>2
    <3>4. InitialOutcome(c, rows[r].role) = rows[r].outcome
      BY <3>3 DEF InitialOutcome
    <3>5. Raw(c)
      BY <1>5 DEF Confirmed
    <3>6. QED
      BY <1>1, <3>1, <3>4, <3>5, PairIsOfTheInitialRuns
  <2>2. CASE rows[r].phase = "replay"
    <3>1. rows[r].role = "single-patch-defect" /\ rows[r].replayIndex \in 1..separateRuns
      BY <2>2, RowsAreOfCases
    <3>2. Replay(rows[r].replayIndex) = rows[r].outcome
      BY <1>2, <2>2, <3>1
    <3>3. Replay(rows[r].replayIndex) = "violation"
      BY <1>3, <1>5, <3>1 DEF Confirmed
    <3>4. QED
      BY <3>1, <3>2, <3>3
  <2>3. QED
    BY <2>1, <2>2, RowsAreOfCases
<1>6. ASSUME Caught(c) PROVE Confirmed(c)
  <2>1. ASSUME NEW role \in {"clean", "single-patch-defect"}
        PROVE  InitialOutcome(c, role) = IF role = "clean" THEN "pass" ELSE "violation"
    <3>1. PICK p \in 1..Len(rows) :
            {q \in 1..Len(rows) :
               rows[q].case = c /\ rows[q].phase = "initial" /\ rows[q].role = role} = {p}
      BY <1>1, InitialRowIsOne
    <3>2. (CHOOSE q \in 1..Len(rows) :
             rows[q].phase = "initial" /\ rows[q].case = c /\ rows[q].role = role) = p
          /\ rows[p].case = c /\ rows[p].role = role
      BY <3>1
    <3>3. QED
      BY <1>6, <3>2 DEF InitialOutcome, Caught
  <2>2. Raw(c)
    BY <1>1, <2>1, PairIsOfTheInitialRuns
  <2>3. \A run \in 1..separateRuns : Replay(run) = "violation"
    <3> SUFFICES ASSUME NEW run \in 1..separateRuns PROVE Replay(run) = "violation"
      OBVIOUS
    <3>1. PICK p \in 1..Len(rows) : RowOf(run, p) /\ Replay(run) = rows[p].outcome
      BY <1>2
    <3>2. rows[p].case = c /\ rows[p].phase = "replay"
      BY <3>1
    <3>3. rows[p].role # "clean"
      BY <3>2, RowsAreOfCases
    <3>4. QED
      BY <1>6, <3>1, <3>2, <3>3 DEF Caught
  <2>4. Started(c)
    <3>1. PICK p \in 1..Len(rows) : RowOf(1, p) /\ Replay(1) = rows[p].outcome
      BY <1>2, <1>4
    <3>2. rows[p].case = c /\ rows[p].phase = "replay" /\ rows[p].outcome = "violation"
      BY <1>4, <2>3, <3>1
    <3>3. rows[p].evaluationOrdinal # 0
      BY <3>2, OutcomesAreCharged
    <3>4. QED
      BY <3>2, <3>3 DEF Started
  <2>5. ReplayOutcomes(c) = {"violation"}
    <3> HIDE DEF Replay
    <3>1. QED
      BY <1>3, <1>4, <2>3
  <2>6. ReplayComplete(c)
    BY <2>4, <2>5 DEF ReplayComplete, Completed
  <2>7. QED
    BY <2>2, <2>5, <2>6 DEF Confirmed
<1>7. QED
  BY <1>5, <1>6

\* A verdict adopts or retires when nothing blocks it and its own branch is taken.
LEMMA BranchesAreTaken ==
  ASSUME NEW given \in Evidence, NEW blocked \in BOOLEAN, NEW adopt \in BOOLEAN,
         NEW retire \in BOOLEAN
  PROVE  /\ Branch(given, blocked, adopt, retire) = "adopt" => ~blocked /\ adopt
         /\ Branch(given, blocked, adopt, retire) = "retire" => ~blocked /\ ~adopt /\ retire
<1>1. given.epochAbort \in BOOLEAN
  BY ScorerAssumption
<1>2. CASE given.epochAbort
  BY <1>2 DEF Branch
<1>3. CASE ~given.epochAbort /\ given.trust = "non-repairable-failure"
  BY <1>3 DEF Branch
<1>4. CASE ~given.epochAbort /\ given.trust # "non-repairable-failure"
  <2>1. Branch(given, blocked, adopt, retire) =
          IF blocked \/ given.trust = "repairable-failure" THEN "blocked-revise"
          ELSE IF adopt THEN "adopt"
          ELSE IF retire THEN "retire" ELSE "otherwise-revise"
    BY <1>4 DEF Branch
  <2>2. QED
    BY <2>1
<1>5. QED
  BY <1>1, <1>2, <1>3, <1>4

\* Unless the indexes conflict, a truth has the module and the group of each of its cases.
LEMMA TruthsAreIndexed ==
  ASSUME ~IndexesConflict, NEW c \in cases
  PROVE  /\ c.truth \in Truths
         /\ ModuleOf(c.truth) = c.module
         /\ GroupOf(c.truth) = c.duplicateGroup
<1>1. CaseOf(c.truth) \in cases /\ CaseOf(c.truth).truth = c.truth
  BY DEF CaseOf
<1>2. QED
  BY <1>1 DEF IndexesConflict, Truths, ModuleOf, GroupOf

\* A case of an eligible truth counts, in its arm.
LEMMA EligibleCasesCount ==
  ASSUME ~IndexesConflict, NEW c \in cases, c.truth \notin Ineligible
  PROVE  /\ c.truth \in EligibleTruths
         /\ \A arms : c.arm \in arms => c \in EligibleCases(arms)
<1>1. /\ c.truth \in EligibleTruths
      /\ c.duplicateGroup = GroupOf(c.truth)
  BY TruthsAreIndexed DEF EligibleTruths
<1>2. c.duplicateGroup \in EligibleGroups
  BY <1>1 DEF EligibleGroups
<1>3. QED
  BY <1>1, <1>2 DEF EligibleCases

\* A pair that is complete is that of a case.
LEMMA PairsAreOfCases ==
  ASSUME MeasurementInvariant, stage = "measured", ~IndexesConflict,
         NEW arm, NEW input, NEW truth, PairComplete(arm, input, truth)
  PROVE  \E c \in cases :
           /\ c.arm = arm /\ c.input = input /\ c.truth = truth
           /\ Completed(InitialOutcome(c, "clean"))
           /\ Completed(InitialOutcome(c, "single-patch-defect"))
<1>1. OutcomeAt(arm, input, truth, "clean", 0) # "missing"
  BY DEF PairComplete, Completed, CleanOf
<1>2. PICK c \in cases : c.arm = arm /\ c.input = input /\ c.truth = truth
  BY <1>1, OutcomesAreOfCases
<1>3. QED
  BY <1>2, PairIsOfTheInitialRuns

\* Complete seeds have a result on every eligible truth of the modules they are of.
LEMMA SeedsAreComplete ==
  ASSUME MeasurementInvariant, stage = "measured", ~IndexesConflict,
         NEW given \in Evidence, NEW arm, SeedsComplete(given, arm), NEW truth \in EligibleTruths
  PROVE  /\ \E c \in cases : c.arm = arm /\ c.module = ModuleOf(truth)
         /\ \A c \in cases : c.arm = arm /\ c.module = ModuleOf(truth) =>
              \E twin \in cases :
                /\ twin.arm = arm /\ twin.input = c.input /\ twin.truth = truth
                /\ Completed(InitialOutcome(twin, "clean"))
                /\ Completed(InitialOutcome(twin, "single-patch-defect"))
<1>1. \E c \in cases : c.arm = arm /\ c.module = ModuleOf(truth)
  <2>1. ModuleOf(truth) \in UNION {SeedModules(arm, seed) : seed \in Seeds(arm)}
    BY DEF SeedsComplete
  <2>2. PICK seed \in Seeds(arm) : ModuleOf(truth) \in SeedModules(arm, seed)
    BY <2>1
  <2>3. QED
    BY <2>2 DEF SeedModules
<1>2. ASSUME NEW c \in cases, c.arm = arm, c.module = ModuleOf(truth)
      PROVE  \E twin \in cases :
               /\ twin.arm = arm /\ twin.input = c.input /\ twin.truth = truth
               /\ Completed(InitialOutcome(twin, "clean"))
               /\ Completed(InitialOutcome(twin, "single-patch-defect"))
  <2>1. c.input \in Seeds(arm) /\ ModuleOf(truth) \in SeedModules(arm, c.input)
    BY <1>2 DEF Seeds, SeedModules
  <2>2. PairComplete(arm, c.input, truth)
    BY <2>1 DEF SeedsComplete
  <2>3. QED
    BY <2>2, PairsAreOfCases
<1>3. QED
  BY <1>1, <1>2

\* No verdict adopts or retires where a case that counts showed its clean artifact.
LEMMA CleanIsClean ==
  ASSUME MeasurementInvariant, stage = "measured", ~IndexesConflict,
         NEW arms, ~CleanRegression(arms), NEW c \in cases, c.arm \in arms,
         c.truth \notin Ineligible, Completed(InitialOutcome(c, "clean"))
  PROVE  InitialOutcome(c, "clean") = "pass"
<1>1. ~CandidateFailure(InitialOutcome(c, "clean"))
  BY EligibleCasesCount, PairIsOfTheInitialRuns DEF CleanRegression
<1>2. QED
  BY <1>1 DEF CandidateFailure, Completed

-----------------------------------------------------------------------------
\* What each verdict rests on.

LEMMA GenerationAdopts ==
  ASSUME MeasurementInvariant, stage = "measured", ~IndexesConflict,
         NEW given \in Evidence, Generation(given) = "adopt"
  PROVE  NothingIsLost /\ given.seedsWithoutRows = {}
<1>1. /\ ~GenerationBlocked(given)
      /\ ConfirmedGroups({"G"}) \subseteq ConfirmedGroups({"P"})
  <2> DEFINE adopt == /\ ConfirmedGroups({"G"}) \subseteq ConfirmedGroups({"P"})
                      /\ ~FalseOracleRateExceeds(given, "P", "G")
             retire == /\ Cardinality(ConfirmedGroups({"P"})) < Cardinality(ConfirmedGroups({"G"}))
                       /\ FalseOracleRateExceeds(given, "P", "G")
  <2>1. Generation(given) = Branch(given, GenerationBlocked(given), adopt, retire)
    BY DEF Generation
  <2>2. adopt \in BOOLEAN /\ retire \in BOOLEAN
    OBVIOUS
  <2>3. GenerationBlocked(given) \in BOOLEAN
    BY DEF GenerationBlocked
  <2> HIDE DEF adopt, retire
  <2>4. ~GenerationBlocked(given) /\ adopt
    BY <2>1, <2>2, <2>3, BranchesAreTaken
  <2>5. QED
    BY <2>4 DEF adopt
<1>2. \A arm \in {"G", "P"} :
        SeedsComplete(given, arm) /\ ~CleanRegression({arm}) /\ BudgetPassed(given)
  BY <1>1 DEF GenerationBlocked
<1>3. given.seedsWithoutRows = {}
  BY <1>2, ScorerAssumption DEF SeedsComplete
<1>4. \A r \in 1..Len(rows) : rows[r].reasonCode # "budget-exhausted"
  BY <1>2 DEF BudgetPassed, Exhausted
<1>5. ASSUME NEW c \in cases, c.arm = "G", c.truth \notin Ineligible, Caught(c)
      PROVE  \E twin \in cases : twin.arm = "P" /\ twin.duplicateGroup = c.duplicateGroup
                                 /\ Caught(twin)
  <2>1. c \in SelectedForReplay /\ Confirmed(c)
    BY <1>5, ConfirmedIsCaught DEF Caught
  <2>2. c \in EligibleCases({"G"})
    BY <1>5, EligibleCasesCount
  <2>3. c.duplicateGroup \in ConfirmedGroups({"P"})
    BY <1>1, <2>1, <2>2 DEF ConfirmedGroups, GroupsOf
  <2>4. PICK twin \in EligibleCases({"P"}) \cap SelectedForReplay :
          Confirmed(twin) /\ twin.duplicateGroup = c.duplicateGroup
    BY <2>3 DEF ConfirmedGroups, GroupsOf
  <2>5. Caught(twin)
    BY <2>4, ConfirmedIsCaught
  <2>6. QED
    BY <2>4, <2>5 DEF EligibleCases
<1>6. ASSUME NEW arm \in {"G", "P"}, NEW truth \in EligibleTruths
      PROVE  /\ \E c \in cases : c.arm = arm /\ c.module = ModuleOf(truth)
             /\ \A c \in cases : c.arm = arm /\ c.module = ModuleOf(truth) =>
                  \E twin \in cases :
                    /\ twin.arm = arm /\ twin.input = c.input /\ twin.truth = truth
                    /\ InitialOutcome(twin, "clean") = "pass"
                    /\ InitialOutcome(twin, "single-patch-defect") \in
                         {"pass", "violation", "other violation"}
  <2>1. SeedsComplete(given, arm) /\ ~CleanRegression({arm})
    BY <1>2
  <2>2. \E c \in cases : c.arm = arm /\ c.module = ModuleOf(truth)
    BY <2>1, SeedsAreComplete
  <2>3. ASSUME NEW c \in cases, c.arm = arm, c.module = ModuleOf(truth)
        PROVE  \E twin \in cases :
                 /\ twin.arm = arm /\ twin.input = c.input /\ twin.truth = truth
                 /\ InitialOutcome(twin, "clean") = "pass"
                 /\ InitialOutcome(twin, "single-patch-defect") \in
                      {"pass", "violation", "other violation"}
    <3>1. PICK twin \in cases :
            /\ twin.arm = arm /\ twin.input = c.input /\ twin.truth = truth
            /\ Completed(InitialOutcome(twin, "clean"))
            /\ Completed(InitialOutcome(twin, "single-patch-defect"))
      BY <2>1, <2>3, SeedsAreComplete
    <3>2. twin.truth \notin Ineligible
      BY <3>1 DEF EligibleTruths
    <3>3. InitialOutcome(twin, "clean") = "pass"
      BY <2>1, <3>1, <3>2, CleanIsClean
    <3>4. QED
      BY <3>1, <3>3 DEF Completed
  <2>4. QED
    BY <2>2, <2>3
<1>7. QED
  BY <1>3, <1>4, <1>5, <1>6 DEF NothingIsLost

LEMMA OperatorAdopts ==
  ASSUME MeasurementInvariant, stage = "measured", ~IndexesConflict,
         NEW given \in Evidence, Operator(given) = "adopt"
  PROVE  YieldIsNew
<1>1. ~OperatorBlocked(given) /\ Cardinality(Incremental) >= incrementalMinimum
  <2> DEFINE adopt == Cardinality(Incremental) >= incrementalMinimum
             retire == /\ Cardinality(CompleteApplicable(given)) >= applicableMinimum
                       /\ moduleIds \subseteq {c.module : c \in
                            {c \in cases : <<c.arm, c.input>> \in CompleteApplicable(given)}}
                       /\ Incremental = {}
  <2>1. Operator(given) = Branch(given, OperatorBlocked(given), adopt, retire)
    BY DEF Operator
  <2>2. adopt \in BOOLEAN /\ retire \in BOOLEAN
    OBVIOUS
  <2>3. OperatorBlocked(given) \in BOOLEAN
    BY DEF OperatorBlocked
  <2> HIDE DEF adopt, retire
  <2>4. ~OperatorBlocked(given) /\ adopt
    BY <2>1, <2>2, <2>3, BranchesAreTaken
  <2>5. QED
    BY <2>4 DEF adopt
<1>2. SeedsComplete(given, "P")
  BY <1>1 DEF OperatorBlocked
<1>3. Incremental \in SUBSET {c.duplicateGroup : c \in cases}
  BY DEF Incremental, ConfirmedGroups, GroupsOf, EligibleCases
<1>4. ASSUME NEW group \in Incremental
      PROVE  /\ \E c \in cases :
                  c.arm \in OperatorArms /\ c.duplicateGroup = group /\ Caught(c)
             /\ group \in EligibleGroups
             /\ group \notin RawGroups("P")
  <2>1. group \in ConfirmedGroups(OperatorArms) /\ group \notin RawGroups("P")
    BY DEF Incremental
  <2>2. PICK c \in EligibleCases(OperatorArms) \cap SelectedForReplay :
          Confirmed(c) /\ c.duplicateGroup = group
    BY <2>1 DEF ConfirmedGroups, GroupsOf
  <2>3. Caught(c)
    BY <2>2, ConfirmedIsCaught
  <2>4. QED
    BY <2>1, <2>2, <2>3 DEF EligibleCases
<1>5. ASSUME NEW group \in Incremental
      PROVE  \E c \in cases : c.arm = "P" /\ c.duplicateGroup = group /\ c.truth \notin Ineligible
  <2>1. PICK truth \in EligibleTruths : GroupOf(truth) = group
    BY <1>4 DEF EligibleGroups
  <2>2. PICK seed \in cases : seed.arm = "P" /\ seed.module = ModuleOf(truth)
    BY <1>2, SeedsAreComplete
  <2>3. PICK c \in cases : c.arm = "P" /\ c.truth = truth
    BY <1>2, <2>2, SeedsAreComplete
  <2>4. c.duplicateGroup = group /\ c.truth \notin Ineligible
    BY <2>1, <2>3, TruthsAreIndexed DEF EligibleTruths
  <2>5. QED
    BY <2>3, <2>4
<1>6. ASSUME NEW group \in Incremental, NEW c \in cases, c.arm = "P", c.duplicateGroup = group
      PROVE  /\ c.truth \notin Ineligible =>
                  {InitialOutcome(c, "clean"), InitialOutcome(c, "single-patch-defect")}
                    \subseteq {"pass", "violation", "other violation"}
             /\ ~(/\ InitialOutcome(c, "clean") = "pass"
                  /\ InitialOutcome(c, "single-patch-defect") = "violation")
  <2>1. ASSUME c.truth \notin Ineligible
        PROVE  {InitialOutcome(c, "clean"), InitialOutcome(c, "single-patch-defect")}
                 \subseteq {"pass", "violation", "other violation"}
    <3>1. c.truth \in EligibleTruths /\ c.module = ModuleOf(c.truth)
      BY <2>1, EligibleCasesCount, TruthsAreIndexed
    <3>2. PICK twin \in cases :
            /\ twin.arm = "P" /\ twin.input = c.input /\ twin.truth = c.truth
            /\ Completed(InitialOutcome(twin, "clean"))
            /\ Completed(InitialOutcome(twin, "single-patch-defect"))
      BY <1>2, <1>6, <3>1, SeedsAreComplete
    <3>3. twin = c
      BY <1>6, <3>2, CasesAreKnownByTheirTruth
    <3>4. QED
      BY <3>2, <3>3 DEF Completed
  <2>2. ~Raw(c)
    <3>1. c \in EligibleCases({"P"})
      BY <1>4, <1>6 DEF EligibleCases
    <3>2. QED
      BY <1>4, <1>6, <3>1 DEF RawGroups, GroupsOf
  <2>3. QED
    BY <2>1, <2>2, PairIsOfTheInitialRuns
<1>7. \A group \in Incremental :
         /\ \E c \in cases :
              c.arm \in OperatorArms /\ c.duplicateGroup = group /\ Caught(c)
         /\ \E c \in cases : c.arm = "P" /\ c.duplicateGroup = group /\ c.truth \notin Ineligible
         /\ \A c \in cases : c.arm = "P" /\ c.duplicateGroup = group =>
              /\ c.truth \notin Ineligible =>
                   {InitialOutcome(c, "clean"), InitialOutcome(c, "single-patch-defect")}
                     \subseteq {"pass", "violation", "other violation"}
              /\ ~(/\ InitialOutcome(c, "clean") = "pass"
                   /\ InitialOutcome(c, "single-patch-defect") = "violation")
  BY <1>4, <1>5, <1>6
<1>8. QED
  BY <1>1, <1>3, <1>7 DEF YieldIsNew

LEMMA PipelineRetires ==
  ASSUME MeasurementInvariant, stage = "measured", ~IndexesConflict,
         NEW given \in Evidence, Pipeline(given) = "retire"
  PROVE  RetentionFailed
<1> DEFINE kept == {c \in Retention : Retained(c)}
<1>1. /\ ~PipelineBlocked(given)
      /\ ~(Cardinality(Retention) > 0 /\ Cardinality(kept) = Cardinality(Retention))
      /\ Cardinality(Retention) > 0
  <2> DEFINE retained == Cardinality(kept)
             all == Cardinality(Retention)
             adopt == all > 0 /\ retained = all
             retire == all > 0 /\ retained * retentionRate[2] < retentionRate[1] * all
  <2>1. Pipeline(given) = Branch(given, PipelineBlocked(given), adopt, retire)
    BY DEF Pipeline
  <2>2. adopt \in BOOLEAN /\ retire \in BOOLEAN
    OBVIOUS
  <2>3. PipelineBlocked(given) \in BOOLEAN
    BY DEF PipelineBlocked
  <2> HIDE DEF adopt, retire
  <2>4. ~PipelineBlocked(given) /\ ~adopt /\ retire
    BY <2>1, <2>2, <2>3, BranchesAreTaken
  <2>5. QED
    BY <2>4 DEF adopt, retire
<1>2. \A c \in Retention : Anchored(c) /\ RetentionComplete(c)
  BY <1>1 DEF PipelineBlocked
<1>3. \A c \in Retention : c \in cases /\ c.arm = "E" /\ c \in SelectedForReplay
  BY SelectedAreReplayed DEF Retention
<1>4. ASSUME NEW c \in Retention
      PROVE  \E anchor \in cases :
               /\ anchor.arm = "D" /\ anchor.input = c.input /\ anchor.truth = c.truth
               /\ InitialOutcome(anchor, "clean") = "pass"
               /\ InitialOutcome(anchor, "single-patch-defect") = "violation"
  <2>1. PairRaw("D", c.input, c.truth) /\ PairComplete("D", c.input, c.truth)
    BY <1>2 DEF Anchored, RetentionComplete
  <2>2. PICK anchor \in cases :
          anchor.arm = "D" /\ anchor.input = c.input /\ anchor.truth = c.truth
    BY <2>1, PairsAreOfCases
  <2>3. Raw(anchor)
    BY <2>1, <2>2 DEF Raw
  <2>4. QED
    BY <2>2, <2>3, PairIsOfTheInitialRuns
<1>5. ASSUME NEW c \in Retention, NEW r \in 1..Len(rows), rows[r].case = c
      PROVE  Completed(rows[r].outcome)
  <2>1. CASE rows[r].phase = "initial"
    <3>1. rows[r].role \in {"clean", "single-patch-defect"}
      BY <2>1, RowsAreOfCases
    <3>2. PICK p \in 1..Len(rows) :
            {q \in 1..Len(rows) :
               rows[q].case = c /\ rows[q].phase = "initial" /\ rows[q].role = rows[r].role} = {p}
      BY <1>3, <3>1, InitialRowIsOne
    <3>3. (CHOOSE q \in 1..Len(rows) :
             rows[q].phase = "initial" /\ rows[q].case = c /\ rows[q].role = rows[r].role) = r
      BY <1>5, <2>1, <3>2
    <3>4. InitialOutcome(c, rows[r].role) = rows[r].outcome
      BY <3>3 DEF InitialOutcome
    <3>5. PairComplete(c.arm, c.input, c.truth)
      BY <1>2, <1>3 DEF RetentionComplete
    <3>6. QED
      BY <1>3, <3>1, <3>4, <3>5, PairIsOfTheInitialRuns
  <2>2. CASE rows[r].phase = "replay"
    <3>1. rows[r].replayIndex \in 1..separateRuns
      BY <2>2, RowsAreOfCases
    <3>2. c \in cases /\ c.arm # "D"
      BY <1>3
    <3>3. PICK p \in 1..Len(rows) :
            /\ {q \in 1..Len(rows) : rows[q].case = c /\ rows[q].phase = "replay"
                                     /\ rows[q].replayIndex = rows[r].replayIndex} = {p}
            /\ EvaluatedAt(c, "single-patch-defect", rows[r].replayIndex) = rows[p].outcome
      BY <3>1, <3>2, ReplayIsLookedUp
    <3>4. p = r
      BY <1>5, <2>2, <3>3
    <3>5. rows[r].outcome \in ReplayOutcomes(c)
      BY <3>1, <3>3, <3>4 DEF ReplayOutcomes, EvaluatedAt
    <3>6. QED
      BY <1>2, <3>5 DEF RetentionComplete, ReplayComplete
  <2>3. QED
    BY <2>1, <2>2, RowsAreOfCases
<1>6. \E c \in Retention : ~Caught(c)
  <2> SUFFICES ASSUME \A c \in Retention : Caught(c) PROVE FALSE
    OBVIOUS
  <2>1. \A c \in Retention : Confirmed(c)
    BY <1>3, ConfirmedIsCaught
  <2>2. \A c \in Retention : Retained(c)
    BY <1>2, <2>1 DEF Confirmed, Retained
  <2>3. kept = Retention
    BY <2>2
  <2>4. QED
    BY <1>1, <2>3
<1>7. QED
  BY <1>4, <1>5, <1>6 DEF RetentionFailed, Completed

-----------------------------------------------------------------------------
\* A score is given to a measurement that is over.

\* What the verdicts rest on is the measurement, which a stutter of it does not change.
LEMMA VerdictsRestOnTheMeasurement ==
  ASSUME UNCHANGED vars
  PROVE  /\ rows' = rows /\ cases' = cases
         /\ \A c, role : InitialOutcome(c, role)' = InitialOutcome(c, role)
         /\ \A c : Caught(c)' <=> Caught(c)
         /\ \A truth : ModuleOf(truth)' = ModuleOf(truth)
         /\ EligibleTruths' = EligibleTruths
         /\ Retention' = Retention
<1>1. rows' = rows /\ cases' = cases /\ replaySchedule' = replaySchedule
  BY DEF vars, scheduleVars
<1>2. \A c, role : InitialOutcome(c, role)' = InitialOutcome(c, role)
  BY <1>1 DEF InitialOutcome
<1>3. SelectedForReplay' = SelectedForReplay
  BY <1>1 DEF SelectedForReplay
<1>4. \A c : Caught(c)' <=> Caught(c)
  BY <1>1, <1>3 DEF Caught
<1>5. \A truth : CaseOf(truth)' = CaseOf(truth)
  BY <1>1 DEF CaseOf
<1>6. \A truth : ModuleOf(truth)' = ModuleOf(truth)
  BY <1>5 DEF ModuleOf
<1>7. EligibleTruths' = EligibleTruths /\ Retention' = Retention
  BY <1>1 DEF EligibleTruths, Truths, Retention
<1>8. QED
  BY <1>1, <1>2, <1>4, <1>6, <1>7

LEMMA NothingIsLostStays ==
  ASSUME UNCHANGED vars, NothingIsLost
  PROVE  NothingIsLost'
<1> DEFINE Unended == \A r \in 1..Len(rows) : rows[r].reasonCode # "budget-exhausted"
           Twin(c) == \E twin \in cases : twin.arm = "P" /\ twin.duplicateGroup = c.duplicateGroup
                                          /\ Caught(twin)
           Kept == \A c \in cases :
                     c.arm = "G" /\ c.truth \notin Ineligible /\ Caught(c) => Twin(c)
           Result(arm, input, truth) ==
             \E twin \in cases :
               /\ twin.arm = arm /\ twin.input = input /\ twin.truth = truth
               /\ InitialOutcome(twin, "clean") = "pass"
               /\ InitialOutcome(twin, "single-patch-defect") \in
                    {"pass", "violation", "other violation"}
           Covered(arm, truth) ==
             /\ \E c \in cases : c.arm = arm /\ c.module = ModuleOf(truth)
             /\ \A c \in cases :
                  c.arm = arm /\ c.module = ModuleOf(truth) => Result(arm, c.input, truth)
           Whole == \A arm \in {"G", "P"}, truth \in EligibleTruths : Covered(arm, truth)
<1>1. NothingIsLost <=> Unended /\ Kept /\ Whole
  BY Zenon DEF NothingIsLost
<1>2. NothingIsLost' <=> Unended' /\ Kept' /\ Whole'
  BY Zenon DEF NothingIsLost
<1>3. Unended'
  <2> HIDE DEF Kept, Whole
  <2>1. Unended
    BY <1>1
  <2>2. QED
    BY <2>1, VerdictsRestOnTheMeasurement
<1>4. Kept'
  <2>1. \A c : Twin(c) => Twin(c)'
    BY VerdictsRestOnTheMeasurement
  <2> HIDE DEF Twin
  <2>2. QED
    BY <1>1, <2>1, VerdictsRestOnTheMeasurement
<1>5. Whole'
  <2>1. \A arm, input, truth : Result(arm, input, truth) => Result(arm, input, truth)'
    BY VerdictsRestOnTheMeasurement
  <2> HIDE DEF Result
  <2>2. \A arm, truth : Covered(arm, truth) => Covered(arm, truth)'
    BY <2>1, VerdictsRestOnTheMeasurement
  <2> HIDE DEF Covered
  <2>3. QED
    BY <1>1, <2>2, VerdictsRestOnTheMeasurement
<1>6. QED
  BY <1>1, <1>2, <1>3, <1>4, <1>5

LEMMA YieldIsNewStays ==
  ASSUME UNCHANGED vars, YieldIsNew
  PROVE  YieldIsNew'
<1> DEFINE Shown(group) ==
             /\ \E c \in cases :
                  c.arm \in OperatorArms /\ c.duplicateGroup = group /\ Caught(c)
             /\ \E c \in cases : c.arm = "P" /\ c.duplicateGroup = group /\ c.truth \notin Ineligible
             /\ \A c \in cases : c.arm = "P" /\ c.duplicateGroup = group =>
                  /\ c.truth \notin Ineligible =>
                       {InitialOutcome(c, "clean"), InitialOutcome(c, "single-patch-defect")}
                         \subseteq {"pass", "violation", "other violation"}
                  /\ ~(/\ InitialOutcome(c, "clean") = "pass"
                       /\ InitialOutcome(c, "single-patch-defect") = "violation")
<1>1. PICK groups \in SUBSET {c.duplicateGroup : c \in cases} :
        Cardinality(groups) >= incrementalMinimum /\ \A group \in groups : Shown(group)
  BY DEF YieldIsNew
<1>2. ASSUME NEW group \in groups PROVE Shown(group)'
  <2>1. (\E c \in cases : c.arm \in OperatorArms /\ c.duplicateGroup = group /\ Caught(c))'
    BY <1>1, VerdictsRestOnTheMeasurement
  <2>2. (\E c \in cases : c.arm = "P" /\ c.duplicateGroup = group /\ c.truth \notin Ineligible)'
    BY <1>1, VerdictsRestOnTheMeasurement
  <2>3. ASSUME NEW c \in cases, c.arm = "P", c.duplicateGroup = group
        PROVE  /\ (c.truth \notin Ineligible =>
                     {InitialOutcome(c, "clean"), InitialOutcome(c, "single-patch-defect")}
                       \subseteq {"pass", "violation", "other violation"})'
               /\ (~(/\ InitialOutcome(c, "clean") = "pass"
                     /\ InitialOutcome(c, "single-patch-defect") = "violation"))'
    <3>1. /\ InitialOutcome(c, "clean")' = InitialOutcome(c, "clean")
          /\ InitialOutcome(c, "single-patch-defect")' = InitialOutcome(c, "single-patch-defect")
      BY VerdictsRestOnTheMeasurement
    <3>2. QED
      BY <1>1, <2>3, <3>1
  <2>4. QED
    BY <2>1, <2>2, <2>3, VerdictsRestOnTheMeasurement
<1>3. groups \in SUBSET {c.duplicateGroup : c \in cases'}
  BY VerdictsRestOnTheMeasurement
<1>4. QED
  BY <1>1, <1>2, <1>3 DEF YieldIsNew

LEMMA RetentionFailedStays ==
  ASSUME UNCHANGED vars, RetentionFailed
  PROVE  RetentionFailed'
<1>1. ASSUME NEW c \in Retention
      PROVE  (\E anchor \in cases :
                /\ anchor.arm = "D" /\ anchor.input = c.input /\ anchor.truth = c.truth
                /\ InitialOutcome(anchor, "clean") = "pass"
                /\ InitialOutcome(anchor, "single-patch-defect") = "violation")'
  <2>1. PICK anchor \in cases :
          /\ anchor.arm = "D" /\ anchor.input = c.input /\ anchor.truth = c.truth
          /\ InitialOutcome(anchor, "clean") = "pass"
          /\ InitialOutcome(anchor, "single-patch-defect") = "violation"
    BY DEF RetentionFailed
  <2>2. QED
    BY <2>1, VerdictsRestOnTheMeasurement
<1>2. ASSUME NEW c \in Retention
      PROVE  (\A r \in 1..Len(rows) :
                rows[r].case = c => rows[r].outcome \in {"pass", "violation", "other violation"})'
  BY VerdictsRestOnTheMeasurement DEF RetentionFailed
<1>3. (\E c \in Retention : ~Caught(c))'
  BY VerdictsRestOnTheMeasurement DEF RetentionFailed
<1>4. QED
  BY <1>1, <1>2, <1>3, VerdictsRestOnTheMeasurement DEF RetentionFailed

\* A score was given when its measurement was over, and each of its verdicts is of what
\* that measurement had shown.
ScoreInvariant ==
  /\ MeasurementInvariant
  /\ score.state = "none" => score = Verdicts("none", "none", "none", "none")
  /\ score.state # "none" => stage = "measured"
  /\ AdoptionLosesNothing
  /\ OperatorYieldIsNew
  /\ RetirementIsCounterevidence

\* A measurement that is over does not change any more.
LEMMA MeasuredIsOver == stage = "measured" /\ Next => UNCHANGED vars
BY DEF Next, BudgetExhausted, Execute, SkipUnselected, BuildReplaySchedule, Close, Over

\* A state without verdicts has none to account for.
LEMMA NoVerdictYet ==
  ASSUME NEW state, score' = Verdicts(state, "none", "none", "none")
  PROVE  AdoptionLosesNothing' /\ OperatorYieldIsNew' /\ RetirementIsCounterevidence'
BY DEF Verdicts, AdoptionLosesNothing, OperatorYieldIsNew, RetirementIsCounterevidence

LEMMA ScoreStarts == ScoreInit => ScoreInvariant
BY MeasurementStarts DEF ScoreInit, ScoreInvariant, Verdicts, AdoptionLosesNothing,
  OperatorYieldIsNew, RetirementIsCounterevidence

\* A step of the measurement, or none: verdicts there are stay of the same measurement.
LEMMA MeasuringKeeps ==
  ASSUME ScoreInvariant, [Next]_vars, UNCHANGED scoreVars
  PROVE  ScoreInvariant'
<1>1. MeasurementInvariant'
  BY MeasurementKeeps DEF ScoreInvariant
<1>2. score' = score /\ evidence' = evidence
  BY DEF scoreVars
<1>3. CASE score.state = "none"
  <2>1. score' = Verdicts("none", "none", "none", "none") /\ score'.state = "none"
    BY <1>2, <1>3 DEF ScoreInvariant
  <2>2. AdoptionLosesNothing' /\ OperatorYieldIsNew' /\ RetirementIsCounterevidence'
    BY <2>1, NoVerdictYet
  <2>3. QED
    BY <1>1, <2>1, <2>2 DEF ScoreInvariant
<1>4. CASE score.state # "none"
  <2>1. stage = "measured" /\ UNCHANGED vars
    BY <1>4, MeasuredIsOver DEF ScoreInvariant
  <2>2. stage' = "measured"
    BY <2>1 DEF vars
  <2>3. AdoptionLosesNothing'
    BY <1>2, <2>1, NothingIsLostStays DEF ScoreInvariant, AdoptionLosesNothing
  <2>4. OperatorYieldIsNew'
    BY <1>2, <2>1, YieldIsNewStays DEF ScoreInvariant, OperatorYieldIsNew
  <2>5. RetirementIsCounterevidence'
    BY <1>2, <2>1, RetentionFailedStays DEF ScoreInvariant, RetirementIsCounterevidence
  <2>6. QED
    BY <1>1, <1>2, <1>4, <2>2, <2>3, <2>4, <2>5 DEF ScoreInvariant
<1>5. QED
  BY <1>3, <1>4

\* Scoring: what it adopts or retires it has the measurement for.
LEMMA ScoringKeeps ==
  ASSUME ScoreInvariant, NEW given \in Evidence, Score(given)
  PROVE  ScoreInvariant'
<1>1. /\ stage = "measured" /\ UNCHANGED vars /\ evidence' = {given}
      /\ score' = IF Rejected(given)
                  THEN Verdicts("rejected", "none", "none", "none")
                  ELSE Verdicts("scored", Generation(given), Operator(given), Pipeline(given))
  BY DEF Score
<1>2. MeasurementInvariant /\ MeasurementInvariant'
  BY <1>1, MeasurementKeeps DEF ScoreInvariant
<1>3. stage' = "measured"
  BY <1>1 DEF vars
<1>4. CASE Rejected(given)
  <2>1. score' = Verdicts("rejected", "none", "none", "none") /\ score'.state # "none"
    BY <1>1, <1>4 DEF Verdicts
  <2>2. AdoptionLosesNothing' /\ OperatorYieldIsNew' /\ RetirementIsCounterevidence'
    BY <2>1, NoVerdictYet
  <2>3. QED
    BY <1>2, <1>3, <2>1, <2>2 DEF ScoreInvariant
<1>5. CASE ~Rejected(given)
  <2>1. /\ score'.state = "scored"
        /\ score'.generation = Generation(given)
        /\ score'.operator = Operator(given)
        /\ score'.pipeline = Pipeline(given)
    BY <1>1, <1>5 DEF Verdicts
  <2>2. ~IndexesConflict
    BY <1>5 DEF Rejected
  <2>3. AdoptionLosesNothing'
    <3>1. Generation(given) = "adopt" => NothingIsLost' /\ given.seedsWithoutRows = {}
      BY <1>1, <1>2, <2>2, GenerationAdopts, NothingIsLostStays
    <3>2. QED
      BY <1>1, <2>1, <3>1 DEF AdoptionLosesNothing
  <2>4. OperatorYieldIsNew'
    <3>1. Operator(given) = "adopt" => YieldIsNew'
      BY <1>1, <1>2, <2>2, OperatorAdopts, YieldIsNewStays
    <3>2. QED
      BY <2>1, <3>1 DEF OperatorYieldIsNew
  <2>5. RetirementIsCounterevidence'
    <3>1. Pipeline(given) = "retire" => RetentionFailed'
      BY <1>1, <1>2, <2>2, PipelineRetires, RetentionFailedStays
    <3>2. QED
      BY <2>1, <3>1 DEF RetirementIsCounterevidence
  <2>6. QED
    BY <1>2, <1>3, <2>1, <2>3, <2>4, <2>5 DEF ScoreInvariant
<1>6. QED
  BY <1>4, <1>5

\* A score is given to a whole measurement, whatever is given beside it, and it stays.
THEOREM ScoreInvariantHolds == ScoreSpec => []ScoreInvariant
<1>1. ScoreInvariant /\ [ScoreNext]_<<vars, scoreVars>> => ScoreInvariant'
  <2> SUFFICES ASSUME ScoreInvariant, [ScoreNext]_<<vars, scoreVars>> PROVE ScoreInvariant'
    OBVIOUS
  <2>1. CASE Next /\ UNCHANGED scoreVars
    BY <2>1, MeasuringKeeps
  <2>2. ASSUME NEW given \in Evidence, Score(given) PROVE ScoreInvariant'
    BY <2>2, ScoringKeeps
  <2>3. CASE UNCHANGED <<vars, scoreVars>>
    BY <2>3, MeasuringKeeps
  <2>4. QED
    BY <2>1, <2>2, <2>3 DEF ScoreNext
<1>2. QED
  BY <1>1, ScoreStarts, PTL DEF ScoreSpec

\* A generation procedure that is adopted lost no group the other one caught, over a
\* measurement that no budget ended and that leaves no accepted seed without a result.
THEOREM AdoptedGenerationLosesNothing == ScoreSpec => []AdoptionLosesNothing
<1>1. ScoreInvariant => AdoptionLosesNothing
  BY DEF ScoreInvariant
<1>2. QED
  BY <1>1, ScoreInvariantHolds, PTL

\* The groups an adopted operator strategy counts were not shown by any pair of P.
THEOREM AdoptedOperatorsAddNewGroups == ScoreSpec => []OperatorYieldIsNew
<1>1. ScoreInvariant => OperatorYieldIsNew
  BY DEF ScoreInvariant
<1>2. QED
  BY <1>1, ScoreInvariantHolds, PTL

\* A pipeline is retired on a result other than its anchor's, never on infrastructure.
THEOREM RetiredPipelineHasCounterevidence == ScoreSpec => []RetirementIsCounterevidence
<1>1. ScoreInvariant => RetirementIsCounterevidence
  BY DEF ScoreInvariant
<1>2. QED
  BY <1>1, ScoreInvariantHolds, PTL
================================================================================
