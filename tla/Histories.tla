------------------------------- MODULE Histories -------------------------------
(***************************************************************************)
(* Histories: sequences that only grow at their end, like the attempts of  *)
(* a reduction or the commits of a repository; and the induction over      *)
(* numbers that the recursive functions of the models are reasoned with.   *)
(***************************************************************************)
EXTENDS Integers, Sequences, SequenceTheorems, FiniteSetTheorems, WellFoundedInduction, TLAPS

\* A sequence, of whatever its elements are.
History(h) == h \in Seq({h[k] : k \in 1..Len(h)})

\* A history that got one more entry is a history, and keeps its entries.
LEMMA HistoryGrows ==
  ASSUME NEW h, NEW e, History(h)
  PROVE  /\ History(Append(h, e))
         /\ Len(h) \in Nat
         /\ Len(Append(h, e)) = Len(h) + 1
         /\ \A k \in 1..Len(h) : Append(h, e)[k] = h[k]
         /\ Append(h, e)[Len(h) + 1] = e
<1> DEFINE S == {h[k] : k \in 1..Len(h)}
           T == S \cup {e}
           g == Append(h, e)
<1>1. h \in Seq(S) /\ h \in Seq(T)
  <2>1. h \in Seq(S)
    BY DEF History
  <2>2. QED
    BY <2>1, SeqMonotonic
<1>2. /\ g \in Seq(T)
      /\ Len(g) = Len(h) + 1
      /\ \A k \in 1..Len(h) : g[k] = h[k]
      /\ g[Len(h) + 1] = e
  <2>1. e \in T
    OBVIOUS
  <2>2. QED
    BY <1>1, <2>1, AppendProperties
<1>3. Len(h) \in Nat
  BY <1>1, LenProperties
<1>4. g \in Seq({g[k] : k \in 1..Len(g)})
  <2>1. g \in [1..Len(g) -> T] /\ Len(g) \in Nat
    BY <1>2, LenProperties
  <2>2. g \in [1..Len(g) -> {g[k] : k \in 1..Len(g)}]
    BY <2>1
  <2>3. QED
    BY <2>1, <2>2, SeqDef
<1>5. QED
  BY <1>2, <1>3, <1>4 DEF History

\* The empty history.
LEMMA HistoryStarts == History(<<>>) /\ Len(<<>>) = 0
BY EmptySeq DEF History

\* A history is a function.
LEMMA HistoryIsFunction ==
  ASSUME NEW h, History(h)
  PROVE  Len(h) \in Nat /\ h = [k \in 1..Len(h) |-> h[k]] /\ DOMAIN h = 1..Len(h)
<1> DEFINE S == {h[k] : k \in 1..Len(h)}
<1>1. h \in Seq(S)
  BY DEF History
<1> HIDE DEF S
<1>2. Len(h) \in Nat /\ h \in [1..Len(h) -> S]
  BY <1>1, LenProperties
<1> QED BY <1>2

-----------------------------------------------------------------------------
\* A set of numbers that is not empty has a smallest one, ...
LEMMA SmallestExists ==
  ASSUME NEW S \in SUBSET Nat, S # {}
  PROVE  \E c \in S : \A other \in S : c <= other
<1> DEFINE T == {0..c : c \in S}
<1>1. IsWellFoundedOn(StrictSubsetOrdering(Nat), FiniteSubsetsOf(Nat))
  BY FS_StrictSubsetOrderingWellFounded
<1>2. T \subseteq FiniteSubsetsOf(Nat)
  <2>1. \A c \in Nat : IsFiniteSet(0..c)
    BY FS_Interval
  <2>2. \A c \in Nat : 0..c \in SUBSET Nat
    OBVIOUS
  <2>3. \A c \in Nat : 0..c \in FiniteSubsetsOf(Nat)
    BY <2>1, <2>2 DEF FiniteSubsetsOf
  <2>4. QED
    BY <2>3
<1>3. T # {}
  OBVIOUS
<1>4. PICK t \in T : \A u \in T : <<u, t>> \notin StrictSubsetOrdering(Nat)
  BY <1>1, <1>2, <1>3, WFMin
<1>5. PICK c \in S : t = 0..c
  OBVIOUS
<1>6. ASSUME NEW other \in S, other < c
      PROVE  FALSE
  <2>1. 0..other \subseteq 0..c /\ 0..other # 0..c
    BY <1>6
  <2>2. <<0..other, 0..c>> \in (SUBSET Nat) \X (SUBSET Nat)
    OBVIOUS
  <2>3. <<0..other, 0..c>> \in StrictSubsetOrdering(Nat)
    BY <2>1, <2>2 DEF StrictSubsetOrdering
  <2>4. QED
    BY <1>4, <1>5, <2>3
<1>7. QED
  BY <1>6

\* and one that has a bound has a largest.
LEMMA LargestExists ==
  ASSUME NEW n \in Nat, NEW S \in SUBSET (1..n), S # {}
  PROVE  \E c \in S : \A other \in S : c >= other
<1> DEFINE T == {n - x : x \in S}
<1>1. T \in SUBSET Nat /\ T # {}
  <2>1. \A x \in S : x \in Nat /\ n - x \in Nat
    OBVIOUS
  <2>2. QED
    BY <2>1
<1>2. PICK t \in T : \A u \in T : t <= u
  <2> HIDE DEF T
  <2> QED BY <1>1, SmallestExists
<1>3. PICK x \in S : t = n - x
  BY <1>2
<1>4. \A y \in S : x >= y
  <2> SUFFICES ASSUME NEW y \in S PROVE x >= y
    OBVIOUS
  <2>1. n - y \in T
    OBVIOUS
  <2>2. t <= n - y
    <3> HIDE DEF T
    <3> QED BY <1>2, <2>1
  <2>3. x \in 1..n /\ y \in 1..n
    OBVIOUS
  <2>4. QED
    BY <1>3, <2>2, <2>3
<1>5. QED
  BY <1>3, <1>4

\* A set of numbers with 0 and with the successor of each of its members up to a bound
\* has every number up to the bound.
LEMMA Induction ==
  ASSUME NEW T, NEW bound \in Nat, 0 \in T,
         \A n \in Nat : n \in T /\ n < bound => n + 1 \in T
  PROVE  0..bound \subseteq T
<1> DEFINE missing == {n \in 0..bound : n \notin T}
<1>1. SUFFICES ASSUME missing # {} PROVE FALSE
  OBVIOUS
<1>2. PICK c \in missing : \A other \in missing : c <= other
  <2>1. missing \in SUBSET Nat
    OBVIOUS
  <2>2. QED
    BY <1>1, <2>1, SmallestExists
<1>3. c \in Nat /\ c # 0 /\ c <= bound /\ c - 1 \in Nat /\ c - 1 \notin missing
  BY <1>2
<1>4. c - 1 \in T /\ c - 1 < bound
  BY <1>3
<1>5. QED
  BY <1>2, <1>3, <1>4
=============================================================================
