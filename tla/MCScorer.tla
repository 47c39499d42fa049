-------------------------------- MODULE MCScorer --------------------------------
\* Case sets of the three strategies, each on two truths of one module at most, and what
\* a score may be given beside them.
EXTENDS Scorer

Case(arm, input, truth) ==
  [arm |-> arm, module |-> 1, input |-> input, truth |-> truth,
   duplicateGroup |-> <<"g1", "g2", "g1">>[truth]]

Procedures == {Case(arm, 1, truth) : arm \in {"G", "P"}, truth \in {1, 2}}
PartialProcedures == Procedures \ {Case("P", 1, 2)}
Operators == {Case(arm, 1, 1) : arm \in {"P", "A", "B", "C"}}
Paths == {Case(arm, 1, 1) : arm \in {"D", "E"}}
\* Two truths of a group, of which the second is not eligible.
TwoTruths == {Case("P", 1, 1), Case("P", 1, 3), Case("A", 1, 1)}
\* A truth of two duplicate groups.
Conflicting == {Case("D", 1, 1), [Case("E", 1, 1) EXCEPT !.duplicateGroup = "g2"]}

MCCaseSets == {Procedures, PartialProcedures, Operators, Paths, TwoTruths, Conflicting}

\* bound: at most one evaluation of a measurement ends in neither a pass nor the
\* registered violation.
OneUnusual ==
  Cardinality({r \in 1..Len(rows) :
    rows[r].outcome \notin {"pass", "violation", "not-run"}}) <= 1

Plain == [reviews |-> <<"real-bug", "real-bug">>, trust |-> "pass", epochAbort |-> FALSE,
          authoringComplete |-> TRUE, seedsWithoutRows |-> {}, armsWithoutRequests |-> {}]

MCEvidence ==
  {[Plain EXCEPT !.reviews = reviews] :
     reviews \in [1..2 -> {"real-bug", "wrong-expectation"}]}
  \cup {[Plain EXCEPT !.reviews = <<"undecided", "real-bug">>],
        [Plain EXCEPT !.epochAbort = TRUE, !.trust = "non-repairable-failure"],
        [Plain EXCEPT !.trust = "non-repairable-failure"],
        [Plain EXCEPT !.trust = "repairable-failure"],
        [Plain EXCEPT !.authoringComplete = FALSE],
        [Plain EXCEPT !.seedsWithoutRows = {"P"}],
        [Plain EXCEPT !.armsWithoutRequests = {"C"}]}

MCModules == {1}
MCInfrastructureRate == <<1, 5>>
MCRetentionRate == <<4, 5>>
=============================================================================
