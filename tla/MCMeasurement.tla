----------------------------- MODULE MCMeasurement -----------------------------
\* Small sets of cases: one arm whose candidates compete for its quota of two, two of
\* them duplicates; a generation case and a retention case on both paths; a single case.
EXTENDS Measurement

Case(arm, module, input, group) ==
  [arm |-> arm, module |-> module, input |-> input, truth |-> 1, duplicateGroup |-> group]

OneArm == {Case("G", 1, 1, "g1"), Case("G", 1, 2, "g1"), Case("G", 2, 1, "g2"),
           Case("G", 3, 1, "g3")}
EveryPath == {Case("P", 1, 1, "g1"), Case("D", 2, 1, "g2"), Case("E", 2, 1, "g2")}

MCCaseSets == {OneArm, EveryPath}

\* bound: at most one evaluation of a measurement ends in neither a pass nor the
\* registered violation, or leaves its container behind.
OneUnusual ==
  Cardinality({r \in 1..Len(rows) :
    \/ rows[r].outcome \notin {"pass", "violation", "not-run"}
    \/ \E record \in rows[r].runRecord : ~record.run.removed}) <= 1
=============================================================================
