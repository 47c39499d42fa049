---------------------------- MODULE MCCaseRunner ----------------------------
(***************************************************************************)
(* A small instance of CaseRunner: two ticks of budget, two of grace, a    *)
(* stream that overflows at its third byte and a record of one byte.       *)
(***************************************************************************)
EXTENDS CaseRunner

MCLimitBytes == [s \in Streams |-> IF s = "stdout" THEN 2 ELSE 1]
MCAscii == [s \in Streams |-> 1]
MCTwoByteText == [s \in Streams |-> IF s = "stdout" THEN 2 ELSE 1]
=============================================================================
