------------------------ MODULE MCTrustedEvaluation ------------------------
(***************************************************************************)
(* A small instance of TrustedEvaluation: one tick of budget and of grace, *)
(* and a stream that overflows at its first or second byte.                *)
(***************************************************************************)
EXTENDS TrustedEvaluation

MCLimitBytes == [s \in Streams |-> IF s = "stdout" THEN 1 ELSE 0]
MCEveryMode == CaseModes \cup {"main"}
MCAscii == [s \in Streams |-> 1]
=============================================================================
