------------------------------- MODULE MCSealing -------------------------------
(***************************************************************************)
(* Bounds for Sealing: two contents of every frozen file.                  *)
(***************************************************************************)
EXTENDS Sealing

MCVersions == {1, 2}
=============================================================================
