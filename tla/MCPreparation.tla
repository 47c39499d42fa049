----------------------------- MODULE MCPreparation -----------------------------
(***************************************************************************)
(* Two defects of one package and one of another, two smoke cases, and     *)
(* another preparation whose defects of these names edit the same packages *)
(* or others.                                                              *)
(***************************************************************************)
EXTENDS Preparation

MCPackages == <<"shared", "tx", "local-first">>
MCDefects == <<"d1", "d2", "d3">>
MCModuleOf == [d1 |-> "tx", d2 |-> "tx", d3 |-> "local-first"]
MCOtherModules == {MCModuleOf, [d1 |-> "local-first", d2 |-> "tx", d3 |-> "tx"]}
MCDependsOn == [p \in {"shared", "tx", "local-first"} |->
                  IF p = "shared" THEN {} ELSE {"shared"}]
MCSmokes == <<"comparison", "interpreter">>
=============================================================================
