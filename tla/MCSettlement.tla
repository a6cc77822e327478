---------------------------- MODULE MCSettlement ----------------------------
(***************************************************************************)
(* Small instances of Settlement for TLC.                                  *)
(***************************************************************************)
EXTENDS Settlement, TLC

CONSTANTS t1, t2, o1, b1, b2, f1, f2

BothToOne == (t1 :> o1) @@ (t2 :> o1)
OwnHash == (t1 :> t1) @@ (t2 :> t2)
AllSui == (t1 :> "sui") @@ (t2 :> "sui")
=============================================================================
