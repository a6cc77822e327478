------------------------------ MODULE MCIndexers ------------------------------
(***************************************************************************)
(* A small instance of Indexers for TLC.                                   *)
(***************************************************************************)
EXTENDS Indexers, TLC

CONSTANTS n1, n2

EveryKind == 1 :> {"native", "internal"} @@ 2 :> {"token"} @@ 3 :> {"safe", "safeToken"}
=============================================================================
