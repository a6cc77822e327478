------------------------------ MODULE Custody -------------------------------
(***************************************************************************)
(* What the payment pipeline promises about money, whatever its queues and *)
(* retries do.  A coin leaves the customer once, is collected from its     *)
(* temporary wallet once and together with the rest of that wallet, and a  *)
(* payment is booked as swept only when its own coin is in the treasury.   *)
(***************************************************************************)
CONSTANTS Txs, WalletOf

VARIABLES place, booked

vars == <<place, booked>>

Init ==
  /\ place = [t \in Txs |-> "unpaid"]
  /\ booked = {}

Pay(t) ==
  /\ place[t] = "unpaid"
  /\ place' = [place EXCEPT ![t] = "wallet"]
  /\ UNCHANGED booked

Collect(S) ==
  /\ S # {}
  /\ \A t \in S : place[t] = "wallet"
  /\ \A t, u \in S : WalletOf[t] = WalletOf[u]
  /\ place' = [t \in Txs |-> IF t \in S THEN "treasury" ELSE place[t]]
  /\ UNCHANGED booked

Book(t) ==
  /\ place[t] = "treasury"
  /\ booked' = booked \cup {t}
  /\ UNCHANGED place

Next ==
  \/ \E t \in Txs : Pay(t) \/ Book(t)
  \/ \E S \in SUBSET Txs : Collect(S)

Spec == Init /\ [][Next]_vars
=============================================================================
