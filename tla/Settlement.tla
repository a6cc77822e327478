----------------------------- MODULE Settlement -----------------------------
(***************************************************************************)
(* The treasury workers and the validation and refund workers, which act   *)
(* on the same wallets and the same deposit rows without a lock between    *)
(* them.  The first transfers are rows with the schema's default status,   *)
(* 'received', the only rows the validator selects.  Later ones may top a  *)
(* wallet up at any time, whether or not the webhook hears of them.        *)
(*                                                                         *)
(* Several backend processes may poll the database; one of them, Main, has *)
(* the connection to the broker (the others started without one).          *)
(***************************************************************************)
EXTENDS Treasury, Refunds

CONSTANTS
  Main,   \* the process with the broker connection
  Early   \* transfers whose deposits have come in; the others come later

ASSUME SettlementAssumption ==
  /\ Main \in Backends
  /\ Early \subseteq Txs
  /\ IsFiniteSet(Txs)
  /\ IsFiniteSet(RefundIds)

vars == <<coin, deposit, linked, mainQ, conn, faults,
          treasuryQ, dead, router, sweeper, amount, refunds, batch, refunder>>

TypeOK == LedgerTypeOK /\ TreasuryTypeOK /\ RefundsTypeOK

\* Every early transfer is paid, stored with the default status and linked to
\* its order, and its message has reached the queue of its chain.  The amounts
\* of the others are never compared.
Init ==
  /\ coin = [t \in Txs |-> IF t \in Early THEN "wallet" ELSE "unpaid"]
  /\ deposit = [t \in Txs |-> IF t \in Early THEN "received" ELSE "none"]
  /\ linked = {t \in Early : OrderOf[t] # NoOrder}
  /\ mainQ = [t \in Txs |-> 0]
  /\ conn = "up"
  /\ faults = 0
  /\ treasuryQ = [t \in Txs |-> IF t \in Early THEN 1 ELSE 0]
  /\ dead = {}
  /\ router = RouterIdle
  /\ sweeper = SweeperIdle
  /\ RefundsInit
  /\ \A t \in Txs \ Early : amount[t] = "exact"

\* The webhook stores a later transfer, for an order that has expired or not,
\* and publishes it.  The first deposit of a wallet ended its watch, so this
\* takes an indexer that has not noticed; it counts against MaxFaults.
RecordDeposit(t) ==
  /\ t \in Registered
  /\ coin[t] # "unpaid"
  /\ ~Known(t)
  /\ deposit' = [deposit EXCEPT ![t] = "pending_order_validation"]
  /\ \/ OrderOf[t] \in Orders /\ linked' = linked \cup {t}
     \/ UNCHANGED linked
  /\ mainQ' = IF conn = "up" THEN Put(mainQ, t) ELSE mainQ
  /\ Fault
  /\ UNCHANGED <<coin, conn>>

LaterTransfer(t) == Pay(t) \/ RecordDeposit(t)

ProcessRestart(b) ==
  /\ PollersRestart(b)
  /\ \/ b = Main /\ WorkersRestart
     \/ b # Main /\ Fault /\ UNCHANGED <<coin, deposit, linked, mainQ, conn, treasuryVars>>
  /\ UNCHANGED <<amount, refunds>>

Next ==
  \/ TreasuryNext /\ UNCHANGED refundVars
  \/ RefundsNext /\ UNCHANGED treasuryVars
  \/ \E b \in Backends : ProcessRestart(b)
  \/ \E t \in Txs : LaterTransfer(t) /\ UNCHANGED <<treasuryVars, refundVars>>

\* The refund ticker of one process keeps firing.
Fairness == WF_vars(RefunderStep(Main) /\ UNCHANGED treasuryVars)

Spec == Init /\ [][Next]_vars
FairSpec == Spec /\ Fairness

-----------------------------------------------------------------------------
TransfersTo(o) == {t \in Txs : OrderOf[t] = o}

CoinsOf(o, place) == {t \in TransfersTo(o) : coin[t] = place}

DepositsOf(o, status) == {t \in TransfersTo(o) : deposit[t] = status}

RefundsOf(o, status) ==
  {id \in RefundIds :
     refunds[id].status = status /\ refunds[id].tx \cap TransfersTo(o) # {}}

\* The books agree with the chain although the sweep and the refund race for
\* the same wallet and book by deposit, after the fact, what they did with a
\* wallet: no more deposits of an order are 'swept' than coins of it are in
\* the treasury, no more are 'refunded' than coins went back to the customer.
BooksMatchChain ==
  \A o \in Orders :
    /\ Cardinality(DepositsOf(o, "swept")) <= Cardinality(CoinsOf(o, "treasury"))
    /\ Cardinality(DepositsOf(o, "refunded")) <= Cardinality(CoinsOf(o, "customer"))

\* However many refunds two validators insert for one deposit and however many
\* refund workers pick the same row, each that completes has paid with a coin
\* no other did: for an order of one transfer, at most one completes.
RefundedOnce ==
  \A o \in Orders :
    Cardinality(RefundsOf(o, "completed")) <= Cardinality(CoinsOf(o, "customer"))

\* Queued refunds do not stay pending: again and again the list of pending
\* ones is empty, each has completed or failed for good.
PendingRefundEnds == []<>(\A id \in RefundIds : refunds[id].status # "pending")

=============================================================================
