------------------------------ MODULE Refunds -------------------------------
(***************************************************************************)
(* The two polling workers of backend/internal/worker.  The validator reads *)
(* a batch of linked deposits with status 'received' and then compares each *)
(* with its order: it validates the deposit or inserts a refund.  The Sui   *)
(* refund worker reads a batch of pending refunds and returns the coins of  *)
(* the temporary wallet to the customer.                                    *)
(*                                                                          *)
(* Both batches are read by a query outside a transaction, so the locks of  *)
(* FOR UPDATE SKIP LOCKED end with the statement: when a worker acts on a   *)
(* row, the row may have changed and another process may hold it as well.   *)
(***************************************************************************)
EXTENDS Ledger

CONSTANTS
  Backends,   \* backend processes; each runs one validator, one refund worker
  RefundIds,  \* rows the refunds table may hold
  NoRefund    \* "no refund"

ASSUME RefundsAssumption == NoRefund \notin RefundIds

VARIABLES
  amount,    \* how the amount of a transfer compares with its order's
  refunds,   \* the refunds table
  batch,     \* rows the validator of each process has read and not handled
  refunder   \* the refund worker of each process

refundVars == <<amount, refunds, batch, refunder>>

RefundRows ==
  [status : {"none", "pending", "completed", "failed"}, tx : SUBSET Txs]

Refunders ==
  [pc : {"idle", "coins", "exec", "fail", "complete", "mark"},
   todo : SUBSET RefundIds, id : RefundIds \cup {NoRefund}, coins : SUBSET Txs]

\* Too much and too little lead to the same refund of the whole wallet.
Amounts == {"exact", "wrong"}

RefundsTypeOK ==
  /\ amount \in [Txs -> Amounts]
  /\ refunds \in [RefundIds -> RefundRows]
  /\ batch \in [Backends -> SUBSET Txs]
  /\ refunder \in [Backends -> Refunders]

RefunderIdle(todo) == [pc |-> "idle", todo |-> todo, id |-> NoRefund, coins |-> {}]

RefundsInit ==
  /\ amount \in [Txs -> Amounts]
  /\ refunds = [id \in RefundIds |-> [status |-> "none", tx |-> {}]]
  /\ batch = [b \in Backends |-> {}]
  /\ refunder = [b \in Backends |-> RefunderIdle({})]

-----------------------------------------------------------------------------
(* The validator: processBatch, processDeposit *)

Unvalidated == {t \in linked : deposit[t] = "received"}

SelectReceived(b) ==
  /\ batch[b] = {}
  /\ Unvalidated # {}
  /\ batch' = [batch EXCEPT ![b] = Unvalidated]
  /\ UNCHANGED <<ledgerVars, amount, refunds, refunder>>

Handled(b, t) == batch' = [batch EXCEPT ![b] = @ \ {t}]

\* The update is by id alone, whatever the status has become.
ValidateAmount(b, t) ==
  /\ t \in batch[b]
  /\ amount[t] = "exact"
  /\ deposit' = [deposit EXCEPT ![t] = "amount_validated"]
  /\ Handled(b, t)
  /\ UNCHANGED <<coin, linked, mainQ, conn, faults, amount, refunds, refunder>>

\* One transaction inserts the refund and updates the deposit, again by id.
QueueRefund(b, t) ==
  /\ t \in batch[b]
  /\ amount[t] # "exact"
  /\ \E id \in RefundIds : refunds[id].status = "none"
  /\ LET new == CHOOSE id \in RefundIds : refunds[id].status = "none"
     IN refunds' = [refunds EXCEPT ![new] = [status |-> "pending", tx |-> {t}]]
  /\ deposit' = [deposit EXCEPT ![t] = "mismatch_detected"]
  /\ Handled(b, t)
  /\ UNCHANGED <<coin, linked, mainQ, conn, faults, amount, refunder>>

\* The row is left for a later batch.
ProcessDepositFails(b, t) ==
  /\ t \in batch[b]
  /\ Fault
  /\ Handled(b, t)
  /\ UNCHANGED <<coin, deposit, linked, mainQ, conn, amount, refunds, refunder>>

-----------------------------------------------------------------------------
(* The Sui refund worker: processBatch, processRefund, executeSuiRefund *)

PendingRefunds ==
  {id \in RefundIds :
     refunds[id].status = "pending" /\ \A t \in refunds[id].tx : ChainOf[t] = "sui"}

SelectPending(b) ==
  /\ refunder[b] = RefunderIdle({})
  /\ PendingRefunds # {}
  /\ refunder' = [refunder EXCEPT ![b].todo = PendingRefunds]
  /\ UNCHANGED <<ledgerVars, amount, refunds, batch>>

ProcessRefund(b, id) ==
  /\ refunder[b].pc = "idle"
  /\ id \in refunder[b].todo
  /\ refunder' = [refunder EXCEPT ![b].pc = "coins", ![b].id = id]
  /\ UNCHANGED <<ledgerVars, amount, refunds, batch>>

RefunderGoto(b, pc) == refunder' = [refunder EXCEPT ![b].pc = pc]

\* Mutant: an empty wallet is taken for a refund that was already paid.
FindRefundCoinsOrDone(b) ==
  /\ refunder[b].pc = "coins"
  /\ LET found == UNION {WalletCoins(OrderOf[t]) : t \in refunds[refunder[b].id].tx}
     IN \/ found = {} /\ RefunderGoto(b, "complete")
        \/ /\ found # {}
           /\ refunder' = [refunder EXCEPT ![b].pc = "exec", ![b].coins = found]
  /\ UNCHANGED <<ledgerVars, amount, refunds, batch>>

\* All coins of the order's wallet; none is the permanent error "already swept?".
FindRefundCoins(b) ==
  /\ refunder[b].pc = "coins"
  /\ LET found == UNION {WalletCoins(OrderOf[t]) : t \in refunds[refunder[b].id].tx}
     IN \/ found = {} /\ RefunderGoto(b, "fail")
        \/ /\ found # {}
           /\ refunder' = [refunder EXCEPT ![b].pc = "exec", ![b].coins = found]
  /\ UNCHANGED <<ledgerVars, amount, refunds, batch>>

Unspent(b) == \A t \in refunder[b].coins : coin[t] = "wallet"

SponsoredRefund(b) ==
  /\ refunder[b].pc = "exec"
  /\ Unspent(b)
  /\ coin' = Moved(refunder[b].coins, "customer")
  /\ RefunderGoto(b, "complete")
  /\ UNCHANGED <<deposit, linked, mainQ, conn, faults, amount, refunds, batch>>

\* The treasury worker or another refund worker moved a coin first.
RefundRefused(b) ==
  /\ refunder[b].pc = "exec"
  /\ ~Unspent(b)
  /\ RefunderGoto(b, "fail")
  /\ UNCHANGED <<ledgerVars, amount, refunds, batch>>

RefundReplyLost(b) ==
  /\ refunder[b].pc = "exec"
  /\ Unspent(b)
  /\ Fault
  /\ coin' = Moved(refunder[b].coins, "customer")
  /\ RefunderGoto(b, "fail")
  /\ UNCHANGED <<deposit, linked, mainQ, conn, amount, refunds, batch>>

RefundStepFails(b) ==
  /\ refunder[b].pc \in {"coins", "exec"}
  /\ Fault
  /\ RefunderGoto(b, "fail")
  /\ UNCHANGED <<coin, deposit, linked, mainQ, conn, amount, refunds, batch>>

\* processRefund returns and the loop goes to the next row of its batch.
NextRefund(b) ==
  refunder' = [refunder EXCEPT ![b] = RefunderIdle(@.todo \ {@.id})]

SetRefund(b, status) == refunds' = [refunds EXCEPT ![refunder[b].id].status = status]

\* Mutant: a failed refund is left pending for the next batch.
MarkFailedRetries(b) ==
  /\ refunder[b].pc = "fail"
  /\ NextRefund(b)
  /\ UNCHANGED <<ledgerVars, amount, refunds, batch>>

MarkFailed(b) ==
  /\ refunder[b].pc = "fail"
  /\ SetRefund(b, "failed")
  /\ NextRefund(b)
  /\ UNCHANGED <<ledgerVars, amount, batch>>

MarkCompleted(b) ==
  /\ refunder[b].pc = "complete"
  /\ SetRefund(b, "completed")
  /\ RefunderGoto(b, "mark")
  /\ UNCHANGED <<ledgerVars, amount, batch>>

MarkRefunded(b) ==
  /\ refunder[b].pc = "mark"
  /\ deposit' = [t \in Txs |->
       IF t \in refunds[refunder[b].id].tx THEN "refunded" ELSE deposit[t]]
  /\ NextRefund(b)
  /\ UNCHANGED <<coin, linked, mainQ, conn, faults, amount, refunds, batch>>

\* The errors of these three updates are ignored.
MarkLost(b) ==
  /\ refunder[b].pc \in {"fail", "complete", "mark"}
  /\ Fault
  /\ IF refunder[b].pc = "complete" THEN RefunderGoto(b, "mark") ELSE NextRefund(b)
  /\ UNCHANGED <<coin, deposit, linked, mainQ, conn, amount, refunds, batch>>

-----------------------------------------------------------------------------
\* The workers of process b hold no state that survives it.
PollersRestart(b) ==
  /\ batch' = [batch EXCEPT ![b] = {}]
  /\ refunder' = [refunder EXCEPT ![b] = RefunderIdle({})]

ValidatorStep(b) ==
  \/ SelectReceived(b)
  \/ \E t \in Txs : ValidateAmount(b, t) \/ QueueRefund(b, t)

RefunderStep(b) ==
  \/ SelectPending(b)
  \/ \E id \in RefundIds : ProcessRefund(b, id)
  \/ FindRefundCoins(b) \/ SponsoredRefund(b) \/ RefundRefused(b)
  \/ MarkFailed(b) \/ MarkCompleted(b) \/ MarkRefunded(b)

RefundFault(b) ==
  \/ RefundReplyLost(b) \/ RefundStepFails(b) \/ MarkLost(b)
  \/ \E t \in Txs : ProcessDepositFails(b, t)

RefundsNext ==
  \E b \in Backends : ValidatorStep(b) \/ RefunderStep(b) \/ RefundFault(b)
=============================================================================
