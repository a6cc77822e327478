-------------------------- MODULE Settlement_proofs --------------------------
(***************************************************************************)
(* Theorems about Settlement, for every number of transfers, orders,       *)
(* backend processes, refund rows and faults.                              *)
(***************************************************************************)
EXTENDS Settlement, FiniteSetTheorems, TLAPS

USE DEF ledgerVars, treasuryVars, refundVars

-----------------------------------------------------------------------------
(* Type correctness *)

LEMMA InitType == Init => TypeOK
<1> SUFFICES ASSUME Init PROVE TypeOK
  OBVIOUS
<1>1. LedgerTypeOK
  BY LedgerAssumption, SettlementAssumption DEF Init, LedgerTypeOK, Places, DepositStatus, ConnStates
<1>2. TreasuryTypeOK
  BY DEF Init, TreasuryTypeOK, Routers, Sweepers
<1>3. RefundsTypeOK
  BY DEF Init, RefundsInit, RefundsTypeOK, RefundRows, Refunders, RefunderIdle
<1> QED
  BY <1>1, <1>2, <1>3 DEF TypeOK

LEMMA PutType ==
  ASSUME NEW q \in [Txs -> Nat], NEW t
  PROVE  Put(q, t) \in [Txs -> Nat]
<1>1. CASE t \in Txs
  BY <1>1 DEF Put
<1>2. CASE t \notin Txs
  BY <1>2 DEF Put
<1> QED
  BY <1>1, <1>2

LEMMA MovedType ==
  ASSUME TypeOK, NEW S, NEW place \in Places
  PROVE  Moved(S, place) \in [Txs -> Places]
  BY DEF TypeOK, LedgerTypeOK, Moved

LEMMA RequeuedType ==
  ASSUME TypeOK
  PROVE  RouterRequeued \in [Txs -> Nat] /\ SweeperRequeued \in [Txs -> Nat]
<1>1. mainQ \in [Txs -> Nat] /\ treasuryQ \in [Txs -> Nat]
  BY DEF TypeOK, LedgerTypeOK, TreasuryTypeOK
<1> QED
  BY <1>1, PutType DEF RouterRequeued, SweeperRequeued

LEMMA RouterType ==
  ASSUME TypeOK, RouterStep \/ RouteFails \/ \E t \in Txs : RouterReceive(t) \/ MessageExpires(t),
         UNCHANGED refundVars
  PROVE  TypeOK'
<1> USE LedgerAssumption
     DEF TypeOK, LedgerTypeOK, TreasuryTypeOK, RefundsTypeOK, Routers, RouterIdle, Fault
<1>1. CASE RouteToChainQueue
  BY <1>1 DEF RouteToChainQueue, Put
<1>2. CASE RouterAck
  BY <1>2 DEF RouterAck
<1>3. CASE RouteFails
  BY <1>3, PutType DEF RouteFails
<1>4. CASE \E t \in Txs : RouterReceive(t)
  BY <1>4 DEF RouterReceive, Take
<1>5. CASE \E t \in Txs : MessageExpires(t)
  BY <1>5 DEF MessageExpires, Take
<1> QED
  BY <1>1, <1>2, <1>3, <1>4, <1>5 DEF RouterStep

\* What a failed sweep does to the three variables it changes.
LEMMA SweepFailedType ==
  ASSUME TypeOK, sweeper.pc # "idle", SweepFailed
  PROVE  /\ sweeper' \in Sweepers
         /\ treasuryQ' \in [Txs -> Nat]
         /\ dead' \in SUBSET Txs
<1>1. sweeper.tx \in Txs
  BY DEF TypeOK, TreasuryTypeOK, Sweepers, SweeperIdle
<1>2. treasuryQ' \in [Txs -> Nat]
  BY <1>1 DEF SweepFailed, Put, TypeOK, TreasuryTypeOK
<1>3. dead' \in SUBSET Txs
  BY <1>1 DEF SweepFailed, TypeOK, TreasuryTypeOK
<1> QED
  BY <1>2, <1>3 DEF SweepFailed, Sweepers

LEMMA SweepType ==
  ASSUME TypeOK, SweepStep, UNCHANGED refundVars
  PROVE  TypeOK'
<1>1. sweeper \in [pc : {"lookup", "coins", "exec", "mark", "ack"}, tx : Txs,
                  coins : SUBSET Txs, owned : BOOLEAN]
  BY DEF SweepStep, LookupOrder, GetUSDCObjectIDs, SponsoredSweep, SweepRefused,
         MarkSwept, SweeperAck, TypeOK, TreasuryTypeOK, Sweepers, SweeperIdle
<1> USE <1>1, SweepFailedType
     DEF TypeOK, LedgerTypeOK, TreasuryTypeOK, RefundsTypeOK, Sweepers
<1>2. CASE LookupOrder
  BY <1>2 DEF LookupOrder
<1>3. CASE GetUSDCObjectIDs
  <2>1. WalletCoins(OrderOf[sweeper.tx]) \in SUBSET Txs
    BY DEF WalletCoins
  <2>2. /\ sweeper' \in Sweepers /\ treasuryQ' \in [Txs -> Nat] /\ dead' \in SUBSET Txs
        /\ UNCHANGED <<ledgerVars, router>>
    BY <1>3, <2>1 DEF GetUSDCObjectIDs
  <2> QED
    BY <2>2
<1>4. CASE SponsoredSweep
  BY <1>4, MovedType DEF SponsoredSweep, Places
<1>5. CASE SweepRefused
  BY <1>5 DEF SweepRefused
<1>6. CASE MarkSwept
  BY <1>6 DEF MarkSwept, DepositStatus
<1>7. CASE SweeperAck
  BY <1>7 DEF SweeperAck
<1> QED
  BY <1>2, <1>3, <1>4, <1>5, <1>6, <1>7 DEF SweepStep

LEMMA TreasuryType ==
  ASSUME TypeOK, TreasuryNext, UNCHANGED refundVars
  PROVE  TypeOK'
<1> USE LedgerAssumption DEF TypeOK, LedgerTypeOK, TreasuryTypeOK, RefundsTypeOK, Fault
<1>1. CASE SweepReplyLost
  BY <1>1, SweepFailedType, MovedType DEF SweepReplyLost, Places
<1>2. CASE SweepStepFails
  BY <1>2, SweepFailedType DEF SweepStepFails
<1>3. CASE Disconnect
  <2>1. sweeper' \in Sweepers
    <3>1. CASE sweeper = SweeperIdle
      BY <1>3, <3>1 DEF Disconnect, Sweepers, SweeperIdle
    <3>2. CASE sweeper # SweeperIdle
      BY <1>3, <3>2 DEF Disconnect, Sweepers
    <3> QED
      BY <3>1, <3>2
  <2> QED
    BY <1>3, <2>1, RequeuedType DEF Disconnect, Routers, ConnStates
<1>4. CASE \E t \in Txs : SweeperReceive(t)
  BY <1>4 DEF SweeperReceive, Take, Sweepers
<1> QED
  BY <1>1, <1>2, <1>3, <1>4, RouterType, SweepType DEF TreasuryNext, TreasuryFault

\* A worker of the pollers moves on with a well-formed state.
LEMMA RefunderFields ==
  ASSUME TypeOK, NEW b \in Backends
  PROVE  /\ refunder[b].pc \in {"idle", "coins", "exec", "fail", "complete", "mark"}
         /\ refunder[b].todo \in SUBSET RefundIds /\ refunder[b].id \in RefundIds \cup {NoRefund}
         /\ refunder[b].coins \in SUBSET Txs
         /\ \A pc \in {"idle", "coins", "exec", "fail", "complete", "mark"} :
              /\ [refunder[b] EXCEPT !.pc = pc] \in Refunders
              /\ [refunder[b] EXCEPT !.pc = pc].pc = pc
              /\ [refunder[b] EXCEPT !.pc = pc].todo = refunder[b].todo
              /\ [refunder[b] EXCEPT !.pc = pc].id = refunder[b].id
              /\ [refunder[b] EXCEPT !.pc = pc].coins = refunder[b].coins
BY DEF TypeOK, RefundsTypeOK, Refunders

\* A refund is inserted as a row that was not there.
LEMMA NewRow ==
  ASSUME NEW b, NEW t, QueueRefund(b, t)
  PROVE  \E id \in RefundIds :
           /\ refunds[id].status = "none"
           /\ refunds' = [refunds EXCEPT ![id] = [status |-> "pending", tx |-> {t}]]
<1> DEFINE new == CHOOSE id \in RefundIds : refunds[id].status = "none"
<1>1. new \in RefundIds /\ refunds[new].status = "none"
  BY DEF QueueRefund
<1>2. refunds' = [refunds EXCEPT ![new] = [status |-> "pending", tx |-> {t}]]
  BY DEF QueueRefund
<1> HIDE DEF new
<1> QED
  BY <1>1, <1>2

LEMMA ValidatorType ==
  ASSUME TypeOK, NEW b \in Backends,
         ValidatorStep(b) \/ \E t \in Txs : ProcessDepositFails(b, t),
         UNCHANGED treasuryVars
  PROVE  TypeOK'
<1> USE LedgerAssumption DEF TypeOK, LedgerTypeOK, TreasuryTypeOK, RefundsTypeOK, Handled, Fault
<1>1. CASE SelectReceived(b)
  BY <1>1 DEF SelectReceived, Unvalidated
<1>2. CASE \E t \in Txs : ValidateAmount(b, t)
  BY <1>2 DEF ValidateAmount, DepositStatus
<1>3. CASE \E t \in Txs : QueueRefund(b, t)
  <2> PICK t \in Txs : QueueRefund(b, t)
    BY <1>3
  <2>1. refunds' \in [RefundIds -> RefundRows]
    <3>1. PICK id \in RefundIds :
            refunds' = [refunds EXCEPT ![id] = [status |-> "pending", tx |-> {t}]]
      BY NewRow
    <3>2. [status |-> "pending", tx |-> {t}] \in RefundRows
      BY DEF RefundRows
    <3> QED
      BY <3>1, <3>2
  <2>2. deposit' \in [Txs -> DepositStatus]
    BY DEF QueueRefund, DepositStatus
  <2> QED
    BY <2>1, <2>2 DEF QueueRefund
<1>4. CASE \E t \in Txs : ProcessDepositFails(b, t)
  BY <1>4 DEF ProcessDepositFails
<1> QED
  BY <1>1, <1>2, <1>3, <1>4 DEF ValidatorStep

LEMMA GotoType ==
  ASSUME TypeOK, NEW b \in Backends,
         NEW pc \in {"idle", "coins", "exec", "fail", "complete", "mark"}, RefunderGoto(b, pc)
  PROVE  refunder' \in [Backends -> Refunders]
<1>1. refunder' = [refunder EXCEPT ![b] = [refunder[b] EXCEPT !.pc = pc]]
  BY DEF RefunderGoto
<1> QED
  BY <1>1, RefunderFields DEF TypeOK, RefundsTypeOK

LEMMA NextRefundType ==
  ASSUME TypeOK, NEW b \in Backends, NextRefund(b)
  PROVE  /\ refunder' \in [Backends -> Refunders]
         /\ refunder' = [refunder EXCEPT ![b] = RefunderIdle(refunder[b].todo \ {refunder[b].id})]
<1>1. refunder' = [refunder EXCEPT ![b] = RefunderIdle(refunder[b].todo \ {refunder[b].id})]
  BY DEF NextRefund
<1>2. RefunderIdle(refunder[b].todo \ {refunder[b].id}) \in Refunders
  BY RefunderFields DEF RefunderIdle, Refunders
<1> QED
  BY <1>1, <1>2 DEF TypeOK, RefundsTypeOK

\* The table keeps its type when the status of a row is set; only that row's does.
LEMMA SetRefundType ==
  ASSUME TypeOK, NEW b \in Backends, NEW status \in {"completed", "failed"}, SetRefund(b, status)
  PROVE  /\ refunds' \in [RefundIds -> RefundRows]
         /\ \A id \in RefundIds :
              /\ refunds'[id].tx = refunds[id].tx
              /\ refunds'[id].status = IF id = refunder[b].id THEN status ELSE refunds[id].status
<1>1. CASE refunder[b].id \in RefundIds
  <2>1. refunds[refunder[b].id] \in RefundRows
    BY <1>1 DEF TypeOK, RefundsTypeOK
  <2>2. [refunds[refunder[b].id] EXCEPT !.status = status] \in RefundRows
    BY <2>1 DEF RefundRows
  <2> QED
    BY <1>1, <2>1, <2>2 DEF SetRefund, TypeOK, RefundsTypeOK, RefundRows
<1>2. CASE refunder[b].id \notin RefundIds
  BY <1>2 DEF SetRefund, TypeOK, RefundsTypeOK
<1> QED
  BY <1>1, <1>2

LEMMA FoundType ==
  ASSUME TypeOK, NEW b \in Backends
  PROVE  UNION {WalletCoins(OrderOf[t]) : t \in refunds[refunder[b].id].tx} \in SUBSET Txs
BY DEF WalletCoins

LEMMA RefunderType ==
  ASSUME TypeOK, NEW b \in Backends,
         RefunderStep(b) \/ RefundReplyLost(b) \/ RefundStepFails(b) \/ MarkLost(b),
         UNCHANGED treasuryVars
  PROVE  TypeOK'
<1> DEFINE goto(pc) == RefunderGoto(b, pc)
<1>1. CASE SelectPending(b)
  <2>1. PendingRefunds \in SUBSET RefundIds /\ refunder[b] = RefunderIdle({})
    BY <1>1 DEF SelectPending, PendingRefunds
  <2>2. [refunder[b] EXCEPT !.todo = PendingRefunds] \in Refunders
    BY <2>1 DEF RefunderIdle, Refunders
  <2>3. refunder' \in [Backends -> Refunders]
    BY <1>1, <2>2 DEF SelectPending, TypeOK, RefundsTypeOK
  <2> QED
    BY <1>1, <2>3 DEF SelectPending, TypeOK, LedgerTypeOK, TreasuryTypeOK, RefundsTypeOK
<1>2. CASE \E id \in RefundIds : ProcessRefund(b, id)
  <2> PICK id \in RefundIds : ProcessRefund(b, id)
    BY <1>2
  <2>1. refunder' = [refunder EXCEPT ![b] = [[refunder[b] EXCEPT !.pc = "coins"] EXCEPT !.id = id]]
    BY DEF ProcessRefund, TypeOK, RefundsTypeOK
  <2>2. [[refunder[b] EXCEPT !.pc = "coins"] EXCEPT !.id = id] \in Refunders
    BY RefunderFields DEF Refunders
  <2>3. refunder' \in [Backends -> Refunders]
    BY <2>1, <2>2 DEF TypeOK, RefundsTypeOK
  <2> QED
    BY <2>3 DEF ProcessRefund, TypeOK, LedgerTypeOK, TreasuryTypeOK, RefundsTypeOK
<1>3. CASE FindRefundCoins(b)
  <2> DEFINE found == UNION {WalletCoins(OrderOf[t]) : t \in refunds[refunder[b].id].tx}
  <2>1. found \in SUBSET Txs
    BY FoundType
  <2>2. [[refunder[b] EXCEPT !.pc = "exec"] EXCEPT !.coins = found] \in Refunders
    BY <2>1, RefunderFields DEF Refunders
  <2>3. \/ goto("fail")
        \/ refunder' = [refunder EXCEPT ![b] = [[refunder[b] EXCEPT !.pc = "exec"] EXCEPT !.coins = found]]
    BY <1>3 DEF FindRefundCoins, TypeOK, RefundsTypeOK
  <2> HIDE DEF found
  <2>4. refunder' \in [Backends -> Refunders]
    BY <2>2, <2>3, GotoType DEF TypeOK, RefundsTypeOK
  <2> QED
    BY <1>3, <2>4 DEF FindRefundCoins, TypeOK, LedgerTypeOK, TreasuryTypeOK, RefundsTypeOK
<1>4. CASE SponsoredRefund(b) \/ RefundReplyLost(b)
  <2>1. refunder' \in [Backends -> Refunders]
    BY <1>4, GotoType DEF SponsoredRefund, RefundReplyLost
  <2>2. coin' \in [Txs -> Places]
    BY <1>4, MovedType DEF SponsoredRefund, RefundReplyLost, Places
  <2>3. faults' \in 0..MaxFaults
    BY <1>4, LedgerAssumption
    DEF SponsoredRefund, RefundReplyLost, Fault, TypeOK, LedgerTypeOK
  <2> QED
    BY <1>4, <2>1, <2>2, <2>3
    DEF SponsoredRefund, RefundReplyLost, TypeOK, LedgerTypeOK, TreasuryTypeOK, RefundsTypeOK
<1>5. CASE RefundRefused(b) \/ RefundStepFails(b)
  <2>1. refunder' \in [Backends -> Refunders]
    BY <1>5, GotoType DEF RefundRefused, RefundStepFails
  <2>2. faults' \in 0..MaxFaults
    BY <1>5, LedgerAssumption DEF RefundRefused, RefundStepFails, Fault, TypeOK, LedgerTypeOK
  <2> QED
    BY <1>5, <2>1, <2>2
    DEF RefundRefused, RefundStepFails, TypeOK, LedgerTypeOK, TreasuryTypeOK, RefundsTypeOK
<1>6. CASE MarkFailed(b)
  BY <1>6, NextRefundType, SetRefundType
  DEF MarkFailed, TypeOK, LedgerTypeOK, TreasuryTypeOK, RefundsTypeOK
<1>7. CASE MarkCompleted(b)
  BY <1>7, GotoType, SetRefundType
  DEF MarkCompleted, TypeOK, LedgerTypeOK, TreasuryTypeOK, RefundsTypeOK
<1>8. CASE MarkRefunded(b)
  <2>1. deposit' \in [Txs -> DepositStatus]
    BY <1>8 DEF MarkRefunded, TypeOK, LedgerTypeOK, DepositStatus
  <2> QED
    BY <1>8, <2>1, NextRefundType
    DEF MarkRefunded, TypeOK, LedgerTypeOK, TreasuryTypeOK, RefundsTypeOK
<1>9. CASE MarkLost(b)
  <2>1. refunder' \in [Backends -> Refunders]
    BY <1>9, NextRefundType, GotoType DEF MarkLost
  <2> QED
    BY <1>9, <2>1, LedgerAssumption
    DEF MarkLost, Fault, TypeOK, LedgerTypeOK, TreasuryTypeOK, RefundsTypeOK
<1> QED
  BY <1>1, <1>2, <1>3, <1>4, <1>5, <1>6, <1>7, <1>8, <1>9 DEF RefunderStep

LEMMA RestartType ==
  ASSUME TypeOK, NEW b \in Backends, ProcessRestart(b)
  PROVE  TypeOK'
<1>1. RefunderIdle({}) \in Refunders
  BY DEF RefunderIdle, Refunders
<1>2. refunder' \in [Backends -> Refunders] /\ batch' \in [Backends -> SUBSET Txs]
  BY <1>1 DEF ProcessRestart, PollersRestart, TypeOK, RefundsTypeOK
<1>3. LedgerTypeOK' /\ TreasuryTypeOK'
  BY RequeuedType, LedgerAssumption
  DEF ProcessRestart, WorkersRestart, Fault, TypeOK, LedgerTypeOK, TreasuryTypeOK, Routers,
      Sweepers, ConnStates
<1> QED
  BY <1>2, <1>3 DEF ProcessRestart, TypeOK, RefundsTypeOK

LEMMA LaterType ==
  ASSUME TypeOK, NEW t \in Txs, LaterTransfer(t), UNCHANGED <<treasuryVars, refundVars>>
  PROVE  TypeOK'
<1> USE LedgerAssumption DEF TypeOK, LedgerTypeOK, TreasuryTypeOK, RefundsTypeOK
<1>1. CASE Pay(t)
  BY <1>1 DEF Pay, Places
<1>2. CASE RecordDeposit(t)
  <2>1. deposit' \in [Txs -> DepositStatus] /\ linked' \in SUBSET Txs /\ faults' \in 0..MaxFaults
    BY <1>2 DEF RecordDeposit, DepositStatus, Fault
  <2>2. mainQ' \in [Txs -> Nat]
    BY <1>2, PutType DEF RecordDeposit
  <2> QED
    BY <1>2, <2>1, <2>2 DEF RecordDeposit
<1> QED
  BY <1>1, <1>2 DEF LaterTransfer

LEMMA StepType == TypeOK /\ [Next]_vars => TypeOK'
<1> SUFFICES ASSUME TypeOK, [Next]_vars PROVE TypeOK'
  OBVIOUS
<1>1. CASE UNCHANGED vars
  BY <1>1 DEF vars, TypeOK, LedgerTypeOK, TreasuryTypeOK, RefundsTypeOK
<1>2. CASE TreasuryNext /\ UNCHANGED refundVars
  BY <1>2, TreasuryType
<1>3. CASE RefundsNext /\ UNCHANGED treasuryVars
  BY <1>3, ValidatorType, RefunderType DEF RefundsNext, RefundFault
<1>4. CASE \E b \in Backends : ProcessRestart(b)
  BY <1>4, RestartType
<1>5. CASE \E t \in Txs : LaterTransfer(t) /\ UNCHANGED <<treasuryVars, refundVars>>
  BY <1>5, LaterType
<1> QED
  BY <1>1, <1>2, <1>3, <1>4, <1>5 DEF Next

\* Every variable keeps its type, though two kinds of worker write the same rows: a
\* queue holds no negative number of copies, a refund row no status of a deposit.
THEOREM TypeCorrect == Spec => []TypeOK
  BY InitType, StepType, PTL DEF Spec

-----------------------------------------------------------------------------
(* What the workers have in hand *)

\* A row of the table is a refund of one linked deposit.
RowsOK ==
  \A id \in RefundIds :
    IF refunds[id].status = "none" THEN refunds[id].tx = {}
                                   ELSE \E t \in linked : refunds[id].tx = {t}

\* What a validator or a refund worker has in hand are rows.
InHandOK ==
  /\ \A b \in Backends : batch[b] \subseteq linked
  /\ \A b \in Backends : \A id \in refunder[b].todo : refunds[id].status # "none"
  /\ \A b \in Backends : refunder[b].pc # "idle" =>
       refunder[b].id \in RefundIds /\ refunds[refunder[b].id].status # "none"

Row(b) == refunds[refunder[b].id]

\* The coins to pay a refund with are of the wallet of its order.
ExecOK ==
  \A b \in Backends : refunder[b].pc = "exec" =>
    /\ refunder[b].coins # {}
    /\ \A t \in Row(b).tx : \A u \in refunder[b].coins : OrderOf[u] = OrderOf[t]

RefundInv == TypeOK /\ RowsOK /\ InHandOK /\ ExecOK

LEMMA InitRefund == Init => RefundInv
<1> SUFFICES ASSUME Init PROVE RefundInv
  OBVIOUS
<1>1. /\ \A id \in RefundIds : refunds[id].status = "none" /\ refunds[id].tx = {}
      /\ \A b \in Backends : refunder[b].pc = "idle" /\ refunder[b].todo = {} /\ batch[b] = {}
  BY DEF Init, RefundsInit, RefunderIdle
<1> QED
  BY <1>1, InitType DEF RefundInv, RowsOK, InHandOK, ExecOK

\* The worker of one process moves, and no row becomes or stops being one.
LEMMA MoveKeeps ==
  ASSUME RefundInv, TypeOK', linked \subseteq linked', NEW b \in Backends,
         \A c \in Backends : batch'[c] \subseteq linked',
         \A id \in RefundIds :
           /\ refunds'[id].tx = refunds[id].tx
           /\ refunds'[id].status = "none" <=> refunds[id].status = "none",
         \A c \in Backends : c # b => refunder'[c] = refunder[c],
         \A id \in refunder'[b].todo : refunds[id].status # "none",
         refunder'[b].pc # "idle" =>
           refunder'[b].id \in RefundIds /\ refunds[refunder'[b].id].status # "none",
         refunder'[b].pc = "exec" =>
           /\ refunder'[b].coins # {}
           /\ \A t \in refunds[refunder'[b].id].tx :
                \A u \in refunder'[b].coins : OrderOf[u] = OrderOf[t]
  PROVE  RefundInv'
<1>1. RowsOK'
  BY DEF RefundInv, RowsOK
<1>2. /\ \A c \in Backends : \A id \in refunder'[c].todo : id \in RefundIds
      /\ \A c \in Backends : \A id \in refunder[c].todo : id \in RefundIds
  BY RefunderFields DEF RefundInv, TypeOK, RefundsTypeOK, Refunders
<1>3. InHandOK'
  BY <1>2 DEF RefundInv, InHandOK
<1>4. \A c \in Backends : refunder'[c].pc # "idle" => Row(c)'.tx = refunds[refunder'[c].id].tx
  BY <1>3 DEF InHandOK, Row
<1>5. ExecOK'
  <2> SUFFICES ASSUME NEW c \in Backends, refunder'[c].pc = "exec"
               PROVE  /\ refunder'[c].coins # {}
                      /\ \A t \in Row(c)'.tx : \A u \in refunder'[c].coins : OrderOf[u] = OrderOf[t]
    BY DEF ExecOK
  <2>1. Row(c)'.tx = refunds[refunder'[c].id].tx
    BY <1>4
  <2>2. CASE c = b
    BY <2>1, <2>2
  <2>3. CASE c # b
    BY <2>1, <2>3 DEF RefundInv, ExecOK, Row
  <2> QED
    BY <2>2, <2>3
<1> QED
  BY <1>1, <1>3, <1>5 DEF RefundInv

\* A step of others than the refund workers that writes no refund.
LEMMA OthersKeep ==
  ASSUME RefundInv, TypeOK', linked \subseteq linked', UNCHANGED <<refunds, refunder>>,
         \A c \in Backends : batch'[c] \subseteq linked'
  PROVE  RefundInv'
<1>1. RowsOK'
  BY DEF RefundInv, RowsOK
<1>2. InHandOK'
  BY DEF RefundInv, InHandOK
<1>3. ExecOK'
  BY DEF RefundInv, ExecOK, Row
<1> QED
  BY <1>1, <1>2, <1>3 DEF RefundInv

\* No step of the treasury workers links a deposit.
LEMMA TreasuryLinked ==
  ASSUME TreasuryNext
  PROVE  linked' = linked
BY DEF TreasuryNext, RouterStep, SweepStep, TreasuryFault, RouterReceive, SweeperReceive,
       RouteToChainQueue, RouterAck, LookupOrder, GetUSDCObjectIDs, SponsoredSweep,
       SweepRefused, MarkSwept, SweeperAck, RouteFails, SweepReplyLost, SweepStepFails,
       Disconnect, MessageExpires

LEMMA TreasuryRefundInv ==
  ASSUME RefundInv, TreasuryNext, UNCHANGED refundVars
  PROVE  RefundInv'
<1>1. TypeOK'
  BY TreasuryType DEF RefundInv
<1> QED
  BY <1>1, TreasuryLinked, OthersKeep DEF RefundInv, InHandOK

LEMMA LaterRefundInv ==
  ASSUME RefundInv, NEW t \in Txs, LaterTransfer(t), UNCHANGED <<treasuryVars, refundVars>>
  PROVE  RefundInv'
<1>1. TypeOK'
  BY LaterType DEF RefundInv
<1>2. linked \subseteq linked'
  BY DEF LaterTransfer, Pay, RecordDeposit
<1> QED
  BY <1>1, <1>2, OthersKeep DEF RefundInv, InHandOK

LEMMA ValidatorRefundInv ==
  ASSUME RefundInv, NEW b \in Backends,
         ValidatorStep(b) \/ \E t \in Txs : ProcessDepositFails(b, t),
         UNCHANGED treasuryVars
  PROVE  RefundInv'
<1>1. TypeOK'
  BY ValidatorType DEF RefundInv
<1>2. /\ linked' = linked /\ refunder' = refunder
      /\ \A c \in Backends : batch'[c] \subseteq linked
  <2>1. linked' = linked /\ refunder' = refunder
    BY DEF ValidatorStep, SelectReceived, ValidateAmount, QueueRefund, ProcessDepositFails
  <2>2. \E new \in {Unvalidated} \cup {batch[b] \ {t} : t \in Txs} :
          batch' = [batch EXCEPT ![b] = new]
    BY DEF ValidatorStep, SelectReceived, ValidateAmount, QueueRefund, ProcessDepositFails,
           Handled, RefundInv, TypeOK, RefundsTypeOK
  <2>3. \A c \in Backends : batch'[c] \subseteq linked
    BY <2>2 DEF Unvalidated, RefundInv, InHandOK, TypeOK, RefundsTypeOK
  <2> QED
    BY <2>1, <2>3
<1>3. CASE refunds' = refunds
  BY <1>1, <1>2, <1>3, OthersKeep
<1>4. CASE \E t \in Txs : QueueRefund(b, t)
  <2>1. PICK t \in Txs, id \in RefundIds :
          /\ t \in batch[b] /\ refunds[id].status = "none"
          /\ refunds' = [refunds EXCEPT ![id] = [status |-> "pending", tx |-> {t}]]
    BY <1>4, NewRow DEF QueueRefund
  <2>2. t \in linked
    BY <2>1 DEF RefundInv, InHandOK
  <2>3. /\ \A i \in RefundIds : i # id => refunds'[i] = refunds[i]
        /\ refunds'[id].status = "pending" /\ refunds'[id].tx = {t}
    BY <2>1 DEF RefundInv, TypeOK, RefundsTypeOK
  <2>4. \A c \in Backends : refunder[c].pc # "idle" => refunder[c].id # id
    BY <2>1 DEF RefundInv, InHandOK
  <2>5. \A c \in Backends : \A i \in refunder[c].todo : i \in RefundIds /\ i # id
    <3>1. \A c \in Backends : refunder[c].todo \in SUBSET RefundIds
      BY RefunderFields DEF RefundInv
    <3>2. \A c \in Backends : \A i \in refunder[c].todo : refunds[i].status # "none"
      BY DEF RefundInv, InHandOK
    <3> QED
      BY <2>1, <3>1, <3>2
  <2>6. \A c \in Backends : refunder[c].pc # "idle" => Row(c)' = Row(c)
    BY <1>2, <2>3, <2>4 DEF RefundInv, InHandOK, Row
  <2>7. RowsOK'
    BY <1>2, <2>2, <2>3 DEF RefundInv, RowsOK
  <2>8. InHandOK'
    BY <1>2, <2>3, <2>4, <2>5 DEF RefundInv, InHandOK
  <2>9. ExecOK'
    BY <1>2, <2>6 DEF RefundInv, ExecOK
  <2> QED
    BY <1>1, <2>7, <2>8, <2>9 DEF RefundInv
<1> QED
  BY <1>3, <1>4 DEF ValidatorStep, SelectReceived, ValidateAmount, ProcessDepositFails

LEMMA RefunderRefundInv ==
  ASSUME RefundInv, NEW b \in Backends,
         RefunderStep(b) \/ RefundReplyLost(b) \/ RefundStepFails(b) \/ MarkLost(b),
         UNCHANGED treasuryVars
  PROVE  RefundInv'
<1>1. TypeOK' /\ TypeOK
  BY RefunderType DEF RefundInv
<1>2. linked' = linked /\ batch' = batch
  BY DEF RefunderStep, SelectPending, ProcessRefund, FindRefundCoins, SponsoredRefund,
         RefundRefused, RefundReplyLost, RefundStepFails, MarkFailed, MarkCompleted,
         MarkRefunded, MarkLost
<1>3. /\ \A id \in refunder[b].todo : id \in RefundIds /\ refunds[id].status # "none"
      /\ refunder[b].pc # "idle" =>
           refunder[b].id \in RefundIds /\ refunds[refunder[b].id].status # "none"
      /\ \A c \in Backends : batch'[c] \subseteq linked'
  <2>1. refunder[b].todo \in SUBSET RefundIds
    BY <1>1, RefunderFields
  <2> QED
    BY <1>2, <2>1 DEF RefundInv, InHandOK
<1>4. \A id \in RefundIds : /\ refunds'[id].tx = refunds[id].tx
                            /\ refunds'[id].status = "none" <=> refunds[id].status = "none"
  <2>1. CASE UNCHANGED refunds
    BY <2>1
  <2>2. CASE \/ SetRefund(b, "failed") /\ refunder[b].pc = "fail"
             \/ SetRefund(b, "completed") /\ refunder[b].pc = "complete"
    BY <1>1, <1>3, <2>2, SetRefundType
  <2> QED
    BY <2>1, <2>2 DEF RefunderStep, SelectPending, ProcessRefund, FindRefundCoins, SponsoredRefund,
         RefundRefused, RefundReplyLost, RefundStepFails, MarkFailed, MarkCompleted,
         MarkRefunded, MarkLost
\* It goes on with the same row.
<1>5. ASSUME NEW pc \in {"coins", "fail", "complete", "mark"}, RefunderGoto(b, pc),
             refunder[b].pc # "idle"
      PROVE  RefundInv'
  <2>1. refunder' = [refunder EXCEPT ![b] = [refunder[b] EXCEPT !.pc = pc]]
    BY <1>5 DEF RefunderGoto
  <2>2. /\ refunder'[b].pc = pc /\ refunder'[b].id = refunder[b].id
        /\ refunder'[b].todo = refunder[b].todo
        /\ \A c \in Backends : c # b => refunder'[c] = refunder[c]
    BY <1>1, <2>1, RefunderFields DEF TypeOK, RefundsTypeOK
  <2> QED
    BY <1>1, <1>2, <1>3, <1>4, <1>5, <2>2, MoveKeeps
\* It is through with its row.
<1>6. ASSUME NextRefund(b) PROVE RefundInv'
  <2>1. refunder' = [refunder EXCEPT ![b] = RefunderIdle(refunder[b].todo \ {refunder[b].id})]
    BY <1>1, <1>6, NextRefundType
  <2>2. /\ refunder'[b].pc = "idle" /\ refunder'[b].todo \subseteq refunder[b].todo
        /\ \A c \in Backends : c # b => refunder'[c] = refunder[c]
    BY <1>1, <2>1 DEF RefunderIdle, TypeOK, RefundsTypeOK
  <2> QED
    BY <1>1, <1>2, <1>3, <1>4, <2>2, MoveKeeps
<1>7. CASE SelectPending(b)
  <2>1. /\ refunder' = [refunder EXCEPT ![b] = [refunder[b] EXCEPT !.todo = PendingRefunds]]
        /\ refunder[b] = RefunderIdle({})
    BY <1>7 DEF SelectPending
  <2>2. /\ refunder'[b].pc = "idle" /\ refunder'[b].todo = PendingRefunds
        /\ \A c \in Backends : c # b => refunder'[c] = refunder[c]
    BY <1>1, <2>1 DEF RefunderIdle, TypeOK, RefundsTypeOK
  <2> QED
    BY <1>1, <1>2, <1>3, <1>4, <2>2, MoveKeeps DEF PendingRefunds
<1>8. CASE \E id \in RefundIds : ProcessRefund(b, id)
  <2> PICK id \in RefundIds : ProcessRefund(b, id)
    BY <1>8
  <2>1. /\ refunder' = [refunder EXCEPT ![b] = [[refunder[b] EXCEPT !.pc = "coins"] EXCEPT !.id = id]]
        /\ id \in refunder[b].todo
    BY <1>1 DEF ProcessRefund, TypeOK, RefundsTypeOK
  <2>2. refunder[b] \in Refunders
    BY <1>1 DEF TypeOK, RefundsTypeOK
  <2>3. /\ refunder'[b].pc = "coins" /\ refunder'[b].todo = refunder[b].todo /\ refunder'[b].id = id
        /\ \A c \in Backends : c # b => refunder'[c] = refunder[c]
    BY <1>1, <2>1, <2>2 DEF Refunders, TypeOK, RefundsTypeOK
  <2> QED
    BY <1>1, <1>2, <1>3, <1>4, <2>1, <2>3, MoveKeeps
<1>9. CASE FindRefundCoins(b)
  <2> DEFINE found == UNION {WalletCoins(OrderOf[t]) : t \in refunds[refunder[b].id].tx}
             r == [[refunder[b] EXCEPT !.pc = "exec"] EXCEPT !.coins = found]
  <2>1. refunder[b].pc = "coins"
    BY <1>9 DEF FindRefundCoins
  <2>2. \/ RefunderGoto(b, "fail")
        \/ found # {} /\ refunder' = [refunder EXCEPT ![b] = r]
    BY <1>1, <1>9 DEF FindRefundCoins, TypeOK, RefundsTypeOK
  <2>3. CASE RefunderGoto(b, "fail")
    BY <1>5, <2>1, <2>3
  <2>4. CASE found # {} /\ refunder' = [refunder EXCEPT ![b] = r]
    <3>1. PICK t \in linked : refunds[refunder[b].id].tx = {t}
      BY <1>3, <2>1 DEF RefundInv, RowsOK
    <3>2. found = WalletCoins(OrderOf[t])
      BY <3>1
    <3>3. refunder[b] \in Refunders
      BY <1>1 DEF TypeOK, RefundsTypeOK
    <3>4. /\ r.pc = "exec" /\ r.todo = refunder[b].todo /\ r.id = refunder[b].id /\ r.coins = found
      BY <3>3 DEF Refunders
    <3> HIDE DEF found, r
    <3>5. refunder'[b] = r /\ \A c \in Backends : c # b => refunder'[c] = refunder[c]
      BY <1>1, <2>4 DEF TypeOK, RefundsTypeOK
    <3>6. \A u \in found : OrderOf[u] = OrderOf[t]
      BY <3>2 DEF WalletCoins
    <3>7. refunder'[b].pc = "exec" =>
           /\ refunder'[b].coins # {}
           /\ \A u \in refunds[refunder'[b].id].tx :
                \A v \in refunder'[b].coins : OrderOf[v] = OrderOf[u]
      BY <2>4, <3>1, <3>4, <3>5, <3>6
    <3> QED
      BY <1>1, <1>2, <1>3, <1>4, <2>1, <3>4, <3>5, <3>7, MoveKeeps
  <2> QED
    BY <2>2, <2>3, <2>4
<1>10. CASE \/ SponsoredRefund(b) \/ RefundRefused(b) \/ RefundReplyLost(b) \/ RefundStepFails(b)
            \/ MarkCompleted(b)
  BY <1>5, <1>10
  DEF SponsoredRefund, RefundRefused, RefundReplyLost, RefundStepFails, MarkCompleted
<1>11. CASE MarkFailed(b) \/ MarkRefunded(b)
  BY <1>6, <1>11 DEF MarkFailed, MarkRefunded
<1>12. CASE MarkLost(b)
  <2>1. refunder[b].pc # "idle" /\ (RefunderGoto(b, "mark") \/ NextRefund(b))
    BY <1>12 DEF MarkLost
  <2> QED
    BY <1>5, <1>6, <2>1
<1> QED
  BY <1>7, <1>8, <1>9, <1>10, <1>11, <1>12 DEF RefunderStep

LEMMA RestartRefundInv ==
  ASSUME RefundInv, NEW b \in Backends, ProcessRestart(b)
  PROVE  RefundInv'
<1>1. TypeOK'
  BY RestartType DEF RefundInv
<1>2. /\ UNCHANGED <<coin, linked, refunds>> /\ batch' = [batch EXCEPT ![b] = {}]
      /\ refunder' = [refunder EXCEPT ![b] = RefunderIdle({})]
  BY DEF ProcessRestart, PollersRestart, WorkersRestart
<1>3. /\ refunder'[b].pc = "idle" /\ refunder'[b].todo = {}
      /\ \A c \in Backends : c # b => refunder'[c] = refunder[c]
      /\ \A c \in Backends : batch'[c] \subseteq linked
  BY <1>2 DEF RefunderIdle, RefundInv, InHandOK, TypeOK, RefundsTypeOK
<1> QED
  BY <1>1, <1>2, <1>3, MoveKeeps

LEMMA StepRefund == RefundInv /\ [Next]_vars => RefundInv'
<1> SUFFICES ASSUME RefundInv, [Next]_vars PROVE RefundInv'
  OBVIOUS
<1>1. CASE UNCHANGED vars
  <2>1. TypeOK'
    BY <1>1, StepType DEF RefundInv
  <2> QED
    BY <1>1, <2>1, OthersKeep DEF vars, RefundInv, InHandOK
<1>2. CASE RefundsNext /\ UNCHANGED treasuryVars
  BY <1>2, ValidatorRefundInv, RefunderRefundInv DEF RefundsNext, RefundFault
<1> QED
  BY <1>1, <1>2, TreasuryRefundInv, RestartRefundInv, LaterRefundInv DEF Next

LEMMA RefundInvariance == Spec => []RefundInv
  BY InitRefund, StepRefund, PTL DEF Spec

-----------------------------------------------------------------------------
(* The books: every row that is booked, or about to be, has a coin *)

\* The sweep is about a linked deposit, with coins of its order's wallet.
SweepOK ==
  /\ \A t \in linked : OrderOf[t] # NoOrder
  /\ sweeper.pc \in {"coins", "exec", "mark"} => sweeper.tx \in linked
  /\ sweeper.pc = "exec" =>
       sweeper.coins # {} /\ \A t \in sweeper.coins : OrderOf[t] = OrderOf[sweeper.tx]

\* Deposits of o that are booked as swept, or are about to be.
Sweeps(o) ==
  {t \in TransfersTo(o) : deposit[t] = "swept" \/ (sweeper.pc = "mark" /\ sweeper.tx = t)}

\* Deposits of o that are booked as refunded, or are about to be.
Returns(o) ==
  {t \in TransfersTo(o) :
     \/ deposit[t] = "refunded"
     \/ \E b \in Backends : refunder[b].pc \in {"complete", "mark"} /\ t \in Row(b).tx}

\* Refunds of deposits of o that are booked as completed, or are about to be.
Payments(o) ==
  {id \in RefundIds :
     /\ refunds[id].tx \cap TransfersTo(o) # {}
     /\ \/ refunds[id].status = "completed"
        \/ \E b \in Backends : refunder[b].pc = "complete" /\ refunder[b].id = id}

CoinsSuffice ==
  \A o \in Orders :
    /\ Cardinality(Sweeps(o)) <= Cardinality(CoinsOf(o, "treasury"))
    /\ Cardinality(Returns(o)) <= Cardinality(CoinsOf(o, "customer"))
    /\ Cardinality(Payments(o)) <= Cardinality(CoinsOf(o, "customer"))

BooksInv == RefundInv /\ SweepOK /\ CoinsSuffice

\* A coin that has left its wallet stays where it is.
CoinsStay ==
  \A t \in Txs, place \in {"treasury", "customer"} : coin[t] = place => coin'[t] = place

\* A set of booked rows that grows by one row at most, and only with the coins.
LEMMA OneForOne ==
  ASSUME NEW A, NEW A2, NEW B, NEW B2, NEW x,
         IsFiniteSet(A), IsFiniteSet(B2), B \subseteq B2,
         Cardinality(A) <= Cardinality(B),
         A2 \subseteq A \cup {x},
         A2 \subseteq A \/ B # B2
  PROVE  Cardinality(A2) <= Cardinality(B2)
<1>1. IsFiniteSet(B) /\ Cardinality(B) <= Cardinality(B2)
  BY FS_Subset
<1>2. /\ Cardinality(A) \in Nat /\ Cardinality(B) \in Nat /\ Cardinality(B2) \in Nat
      /\ IsFiniteSet(A \cup {x}) /\ Cardinality(A \cup {x}) \in Nat
  BY <1>1, FS_CardinalityType, FS_AddElement
<1>3. IsFiniteSet(A2) /\ Cardinality(A2) \in Nat
  BY <1>2, FS_Subset, FS_CardinalityType
<1>4. CASE A2 \subseteq A
  <2>1. Cardinality(A2) <= Cardinality(A)
    BY <1>4, FS_Subset
  <2> QED
    BY <1>1, <1>2, <1>3, <2>1
<1>5. CASE B # B2
  <2>1. Cardinality(A \cup {x}) <= Cardinality(A) + 1
    BY <1>2, FS_AddElement
  <2>2. Cardinality(A2) <= Cardinality(A \cup {x})
    BY <1>2, FS_Subset
  <2>3. Cardinality(B) < Cardinality(B2)
    BY <1>1, <1>2, <1>5, FS_Subset
  <2> QED
    BY <1>2, <1>3, <2>1, <2>2, <2>3
<1> QED
  BY <1>4, <1>5

\* The sets that are counted are finite.
LEMMA CountedFinite ==
  ASSUME NEW o
  PROVE  /\ IsFiniteSet(Sweeps(o)) /\ IsFiniteSet(Returns(o)) /\ IsFiniteSet(Payments(o))
         /\ \A place : IsFiniteSet(CoinsOf(o, place)) /\ IsFiniteSet(CoinsOf(o, place))'
<1>1. /\ Sweeps(o) \subseteq Txs /\ Returns(o) \subseteq Txs /\ Payments(o) \subseteq RefundIds
      /\ \A place : CoinsOf(o, place) \subseteq Txs /\ CoinsOf(o, place)' \subseteq Txs
  BY DEF Sweeps, Returns, Payments, CoinsOf, TransfersTo
<1> QED
  BY <1>1, SettlementAssumption, FS_Subset

\* Coins only join those in the treasury and those with the customer.
LEMMA CoinsJoin ==
  ASSUME CoinsStay, NEW o
  PROVE  /\ CoinsOf(o, "treasury") \subseteq CoinsOf(o, "treasury")'
         /\ CoinsOf(o, "customer") \subseteq CoinsOf(o, "customer")'
BY DEF CoinsStay, CoinsOf, TransfersTo

\* A transaction takes coins of a wallet, at least one, to a new place.
LEMMA MoveAdds ==
  ASSUME NEW S \in SUBSET Txs, S # {}, NEW place \in {"treasury", "customer"}, NEW o,
         \A t \in S : coin[t] = "wallet" /\ OrderOf[t] = o,
         coin' = Moved(S, place)
  PROVE  CoinsOf(o, place) # CoinsOf(o, place)'
<1>1. PICK t \in S : t \in Txs
  OBVIOUS
<1>2. t \in CoinsOf(o, place)' /\ t \notin CoinsOf(o, place)
  BY <1>1 DEF Moved, CoinsOf, TransfersTo
<1> QED
  BY <1>2

\* A step books one deposit and one refund at most, and only with a coin that moves.
LEMMA BookedHasCoin ==
  ASSUME CoinsSuffice, CoinsStay, NEW t, NEW id,
         \A o \in Orders :
           /\ \/ Sweeps(o)' \subseteq Sweeps(o)
              \/ /\ Sweeps(o)' \subseteq Sweeps(o) \cup {t}
                 /\ CoinsOf(o, "treasury") # CoinsOf(o, "treasury")'
           /\ \/ Returns(o)' \subseteq Returns(o) /\ Payments(o)' \subseteq Payments(o)
              \/ /\ Returns(o)' \subseteq Returns(o) \cup {t}
                 /\ Payments(o)' \subseteq Payments(o) \cup {id}
                 /\ CoinsOf(o, "customer") # CoinsOf(o, "customer")'
  PROVE  CoinsSuffice'
<1> SUFFICES ASSUME NEW o \in Orders
             PROVE  /\ Cardinality(Sweeps(o)') <= Cardinality(CoinsOf(o, "treasury")')
                    /\ Cardinality(Returns(o)') <= Cardinality(CoinsOf(o, "customer")')
                    /\ Cardinality(Payments(o)') <= Cardinality(CoinsOf(o, "customer")')
  BY DEF CoinsSuffice
<1>1. /\ Cardinality(Sweeps(o)) <= Cardinality(CoinsOf(o, "treasury"))
      /\ Cardinality(Returns(o)) <= Cardinality(CoinsOf(o, "customer"))
      /\ Cardinality(Payments(o)) <= Cardinality(CoinsOf(o, "customer"))
  BY DEF CoinsSuffice
<1>2. /\ IsFiniteSet(Sweeps(o)) /\ IsFiniteSet(Returns(o)) /\ IsFiniteSet(Payments(o))
      /\ IsFiniteSet(CoinsOf(o, "treasury")') /\ IsFiniteSet(CoinsOf(o, "customer")')
  BY CountedFinite
<1>3. /\ CoinsOf(o, "treasury") \subseteq CoinsOf(o, "treasury")'
      /\ CoinsOf(o, "customer") \subseteq CoinsOf(o, "customer")'
  BY CoinsJoin
<1>4. /\ Sweeps(o)' \subseteq Sweeps(o) \cup {t}
      /\ Sweeps(o)' \subseteq Sweeps(o) \/ CoinsOf(o, "treasury") # CoinsOf(o, "treasury")'
  OBVIOUS
<1>5. Cardinality(Sweeps(o)') <= Cardinality(CoinsOf(o, "treasury")')
  BY <1>1, <1>2, <1>3, <1>4, OneForOne
<1>6. /\ Returns(o)' \subseteq Returns(o) \cup {t}
      /\ Returns(o)' \subseteq Returns(o) \/ CoinsOf(o, "customer") # CoinsOf(o, "customer")'
  OBVIOUS
<1>7. Cardinality(Returns(o)') <= Cardinality(CoinsOf(o, "customer")')
  BY <1>1, <1>2, <1>3, <1>6, OneForOne
<1>8. /\ Payments(o)' \subseteq Payments(o) \cup {id}
      /\ Payments(o)' \subseteq Payments(o) \/ CoinsOf(o, "customer") # CoinsOf(o, "customer")'
  OBVIOUS
<1>9. Cardinality(Payments(o)') <= Cardinality(CoinsOf(o, "customer")')
  BY <1>1, <1>2, <1>3, <1>8, OneForOne
<1> QED
  BY <1>5, <1>7, <1>9

\* Nothing more is booked, or about to be: only coins move.
LEMMA NothingBooked ==
  ASSUME CoinsSuffice, CoinsStay,
         \A o \in Orders : /\ Sweeps(o)' \subseteq Sweeps(o)
                           /\ Returns(o)' \subseteq Returns(o)
                           /\ Payments(o)' \subseteq Payments(o)
  PROVE  CoinsSuffice'
BY BookedHasCoin

LEMMA InitBooks == Init => BooksInv
<1> SUFFICES ASSUME Init PROVE BooksInv
  OBVIOUS
<1>1. RefundInv
  BY InitRefund
<1>2. SweepOK
  BY DEF Init, SweeperIdle, SweepOK
<1>3. ASSUME NEW o \in Orders
      PROVE  Sweeps(o) = {} /\ Returns(o) = {} /\ Payments(o) = {}
  <2>1. \A t \in Txs : deposit[t] \notin {"swept", "refunded"}
    BY DEF Init
  <2>2. sweeper.pc = "idle" /\ \A b \in Backends : refunder[b].pc = "idle"
    BY DEF Init, RefundsInit, RefunderIdle, SweeperIdle
  <2>3. \A id \in RefundIds : refunds[id].status = "none"
    BY DEF Init, RefundsInit
  <2> QED
    BY <2>1, <2>2, <2>3 DEF Sweeps, Returns, Payments, TransfersTo
<1>4. CoinsSuffice
  <2> SUFFICES ASSUME NEW o \in Orders
               PROVE  0 <= Cardinality(CoinsOf(o, "treasury")) /\ 0 <= Cardinality(CoinsOf(o, "customer"))
    BY <1>3, FS_EmptySet DEF CoinsSuffice
  <2> QED
    BY CountedFinite, FS_CardinalityType
<1> QED
  BY <1>1, <1>2, <1>4 DEF BooksInv

LEMMA TreasuryBooks ==
  ASSUME BooksInv, TreasuryNext, UNCHANGED refundVars
  PROVE  BooksInv'
<1>1. RefundInv' /\ TypeOK
  BY TreasuryRefundInv DEF BooksInv, RefundInv
<1>2. linked' = linked /\ linked \in SUBSET Txs
  BY <1>1, TreasuryLinked DEF TypeOK, LedgerTypeOK
<1>3. \/ coin' = coin
      \/ coin' = Moved(sweeper.coins, "treasury") /\ \A t \in sweeper.coins : coin[t] = "wallet"
  BY DEF TreasuryNext, RouterStep, SweepStep, TreasuryFault, RouterReceive, SweeperReceive,
         RouteToChainQueue, RouterAck, LookupOrder, GetUSDCObjectIDs, SponsoredSweep,
         SweepRefused, MarkSwept, SweeperAck, RouteFails, SweepReplyLost, SweepStepFails,
         Disconnect, MessageExpires
<1>4. CoinsStay
  BY <1>1, <1>3 DEF CoinsStay, Moved, TypeOK, LedgerTypeOK
<1>5. ASSUME \A t \in Txs : deposit'[t] = "refunded" => deposit[t] = "refunded", NEW o
      PROVE  Returns(o)' \subseteq Returns(o) /\ Payments(o)' \subseteq Payments(o)
  BY <1>5 DEF Returns, Payments, Row, TransfersTo
<1>6. CASE SponsoredSweep
  <2>1. /\ sweeper.pc = "exec" /\ coin' = Moved(sweeper.coins, "treasury") /\ deposit' = deposit
        /\ sweeper' = [sweeper EXCEPT !.pc = "mark"] /\ \A t \in sweeper.coins : coin[t] = "wallet"
    BY <1>6 DEF SponsoredSweep
  <2>2. /\ sweeper'.pc = "mark" /\ sweeper'.tx = sweeper.tx
        /\ sweeper.coins \in SUBSET Txs /\ sweeper.tx \in Txs
    BY <1>1, <2>1 DEF TypeOK, TreasuryTypeOK, Sweepers, SweeperIdle
  <2>3. SweepOK'
    BY <1>2, <2>1, <2>2 DEF BooksInv, SweepOK
  <2>4. ASSUME NEW o \in Orders
        PROVE  \/ Sweeps(o)' \subseteq Sweeps(o)
               \/ /\ Sweeps(o)' \subseteq Sweeps(o) \cup {sweeper.tx}
                  /\ CoinsOf(o, "treasury") # CoinsOf(o, "treasury")'
    <3>1. CASE o = OrderOf[sweeper.tx]
      <4>1. Sweeps(o)' \subseteq Sweeps(o) \cup {sweeper.tx}
        BY <2>1, <2>2 DEF Sweeps, TransfersTo
      <4>2. sweeper.coins # {} /\ \A t \in sweeper.coins : OrderOf[t] = o
        BY <2>1, <3>1 DEF BooksInv, SweepOK
      <4>3. CoinsOf(o, "treasury") # CoinsOf(o, "treasury")'
        BY <2>1, <2>2, <4>2, MoveAdds
      <4> QED
        BY <4>1, <4>3
    <3>2. CASE o # OrderOf[sweeper.tx]
      BY <2>1, <2>2, <3>2 DEF Sweeps, TransfersTo
    <3> QED
      BY <3>1, <3>2
  <2>5. CoinsSuffice'
    BY <1>4, <1>5, <2>1, <2>4, BookedHasCoin DEF BooksInv
  <2> QED
    BY <1>1, <2>3, <2>5 DEF BooksInv
<1>7. CASE MarkSwept
  <2>1. /\ sweeper.pc = "mark" /\ sweeper.tx \in Txs
        /\ deposit' = [deposit EXCEPT ![sweeper.tx] = "swept"]
    BY <1>2, <1>7 DEF MarkSwept, BooksInv, SweepOK
  <2>2. sweeper'.pc = "ack"
    BY <1>1, <1>7 DEF MarkSwept, TypeOK, TreasuryTypeOK, Sweepers, SweeperIdle
  <2>3. \A t \in Txs : deposit'[t] = IF t = sweeper.tx THEN "swept" ELSE deposit[t]
    BY <1>1, <2>1 DEF TypeOK, LedgerTypeOK
  <2>4. ASSUME NEW o, NEW t \in Sweeps(o)' PROVE t \in Sweeps(o)
    <3>1. t \in TransfersTo(o) /\ t \in Txs /\ deposit'[t] = "swept"
      BY <2>2 DEF Sweeps, TransfersTo
    <3> QED
      BY <2>1, <2>3, <3>1 DEF Sweeps
  <2>5. \A t \in Txs : deposit'[t] = "refunded" => deposit[t] = "refunded"
    BY <2>3
  <2>6. CoinsSuffice'
    BY <1>4, <1>5, <2>4, <2>5, NothingBooked DEF BooksInv
  <2> QED
    BY <1>1, <1>2, <2>2, <2>6 DEF BooksInv, SweepOK
\* No other step books a sweep, or brings one to where it does.
<1>8. ASSUME deposit' = deposit, sweeper'.pc = "mark" => sweeper'.pc = sweeper.pc /\ sweeper'.tx = sweeper.tx
      PROVE  CoinsSuffice'
  <2>1. ASSUME NEW o, NEW t \in Sweeps(o)' PROVE t \in Sweeps(o)
    <3>1. t \in TransfersTo(o) /\ (deposit'[t] = "swept" \/ (sweeper'.pc = "mark" /\ sweeper'.tx = t))
      BY DEF Sweeps, TransfersTo
    <3> QED
      BY <1>8, <3>1 DEF Sweeps
  <2>2. \A t \in Txs : deposit'[t] = "refunded" => deposit[t] = "refunded"
    BY <1>8
  <2> QED
    BY <1>4, <1>5, <2>1, <2>2, NothingBooked DEF BooksInv
<1>9. CASE GetUSDCObjectIDs
  <2>1. CASE sweeper' = SweeperIdle
    <3>1. deposit' = deposit /\ sweeper'.pc = "idle"
      BY <1>9, <2>1 DEF GetUSDCObjectIDs, SweeperIdle
    <3> QED
      BY <1>1, <1>2, <1>8, <3>1 DEF BooksInv, SweepOK
  <2>2. CASE sweeper' # SweeperIdle
    <3> DEFINE found == WalletCoins(OrderOf[sweeper.tx])
    <3>1. /\ sweeper' = [[sweeper EXCEPT !.pc = "exec"] EXCEPT !.coins = found]
          /\ found # {} /\ sweeper.pc = "coins" /\ deposit' = deposit
      BY <1>9, <2>2 DEF GetUSDCObjectIDs, SweepFailed
    <3>2. \A t \in found : OrderOf[t] = OrderOf[sweeper.tx]
      BY DEF WalletCoins
    <3> HIDE DEF found
    <3>3. sweeper'.pc = "exec" /\ sweeper'.coins = found /\ sweeper'.tx = sweeper.tx
      BY <1>1, <3>1 DEF TypeOK, TreasuryTypeOK, Sweepers, SweeperIdle
    <3>4. SweepOK'
      BY <1>2, <3>1, <3>2, <3>3 DEF BooksInv, SweepOK
    <3> QED
      BY <1>1, <1>8, <3>1, <3>3, <3>4 DEF BooksInv
  <2> QED
    BY <2>1, <2>2
<1>10. CASE LookupOrder
  <2>1. /\ deposit' = deposit /\ sweeper.pc = "lookup"
        /\ \/ sweeper' = SweeperIdle
           \/ sweeper.tx \in linked /\ sweeper' = [sweeper EXCEPT !.pc = "coins"]
    BY <1>10 DEF LookupOrder, SweepFailed
  <2>2. sweeper'.pc = "idle" \/ (sweeper'.pc = "coins" /\ sweeper'.tx \in linked)
    BY <1>1, <2>1 DEF SweeperIdle, TypeOK, TreasuryTypeOK, Sweepers
  <2> QED
    BY <1>1, <1>2, <1>8, <2>1, <2>2 DEF BooksInv, SweepOK
\* The sweep goes no further in all the other steps.
<1>11. ASSUME deposit' = deposit,
              \/ sweeper'.pc \in {"idle", "lookup"}
              \/ sweeper'.pc = sweeper.pc /\ sweeper'.tx = sweeper.tx /\ sweeper'.coins = sweeper.coins
       PROVE  BooksInv'
  BY <1>1, <1>2, <1>8, <1>11 DEF BooksInv, SweepOK
<1>12. CASE Disconnect
  <2>1. deposit' = deposit /\ sweeper' = [sweeper EXCEPT !.owned = FALSE]
    BY <1>12 DEF Disconnect
  <2>2. sweeper'.pc = sweeper.pc /\ sweeper'.tx = sweeper.tx /\ sweeper'.coins = sweeper.coins
    BY <1>1, <2>1 DEF TypeOK, TreasuryTypeOK, Sweepers, SweeperIdle
  <2> QED
    BY <1>11, <2>1, <2>2
<1>13. CASE SweepRefused \/ SweepReplyLost \/ SweepStepFails \/ SweeperAck
  <2>1. deposit' = deposit /\ sweeper' = SweeperIdle
    BY <1>13 DEF SweepRefused, SweepReplyLost, SweepStepFails, SweeperAck, SweepFailed
  <2> QED
    BY <1>11, <2>1 DEF SweeperIdle
<1>14. CASE \E t \in Txs : SweeperReceive(t)
  <2>1. deposit' = deposit /\ sweeper'.pc = "lookup"
    BY <1>14 DEF SweeperReceive
  <2> QED
    BY <1>11, <2>1
<1>15. CASE RouterStep \/ RouteFails \/ \E t \in Txs : RouterReceive(t) \/ MessageExpires(t)
  <2>1. deposit' = deposit /\ sweeper' = sweeper
    BY <1>15 DEF RouterStep, RouteToChainQueue, RouterAck, RouteFails, RouterReceive, MessageExpires
  <2> QED
    BY <1>11, <2>1
<1> QED
  BY <1>6, <1>7, <1>9, <1>10, <1>12, <1>13, <1>14, <1>15 DEF TreasuryNext, SweepStep, TreasuryFault

\* A later transfer is not booked yet.
LEMMA LaterBooks ==
  ASSUME BooksInv, NEW t \in Txs, LaterTransfer(t), UNCHANGED <<treasuryVars, refundVars>>
  PROVE  BooksInv'
<1>1. RefundInv' /\ TypeOK
  BY LaterRefundInv DEF BooksInv, RefundInv
<1>2. CoinsStay
  BY <1>1 DEF LaterTransfer, Pay, RecordDeposit, CoinsStay, TypeOK, LedgerTypeOK
<1>3. \A u \in Txs : deposit'[u] = deposit[u] \/ deposit'[u] = "pending_order_validation"
  BY <1>1 DEF LaterTransfer, Pay, RecordDeposit, TypeOK, LedgerTypeOK
<1>4. linked' = linked \/ (linked' = linked \cup {t} /\ OrderOf[t] # NoOrder)
  BY LedgerAssumption DEF LaterTransfer, Pay, RecordDeposit
<1>5. SweepOK'
  BY <1>4 DEF BooksInv, SweepOK
<1>6. \A o : /\ Sweeps(o)' \subseteq Sweeps(o) /\ Returns(o)' \subseteq Returns(o)
             /\ Payments(o)' \subseteq Payments(o)
  BY <1>3 DEF Sweeps, Returns, Payments, Row, TransfersTo
<1> QED
  BY <1>1, <1>2, <1>5, <1>6, NothingBooked DEF BooksInv

LEMMA ValidatorBooks ==
  ASSUME BooksInv, NEW b \in Backends,
         ValidatorStep(b) \/ \E t \in Txs : ProcessDepositFails(b, t),
         UNCHANGED treasuryVars
  PROVE  BooksInv'
<1>1. RefundInv' /\ TypeOK
  BY ValidatorRefundInv DEF BooksInv, RefundInv
<1>2. UNCHANGED <<linked, coin, refunder, sweeper>>
  BY DEF ValidatorStep, SelectReceived, ValidateAmount, QueueRefund, ProcessDepositFails
<1>3. CoinsStay /\ SweepOK'
  BY <1>2 DEF CoinsStay, BooksInv, SweepOK
<1>4. \/ deposit' = deposit
      \/ \E t \in Txs, status \in {"amount_validated", "mismatch_detected"} :
           deposit' = [deposit EXCEPT ![t] = status]
  BY DEF ValidatorStep, SelectReceived, ValidateAmount, QueueRefund, ProcessDepositFails
<1>5. \A t \in Txs : deposit'[t] = deposit[t] \/ deposit'[t] \notin {"swept", "refunded"}
  BY <1>1, <1>4 DEF TypeOK, LedgerTypeOK
<1>6. \A id \in RefundIds : \/ refunds'[id] = refunds[id]
                            \/ refunds[id].status = "none" /\ refunds'[id].status = "pending"
  <2>1. CASE refunds' = refunds
    BY <2>1
  <2>2. CASE \E t \in Txs : QueueRefund(b, t)
    <3>1. PICK t \in Txs, id \in RefundIds :
            /\ refunds[id].status = "none"
            /\ refunds' = [refunds EXCEPT ![id] = [status |-> "pending", tx |-> {t}]]
      BY <2>2, NewRow
    <3> QED
      BY <1>1, <3>1 DEF TypeOK, RefundsTypeOK
  <2> QED
    BY <2>1, <2>2 DEF ValidatorStep, SelectReceived, ValidateAmount, ProcessDepositFails
<1>7. \A c \in Backends : refunder[c].pc # "idle" =>
        /\ refunder[c].id \in RefundIds /\ refunds[refunder[c].id].status # "none"
        /\ Row(c)' = Row(c)
  BY <1>2, <1>6 DEF BooksInv, RefundInv, InHandOK, Row
<1>8. \A o : Sweeps(o)' \subseteq Sweeps(o)
  BY <1>2, <1>5 DEF Sweeps, TransfersTo
<1>9. \A o : Returns(o)' \subseteq Returns(o)
  BY <1>2, <1>5, <1>7 DEF Returns, TransfersTo
<1>10. ASSUME NEW o, NEW id \in Payments(o)' PROVE id \in Payments(o)
  <2>1. /\ id \in RefundIds /\ refunds'[id].tx \cap TransfersTo(o) # {}
        /\ \/ refunds'[id].status = "completed"
           \/ \E c \in Backends : refunder'[c].pc = "complete" /\ refunder'[c].id = id
    BY DEF Payments, TransfersTo
  <2>2. refunds'[id] = refunds[id]
    BY <1>2, <1>6, <1>7, <2>1
  <2> QED
    BY <1>2, <2>1, <2>2 DEF Payments
<1>11. CoinsSuffice'
  BY <1>3, <1>8, <1>9, <1>10, NothingBooked DEF BooksInv
<1> QED
  BY <1>1, <1>3, <1>11 DEF BooksInv

\* The transaction of a refund lands: one more deposit and one more refund will be
\* booked, and at least one more coin is with the customer.
LEMMA RefundPaid ==
  ASSUME BooksInv, NEW b \in Backends, SponsoredRefund(b), UNCHANGED treasuryVars
  PROVE  BooksInv'
<1>1. RefundInv' /\ TypeOK /\ RefundInv
  BY RefunderRefundInv DEF RefunderStep, BooksInv, RefundInv
<1>2. /\ refunder[b].pc = "exec" /\ coin' = Moved(refunder[b].coins, "customer")
      /\ \A t \in refunder[b].coins : coin[t] = "wallet"
      /\ RefunderGoto(b, "complete") /\ UNCHANGED <<deposit, linked, refunds, sweeper>>
  BY DEF SponsoredRefund, Unspent
<1>3. /\ refunder'[b].pc = "complete" /\ refunder'[b].id = refunder[b].id
      /\ \A c \in Backends : c # b => refunder'[c] = refunder[c]
      /\ refunder[b].coins \in SUBSET Txs
  BY <1>1, <1>2, RefunderFields DEF RefunderGoto, TypeOK, RefundsTypeOK
<1>4. \A c \in Backends : Row(c)' = Row(c)
  BY <1>2, <1>3 DEF Row
<1>5. PICK t \in linked : Row(b).tx = {t}
  BY <1>1, <1>2 DEF RefundInv, RowsOK, InHandOK, Row
<1> DEFINE id == refunder[b].id
<1>6. CoinsStay
  BY <1>1, <1>2 DEF CoinsStay, Moved, TypeOK, LedgerTypeOK
<1>7. SweepOK'
  BY <1>2 DEF BooksInv, SweepOK
<1>8. \A o : Sweeps(o)' \subseteq Sweeps(o)
  BY <1>2 DEF Sweeps, TransfersTo
<1>9. ASSUME NEW o, NEW u \in Returns(o)', u \notin Returns(o)
      PROVE  u = t /\ OrderOf[t] = o
  <2>1. /\ u \in TransfersTo(o)
        /\ \/ deposit'[u] = "refunded"
           \/ \E c \in Backends : refunder'[c].pc \in {"complete", "mark"} /\ u \in Row(c)'.tx
    BY DEF Returns, TransfersTo
  <2>2. u \in Row(b).tx
    BY <1>2, <1>3, <1>4, <1>9, <2>1 DEF Returns
  <2> QED
    BY <1>5, <2>1, <2>2 DEF TransfersTo
<1>10. ASSUME NEW o, NEW i \in Payments(o)', i \notin Payments(o)
       PROVE  i = id /\ OrderOf[t] = o
  <2>1. /\ i \in RefundIds /\ refunds[i].tx \cap TransfersTo(o) # {}
        /\ \/ refunds[i].status = "completed"
           \/ \E c \in Backends : refunder'[c].pc = "complete" /\ refunder'[c].id = i
    BY <1>2 DEF Payments, TransfersTo
  <2>2. i = id
    BY <1>3, <1>10, <2>1 DEF Payments
  <2> QED
    BY <1>5, <2>1, <2>2 DEF TransfersTo, Row
<1>11. /\ refunder[b].coins # {}
       /\ \A u \in refunder[b].coins : OrderOf[u] = OrderOf[t]
  BY <1>1, <1>2, <1>5 DEF RefundInv, ExecOK
<1> HIDE DEF id
<1>12. ASSUME NEW o \in Orders
       PROVE  \/ Returns(o)' \subseteq Returns(o) /\ Payments(o)' \subseteq Payments(o)
              \/ /\ Returns(o)' \subseteq Returns(o) \cup {t}
                 /\ Payments(o)' \subseteq Payments(o) \cup {id}
                 /\ CoinsOf(o, "customer") # CoinsOf(o, "customer")'
  <2>1. CASE o = OrderOf[t]
    <3>1. CoinsOf(o, "customer") # CoinsOf(o, "customer")'
      BY <1>2, <1>3, <1>11, <2>1, MoveAdds
    <3> QED
      BY <1>9, <1>10, <3>1
  <2>2. CASE o # OrderOf[t]
    BY <1>9, <1>10, <2>2
  <2> QED
    BY <2>1, <2>2
<1>13. CoinsSuffice'
  BY <1>6, <1>8, <1>12, BookedHasCoin DEF BooksInv
<1> QED
  BY <1>1, <1>7, <1>13 DEF BooksInv

LEMMA RefunderBooks ==
  ASSUME BooksInv, NEW b \in Backends,
         RefunderStep(b) \/ RefundReplyLost(b) \/ RefundStepFails(b) \/ MarkLost(b),
         UNCHANGED treasuryVars
  PROVE  BooksInv'
<1>1. RefundInv' /\ TypeOK /\ RefundInv
  BY RefunderRefundInv DEF BooksInv, RefundInv
<1>2. UNCHANGED <<linked, sweeper>>
  BY DEF RefunderStep, SelectPending, ProcessRefund, FindRefundCoins, SponsoredRefund,
         RefundRefused, RefundReplyLost, RefundStepFails, MarkFailed, MarkCompleted,
         MarkRefunded, MarkLost
<1>3. \/ coin' = coin
      \/ coin' = Moved(refunder[b].coins, "customer") /\ Unspent(b)
  BY DEF RefunderStep, SelectPending, ProcessRefund, FindRefundCoins, SponsoredRefund,
         RefundRefused, RefundReplyLost, RefundStepFails, MarkFailed, MarkCompleted,
         MarkRefunded, MarkLost
<1>4. CoinsStay
  BY <1>1, <1>3 DEF CoinsStay, Moved, Unspent, TypeOK, LedgerTypeOK
<1>5. SweepOK'
  BY <1>2 DEF BooksInv, SweepOK
<1>6. \A c \in Backends : c # b => refunder'[c] = refunder[c]
  BY <1>1 DEF RefunderStep, SelectPending, ProcessRefund, FindRefundCoins, SponsoredRefund,
         RefundRefused, RefundReplyLost, RefundStepFails, MarkFailed, MarkCompleted,
         MarkRefunded, MarkLost, RefunderGoto, NextRefund, TypeOK, RefundsTypeOK
<1>7. \A id \in RefundIds : refunds'[id].tx = refunds[id].tx
  BY <1>1, SetRefundType DEF RefunderStep, SelectPending, ProcessRefund, FindRefundCoins,
         SponsoredRefund, RefundRefused, RefundReplyLost, RefundStepFails, MarkFailed,
         MarkCompleted, MarkRefunded, MarkLost
<1>8. \A c \in Backends : c # b /\ refunder[c].pc # "idle" => Row(c)'.tx = Row(c).tx
  BY <1>1, <1>6, <1>7 DEF RefundInv, InHandOK, Row
<1>9. refunder[b].pc # "idle" => refunder[b].id \in RefundIds
  BY <1>1 DEF RefundInv, InHandOK
<1>10. \A pc \in {"coins", "exec", "fail", "complete", "mark"} :
        RefunderGoto(b, pc) => /\ refunder'[b].pc = pc /\ refunder'[b].id = refunder[b].id
  BY <1>1, RefunderFields DEF RefunderGoto, TypeOK, RefundsTypeOK
<1>11. NextRefund(b) => refunder'[b].pc = "idle"
  BY <1>1, NextRefundType DEF RefunderIdle, TypeOK, RefundsTypeOK
\* It books what it had paid, or nothing.
<1>12. ASSUME refunder'[b].pc = "complete" => FALSE,
              refunder'[b].pc = "mark" =>
                refunder[b].pc = "complete" /\ refunder'[b].id = refunder[b].id,
              \A t \in Txs : \/ deposit'[t] = deposit[t]
                             \/ /\ deposit'[t] = "refunded"
                                /\ refunder[b].pc \in {"complete", "mark"} /\ t \in Row(b).tx,
              \A id \in RefundIds : refunds'[id].status = "completed" =>
                \/ refunds[id].status = "completed"
                \/ refunder[b].pc = "complete" /\ id = refunder[b].id
       PROVE  BooksInv'
  <2>1. ASSUME NEW o PROVE Sweeps(o)' \subseteq Sweeps(o)
    BY <1>2, <1>12 DEF Sweeps, TransfersTo
  <2>2. ASSUME NEW o, NEW t \in Returns(o)' PROVE t \in Returns(o)
    <3>1. /\ t \in TransfersTo(o) /\ t \in Txs
          /\ \/ deposit'[t] = "refunded"
             \/ \E c \in Backends : refunder'[c].pc \in {"complete", "mark"} /\ t \in Row(c)'.tx
      BY DEF Returns, TransfersTo
    <3>2. CASE deposit'[t] = "refunded"
      BY <1>12, <3>1, <3>2 DEF Returns
    <3>3. ASSUME NEW c \in Backends, refunder'[c].pc \in {"complete", "mark"}, t \in Row(c)'.tx
          PROVE  t \in Returns(o)
      <4>1. refunder[c].pc \in {"complete", "mark"} /\ Row(c)'.tx = Row(c).tx
        <5>1. CASE c = b
          BY <1>7, <1>9, <1>12, <3>3, <5>1 DEF Row
        <5>2. CASE c # b
          BY <1>6, <1>8, <3>3, <5>2
        <5> QED
          BY <5>1, <5>2
      <4> QED
        BY <3>1, <3>3, <4>1 DEF Returns
    <3> QED
      BY <3>1, <3>2, <3>3
  <2>3. ASSUME NEW o, NEW id \in Payments(o)' PROVE id \in Payments(o)
    <3>1. /\ id \in RefundIds /\ refunds'[id].tx \cap TransfersTo(o) # {}
          /\ \/ refunds'[id].status = "completed"
             \/ \E c \in Backends : refunder'[c].pc = "complete" /\ refunder'[c].id = id
      BY DEF Payments, TransfersTo
    <3>2. \/ refunds[id].status = "completed"
          \/ \E c \in Backends : refunder[c].pc = "complete" /\ refunder[c].id = id
      BY <1>6, <1>12, <3>1
    <3> QED
      BY <1>7, <3>1, <3>2 DEF Payments
  <2>4. CoinsSuffice'
    BY <1>4, <2>1, <2>2, <2>3, NothingBooked DEF BooksInv
  <2> QED
    BY <1>1, <1>5, <2>4 DEF BooksInv
<1>13. CASE SponsoredRefund(b)
  BY <1>13, RefundPaid
<1>14. CASE MarkCompleted(b)
  <2>1. /\ refunder[b].pc = "complete" /\ deposit' = deposit
        /\ RefunderGoto(b, "mark") /\ SetRefund(b, "completed")
    BY <1>14 DEF MarkCompleted
  <2>2. \A id \in RefundIds : refunds'[id].status = "completed" =>
          refunds[id].status = "completed" \/ id = refunder[b].id
    BY <1>1, <2>1, SetRefundType
  <2> QED
    BY <1>10, <1>12, <2>1, <2>2
<1>15. CASE MarkRefunded(b)
  <2>1. /\ refunder[b].pc = "mark" /\ refunder'[b].pc = "idle" /\ refunds' = refunds
        /\ deposit' = [t \in Txs |-> IF t \in Row(b).tx THEN "refunded" ELSE deposit[t]]
    BY <1>11, <1>15 DEF MarkRefunded, Row
  <2> QED
    BY <1>12, <2>1
<1>16. CASE MarkLost(b)
  <2>1. /\ refunds' = refunds /\ deposit' = deposit
        /\ (refunder[b].pc = "complete" /\ RefunderGoto(b, "mark")) \/ NextRefund(b)
    BY <1>16 DEF MarkLost
  <2> QED
    BY <1>10, <1>11, <1>12, <2>1
<1>17. CASE MarkFailed(b)
  <2>1. refunder'[b].pc = "idle" /\ deposit' = deposit /\ SetRefund(b, "failed")
    BY <1>11, <1>17 DEF MarkFailed
  <2>2. \A id \in RefundIds : refunds'[id].status = "completed" => refunds[id].status = "completed"
    BY <1>1, <2>1, SetRefundType
  <2> QED
    BY <1>12, <2>1, <2>2
<1>18. CASE RefundRefused(b) \/ RefundReplyLost(b) \/ RefundStepFails(b)
  <2>1. refunds' = refunds /\ deposit' = deposit /\ RefunderGoto(b, "fail")
    BY <1>18 DEF RefundRefused, RefundReplyLost, RefundStepFails
  <2> QED
    BY <1>10, <1>12, <2>1
<1>19. CASE SelectPending(b) \/ FindRefundCoins(b) \/ \E id \in RefundIds : ProcessRefund(b, id)
  <2>1. refunds' = refunds /\ deposit' = deposit
    BY <1>19 DEF SelectPending, FindRefundCoins, ProcessRefund
  <2>2. refunder[b] \in Refunders /\ refunder \in [Backends -> Refunders]
    BY <1>1 DEF TypeOK, RefundsTypeOK
  <2>3. refunder'[b].pc \in {"idle", "coins", "exec", "fail"}
    <3>1. CASE SelectPending(b)
      BY <2>2, <3>1 DEF SelectPending, RefunderIdle, Refunders
    <3>2. CASE \E id \in RefundIds : ProcessRefund(b, id)
      BY <2>2, <3>2 DEF ProcessRefund, Refunders
    <3>3. CASE FindRefundCoins(b)
      BY <1>10, <2>2, <3>3 DEF FindRefundCoins, Refunders
    <3> QED
      BY <1>19, <3>1, <3>2, <3>3
  <2> QED
    BY <1>12, <2>1, <2>3
<1> QED
  BY <1>13, <1>14, <1>15, <1>16, <1>17, <1>18, <1>19 DEF RefunderStep

LEMMA RestartBooks ==
  ASSUME BooksInv, NEW b \in Backends, ProcessRestart(b)
  PROVE  BooksInv'
<1>1. RefundInv' /\ TypeOK
  BY RestartRefundInv DEF BooksInv, RefundInv
<1>2. /\ UNCHANGED <<coin, deposit, linked, refunds>>
      /\ refunder' = [refunder EXCEPT ![b] = RefunderIdle({})]
      /\ sweeper' = sweeper \/ sweeper' = SweeperIdle
  BY DEF ProcessRestart, PollersRestart, WorkersRestart
<1>3. /\ CoinsStay /\ refunder'[b].pc = "idle"
      /\ \A c \in Backends : c # b => refunder'[c] = refunder[c] /\ Row(c)' = Row(c)
      /\ sweeper' = sweeper \/ sweeper'.pc = "idle"
  BY <1>1, <1>2 DEF CoinsStay, RefunderIdle, SweeperIdle, Row, TypeOK, RefundsTypeOK
<1>4. SweepOK'
  BY <1>2, <1>3 DEF BooksInv, SweepOK
<1>5. \A o : Sweeps(o)' \subseteq Sweeps(o)
  BY <1>2, <1>3 DEF Sweeps, TransfersTo
<1>6. \A o : Returns(o)' \subseteq Returns(o)
  BY <1>2, <1>3 DEF Returns, TransfersTo
<1>7. \A o : Payments(o)' \subseteq Payments(o)
  BY <1>2, <1>3 DEF Payments, TransfersTo
<1> QED
  BY <1>1, <1>3, <1>4, <1>5, <1>6, <1>7, NothingBooked DEF BooksInv

LEMMA StepBooks == BooksInv /\ [Next]_vars => BooksInv'
<1> SUFFICES ASSUME BooksInv, [Next]_vars PROVE BooksInv'
  OBVIOUS
<1>1. CASE UNCHANGED vars
  <2>1. RefundInv'
    BY <1>1, StepRefund DEF BooksInv
  <2>2. SweepOK' /\ CoinsStay
    BY <1>1 DEF vars, BooksInv, SweepOK, CoinsStay
  <2>3. \A o : /\ Sweeps(o)' \subseteq Sweeps(o) /\ Returns(o)' \subseteq Returns(o)
               /\ Payments(o)' \subseteq Payments(o)
    BY <1>1 DEF vars, Sweeps, Returns, Payments, Row, TransfersTo
  <2> QED
    BY <2>1, <2>2, <2>3, NothingBooked DEF BooksInv
<1>2. CASE RefundsNext /\ UNCHANGED treasuryVars
  BY <1>2, ValidatorBooks, RefunderBooks DEF RefundsNext, RefundFault
<1> QED
  BY <1>1, <1>2, TreasuryBooks, RestartBooks, LaterBooks DEF Next

LEMMA BooksInvariance == Spec => []BooksInv
  BY InitBooks, StepBooks, PTL DEF Spec

\* Validators that queue a refund for the same deposit, and refund workers that pick
\* the same row, do not complete it on one coin: every refund of an order's deposits
\* that completes has a coin of the order with the customer, whatever else is paid
\* to the wallet meanwhile.
THEOREM RefundedAtMostOnce == Spec => []RefundedOnce
<1>1. BooksInv => RefundedOnce
  <2> SUFFICES ASSUME BooksInv, NEW o \in Orders
               PROVE  Cardinality(RefundsOf(o, "completed")) <= Cardinality(CoinsOf(o, "customer"))
    BY DEF RefundedOnce
  <2>1. RefundsOf(o, "completed") \subseteq Payments(o)
    BY DEF RefundsOf, Payments
  <2>2. Cardinality(Payments(o)) <= Cardinality(CoinsOf(o, "customer"))
    BY DEF BooksInv, CoinsSuffice
  <2> QED
    BY <2>1, <2>2, CountedFinite, OneForOne
<1> QED
  BY BooksInvariance, <1>1, PTL

\* The sweep and the refund race for the same wallet, customers pay to it when they
\* like, and both book what they did by the id of the deposit, in later statements
\* that may be lost; still no more deposits of an order are 'swept', or 'refunded',
\* than coins of it are in the treasury, or with the customer.
THEOREM BooksAgree == Spec => []BooksMatchChain
<1>1. BooksInv => BooksMatchChain
  <2> SUFFICES ASSUME BooksInv, NEW o \in Orders
               PROVE  /\ Cardinality(DepositsOf(o, "swept")) <= Cardinality(CoinsOf(o, "treasury"))
                      /\ Cardinality(DepositsOf(o, "refunded")) <= Cardinality(CoinsOf(o, "customer"))
    BY DEF BooksMatchChain
  <2>1. DepositsOf(o, "swept") \subseteq Sweeps(o) /\ DepositsOf(o, "refunded") \subseteq Returns(o)
    BY DEF DepositsOf, Sweeps, Returns
  <2>2. /\ Cardinality(Sweeps(o)) <= Cardinality(CoinsOf(o, "treasury"))
        /\ Cardinality(Returns(o)) <= Cardinality(CoinsOf(o, "customer"))
    BY DEF BooksInv, CoinsSuffice
  <2> QED
    BY <2>1, <2>2, CountedFinite, OneForOne
<1> QED
  BY BooksInvariance, <1>1, PTL
=============================================================================
