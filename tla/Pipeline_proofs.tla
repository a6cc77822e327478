-------------------------- MODULE Pipeline_proofs ---------------------------
(***************************************************************************)
(* Theorems about Pipeline, for every set of transfers, orders, requests   *)
(* and every bound.                                                        *)
(***************************************************************************)
EXTENDS Pipeline, TLAPS

USE DEF ledgerVars, intakeVars, treasuryVars

-----------------------------------------------------------------------------
(* Type correctness *)

LEMMA InitType == Init => TypeOK
  BY LedgerAssumption, IntakeAssumption
  DEF Init, LedgerInit, IntakeInit, TreasuryInit, TypeOK, LedgerTypeOK,
      IntakeTypeOK, TreasuryTypeOK, Places, DepositStatus, ConnStates,
      EventStates, Dispatchers, Requests, Routers, Sweepers, DispIdle, ReqIdle,
      RouterIdle, SweeperIdle

LEMMA NextAttemptType ==
  ASSUME TypeOK, disp.pc # "idle"
  PROVE  NextAttempt \in Dispatchers
<1>1. disp \in [pc : {"post", "wait"}, tx : Txs, n : 1..MaxAttempts,
               slot : Reqs \cup {NoReq}]
  BY DEF TypeOK, IntakeTypeOK, Dispatchers, DispIdle
<1>2. CASE disp.n < MaxAttempts
  <2>1. disp.n + 1 \in 1..MaxAttempts
    BY <1>1, <1>2, IntakeAssumption
  <2> QED
    BY <1>1, <1>2, <2>1 DEF Dispatchers, NextAttempt
<1>3. CASE ~(disp.n < MaxAttempts)
  BY <1>3 DEF Dispatchers, NextAttempt
<1> QED
  BY <1>2, <1>3

\* After a failed attempt the dispatcher waits for no request and has not
\* changed to another event.
LEMMA NextAttemptShape ==
  ASSUME TypeOK, disp.pc # "idle"
  PROVE  /\ NextAttempt.pc # "wait"
         /\ NextAttempt.pc # "idle" => NextAttempt.tx = disp.tx
<1>1. disp \in [pc : {"post", "wait"}, tx : Txs, n : 1..MaxAttempts,
               slot : Reqs \cup {NoReq}]
  BY DEF TypeOK, IntakeTypeOK, Dispatchers, DispIdle
<1> QED
  BY <1>1 DEF NextAttempt, DispIdle

LEMMA InsertRowType ==
  ASSUME TypeOK, NEW r \in Reqs, req[r].pc = "insert", InsertRow(req[r].tx)
  PROVE  deposit' \in [Txs -> DepositStatus] /\ linked' \in SUBSET Txs
<1>1. deposit' \in [Txs -> DepositStatus]
  BY DEF TypeOK, LedgerTypeOK, InsertRow, DepositStatus
<1>2. req[r].tx \in Txs
  BY DEF TypeOK, IntakeTypeOK, Requests, ReqIdle
<1>3. linked' \in SUBSET Txs
  BY <1>2 DEF TypeOK, LedgerTypeOK, InsertRow
<1> QED
  BY <1>1, <1>3

LEMMA DispatcherType ==
  TypeOK /\ DispatcherStep /\ UNCHANGED treasuryVars => TypeOK'
<1> SUFFICES ASSUME TypeOK, DispatcherStep, UNCHANGED treasuryVars
             PROVE  TypeOK'
  OBVIOUS
<1> USE IntakeAssumption
     DEF TypeOK, LedgerTypeOK, IntakeTypeOK, TreasuryTypeOK, EventStates,
         Dispatchers, Requests, DispIdle, ReqIdle, Acked
<1>1. CASE \E t \in Txs : SkipMessage(t)
  BY <1>1 DEF SkipMessage
<1>2. CASE \E t \in Txs : ProcessMessage(t)
  BY <1>2 DEF ProcessMessage
<1>3. CASE \E r \in Reqs : PostWebhook(r)
  <2> PICK r \in Reqs : PostWebhook(r)
    BY <1>3
  <2>1. disp \in [pc : {"post", "wait"}, tx : Txs, n : 1..MaxAttempts,
                 slot : Reqs \cup {NoReq}]
    BY DEF PostWebhook
  <2>2. req' \in [Reqs -> Requests]
    BY <2>1 DEF PostWebhook
  <2>3. disp' \in Dispatchers
    BY <2>1 DEF PostWebhook
  <2> QED
    BY <2>2, <2>3 DEF PostWebhook
<1>4. CASE \E r \in Reqs : WebhookAccepted(r)
  <2> PICK r \in Reqs : WebhookAccepted(r)
    BY <1>4
  <2>1. req' \in [Reqs -> Requests]
    BY DEF WebhookAccepted
  <2>2. stream' \in [Txs -> EventStates]
    BY DEF WebhookAccepted
  <2>3. disp' \in Dispatchers
    BY DEF WebhookAccepted
  <2> QED
    BY <2>1, <2>2, <2>3 DEF WebhookAccepted
<1>5. CASE \E r \in Reqs : WebhookRefused(r)
  <2> PICK r \in Reqs : WebhookRefused(r)
    BY <1>5
  <2>1. req' \in [Reqs -> Requests]
    BY DEF WebhookRefused
  <2>2. disp' \in Dispatchers
    BY NextAttemptType DEF WebhookRefused
  <2> QED
    BY <2>1, <2>2 DEF WebhookRefused
<1> QED
  BY <1>1, <1>2, <1>3, <1>4, <1>5 DEF DispatcherStep

LEMMA ReceiveType ==
  ASSUME TypeOK, NEW r \in Reqs, ReceiveStep(r), UNCHANGED treasuryVars
  PROVE  TypeOK'
<1> USE DEF TypeOK, LedgerTypeOK, IntakeTypeOK, TreasuryTypeOK, Requests, Goto,
            Serving, ReqIdle
<1>1. CASE DepositExists(r)
  BY <1>1 DEF DepositExists
<1>2. CASE InsertDeposit(r)
  <2>1. deposit' \in [Txs -> DepositStatus] /\ linked' \in SUBSET Txs
    BY <1>2, InsertRowType DEF InsertDeposit
  <2>2. req' \in [Reqs -> Requests]
    BY <1>2 DEF InsertDeposit
  <2> QED
    BY <1>2, <2>1, <2>2 DEF InsertDeposit
<1>3. CASE InsertConflict(r)
  BY <1>3 DEF InsertConflict
<1>4. CASE PublishB2BOrder(r)
  BY <1>4 DEF PublishB2BOrder, Put
<1>5. CASE RequestEnds(r)
  BY <1>5 DEF RequestEnds
<1> QED
  BY <1>1, <1>2, <1>3, <1>4, <1>5 DEF ReceiveStep

LEMMA IntakeFaultType ==
  TypeOK /\ IntakeFault /\ UNCHANGED treasuryVars => TypeOK'
<1> SUFFICES ASSUME TypeOK, IntakeFault, UNCHANGED treasuryVars
             PROVE  TypeOK'
  OBVIOUS
<1> USE LedgerAssumption, IntakeAssumption
     DEF TypeOK, LedgerTypeOK, IntakeTypeOK, TreasuryTypeOK, Dispatchers,
         Requests, Goto, Serving, ReqIdle, DispIdle, Fault, QueryFails
<1>1. CASE DispatcherRestart
  BY <1>1 DEF DispatcherRestart
<1>2. CASE \E r \in Reqs : ClientTimeout(r)
  BY <1>2, NextAttemptType DEF ClientTimeout
<1>3. CASE \E r \in Reqs : DbError(r)
  BY <1>3 DEF DbError
<1>4. CASE \E r \in Reqs : InsertReplyLost(r)
  <2> PICK r \in Reqs : InsertReplyLost(r)
    BY <1>4
  <2>1. deposit' \in [Txs -> DepositStatus] /\ linked' \in SUBSET Txs
    BY InsertRowType DEF InsertReplyLost
  <2>2. req' \in [Reqs -> Requests]
    BY DEF InsertReplyLost
  <2>3. faults' \in 0..MaxFaults
    BY DEF InsertReplyLost
  <2> QED
    BY <2>1, <2>2, <2>3 DEF InsertReplyLost
<1>5. CASE \E r \in Reqs : PublishFails(r)
  BY <1>5 DEF PublishFails
<1> QED
  BY <1>1, <1>2, <1>3, <1>4, <1>5 DEF IntakeFault

LEMMA IntakeType ==
  TypeOK /\ IntakeNext /\ UNCHANGED treasuryVars => TypeOK'
<1> SUFFICES ASSUME TypeOK, IntakeNext, UNCHANGED treasuryVars
             PROVE  TypeOK'
  OBVIOUS
<1>1. CASE \E t \in Txs : EmitTransaction(t)
  BY <1>1 DEF EmitTransaction, QueuedEvents, TypeOK, LedgerTypeOK,
              IntakeTypeOK, TreasuryTypeOK, EventStates
<1>2. CASE \E o \in Orders : ExpireOrder(o)
  BY <1>2 DEF ExpireOrder, TypeOK, LedgerTypeOK, IntakeTypeOK, TreasuryTypeOK
<1> QED
  BY <1>1, <1>2, DispatcherType, ReceiveType, IntakeFaultType DEF IntakeNext
\* Adding a copy keeps a queue a queue, whatever message it is.
LEMMA PutType ==
  ASSUME NEW q \in [Txs -> Nat], NEW t
  PROVE  Put(q, t) \in [Txs -> Nat]
<1>1. CASE t \in Txs
  BY <1>1 DEF Put
<1>2. CASE t \notin Txs
  BY <1>2 DEF Put
<1> QED
  BY <1>1, <1>2

LEMMA RouterType ==
  TypeOK /\ RouterStep /\ UNCHANGED intakeVars => TypeOK'
<1> USE DEF TypeOK, LedgerTypeOK, IntakeTypeOK, TreasuryTypeOK, Routers,
            RouterIdle
<1>1. TypeOK /\ RouteToChainQueue /\ UNCHANGED intakeVars => TypeOK'
  BY DEF RouteToChainQueue, Put
<1>2. TypeOK /\ RouterAck /\ UNCHANGED intakeVars => TypeOK'
  BY DEF RouterAck
<1> QED
  BY <1>1, <1>2 DEF RouterStep

\* What a failed sweep does to the three variables it changes.
LEMMA SweepFailedType ==
  ASSUME TypeOK, sweeper.pc # "idle", SweepFailed
  PROVE  /\ sweeper' \in Sweepers
         /\ treasuryQ' \in [Txs -> Nat]
         /\ dead' \in SUBSET Txs
<1>1. sweeper.tx \in Txs
  BY DEF TypeOK, TreasuryTypeOK, Sweepers, SweeperIdle
<1>2. treasuryQ' \in [Txs -> Nat]
  BY <1>1 DEF SweepFailed, Put, TypeOK, TreasuryTypeOK
<1>3. dead' \in SUBSET Txs
  BY <1>1 DEF SweepFailed, TypeOK, TreasuryTypeOK
<1> QED
  BY <1>2, <1>3 DEF SweepFailed, Sweepers

LEMMA MovedType ==
  ASSUME TypeOK, NEW S, NEW place \in Places
  PROVE  Moved(S, place) \in [Txs -> Places]
  BY DEF TypeOK, LedgerTypeOK, Moved

LEMMA SweepType ==
  TypeOK /\ SweepStep /\ UNCHANGED intakeVars => TypeOK'
<1> SUFFICES ASSUME TypeOK, SweepStep, UNCHANGED intakeVars
             PROVE  TypeOK'
  OBVIOUS
<1>1. sweeper \in [pc : {"lookup", "coins", "exec", "mark", "ack"}, tx : Txs,
                  coins : SUBSET Txs, owned : BOOLEAN]
  BY DEF SweepStep, LookupOrder, GetUSDCObjectIDs, SponsoredSweep, SweepRefused,
         MarkSwept, SweeperAck, TypeOK, TreasuryTypeOK, Sweepers, SweeperIdle
<1> USE <1>1, SweepFailedType
     DEF TypeOK, LedgerTypeOK, IntakeTypeOK, TreasuryTypeOK, Sweepers
<1>2. CASE LookupOrder
  BY <1>2 DEF LookupOrder
<1>3. CASE GetUSDCObjectIDs
  BY <1>3 DEF GetUSDCObjectIDs, WalletCoins
<1>4. CASE SponsoredSweep
  BY <1>4, MovedType DEF SponsoredSweep, Places
<1>5. CASE SweepRefused
  BY <1>5 DEF SweepRefused
<1>6. CASE MarkSwept
  BY <1>6 DEF MarkSwept, DepositStatus
<1>7. CASE SweeperAck
  BY <1>7 DEF SweeperAck
<1> QED
  BY <1>2, <1>3, <1>4, <1>5, <1>6, <1>7 DEF SweepStep

LEMMA RequeuedType ==
  ASSUME TypeOK
  PROVE  RouterRequeued \in [Txs -> Nat] /\ SweeperRequeued \in [Txs -> Nat]
<1>1. mainQ \in [Txs -> Nat] /\ treasuryQ \in [Txs -> Nat]
  BY DEF TypeOK, LedgerTypeOK, TreasuryTypeOK
<1> QED
  BY <1>1, PutType DEF RouterRequeued, SweeperRequeued

LEMMA TreasuryFaultType ==
  TypeOK /\ TreasuryFault /\ UNCHANGED intakeVars => TypeOK'
<1> SUFFICES ASSUME TypeOK, TreasuryFault, UNCHANGED intakeVars
             PROVE  TypeOK'
  OBVIOUS
<1> USE LedgerAssumption
     DEF TypeOK, LedgerTypeOK, IntakeTypeOK, TreasuryTypeOK, Fault
<1>1. CASE RouteFails
  BY <1>1, PutType DEF RouteFails, Routers
<1>2. CASE SweepReplyLost
  BY <1>2, SweepFailedType, MovedType DEF SweepReplyLost, Places
<1>3. CASE SweepStepFails
  BY <1>3, SweepFailedType DEF SweepStepFails
<1>4. CASE Disconnect
  <2>1. sweeper' \in Sweepers
    <3>1. CASE sweeper = SweeperIdle
      BY <1>4, <3>1 DEF Disconnect, Sweepers, SweeperIdle
    <3>2. CASE sweeper # SweeperIdle
      BY <1>4, <3>2 DEF Disconnect, Sweepers
    <3> QED
      BY <3>1, <3>2
  <2> QED
    BY <1>4, <2>1, RequeuedType DEF Disconnect, Routers, ConnStates
<1>5. CASE \E t \in Txs : MessageExpires(t)
  BY <1>5 DEF MessageExpires, Take
<1> QED
  BY <1>1, <1>2, <1>3, <1>4, <1>5 DEF TreasuryFault

LEMMA TreasuryType ==
  TypeOK /\ TreasuryNext /\ UNCHANGED intakeVars => TypeOK'
<1> SUFFICES ASSUME TypeOK, TreasuryNext, UNCHANGED intakeVars
             PROVE  TypeOK'
  OBVIOUS
<1> USE DEF TypeOK, LedgerTypeOK, IntakeTypeOK, TreasuryTypeOK
<1>1. CASE \E t \in Txs : RouterReceive(t)
  BY <1>1 DEF RouterReceive, Take, Routers
<1>2. CASE \E t \in Txs : SweeperReceive(t)
  BY <1>2 DEF SweeperReceive, Take, Sweepers
<1> QED
  BY <1>1, <1>2, RouterType, SweepType, TreasuryFaultType DEF TreasuryNext

LEMMA RestartType == TypeOK /\ BackendRestart => TypeOK'
<1> SUFFICES ASSUME TypeOK, BackendRestart
             PROVE  TypeOK'
  OBVIOUS
<1>1. disp' \in Dispatchers
  BY NextAttemptType DEF BackendRestart, TypeOK, IntakeTypeOK
<1> QED
  BY <1>1, RequeuedType, LedgerAssumption
  DEF BackendRestart, WorkersRestart, Fault, TypeOK, LedgerTypeOK, IntakeTypeOK,
      TreasuryTypeOK, Requests, Routers, Sweepers, ConnStates

LEMMA PayType ==
  ASSUME TypeOK, NEW t \in Txs, Pay(t), UNCHANGED <<intakeVars, treasuryVars>>
  PROVE  TypeOK'
  BY DEF Pay, TypeOK, LedgerTypeOK, IntakeTypeOK, TreasuryTypeOK, Places

LEMMA StutterType == TypeOK /\ UNCHANGED vars => TypeOK'
  BY DEF vars, TypeOK, LedgerTypeOK, IntakeTypeOK, TreasuryTypeOK

\* Every variable keeps its type; in particular no queue holds a negative number
\* of copies, and a dispatcher, request or worker that is busy has a transfer.
THEOREM TypeCorrect == Spec => []TypeOK
<1>1. TypeOK /\ [Next]_vars => TypeOK'
  BY PayType, IntakeType, TreasuryType, RestartType, StutterType DEF Next
<1> QED
  BY InitType, <1>1, PTL DEF Spec
-----------------------------------------------------------------------------
(* The inductive invariant *)

LEMMA InitInv == Init => IInv
<1> SUFFICES ASSUME Init
             PROVE  IInv
  OBVIOUS
<1> USE DEF Init, LedgerInit, IntakeInit, TreasuryInit
<1>1. PaidInv /\ SweptIsInTreasury
  BY DEF PaidInv, SweptIsInTreasury, Stored
<1>2. DispInv /\ ReqInv
  BY DEF DispInv, ReqInv, DispIdle, ReqIdle
<1>3. AckedIsStored
  BY LedgerAssumption DEF AckedIsStored
<1>4. CarryInv /\ SweepInv
  BY DEF CarryInv, SweepInv, RouterIdle, SweeperIdle
<1> QED
  BY <1>1, <1>2, <1>3, <1>4 DEF IInv

\* A transfer that is busy somewhere is a transfer.
LEMMA BusyIsTransfer ==
  ASSUME TypeOK
  PROVE  /\ disp.pc # "idle" => disp.tx \in Txs
         /\ \A r \in Reqs : req[r].pc # "idle" => req[r].tx \in Txs
         /\ router.pc # "idle" => router.tx \in Txs
         /\ sweeper.pc # "idle" => sweeper.tx \in Txs /\ sweeper.coins \in SUBSET Txs
         /\ sweeper.owned => sweeper.pc # "idle"
  BY DEF TypeOK, IntakeTypeOK, TreasuryTypeOK, Dispatchers, DispIdle, Requests,
         ReqIdle, Routers, RouterIdle, Sweepers, SweeperIdle

\* The conjuncts that the intake does not touch.
LEMMA IntakeFrame ==
  ASSUME TypeOK, IInv, UNCHANGED treasuryVars, UNCHANGED coin,
         \A t \in Txs : Stored(t) => Stored(t)',
         \A t \in Txs : mainQ'[t] > 0 => mainQ[t] > 0 \/ Stored(t)
  PROVE  CarryInv' /\ SweepInv'
<1>1. CarryInv'
  BY BusyIsTransfer DEF IInv, CarryInv
<1>2. SweepInv'
  BY DEF IInv, SweepInv
<1> QED
  BY <1>1, <1>2

LEMMA DispatcherInv ==
  TypeOK /\ IInv /\ DispatcherStep /\ UNCHANGED treasuryVars => IInv'
<1> SUFFICES ASSUME TypeOK, IInv, DispatcherStep, UNCHANGED treasuryVars
             PROVE  IInv'
  OBVIOUS
<1>1. UNCHANGED ledgerVars
  BY DEF DispatcherStep, SkipMessage, ProcessMessage, PostWebhook,
         WebhookAccepted, WebhookRefused
<1>2. CarryInv' /\ SweepInv' /\ SweptIsInTreasury'
  BY <1>1, IntakeFrame DEF IInv, SweptIsInTreasury, Stored
<1>3. \A t \in Txs : Stored(t)' <=> Stored(t)
  BY <1>1 DEF Stored
<1> USE <1>1, <1>2, BusyIsTransfer
    DEF TypeOK, LedgerTypeOK, IntakeTypeOK, IInv, PaidInv, DispInv, ReqInv,
        AckedIsStored, Stored, Known, Acked, DispIdle, ReqIdle
<1>4. CASE \E t \in Txs : SkipMessage(t)
  BY <1>4 DEF SkipMessage
<1>5. CASE \E t \in Txs : ProcessMessage(t)
  BY <1>5 DEF ProcessMessage
<1>6. CASE \E r \in Reqs : PostWebhook(r)
  BY <1>6 DEF PostWebhook
<1>7. CASE \E r \in Reqs : WebhookAccepted(r)
  BY <1>7 DEF WebhookAccepted
<1>8. CASE \E r \in Reqs : WebhookRefused(r)
  BY <1>8 DEF WebhookRefused, NextAttempt
<1> QED
  BY <1>4, <1>5, <1>6, <1>7, <1>8 DEF DispatcherStep

\* A row is added for the transfer of a request about to insert it.
LEMMA InsertRowInv ==
  ASSUME TypeOK, IInv, NEW r \in Reqs, req[r].pc = "insert",
         InsertRow(req[r].tx), UNCHANGED <<coin, mainQ, stream, disp, treasuryVars>>
  PROVE  /\ PaidInv' /\ CarryInv' /\ SweepInv' /\ SweptIsInTreasury'
         /\ AckedIsStored'
         /\ deposit'[req[r].tx] # "none"
         /\ \A t \in Txs : (Stored(t) => Stored(t)') /\ (Known(t) => Known(t)')
<1>1. req[r].tx \in Txs
  BY BusyIsTransfer
<1>2. deposit' = [deposit EXCEPT ![req[r].tx] = "pending_order_validation"]
  BY DEF InsertRow
<1>3. deposit \in [Txs -> DepositStatus]
  BY DEF TypeOK, LedgerTypeOK
<1>4. \A t \in Txs : Stored(t) => Stored(t)'
  BY <1>1, <1>2, <1>3 DEF Stored
<1>5. \A t \in Txs : Known(t) => Known(t)'
  BY <1>4 DEF Known
<1>6. deposit'[req[r].tx] # "none"
  BY <1>1, <1>2, <1>3 DEF Stored
<1>7. CarryInv' /\ SweepInv'
  BY <1>4, IntakeFrame
<1>8. PaidInv'
  BY <1>1, <1>2, <1>3 DEF IInv, PaidInv, ReqInv, Stored
<1>9. SweptIsInTreasury'
  BY <1>1, <1>2, <1>3 DEF IInv, SweptIsInTreasury
<1>10. AckedIsStored'
  BY <1>5, LedgerAssumption DEF IInv, AckedIsStored
<1> QED
  BY <1>4, <1>5, <1>6, <1>7, <1>8, <1>9, <1>10

\* A request moves on and no row, event or message changes.
LEMMA GotoInv ==
  ASSUME TypeOK, IInv, NEW r \in Reqs, NEW pc \in {"exists", "insert", "publish", "ok", "fail"},
         req[r].pc # "idle", Goto(r, pc),
         UNCHANGED <<coin, deposit, mainQ, stream, disp, treasuryVars>>,
         pc = "publish" => Stored(req[r].tx),
         pc = "ok" => Known(req[r].tx)
  PROVE  IInv'
<1>1. \A t \in Txs : (Stored(t)' <=> Stored(t)) /\ (Known(t)' <=> Known(t))
  BY DEF Stored, Known
<1>2. CarryInv' /\ SweepInv'
  BY <1>1, IntakeFrame
<1>3. req' = [req EXCEPT ![r].pc = pc] /\ req \in [Reqs -> Requests]
  BY DEF Goto, TypeOK, IntakeTypeOK
<1>4. \A s \in Reqs : req'[s].tx = req[s].tx /\ (s # r => req'[s] = req[s])
  BY <1>3 DEF Requests, ReqIdle
<1>5. req'[r].pc = pc
  BY <1>3 DEF Requests, ReqIdle
<1>6. ReqInv'
  BY <1>1, <1>4, <1>5, BusyIsTransfer DEF IInv, ReqInv
<1>7. DispInv'
  BY <1>4, <1>5 DEF IInv, DispInv
<1>8. PaidInv' /\ SweptIsInTreasury' /\ AckedIsStored'
  BY <1>1, LedgerAssumption DEF IInv, PaidInv, SweptIsInTreasury, AckedIsStored
<1> QED
  BY <1>2, <1>6, <1>7, <1>8 DEF IInv

\* Insert a row and go on to publish (or to answer an error).
LEMMA InsertInv ==
  ASSUME TypeOK, IInv, NEW r \in Reqs, NEW pc \in {"publish", "fail"},
         req[r].pc = "insert", InsertRow(req[r].tx), Goto(r, pc),
         UNCHANGED <<coin, mainQ, stream, disp, treasuryVars>>
  PROVE  IInv'
<1>1. /\ PaidInv' /\ CarryInv' /\ SweepInv' /\ SweptIsInTreasury' /\ AckedIsStored'
      /\ deposit'[req[r].tx] # "none"
      /\ \A t \in Txs : (Stored(t) => Stored(t)') /\ (Known(t) => Known(t)')
  BY InsertRowInv
<1>2. req' = [req EXCEPT ![r].pc = pc] /\ req \in [Reqs -> Requests]
  BY DEF Goto, TypeOK, IntakeTypeOK
<1>3. \A s \in Reqs : req'[s].tx = req[s].tx /\ (s # r => req'[s] = req[s])
  BY <1>2 DEF Requests, ReqIdle
<1>4. req'[r].pc = pc
  BY <1>2 DEF Requests, ReqIdle
<1>5. ReqInv'
  BY <1>1, <1>3, <1>4, BusyIsTransfer DEF IInv, ReqInv, Stored
<1>6. DispInv'
  BY <1>3, <1>4 DEF IInv, DispInv
<1> QED
  BY <1>1, <1>5, <1>6 DEF IInv

\* The order message of a stored deposit enters the main queue.
LEMMA PublishedInv ==
  ASSUME TypeOK, IInv, NEW r \in Reqs, req[r].pc = "publish", Goto(r, "ok"),
         mainQ' = Put(mainQ, req[r].tx),
         UNCHANGED <<coin, deposit, stream, disp, treasuryVars>>
  PROVE  IInv'
<1>1. Stored(req[r].tx) /\ req[r].tx \in Txs
  BY BusyIsTransfer DEF IInv, ReqInv
<1>2. \A t \in Txs : (Stored(t)' <=> Stored(t)) /\ (Known(t)' <=> Known(t))
  BY DEF Stored, Known
<1>3. \A t \in Txs : mainQ'[t] > 0 => mainQ[t] > 0 \/ Stored(t)
  BY <1>1 DEF Put, TypeOK, LedgerTypeOK
<1>4. CarryInv' /\ SweepInv'
  BY <1>2, <1>3, IntakeFrame
<1>5. req' = [req EXCEPT ![r].pc = "ok"] /\ req \in [Reqs -> Requests]
  BY DEF Goto, TypeOK, IntakeTypeOK
<1>6. \A s \in Reqs : req'[s].tx = req[s].tx /\ (s # r => req'[s] = req[s])
  BY <1>5 DEF Requests, ReqIdle
<1>7. req'[r].pc = "ok"
  BY <1>5 DEF Requests, ReqIdle
<1>8. ReqInv'
  BY <1>1, <1>2, <1>6, <1>7, BusyIsTransfer DEF IInv, ReqInv, Known
<1>9. DispInv'
  BY <1>6, <1>7 DEF IInv, DispInv
<1>10. PaidInv' /\ SweptIsInTreasury' /\ AckedIsStored'
  BY <1>2, LedgerAssumption DEF IInv, PaidInv, SweptIsInTreasury, AckedIsStored
<1> QED
  BY <1>4, <1>8, <1>9, <1>10 DEF IInv

LEMMA RequestEndsInv ==
  ASSUME TypeOK, IInv, NEW r \in Reqs, RequestEnds(r), UNCHANGED treasuryVars
  PROVE  IInv'
<1>1. UNCHANGED <<ledgerVars, stream, disp>>
  BY DEF RequestEnds
<1>2. \A t \in Txs : (Stored(t)' <=> Stored(t)) /\ (Known(t)' <=> Known(t))
  BY <1>1 DEF Stored, Known
<1>3. CarryInv' /\ SweepInv'
  BY <1>1, <1>2, IntakeFrame
<1>4. ReqInv' /\ DispInv'
  BY <1>1, <1>2, BusyIsTransfer
  DEF RequestEnds, Cancelled, IInv, ReqInv, DispInv, TypeOK, IntakeTypeOK, ReqIdle
<1>5. PaidInv' /\ SweptIsInTreasury' /\ AckedIsStored'
  BY <1>1, <1>2, LedgerAssumption DEF IInv, PaidInv, SweptIsInTreasury, AckedIsStored
<1> QED
  BY <1>3, <1>4, <1>5 DEF IInv

LEMMA ReceiveInv ==
  ASSUME TypeOK, IInv, NEW r \in Reqs, ReceiveStep(r), UNCHANGED treasuryVars
  PROVE  IInv'
<1>1. CASE DepositExists(r)
  BY <1>1, GotoInv DEF DepositExists, Serving
<1>2. CASE InsertDeposit(r)
  BY <1>2, InsertInv DEF InsertDeposit, Serving
<1>3. CASE InsertConflict(r)
  BY <1>3, GotoInv DEF InsertConflict, Serving
<1>4. CASE PublishB2BOrder(r)
  <2>1. Stored(req[r].tx) /\ Known(req[r].tx) /\ req[r].tx \in Txs
    BY <1>4, BusyIsTransfer DEF PublishB2BOrder, Serving, IInv, ReqInv, Known
  <2>2. CASE mainQ' = mainQ
    BY <1>4, <2>1, <2>2, GotoInv DEF PublishB2BOrder, Serving
  <2>3. CASE mainQ' = Put(mainQ, req[r].tx) /\ Goto(r, "ok")
    BY <1>4, <2>1, <2>3, PublishedInv DEF PublishB2BOrder, Serving
  <2> QED
    BY <1>4, <2>2, <2>3 DEF PublishB2BOrder
<1>5. CASE RequestEnds(r)
  BY <1>5, RequestEndsInv
<1> QED
  BY <1>1, <1>2, <1>3, <1>4, <1>5 DEF ReceiveStep

LEMMA IntakeFaultInv ==
  TypeOK /\ IInv /\ IntakeFault /\ UNCHANGED treasuryVars => IInv'
<1> SUFFICES ASSUME TypeOK, IInv, IntakeFault, UNCHANGED treasuryVars
             PROVE  IInv'
  OBVIOUS
<1>1. CASE DispatcherRestart \/ \E r \in Reqs : ClientTimeout(r)
  <2>1. UNCHANGED <<coin, deposit, linked, mainQ, conn, stream, req, expired>>
    BY <1>1 DEF DispatcherRestart, ClientTimeout
  <2>2. disp'.pc # "wait" /\ (disp'.pc # "idle" => disp.pc # "idle" /\ disp'.tx = disp.tx)
    BY <1>1, NextAttemptShape DEF DispatcherRestart, ClientTimeout, DispIdle
  <2>3. \A t \in Txs : (Stored(t)' <=> Stored(t)) /\ (Known(t)' <=> Known(t))
    BY <2>1 DEF Stored, Known
  <2>4. CarryInv' /\ SweepInv'
    BY <2>1, <2>3, IntakeFrame
  <2>5. DispInv'
    BY <2>1, <2>2 DEF IInv, DispInv
  <2>6. ReqInv'
    BY <2>1, <2>3, BusyIsTransfer DEF IInv, ReqInv
  <2>7. PaidInv' /\ SweptIsInTreasury' /\ AckedIsStored'
    BY <2>1, <2>3, LedgerAssumption DEF IInv, PaidInv, SweptIsInTreasury, AckedIsStored
  <2> QED
    BY <2>4, <2>5, <2>6, <2>7 DEF IInv
<1>2. CASE \E r \in Reqs : DbError(r)
  BY <1>2, GotoInv DEF DbError, Serving
<1>3. CASE \E r \in Reqs : InsertReplyLost(r)
  BY <1>3, InsertInv DEF InsertReplyLost, Serving
<1>4. CASE \E r \in Reqs : PublishFails(r)
  <2> PICK r \in Reqs : PublishFails(r)
    BY <1>4
  <2>1. Known(req[r].tx)
    BY BusyIsTransfer DEF PublishFails, Serving, IInv, ReqInv, Known
  <2> QED
    BY <2>1, GotoInv DEF PublishFails, Serving
<1> QED
  BY <1>1, <1>2, <1>3, <1>4 DEF IntakeFault

LEMMA EmitInv ==
  ASSUME TypeOK, IInv, NEW t \in Txs, EmitTransaction(t), UNCHANGED treasuryVars
  PROVE  IInv'
<1>1. UNCHANGED <<ledgerVars, disp, req>> /\ coin[t] # "unpaid"
  BY DEF EmitTransaction
<1>2. \A u \in Txs :
        /\ stream[u] # "none" => stream'[u] # "none"
        /\ stream'[u] # "none" => u = t \/ stream[u] # "none"
        /\ stream'[u] = "acked" => stream[u] = "acked"
  BY DEF EmitTransaction, QueuedEvents, TypeOK, IntakeTypeOK
<1>3. \A u \in Txs : (Stored(u)' <=> Stored(u)) /\ (Known(u)' <=> Known(u))
  BY <1>1 DEF Stored, Known
<1>4. CarryInv' /\ SweepInv'
  BY <1>1, <1>3, IntakeFrame
<1>5. DispInv' /\ ReqInv'
  BY <1>1, <1>2, <1>3, BusyIsTransfer DEF IInv, DispInv, ReqInv
<1>6. PaidInv' /\ SweptIsInTreasury' /\ AckedIsStored'
  BY <1>1, <1>2, <1>3, LedgerAssumption
  DEF IInv, PaidInv, SweptIsInTreasury, AckedIsStored
<1> QED
  BY <1>4, <1>5, <1>6 DEF IInv

LEMMA ExpireInv ==
  ASSUME TypeOK, IInv, NEW o \in Orders, ExpireOrder(o), UNCHANGED treasuryVars
  PROVE  IInv'
  BY DEF ExpireOrder, IInv, PaidInv, DispInv, ReqInv, CarryInv, SweepInv,
         AckedIsStored, SweptIsInTreasury, Stored, Known

LEMMA IntakeInv ==
  TypeOK /\ IInv /\ IntakeNext /\ UNCHANGED treasuryVars => IInv'
  BY DispatcherInv, ReceiveInv, IntakeFaultInv, EmitInv, ExpireInv DEF IntakeNext

\* The conjuncts that the workers do not touch.
LEMMA TreasuryFrame ==
  ASSUME TypeOK, IInv, UNCHANGED intakeVars, UNCHANGED coin,
         \A t \in Txs : (Stored(t)' <=> Stored(t)) /\ (Known(t)' <=> Known(t))
  PROVE  PaidInv' /\ DispInv' /\ ReqInv' /\ AckedIsStored'
<1>1. PaidInv' /\ AckedIsStored'
  BY LedgerAssumption DEF IInv, PaidInv, AckedIsStored
<1>2. DispInv'
  BY DEF IInv, DispInv
<1>3. ReqInv'
  BY BusyIsTransfer DEF IInv, ReqInv
<1> QED
  BY <1>1, <1>2, <1>3

\* Messages move between queues and workers; rows and coins stay.
LEMMA MessageInv ==
  ASSUME TypeOK, IInv, UNCHANGED <<intakeVars, coin, deposit>>, CarryInv', SweepInv'
  PROVE  IInv'
<1>1. \A t \in Txs : (Stored(t)' <=> Stored(t)) /\ (Known(t)' <=> Known(t))
  BY DEF Stored, Known
<1>2. SweptIsInTreasury'
  BY DEF IInv, SweptIsInTreasury
<1> QED
  BY <1>1, <1>2, TreasuryFrame DEF IInv

\* Adding a copy of a stored deposit's message to a queue.
LEMMA PutStored ==
  ASSUME NEW q \in [Txs -> Nat], NEW u \in Txs, Stored(u),
         \A t \in Txs : q[t] > 0 => Stored(t)
  PROVE  \A t \in Txs : Put(q, u)[t] > 0 => Stored(t)
  BY DEF Put

LEMMA TakeStored ==
  ASSUME NEW q \in [Txs -> Nat], NEW u \in Txs,
         \A t \in Txs : q[t] > 0 => Stored(t)
  PROVE  \A t \in Txs : Take(q, u)[t] > 0 => Stored(t)
  BY DEF Take

LEMMA QueuesStored ==
  ASSUME TypeOK, IInv
  PROVE  /\ mainQ \in [Txs -> Nat] /\ treasuryQ \in [Txs -> Nat]
         /\ \A t \in Txs : mainQ[t] > 0 => Stored(t)
         /\ \A t \in Txs : treasuryQ[t] > 0 => Stored(t)
  BY DEF TypeOK, LedgerTypeOK, TreasuryTypeOK, IInv, CarryInv

LEMMA RouterInv ==
  ASSUME TypeOK, IInv, UNCHANGED intakeVars,
         RouterStep \/ RouteFails \/ \E t \in Txs : RouterReceive(t) \/ MessageExpires(t)
  PROVE  IInv'
<1>1. UNCHANGED <<coin, deposit, sweeper>>
  BY DEF RouterStep, RouteToChainQueue, RouterAck, RouteFails, RouterReceive,
         MessageExpires
<1>2. SweepInv'
  BY <1>1 DEF IInv, SweepInv
<1>3. router.pc # "idle" => router.tx \in Txs /\ Stored(router.tx)
  BY BusyIsTransfer DEF IInv, CarryInv
<1>4. \A t \in Txs : (mainQ'[t] > 0 => Stored(t)) /\ (treasuryQ'[t] > 0 => Stored(t))
  <2>1. CASE RouterStep \/ RouteFails
    BY <1>3, <2>1, QueuesStored, PutStored
    DEF RouterStep, RouteToChainQueue, RouterAck, RouteFails
  <2>2. CASE \E t \in Txs : RouterReceive(t) \/ MessageExpires(t)
    BY <2>2, QueuesStored, TakeStored DEF RouterReceive, MessageExpires
  <2> QED
    BY <2>1, <2>2
<1>5. router'.pc # "idle" => Stored(router'.tx)
  <2>1. CASE RouterStep \/ RouteFails
    BY <1>3, <2>1 DEF RouterStep, RouteToChainQueue, RouterAck, RouteFails,
                      RouterIdle, TypeOK, TreasuryTypeOK, Routers
  <2>2. CASE \E t \in Txs : RouterReceive(t) \/ MessageExpires(t)
    BY <1>3, <2>2, QueuesStored DEF RouterReceive, MessageExpires
  <2> QED
    BY <2>1, <2>2
<1>6. CarryInv'
  BY <1>1, <1>4, <1>5, BusyIsTransfer DEF IInv, CarryInv, Stored
<1> QED
  BY <1>1, <1>2, <1>6, MessageInv

\* A sweep that ends in an error, with the coins it may have moved before.
LEMMA SweepFailedInv ==
  ASSUME TypeOK, IInv, sweeper.pc # "idle", SweepFailed, UNCHANGED <<deposit, mainQ, router>>
  PROVE  CarryInv' /\ SweepInv'
<1>1. sweeper.tx \in Txs /\ Stored(sweeper.tx)
  BY BusyIsTransfer DEF IInv, CarryInv
<1>2. \A t \in Txs : treasuryQ'[t] > 0 => Stored(t)
  BY <1>1, QueuesStored, PutStored DEF SweepFailed
<1>3. sweeper' = SweeperIdle
  BY DEF SweepFailed
<1>4. CarryInv'
  BY <1>2, <1>3, BusyIsTransfer DEF IInv, CarryInv, SweeperIdle, Stored
<1>5. SweepInv'
  BY <1>3 DEF SweepInv, SweeperIdle
<1> QED
  BY <1>4, <1>5

\* The coins that a sweep moves are in their wallet; afterwards they are in the
\* treasury and no other coin has moved.
LEMMA SweptCoins ==
  ASSUME TypeOK, IInv, sweeper.pc = "exec", \A t \in sweeper.coins : coin[t] = "wallet",
         coin' = Moved(sweeper.coins, "treasury"), UNCHANGED <<intakeVars, deposit>>
  PROVE  /\ \A t \in Txs : coin[t] = "treasury" => coin'[t] = "treasury"
         /\ coin'[sweeper.tx] = "treasury"
         /\ PaidInv' /\ DispInv' /\ ReqInv' /\ AckedIsStored' /\ SweptIsInTreasury'
<1>1. sweeper.tx \in Txs
  BY BusyIsTransfer
<1>2. \A t \in Txs : coin[t] = "treasury" => coin'[t] = "treasury"
  BY DEF Moved
<1>3. coin'[sweeper.tx] = "treasury"
  BY <1>1, <1>2 DEF Moved, IInv, SweepInv
<1>4. \A t \in Txs : (Stored(t)' <=> Stored(t)) /\ (Known(t)' <=> Known(t))
  BY DEF Stored, Known
<1>5. PaidInv'
  BY DEF Moved, IInv, PaidInv, Stored
<1>6. DispInv'
  BY DEF IInv, DispInv
<1>7. ReqInv'
  BY <1>4, BusyIsTransfer DEF IInv, ReqInv
<1>8. AckedIsStored' /\ SweptIsInTreasury'
  BY <1>2, <1>4, LedgerAssumption DEF IInv, AckedIsStored, SweptIsInTreasury
<1> QED
  BY <1>2, <1>3, <1>5, <1>6, <1>7, <1>8

\* A stored deposit becomes 'swept' and stays stored; its coin is in the treasury.
LEMMA MarkSweptInv ==
  ASSUME TypeOK, IInv, MarkSwept, UNCHANGED intakeVars
  PROVE  IInv'
<1>1. sweeper.pc = "mark" /\ sweeper.tx \in Txs /\ Stored(sweeper.tx)
  BY BusyIsTransfer DEF MarkSwept, IInv, CarryInv
<1>2. deposit' = [deposit EXCEPT ![sweeper.tx] = "swept"] /\ UNCHANGED coin
  BY DEF MarkSwept
<1>3. deposit \in [Txs -> DepositStatus]
  BY DEF TypeOK, LedgerTypeOK
<1>4. \A t \in Txs : Stored(t)' <=> Stored(t)
  BY <1>1, <1>2, <1>3 DEF Stored
<1>5. \A t \in Txs : Known(t)' <=> Known(t)
  BY <1>4 DEF Known
<1>6. PaidInv' /\ DispInv' /\ ReqInv' /\ AckedIsStored'
  BY <1>2, <1>4, <1>5, TreasuryFrame
<1>7. SweptIsInTreasury'
  BY <1>1, <1>2, <1>3 DEF IInv, SweptIsInTreasury, SweepInv
<1>8. sweeper'.pc = "ack" /\ sweeper'.tx = sweeper.tx
  BY <1>1 DEF MarkSwept, TypeOK, TreasuryTypeOK, Sweepers, SweeperIdle
<1>9. CarryInv' /\ SweepInv'
  BY <1>1, <1>4, <1>8, BusyIsTransfer DEF MarkSwept, IInv, CarryInv, SweepInv
<1> QED
  BY <1>6, <1>7, <1>9 DEF IInv

LEMMA SweeperInv ==
  ASSUME TypeOK, IInv, UNCHANGED intakeVars,
         SweepStep \/ SweepReplyLost \/ SweepStepFails \/ \E t \in Txs : SweeperReceive(t)
  PROVE  IInv'
<1>1. sweeper.pc # "idle" =>
        /\ sweeper \in [pc : {"lookup", "coins", "exec", "mark", "ack"}, tx : Txs,
                        coins : SUBSET Txs, owned : BOOLEAN]
        /\ Stored(sweeper.tx)
  BY DEF TypeOK, TreasuryTypeOK, Sweepers, SweeperIdle, IInv, CarryInv
<1>2. CASE \E t \in Txs : SweeperReceive(t)
  <2> PICK t \in Txs : SweeperReceive(t)
    BY <1>2
  <2>1. CarryInv'
    BY QueuesStored, TakeStored, BusyIsTransfer DEF SweeperReceive, IInv, CarryInv, Stored
  <2>2. SweepInv'
    BY DEF SweeperReceive, SweepInv
  <2> QED
    BY <2>1, <2>2, MessageInv DEF SweeperReceive
<1>3. CASE SweepStepFails
  BY <1>3, SweepFailedInv, MessageInv DEF SweepStepFails
<1>4. CASE SweepReplyLost
  BY <1>4, SweepFailedInv, SweptCoins DEF SweepReplyLost, IInv
<1>5. CASE SweepRefused
  BY <1>5, SweepFailedInv, MessageInv DEF SweepRefused
<1>6. CASE LookupOrder
  <2>1. CASE SweepFailed
    BY <1>6, <2>1, SweepFailedInv, MessageInv DEF LookupOrder
  <2>2. CASE sweeper' = [sweeper EXCEPT !.pc = "coins"] /\ UNCHANGED treasuryQ
    <3>1. CarryInv' /\ SweepInv'
      BY <1>1, <1>6, <2>2, BusyIsTransfer DEF LookupOrder, IInv, CarryInv, SweepInv, Stored
    <3> QED
      BY <1>6, <3>1, MessageInv DEF LookupOrder
  <2> QED
    BY <1>6, <2>1, <2>2 DEF LookupOrder
<1>7. CASE GetUSDCObjectIDs
  <2>1. CASE SweepFailed
    BY <1>7, <2>1, SweepFailedInv, MessageInv DEF GetUSDCObjectIDs
  <2>2. CASE ~SweepFailed
    <3>1. /\ sweeper' = [sweeper EXCEPT !.pc = "exec",
                                       !.coins = WalletCoins(OrderOf[sweeper.tx])]
          /\ WalletCoins(OrderOf[sweeper.tx]) # {}
          /\ UNCHANGED treasuryQ
      BY <1>7, <2>2 DEF GetUSDCObjectIDs
    <3>2. coin[sweeper.tx] \in {"wallet", "treasury"}
      BY <1>1, <1>7 DEF GetUSDCObjectIDs, IInv, PaidInv, TypeOK, LedgerTypeOK, Places
    <3>3. /\ sweeper'.pc = "exec" /\ sweeper'.tx = sweeper.tx
          /\ sweeper'.coins = WalletCoins(OrderOf[sweeper.tx])
          /\ sweeper'.owned = sweeper.owned
      BY <1>1, <1>7, <3>1 DEF GetUSDCObjectIDs
    <3>4. SweepInv'
      BY <1>1, <1>7, <3>1, <3>2, <3>3 DEF GetUSDCObjectIDs, SweepInv, WalletCoins
    <3>5. CarryInv'
      BY <1>1, <1>7, <3>1, <3>3, BusyIsTransfer DEF GetUSDCObjectIDs, IInv, CarryInv, Stored
    <3> QED
      BY <1>7, <3>4, <3>5, MessageInv DEF GetUSDCObjectIDs
  <2> QED
    BY <2>1, <2>2
<1>8. CASE SponsoredSweep
  <2>1. /\ PaidInv' /\ DispInv' /\ ReqInv' /\ AckedIsStored' /\ SweptIsInTreasury'
        /\ coin'[sweeper.tx] = "treasury"
    BY <1>8, SweptCoins DEF SponsoredSweep
  <2>2. sweeper'.pc = "mark" /\ sweeper'.tx = sweeper.tx /\ sweeper'.owned = sweeper.owned
    BY <1>1, <1>8 DEF SponsoredSweep
  <2>3. SweepInv'
    BY <2>1, <2>2 DEF SweepInv
  <2>4. CarryInv'
    BY <1>1, <1>8, <2>2, BusyIsTransfer DEF SponsoredSweep, IInv, CarryInv, Stored
  <2> QED
    BY <2>1, <2>3, <2>4 DEF IInv
<1>9. CASE MarkSwept
  BY <1>1, <1>9, MarkSweptInv
<1>10. CASE SweeperAck
  <2>1. CarryInv' /\ SweepInv'
    BY <1>10, BusyIsTransfer DEF SweeperAck, SweeperIdle, IInv, CarryInv, SweepInv, Stored
  <2> QED
    BY <1>10, <2>1, MessageInv DEF SweeperAck
<1> QED
  BY <1>2, <1>3, <1>4, <1>5, <1>6, <1>7, <1>8, <1>9, <1>10 DEF SweepStep

LEMMA RequeuedStored ==
  ASSUME TypeOK, IInv
  PROVE  \A t \in Txs : /\ RouterRequeued[t] > 0 => Stored(t)
                        /\ SweeperRequeued[t] > 0 => Stored(t)
<1>1. /\ router.pc # "idle" => router.tx \in Txs /\ Stored(router.tx)
      /\ sweeper.owned => sweeper.tx \in Txs /\ Stored(sweeper.tx)
  BY BusyIsTransfer DEF IInv, CarryInv
<1> QED
  BY <1>1, QueuesStored, PutStored DEF RouterRequeued, SweeperRequeued

LEMMA DisconnectInv ==
  ASSUME TypeOK, IInv, Disconnect, UNCHANGED intakeVars
  PROVE  IInv'
<1>1. /\ sweeper'.pc = sweeper.pc /\ sweeper'.tx = sweeper.tx
      /\ sweeper'.coins = sweeper.coins
  BY DEF Disconnect, TypeOK, TreasuryTypeOK, Sweepers, SweeperIdle
<1>2. CarryInv'
  BY <1>1, RequeuedStored, BusyIsTransfer
  DEF Disconnect, RouterIdle, IInv, CarryInv, Stored
<1>3. SweepInv'
  BY <1>1 DEF Disconnect, IInv, SweepInv
<1> QED
  BY <1>2, <1>3, MessageInv DEF Disconnect

LEMMA TreasuryInv ==
  TypeOK /\ IInv /\ TreasuryNext /\ UNCHANGED intakeVars => IInv'
  BY RouterInv, SweeperInv, DisconnectInv DEF TreasuryNext, TreasuryFault

LEMMA RestartInv == TypeOK /\ IInv /\ BackendRestart => IInv'
<1> SUFFICES ASSUME TypeOK, IInv, BackendRestart
             PROVE  IInv'
  OBVIOUS
<1>1. UNCHANGED <<coin, deposit, linked, dead, stream, expired>>
  BY DEF BackendRestart, WorkersRestart
<1>2. \A t \in Txs : (Stored(t)' <=> Stored(t)) /\ (Known(t)' <=> Known(t))
  BY <1>1 DEF Stored, Known
<1>3. CarryInv' /\ SweepInv'
  BY <1>2, RequeuedStored
  DEF BackendRestart, WorkersRestart, CarryInv, SweepInv, RouterIdle, SweeperIdle
<1>4. ReqInv'
  BY DEF BackendRestart, ReqInv, ReqIdle
<1>5. disp'.pc # "wait" /\ (disp'.pc # "idle" => disp.pc # "idle" /\ disp'.tx = disp.tx)
  BY NextAttemptShape DEF BackendRestart
<1>6. DispInv'
  BY <1>1, <1>5 DEF IInv, DispInv
<1>7. PaidInv' /\ AckedIsStored' /\ SweptIsInTreasury'
  BY <1>1, <1>2, LedgerAssumption DEF IInv, PaidInv, AckedIsStored, SweptIsInTreasury
<1> QED
  BY <1>3, <1>4, <1>6, <1>7 DEF IInv

LEMMA PayInv ==
  ASSUME TypeOK, IInv, NEW t \in Txs, Pay(t), UNCHANGED <<intakeVars, treasuryVars>>
  PROVE  IInv'
<1>1. \A u \in Txs : (Stored(u)' <=> Stored(u)) /\ (Known(u)' <=> Known(u))
  BY DEF Pay, Stored, Known
<1>2. \A u \in Txs : /\ coin[u] = "treasury" => coin'[u] = "treasury"
                     /\ coin'[u] \in {coin[u], "wallet"}
  BY DEF Pay, TypeOK, LedgerTypeOK
<1>3. PaidInv' /\ SweptIsInTreasury' /\ AckedIsStored'
  BY <1>1, <1>2, LedgerAssumption
  DEF Pay, IInv, PaidInv, SweptIsInTreasury, AckedIsStored, Stored
<1>4. DispInv' /\ ReqInv'
  BY <1>1, BusyIsTransfer DEF IInv, DispInv, ReqInv
<1>5. CarryInv' /\ SweepInv'
  BY <1>1, <1>2, BusyIsTransfer DEF Pay, IInv, CarryInv, SweepInv
<1> QED
  BY <1>3, <1>4, <1>5 DEF IInv

LEMMA StutterInv == IInv /\ UNCHANGED vars => IInv'
  BY DEF vars, IInv, PaidInv, DispInv, ReqInv, CarryInv, SweepInv, AckedIsStored,
         SweptIsInTreasury, Stored, Known

THEOREM Invariance == Spec => []IInv
<1>1. TypeOK /\ IInv /\ [Next]_vars => IInv'
  BY PayInv, IntakeInv, TreasuryInv, RestartInv, StutterInv DEF Next
<1> QED
  BY InitInv, <1>1, TypeCorrect, PTL DEF Spec

-----------------------------------------------------------------------------
(* Safety *)

\* A deposit is marked 'swept' only if its own coin is in the treasury, for any
\* number of transfers per wallet, concurrent requests, retries and faults.
THEOREM SweptSafe == Spec => []SweptIsInTreasury
  BY Invariance, PTL DEF IInv

\* The dispatcher never acknowledges an event of a registered address whose
\* transaction has no row, whatever times out, crashes or is retried.
THEOREM AckedSafe == Spec => []AckedIsStored
  BY Invariance, PTL DEF IInv

-----------------------------------------------------------------------------
(* The pipeline implements the custody contract *)

\* The only steps that move a coin or book a payment are Pay, the sweep (its
\* answer lost or not) and MarkSwept; all others stutter on the contract.
LEMMA CustodyStep ==
  ASSUME TypeOK, IInv, [Next]_vars
  PROVE  [Contract!Next]_Contract!vars
<1> DEFINE booked == {t \in Txs : deposit[t] = "swept"}
<1>1. ASSUME UNCHANGED coin, booked' = booked
      PROVE  [Contract!Next]_Contract!vars
  BY <1>1 DEF Contract!vars
<1>2. CASE \E t \in Txs : Pay(t) /\ UNCHANGED <<intakeVars, treasuryVars>>
  BY <1>2 DEF Pay, Contract!Next, Contract!Pay
<1>3. CASE SponsoredSweep \/ SweepReplyLost
  <2>1. /\ sweeper.coins \in SUBSET Txs /\ sweeper.coins # {}
        /\ \A t, u \in sweeper.coins : OrderOf[t] = OrderOf[u]
        /\ \A t \in sweeper.coins : coin[t] = "wallet"
        /\ coin' = Moved(sweeper.coins, "treasury") /\ UNCHANGED deposit
    BY <1>3, BusyIsTransfer DEF SponsoredSweep, SweepReplyLost, IInv, SweepInv
  <2>2. Contract!Collect(sweeper.coins)
    BY <2>1 DEF Contract!Collect, Moved
  <2> QED
    BY <2>1, <2>2 DEF Contract!Next
<1>4. CASE MarkSwept
  <2>1. sweeper.tx \in Txs /\ coin[sweeper.tx] = "treasury" /\ UNCHANGED coin
    BY <1>4, BusyIsTransfer DEF MarkSwept, IInv, SweepInv
  <2>2. booked' = booked \cup {sweeper.tx}
    BY <1>4, <2>1 DEF MarkSwept, TypeOK, LedgerTypeOK
  <2>3. PICK t \in Txs : t = sweeper.tx
    BY <2>1
  <2>4. Contract!Book(t)
    BY <2>1, <2>2, <2>3 DEF Contract!Book
  <2> QED
    BY <2>4 DEF Contract!Next
<1>5. CASE \E r \in Reqs : InsertDeposit(r) \/ InsertReplyLost(r)
  <2> PICK r \in Reqs : InsertDeposit(r) \/ InsertReplyLost(r)
    BY <1>5
  <2>1. /\ req[r].tx \in Txs /\ UNCHANGED coin /\ ~Stored(req[r].tx)
        /\ deposit' = [deposit EXCEPT ![req[r].tx] = "pending_order_validation"]
    BY BusyIsTransfer DEF InsertDeposit, InsertReplyLost, Serving, InsertRow, Known
  <2>2. booked' = booked
    BY <2>1 DEF Stored, TypeOK, LedgerTypeOK
  <2> QED
    BY <1>1, <2>1, <2>2
<1>6. CASE UNCHANGED <<coin, deposit>>
  BY <1>1, <1>6
<1>7. CASE IntakeNext /\ UNCHANGED treasuryVars
  BY <1>5, <1>6, <1>7
  DEF IntakeNext, DispatcherStep, SkipMessage, ProcessMessage, PostWebhook,
      WebhookAccepted, WebhookRefused, IntakeFault, DispatcherRestart,
      ClientTimeout, DbError, PublishFails, ReceiveStep, DepositExists,
      InsertConflict, PublishB2BOrder, RequestEnds, EmitTransaction, ExpireOrder
<1>8. CASE TreasuryNext /\ UNCHANGED intakeVars
  BY <1>3, <1>4, <1>6, <1>8
  DEF TreasuryNext, RouterReceive, SweeperReceive, RouterStep, RouteToChainQueue,
      RouterAck, SweepStep, LookupOrder, GetUSDCObjectIDs, SweepRefused, SweeperAck,
      TreasuryFault, RouteFails, SweepStepFails, Disconnect, MessageExpires
<1>9. CASE BackendRestart
  BY <1>6, <1>9 DEF BackendRestart, WorkersRestart
<1>10. CASE UNCHANGED vars
  BY <1>6, <1>10 DEF vars
<1> QED
  BY <1>2, <1>7, <1>8, <1>9, <1>10 DEF Next

\* Coins move once, wallet by wallet, and a payment is booked only when its coin
\* is in the treasury: every behaviour of the pipeline is one of the contract.
THEOREM ImplementsCustody == Spec => CustodySpec
<1>1. Init => Contract!Init
  BY DEF Init, LedgerInit, Contract!Init
<1>2. Spec => [](TypeOK /\ IInv)
  BY TypeCorrect, Invariance, PTL
<1> QED
  BY <1>1, <1>2, CustodyStep, PTL DEF Spec, CustodySpec, Contract!Spec

-----------------------------------------------------------------------------
(* Without a fault nothing is forgotten *)

\* As Carried, but a message that the router has passed on is not in its hands.
Held(t) ==
  \/ Publishing(t)
  \/ mainQ[t] > 0 \/ treasuryQ[t] > 0 \/ t \in dead
  \/ router = [pc |-> "got", tx |-> t]
  \/ sweeper.pc # "idle" /\ sweeper.tx = t

AllHeld == \A t \in Txs : Stored(t) /\ deposit[t] # "swept" => Held(t)

\* The dispatcher waits for the only request there is.
OneRequest == \A r \in Reqs : req[r].pc # "idle" => disp.pc = "wait" /\ disp.slot = r

SweeperHolds ==
  /\ sweeper.pc # "idle" => sweeper.owned
  /\ sweeper.pc = "ack" => deposit[sweeper.tx] = "swept"

QuietInv ==
  faults = 0 /\ conn # "noop" => conn = "up" /\ OneRequest /\ SweeperHolds /\ AllHeld

\* Only a fault changes the connection, and a fault is counted.
LEMMA FaultsAreCounted ==
  ASSUME TypeOK, [Next]_vars
  PROVE  (faults' = faults /\ conn' = conn) \/ faults' = faults + 1
<1>1. CASE IntakeNext /\ UNCHANGED treasuryVars
  BY <1>1 DEF IntakeNext, DispatcherStep, SkipMessage, ProcessMessage, PostWebhook,
      WebhookAccepted, WebhookRefused, IntakeFault, DispatcherRestart,
      ClientTimeout, DbError, InsertReplyLost, PublishFails, ReceiveStep, DepositExists,
      InsertDeposit, InsertConflict, PublishB2BOrder, RequestEnds, EmitTransaction,
      ExpireOrder, QueryFails, Fault
<1>2. CASE TreasuryNext /\ UNCHANGED intakeVars
  BY <1>2 DEF TreasuryNext, RouterReceive, SweeperReceive, RouterStep, RouteToChainQueue,
      RouterAck, SweepStep, LookupOrder, GetUSDCObjectIDs, SponsoredSweep, SweepRefused,
      MarkSwept, SweeperAck, TreasuryFault, RouteFails, SweepReplyLost, SweepStepFails,
      Disconnect, MessageExpires, Fault
<1>3. CASE BackendRestart
  BY <1>3 DEF BackendRestart, WorkersRestart, Fault
<1>4. CASE \E t \in Txs : Pay(t) /\ UNCHANGED <<intakeVars, treasuryVars>>
  BY <1>4 DEF Pay
<1>5. CASE UNCHANGED vars
  BY <1>5 DEF vars
<1> QED
  BY <1>1, <1>2, <1>3, <1>4, <1>5 DEF Next

LEMMA NotAFault ==
  ASSUME TypeOK, faults' = faults, Fault
  PROVE  FALSE
BY LedgerAssumption DEF Fault, TypeOK, LedgerTypeOK

LEMMA QuietDispatcher ==
  ASSUME TypeOK, OneRequest, SweeperHolds, AllHeld, DispatcherStep, UNCHANGED treasuryVars
  PROVE  OneRequest' /\ SweeperHolds' /\ AllHeld'
<1>1. UNCHANGED <<deposit, mainQ, conn>>
  BY DEF DispatcherStep, SkipMessage, ProcessMessage, PostWebhook, WebhookAccepted, WebhookRefused
<1>2. SweeperHolds'
  BY <1>1 DEF SweeperHolds
<1>3. req \in [Reqs -> Requests]
  BY DEF TypeOK, IntakeTypeOK
<1>4. OneRequest'
  <2>1. CASE \E t \in Txs : SkipMessage(t) \/ ProcessMessage(t)
    BY <2>1 DEF SkipMessage, ProcessMessage, OneRequest
  <2>2. CASE \E r \in Reqs : PostWebhook(r)
    <3>1. PICK r \in Reqs : PostWebhook(r)
      BY <2>2
    <3>2. \A s \in Reqs : s # r => req'[s] = req[s]
      BY <1>3, <3>1 DEF PostWebhook
    <3>3. disp'.pc = "wait" /\ disp'.slot = r
      BY <3>1 DEF PostWebhook, TypeOK, IntakeTypeOK, Dispatchers, DispIdle
    <3> QED
      BY <3>1, <3>2, <3>3 DEF PostWebhook, OneRequest
  <2>3. CASE \E r \in Reqs : WebhookAccepted(r) \/ WebhookRefused(r)
    <3>1. PICK r \in Reqs : WebhookAccepted(r) \/ WebhookRefused(r)
      BY <2>3
    <3>2. \A s \in Reqs : req'[s].pc = "idle"
      BY <1>3, <3>1 DEF WebhookAccepted, WebhookRefused, OneRequest, ReqIdle
    <3> QED
      BY <3>2 DEF OneRequest
  <2> QED
    BY <2>1, <2>2, <2>3 DEF DispatcherStep
<1>5. \A t \in Txs : Publishing(t) => Publishing(t)'
  <2> SUFFICES ASSUME NEW t \in Txs, NEW r \in Reqs, req[r] = [pc |-> "publish", tx |-> t]
               PROVE  req'[r] = req[r]
    BY DEF Publishing
  <2>1. req[r].pc = "publish"
    OBVIOUS
  <2> QED
    BY <1>3, <2>1 DEF DispatcherStep, SkipMessage, ProcessMessage, PostWebhook, WebhookAccepted,
                      WebhookRefused
<1>6. AllHeld'
  BY <1>1, <1>5 DEF AllHeld, Held, Stored
<1> QED
  BY <1>2, <1>4, <1>6

LEMMA QuietReceive ==
  ASSUME TypeOK, conn = "up", OneRequest, SweeperHolds, AllHeld, NEW r \in Reqs, ReceiveStep(r),
         UNCHANGED treasuryVars
  PROVE  OneRequest' /\ SweeperHolds' /\ AllHeld'
<1>1. req \in [Reqs -> Requests] /\ deposit \in [Txs -> DepositStatus] /\ mainQ \in [Txs -> Nat]
  BY DEF TypeOK, IntakeTypeOK, LedgerTypeOK
<1>2. ~RequestEnds(r)
  BY DEF RequestEnds, Serving, Cancelled, OneRequest
<1>3. req[r].pc # "idle" /\ disp' = disp /\ \A s \in Reqs : s # r => req'[s] = req[s]
  BY <1>1, <1>2 DEF ReceiveStep, DepositExists, InsertDeposit, InsertConflict, PublishB2BOrder,
                    Goto, Serving
<1>4. OneRequest'
  BY <1>3 DEF OneRequest
<1>5. req[r].tx \in Txs
  BY <1>3, BusyIsTransfer
<1>6. \A t \in Txs : \/ deposit'[t] = deposit[t]
                     \/ InsertDeposit(r) /\ t = req[r].tx /\ deposit[t] = "none"
  <2>1. CASE InsertDeposit(r)
    <3>1. /\ deposit[req[r].tx] = "none"
          /\ \A t \in Txs : t # req[r].tx => deposit'[t] = deposit[t]
      BY <1>1, <1>5, <2>1 DEF InsertDeposit, InsertRow, Known, Stored
    <3> QED
      BY <2>1, <3>1
  <2>2. CASE UNCHANGED deposit
    BY <2>2
  <2> QED
    BY <1>2, <2>1, <2>2 DEF ReceiveStep, DepositExists, InsertConflict, PublishB2BOrder
<1>7. SweeperHolds'
  BY <1>6, BusyIsTransfer DEF SweeperHolds
<1>8. \A t \in Txs : mainQ[t] > 0 => mainQ'[t] > 0
  <2>1. mainQ' = mainQ \/ mainQ' = Put(mainQ, req[r].tx)
    BY <1>2 DEF ReceiveStep, DepositExists, InsertDeposit, InsertConflict, PublishB2BOrder
  <2> QED
    BY <1>1, <1>5, <2>1 DEF Put
<1>9. \A t \in Txs : Publishing(t) => Publishing(t)' \/ mainQ'[t] > 0
  <2> SUFFICES ASSUME NEW t \in Txs, NEW s \in Reqs, req[s] = [pc |-> "publish", tx |-> t],
                      ~Publishing(t)'
               PROVE  mainQ'[t] > 0
    BY DEF Publishing
  <2>1. s = r
    BY <1>3 DEF Publishing
  <2>2. req[r].pc = "publish" /\ req[r].tx = t
    BY <2>1
  <2>3. mainQ' = Put(mainQ, t)
    BY <1>2, <2>2 DEF ReceiveStep, DepositExists, InsertDeposit, InsertConflict,
       PublishB2BOrder, Serving
  <2> QED
    BY <1>1, <2>3 DEF Put
<1>10. \A t \in Txs : InsertDeposit(r) /\ t = req[r].tx => Publishing(t)'
  <2> SUFFICES ASSUME InsertDeposit(r), NEW t \in Txs, t = req[r].tx PROVE Publishing(t)'
    OBVIOUS
  <2>1. req'[r] = [req[r] EXCEPT !.pc = "publish"]
    BY <1>1 DEF InsertDeposit, Goto
  <2>2. req[r] \in [pc : {"exists", "insert", "publish", "ok", "fail"}, tx : Txs]
    BY <1>1, <1>3 DEF Requests, ReqIdle
  <2>3. req'[r] = [pc |-> "publish", tx |-> t]
    BY <2>1, <2>2
  <2> QED
    BY <2>3 DEF Publishing
<1>11. AllHeld'
  <2> SUFFICES ASSUME NEW t \in Txs, deposit'[t] \notin {"none", "swept"} PROVE Held(t)'
    BY DEF AllHeld, Stored
  <2>1. CASE deposit'[t] = deposit[t]
    BY <1>8, <1>9, <2>1 DEF AllHeld, Held, Stored
  <2>2. CASE InsertDeposit(r) /\ t = req[r].tx
    BY <1>10, <2>2 DEF Held
  <2> QED
    BY <1>6, <2>1, <2>2
<1> QED
  BY <1>4, <1>7, <1>11

LEMMA QuietIntake ==
  ASSUME TypeOK, faults' = faults, conn = "up", OneRequest, SweeperHolds, AllHeld,
         IntakeNext, UNCHANGED treasuryVars
  PROVE  OneRequest' /\ SweeperHolds' /\ AllHeld'
<1>1. ~IntakeFault
  <2>1. ASSUME NEW r \in Reqs, DbError(r) \/ InsertReplyLost(r) PROVE FALSE
    <3>1. ~Cancelled(r)
      BY <2>1 DEF DbError, InsertReplyLost, Serving, OneRequest, Cancelled
    <3> QED
      BY <2>1, <3>1, NotAFault DEF DbError, InsertReplyLost, QueryFails
  <2> QED
    BY <2>1, NotAFault DEF IntakeFault, DispatcherRestart, ClientTimeout, PublishFails
<1>2. CASE \E t \in Txs : EmitTransaction(t)
  BY <1>2 DEF EmitTransaction, OneRequest, SweeperHolds, AllHeld, Held, Publishing, Stored
<1>3. CASE \E o \in Orders : ExpireOrder(o)
  BY <1>3 DEF ExpireOrder, OneRequest, SweeperHolds, AllHeld, Held, Publishing, Stored
<1> QED
  BY <1>1, <1>2, <1>3, QuietDispatcher, QuietReceive DEF IntakeNext

\* A message that is requeued or dead-lettered is still somewhere.
LEMMA SweepFailedHolds ==
  ASSUME TypeOK, OneRequest, SweeperHolds, AllHeld, sweeper.pc # "idle", SweepFailed,
         UNCHANGED <<intakeVars, deposit, mainQ, router>>
  PROVE  OneRequest' /\ SweeperHolds' /\ AllHeld'
<1>1. OneRequest' /\ SweeperHolds'
  BY DEF OneRequest, SweeperHolds, SweepFailed, SweeperIdle
<1>2. treasuryQ \in [Txs -> Nat] /\ sweeper.tx \in Txs /\ sweeper.owned
  BY BusyIsTransfer DEF TypeOK, TreasuryTypeOK, SweeperHolds
<1>3. \/ treasuryQ' = Put(treasuryQ, sweeper.tx) /\ dead' = dead
      \/ treasuryQ' = treasuryQ /\ dead' = dead \cup {sweeper.tx}
  BY <1>2 DEF SweepFailed
<1>4. \A t \in Txs : Held(t) => Held(t)'
  <2> SUFFICES ASSUME NEW t \in Txs, Held(t) PROVE Held(t)'
    OBVIOUS
  <2>1. (Publishing(t) => Publishing(t)') /\ mainQ' = mainQ /\ router' = router
    BY DEF Publishing
  <2>2. treasuryQ[t] > 0 \/ t = sweeper.tx => treasuryQ'[t] > 0 \/ t \in dead'
    BY <1>2, <1>3 DEF Put
  <2>3. t \in dead => t \in dead'
    BY <1>3
  <2> QED
    BY <2>1, <2>2, <2>3 DEF Held
<1>5. AllHeld'
  BY <1>4 DEF AllHeld, Stored
<1> QED
  BY <1>1, <1>5

LEMMA QuietTreasury ==
  ASSUME TypeOK, faults' = faults, OneRequest, SweeperHolds, AllHeld,
         TreasuryNext, UNCHANGED intakeVars
  PROVE  OneRequest' /\ SweeperHolds' /\ AllHeld'
<1>1. ~TreasuryFault
  BY NotAFault DEF TreasuryFault, RouteFails, SweepReplyLost, SweepStepFails, Disconnect,
                   MessageExpires
<1>2. OneRequest' /\ \A t \in Txs : Publishing(t) => Publishing(t)'
  BY DEF OneRequest, Publishing
<1>3. /\ mainQ \in [Txs -> Nat] /\ treasuryQ \in [Txs -> Nat]
      /\ router \in Routers /\ sweeper \in Sweepers /\ deposit \in [Txs -> DepositStatus]
  BY DEF TypeOK, LedgerTypeOK, TreasuryTypeOK
<1>4. CASE \E t \in Txs : RouterReceive(t)
  <2>1. PICK u \in Txs : RouterReceive(u)
    BY <1>4
  <2>2. \A t \in Txs : mainQ[t] > 0 => mainQ'[t] > 0 \/ router' = [pc |-> "got", tx |-> t]
    BY <1>3, <2>1 DEF RouterReceive, Take
  <2>3. router.pc = "idle" /\ UNCHANGED <<deposit, treasuryQ, dead, sweeper>>
    BY <2>1 DEF RouterReceive
  <2>4. \A t \in Txs : Held(t) => Held(t)'
    BY <1>2, <2>2, <2>3 DEF Held
  <2> QED
    BY <1>2, <2>3, <2>4 DEF SweeperHolds, AllHeld, Stored
<1>5. CASE \E t \in Txs : SweeperReceive(t)
  <2>1. PICK u \in Txs : SweeperReceive(u)
    BY <1>5
  <2>2. \A t \in Txs : treasuryQ[t] > 0 => treasuryQ'[t] > 0 \/ sweeper'.tx = t
    BY <1>3, <2>1 DEF SweeperReceive, Take
  <2>3. /\ sweeper.pc = "idle" /\ sweeper'.pc = "lookup" /\ sweeper'.owned
        /\ UNCHANGED <<deposit, mainQ, dead, router>>
    BY <2>1 DEF SweeperReceive
  <2>4. \A t \in Txs : Held(t) => Held(t)'
    BY <1>2, <2>2, <2>3 DEF Held
  <2> QED
    BY <1>2, <2>3, <2>4 DEF SweeperHolds, AllHeld, Stored
<1>6. CASE RouterStep
  <2>1. UNCHANGED <<deposit, mainQ, dead, sweeper>>
    BY <1>6 DEF RouterStep, RouteToChainQueue, RouterAck
  <2>2. \A t \in Txs : /\ router = [pc |-> "got", tx |-> t] => treasuryQ'[t] > 0
                       /\ treasuryQ[t] > 0 => treasuryQ'[t] > 0
    <3>1. CASE RouterAck
      BY <3>1 DEF RouterAck
    <3>2. CASE RouteToChainQueue
      <4>1. router.tx \in Txs /\ treasuryQ' = Put(treasuryQ, router.tx)
        BY <3>2, BusyIsTransfer DEF RouteToChainQueue
      <4> QED
        BY <1>3, <4>1 DEF Put
    <3> QED
      BY <1>6, <3>1, <3>2 DEF RouterStep
  <2>3. \A t \in Txs : Held(t) => Held(t)'
    BY <1>2, <2>1, <2>2 DEF Held
  <2> QED
    BY <1>2, <2>1, <2>3 DEF SweeperHolds, AllHeld, Stored
<1>7. CASE SweepStep
  <2>1. UNCHANGED <<mainQ, router>>
    BY <1>7 DEF SweepStep, LookupOrder, GetUSDCObjectIDs, SponsoredSweep, SweepRefused, MarkSwept,
                SweeperAck
  <2>2. CASE sweeper.pc # "idle" /\ SweepFailed /\ UNCHANGED deposit
    BY <2>1, <2>2, SweepFailedHolds
  <2>3. CASE /\ sweeper.pc \notin {"idle", "ack"} /\ UNCHANGED <<deposit, treasuryQ, dead>>
             /\ sweeper'.pc \notin {"idle", "ack"}
             /\ sweeper'.tx = sweeper.tx /\ sweeper'.owned = sweeper.owned
    <3>1. \A t \in Txs : Held(t) => Held(t)'
      BY <1>2, <2>1, <2>3 DEF Held
    <3> QED
      BY <1>2, <2>3, <3>1 DEF SweeperHolds, AllHeld, Stored
  <2>4. CASE MarkSwept
    <3>1. /\ sweeper.tx \in Txs /\ sweeper.pc # "idle" /\ sweeper'.pc = "ack"
          /\ sweeper'.tx = sweeper.tx /\ sweeper'.owned = sweeper.owned
          /\ deposit' = [deposit EXCEPT ![sweeper.tx] = "swept"] /\ UNCHANGED <<treasuryQ, dead>>
      BY <1>3, <2>4, BusyIsTransfer DEF MarkSwept, Sweepers, SweeperIdle
    <3>2. \A t \in Txs : Held(t) => Held(t)'
      BY <1>2, <2>1, <3>1 DEF Held
    <3>3. deposit'[sweeper.tx] = "swept" /\ \A t \in Txs : t # sweeper.tx => deposit'[t] = deposit[t]
      BY <1>3, <3>1
    <3> QED
      BY <1>2, <3>1, <3>2, <3>3 DEF SweeperHolds, AllHeld, Stored
  <2>5. CASE SweeperAck
    <3>1. /\ deposit[sweeper.tx] = "swept" /\ sweeper'.pc = "idle"
          /\ UNCHANGED <<deposit, treasuryQ, dead>>
      BY <2>5 DEF SweeperAck, SweeperHolds, SweeperIdle
    <3>2. \A t \in Txs : Held(t) /\ deposit[t] # "swept" => Held(t)'
      BY <1>2, <2>1, <3>1 DEF Held
    <3> QED
      BY <1>2, <3>1, <3>2 DEF SweeperHolds, AllHeld, Stored
  <2> QED
    BY <1>3, <1>7, <2>2, <2>3, <2>4, <2>5 DEF SweepStep, LookupOrder, GetUSDCObjectIDs,
       SponsoredSweep, SweepRefused, Sweepers, SweeperIdle
<1> QED
  BY <1>1, <1>4, <1>5, <1>6, <1>7 DEF TreasuryNext

LEMMA QuietInvariant == Spec => []QuietInv
<1>1. Init => QuietInv
  BY DEF Init, LedgerInit, IntakeInit, TreasuryInit, QuietInv, OneRequest, SweeperHolds, AllHeld,
         ReqIdle, SweeperIdle, Stored
<1>2. TypeOK /\ QuietInv /\ [Next]_vars => QuietInv'
  <2> SUFFICES ASSUME TypeOK, QuietInv, [Next]_vars, faults' = 0, conn' # "noop"
               PROVE  conn' = "up" /\ OneRequest' /\ SweeperHolds' /\ AllHeld'
    BY DEF QuietInv
  <2>1. faults' = faults /\ conn' = conn
    BY FaultsAreCounted DEF TypeOK, LedgerTypeOK
  <2>2. conn = "up" /\ OneRequest /\ SweeperHolds /\ AllHeld
    BY <2>1 DEF QuietInv
  <2>3. CASE \E t \in Txs : Pay(t) /\ UNCHANGED <<intakeVars, treasuryVars>>
    BY <2>2, <2>3 DEF Pay, OneRequest, SweeperHolds, AllHeld, Held, Publishing, Stored
  <2>4. CASE UNCHANGED vars
    BY <2>2, <2>4 DEF vars, OneRequest, SweeperHolds, AllHeld, Held, Publishing, Stored
  <2>5. ~BackendRestart
    BY <2>1, NotAFault DEF BackendRestart, WorkersRestart
  <2> QED
    BY <2>1, <2>2, <2>3, <2>4, <2>5, QuietIntake, QuietTreasury DEF Next
<1> QED
  BY <1>1, <1>2, TypeCorrect, PTL DEF Spec

\* Without a fault a stored deposit that is not swept has its message in a queue,
\* a dead-letter queue or somebody's hands, for any number of requests, orders and
\* transfers per wallet.
THEOREM NothingForgotten == Spec => []ForgottenNeedsFault
<1>1. TypeOK /\ QuietInv => ForgottenNeedsFault
  <2> SUFFICES ASSUME TypeOK, QuietInv, NEW t \in Txs, Stored(t), deposit[t] # "swept",
                      ~Carried(t)
               PROVE  faults > 0 \/ conn = "noop"
    BY DEF ForgottenNeedsFault
  <2>1. ~Held(t)
    BY DEF Held, Carried
  <2>2. faults # 0 \/ conn = "noop"
    BY <2>1 DEF QuietInv, AllHeld
  <2> QED
    BY <2>2, LedgerAssumption DEF TypeOK, LedgerTypeOK
<1> QED
  BY <1>1, TypeCorrect, QuietInvariant, PTL

-----------------------------------------------------------------------------
(* Only linked wallets are swept *)

\* Past the lookup, the message's deposit is of a linked order.
LinkInv == sweeper.pc \in {"coins", "exec"} => sweeper.tx \in linked

\* A link is never taken back.
LEMMA LinksStay ==
  ASSUME TypeOK, [Next]_vars
  PROVE  linked \subseteq linked'
<1>1. CASE IntakeNext /\ UNCHANGED treasuryVars
  BY <1>1 DEF IntakeNext, DispatcherStep, SkipMessage, ProcessMessage, PostWebhook,
      WebhookAccepted, WebhookRefused, IntakeFault, DispatcherRestart,
      ClientTimeout, DbError, InsertReplyLost, PublishFails, ReceiveStep, DepositExists,
      InsertDeposit, InsertConflict, PublishB2BOrder, RequestEnds, EmitTransaction,
      ExpireOrder, InsertRow
<1>2. CASE TreasuryNext /\ UNCHANGED intakeVars
  BY <1>2 DEF TreasuryNext, RouterReceive, SweeperReceive, RouterStep, RouteToChainQueue,
      RouterAck, SweepStep, LookupOrder, GetUSDCObjectIDs, SponsoredSweep, SweepRefused,
      MarkSwept, SweeperAck, TreasuryFault, RouteFails, SweepReplyLost, SweepStepFails,
      Disconnect, MessageExpires
<1>3. CASE BackendRestart
  BY <1>3 DEF BackendRestart, WorkersRestart
<1>4. CASE \E t \in Txs : Pay(t) /\ UNCHANGED <<intakeVars, treasuryVars>>
  BY <1>4 DEF Pay
<1>5. CASE UNCHANGED vars
  BY <1>5 DEF vars
<1> QED
  BY <1>1, <1>2, <1>3, <1>4, <1>5 DEF Next

LEMMA StepLink ==
  ASSUME TypeOK, LinkInv, [Next]_vars
  PROVE  LinkInv'
<1>1. CASE UNCHANGED sweeper
  BY <1>1, LinksStay DEF LinkInv
<1>2. CASE sweeper' = SweeperIdle
  BY <1>2 DEF LinkInv, SweeperIdle
<1>3. CASE TreasuryNext
  <2>1. sweeper \in Sweepers
    BY DEF TypeOK, TreasuryTypeOK
  <2>2. CASE LookupOrder
    <3>1. CASE sweeper.tx \in linked /\ sweeper' = [sweeper EXCEPT !.pc = "coins"]
      BY <2>1, <2>2, <3>1 DEF LookupOrder, Sweepers, SweeperIdle, LinkInv
    <3> QED
      BY <1>2, <2>2, <3>1 DEF LookupOrder, SweepFailed
  <2>3. CASE GetUSDCObjectIDs
    <3>1. CASE sweeper.pc = "coins" /\ \E S : sweeper' = [sweeper EXCEPT !.pc = "exec", !.coins = S]
      BY <2>1, <2>3, <3>1 DEF GetUSDCObjectIDs, Sweepers, SweeperIdle, LinkInv
    <3> QED
      BY <1>2, <2>3, <3>1 DEF GetUSDCObjectIDs, SweepFailed
  <2>4. CASE SponsoredSweep \/ MarkSwept
    BY <2>1, <2>4 DEF SponsoredSweep, MarkSwept, Sweepers, SweeperIdle, LinkInv
  <2>5. CASE Disconnect
    BY <2>1, <2>5 DEF Disconnect, Sweepers, SweeperIdle, LinkInv
  <2>6. CASE \E t \in Txs : SweeperReceive(t)
    BY <2>6 DEF SweeperReceive, LinkInv
  <2> QED
    BY <1>1, <1>2, <1>3, <2>2, <2>3, <2>4, <2>5, <2>6 DEF TreasuryNext, RouterReceive, RouterStep,
       RouteToChainQueue, RouterAck, SweepStep, SweepRefused, SweeperAck, TreasuryFault, RouteFails,
       SweepReplyLost, SweepStepFails, MessageExpires, SweepFailed
<1> QED
  BY <1>1, <1>2, <1>3 DEF Next, BackendRestart, WorkersRestart, vars

LEMMA SweptWallets ==
  ASSUME TypeOK, IInv, LinkInv, [Next]_vars
  PROVE  \A t \in Txs :
           coin[t] = "wallet" /\ coin'[t] # "wallet" =>
             /\ coin'[t] = "treasury"
             /\ \E u \in linked : Stored(u) /\ OrderOf[u] = OrderOf[t]
<1> SUFFICES ASSUME NEW t \in Txs, coin[t] = "wallet", coin'[t] # "wallet"
             PROVE  /\ coin'[t] = "treasury"
                    /\ \E u \in linked : Stored(u) /\ OrderOf[u] = OrderOf[t]
  OBVIOUS
<1>1. CASE SponsoredSweep \/ SweepReplyLost
  <2>1. sweeper.pc = "exec" /\ coin' = Moved(sweeper.coins, "treasury")
    BY <1>1 DEF SponsoredSweep, SweepReplyLost
  <2>2. t \in sweeper.coins /\ coin'[t] = "treasury"
    BY <2>1 DEF Moved
  <2>3. OrderOf[sweeper.tx] = OrderOf[t] /\ Stored(sweeper.tx) /\ sweeper.tx \in linked
    BY <2>1, <2>2 DEF IInv, SweepInv, CarryInv, LinkInv
  <2> QED
    BY <2>2, <2>3
<1>2. CASE \E u \in Txs : Pay(u)
  <2> PICK u \in Txs : Pay(u)
    BY <1>2
  <2> QED
    BY DEF Pay, TypeOK, LedgerTypeOK
<1>3. CASE IntakeNext
  BY <1>3 DEF IntakeNext, DispatcherStep, SkipMessage, ProcessMessage, PostWebhook,
      WebhookAccepted, WebhookRefused, IntakeFault, DispatcherRestart,
      ClientTimeout, DbError, InsertReplyLost, PublishFails, ReceiveStep, DepositExists,
      InsertDeposit, InsertConflict, PublishB2BOrder, RequestEnds, EmitTransaction,
      ExpireOrder
<1>4. CASE TreasuryNext
  BY <1>1, <1>4 DEF TreasuryNext, RouterReceive, SweeperReceive, RouterStep, RouteToChainQueue,
      RouterAck, SweepStep, LookupOrder, GetUSDCObjectIDs, SweepRefused,
      MarkSwept, SweeperAck, TreasuryFault, RouteFails, SweepStepFails,
      Disconnect, MessageExpires
<1>5. CASE BackendRestart \/ UNCHANGED vars
  BY <1>5 DEF BackendRestart, WorkersRestart, vars
<1> QED
  BY <1>2, <1>3, <1>4, <1>5 DEF Next

\* The sweep takes coins only from a wallet with a recorded payment of a live order,
\* and only of that one wallet, whatever other messages share its queue.
THEOREM OnlyLinkedWalletsSwept == Spec => SweepsOnlyLinkedWallets
<1>1. Init => LinkInv
  BY DEF Init, TreasuryInit, SweeperIdle, LinkInv
<1>2. TypeOK /\ LinkInv /\ [Next]_vars => LinkInv'
  BY StepLink
<1>3. TypeOK /\ IInv /\ LinkInv /\ [Next]_vars =>
        [\A t \in Txs :
           coin[t] = "wallet" /\ coin'[t] # "wallet" =>
             /\ coin'[t] = "treasury"
             /\ \E u \in linked : Stored(u) /\ OrderOf[u] = OrderOf[t]]_vars
  BY SweptWallets
<1> QED
  BY <1>1, <1>2, <1>3, TypeCorrect, Invariance, PTL DEF Spec, SweepsOnlyLinkedWallets

-----------------------------------------------------------------------------
(* Copies are made once *)

\* The winner of the insert is the only request that publishes.
OnePublisher ==
  \A r, s \in Reqs : req[r].pc = "publish" /\ req[s].pc = "publish" /\ req[r].tx = req[s].tx => r = s

LEMMA StepPublisher ==
  ASSUME TypeOK, IInv, OnePublisher, [Next]_vars
  PROVE  OnePublisher'
<1>1. req \in [Reqs -> Requests]
  BY DEF TypeOK, IntakeTypeOK
<1>2. ASSUME NEW r \in Reqs, InsertDeposit(r)
      PROVE  OnePublisher'
  <2>1. \A s \in Reqs : req[s].pc = "publish" => req[s].tx # req[r].tx
    BY <1>2, BusyIsTransfer DEF InsertDeposit, Known, IInv, ReqInv
  <2>2. /\ req'[r].tx = req[r].tx
        /\ \A s \in Reqs : s # r => req'[s] = req[s]
    BY <1>1, <1>2 DEF InsertDeposit, Goto, Requests, ReqIdle
  <2> QED
    BY <2>1, <2>2 DEF OnePublisher
<1>3. ASSUME \A r \in Reqs : req'[r].pc = "publish" => req'[r] = req[r]
      PROVE  OnePublisher'
  BY <1>3 DEF OnePublisher
<1>4. ASSUME NEW r \in Reqs, NEW new, new.pc # "publish", req' = [req EXCEPT ![r] = new]
      PROVE  OnePublisher'
  BY <1>1, <1>3, <1>4
<1>5. ASSUME NEW r \in Reqs, NEW pc, pc # "publish", Goto(r, pc), req[r].pc # "idle"
      PROVE  OnePublisher'
  <2>1. req'[r].pc = pc /\ \A s \in Reqs : s # r => req'[s] = req[s]
    BY <1>1, <1>5 DEF Goto, Requests, ReqIdle
  <2> QED
    BY <1>3, <1>5, <2>1
<1>6. ASSUME NEW r \in Reqs, ReceiveStep(r) PROVE OnePublisher'
  BY <1>2, <1>4, <1>5, <1>6 DEF ReceiveStep, DepositExists, InsertConflict, PublishB2BOrder,
     RequestEnds, Serving, ReqIdle
<1>7. CASE UNCHANGED req
  BY <1>3, <1>7
<1>8. CASE DispatcherStep
  BY <1>4, <1>7, <1>8 DEF DispatcherStep, SkipMessage, ProcessMessage, PostWebhook, WebhookAccepted,
     WebhookRefused, ReqIdle
<1>9. CASE IntakeFault
  BY <1>5, <1>7, <1>9 DEF IntakeFault, DispatcherRestart, ClientTimeout, DbError, InsertReplyLost,
     PublishFails, Serving
<1>10. CASE BackendRestart
  BY <1>3, <1>10 DEF BackendRestart, ReqIdle
<1> QED
  BY <1>6, <1>7, <1>8, <1>9, <1>10 DEF Next, IntakeNext, EmitTransaction, ExpireOrder, vars

LEMMA CopiesAreCounted ==
  ASSUME TypeOK, TypeOK', NEW t \in Txs
  PROVE  /\ mainQ[t] \in Nat /\ mainQ'[t] \in Nat
         /\ treasuryQ[t] \in Nat /\ treasuryQ'[t] \in Nat
         /\ Copies(t) \in Nat /\ Copies(t)' \in Nat
BY DEF TypeOK, LedgerTypeOK, TreasuryTypeOK, Copies, One

LEMMA UnstoredHasNoCopy ==
  ASSUME TypeOK, IInv, NEW t \in Txs, ~Stored(t)
  PROVE  /\ mainQ[t] = 0 /\ treasuryQ[t] = 0 /\ ~Publishing(t)
         /\ ~(router.pc = "got" /\ router.tx = t)
         /\ ~(sweeper.owned /\ sweeper.tx = t)
<1>1. mainQ[t] = 0 /\ treasuryQ[t] = 0
  BY DEF TypeOK, LedgerTypeOK, TreasuryTypeOK, IInv, CarryInv
<1>2. ~Publishing(t)
  BY DEF Publishing, IInv, ReqInv
<1>3. ~(router.pc = "got" /\ router.tx = t) /\ ~(sweeper.owned /\ sweeper.tx = t)
  BY BusyIsTransfer DEF IInv, CarryInv
<1> QED
  BY <1>1, <1>2, <1>3

NoMore(t) == Copies(t)' <= Copies(t)
FirstCopy(t) == ~Stored(t) /\ Copies(t)' = 1

LEMMA ReceiveCopies ==
  ASSUME TypeOK, TypeOK', IInv, OnePublisher, NEW r \in Reqs, ReceiveStep(r),
         UNCHANGED treasuryVars, NEW t \in Txs
  PROVE  NoMore(t) \/ FirstCopy(t)
<1>1. /\ req \in [Reqs -> Requests] /\ mainQ \in [Txs -> Nat]
      /\ req[r].pc # "idle" => req[r].tx \in Txs
  BY BusyIsTransfer DEF TypeOK, IntakeTypeOK, LedgerTypeOK
<1>2. UNCHANGED <<treasuryQ, router, sweeper>>
  OBVIOUS
<1>3. ASSUME UNCHANGED mainQ, Publishing(t)' => Publishing(t)
      PROVE  NoMore(t)
  BY <1>2, <1>3, CopiesAreCounted DEF Copies, One, NoMore
<1>4. CASE InsertDeposit(r) /\ t = req[r].tx
  <2>1. ~Stored(t) /\ UNCHANGED mainQ
    BY <1>4 DEF InsertDeposit, Known
  <2>2. Copies(t)' = 0 \/ Copies(t)' = 1
    BY <1>2, <2>1, UnstoredHasNoCopy DEF Copies, One
  <2>3. Copies(t)' = 0 => NoMore(t)
    BY CopiesAreCounted DEF NoMore
  <2> QED
    BY <2>1, <2>2, <2>3 DEF FirstCopy
<1>5. CASE InsertDeposit(r) /\ t # req[r].tx
  <2>1. Publishing(t)' => Publishing(t)
    BY <1>1, <1>5 DEF Publishing, InsertDeposit, Goto, Requests, ReqIdle
  <2> QED
    BY <1>3, <1>5, <2>1 DEF InsertDeposit
<1>6. CASE ~InsertDeposit(r)
  <2>1. /\ \A s \in Reqs : s # r => req'[s] = req[s]
        /\ req'[r].pc # "publish"
    <3>1. CASE \E pc \in {"insert", "ok", "fail"} : Goto(r, pc) /\ req[r].pc # "idle"
      BY <1>1, <3>1 DEF Goto, Requests, ReqIdle
    <3>2. CASE RequestEnds(r)
      BY <1>1, <3>2 DEF RequestEnds, ReqIdle
    <3> QED
      BY <1>6, <3>1, <3>2 DEF ReceiveStep, DepositExists, InsertConflict, PublishB2BOrder, Serving
  <2>2. Publishing(t)' => Publishing(t)
    BY <2>1 DEF Publishing
  <2>3. CASE PublishB2BOrder(r) /\ mainQ' = Put(mainQ, req[r].tx)
    <3>1. req[r].pc = "publish" /\ req[r].tx \in Txs
      BY <1>1, <2>3 DEF PublishB2BOrder, Serving
    <3>2. CASE t # req[r].tx
      <4>1. mainQ'[t] = mainQ[t]
        BY <1>1, <2>3, <3>1, <3>2 DEF Put
      <4> QED
        BY <1>2, <2>2, <4>1, CopiesAreCounted DEF Copies, One, NoMore
    <3>3. CASE t = req[r].tx
      <4>1. mainQ'[t] = mainQ[t] + 1
        BY <1>1, <2>3, <3>3 DEF Put
      <4>2. Publishing(t)
        <5>1. req[r] \in [pc : {"exists", "insert", "publish", "ok", "fail"}, tx : Txs]
          BY <1>1, <3>1 DEF Requests, ReqIdle
        <5>2. req[r] = [pc |-> "publish", tx |-> t]
          BY <3>1, <3>3, <5>1
        <5> QED
          BY <5>2 DEF Publishing
      <4>3. ~Publishing(t)'
        BY <2>1, <3>1, <3>3 DEF Publishing, OnePublisher
      <4> QED
        BY <1>2, <4>1, <4>2, <4>3, CopiesAreCounted DEF Copies, One, NoMore
    <3> QED
      BY <3>2, <3>3
  <2>4. CASE UNCHANGED mainQ
    BY <1>3, <2>2, <2>4
  <2> QED
    BY <1>6, <2>3, <2>4
    DEF ReceiveStep, DepositExists, InsertConflict, PublishB2BOrder, RequestEnds
<1> QED
  BY <1>4, <1>5, <1>6

Redelivered(t) == router = [pc |-> "sent", tx |-> t] /\ Copies(t)' = Copies(t) + 1

LEMMA NobodyPublishes ==
  ASSUME TypeOK, TypeOK', UNCHANGED <<mainQ, treasuryQ, router, sweeper>>,
         \A r \in Reqs : req'[r].pc = "publish" => req'[r] = req[r], NEW t \in Txs
  PROVE  NoMore(t)
<1>1. Publishing(t)' => Publishing(t)
  BY DEF Publishing
<1> QED
  BY <1>1, CopiesAreCounted DEF Copies, One, NoMore

LEMMA IntakeCopies ==
  ASSUME TypeOK, TypeOK', IInv, OnePublisher, IntakeNext, UNCHANGED treasuryVars, NEW t \in Txs
  PROVE  NoMore(t) \/ FirstCopy(t)
<1>1. req \in [Reqs -> Requests]
  BY DEF TypeOK, IntakeTypeOK
<1>2. CASE \E r \in Reqs : ReceiveStep(r)
  BY <1>2, ReceiveCopies
<1>3. CASE UNCHANGED <<mainQ, req>>
  BY <1>3, NobodyPublishes
<1>4. CASE DispatcherStep
  <2>1. ASSUME NEW r \in Reqs, PostWebhook(r) \/ WebhookAccepted(r) \/ WebhookRefused(r)
        PROVE  NoMore(t)
    <3>1. req'[r].pc # "publish" /\ \A s \in Reqs : s # r => req'[s] = req[s]
      BY <1>1, <2>1 DEF PostWebhook, WebhookAccepted, WebhookRefused, ReqIdle
    <3>2. UNCHANGED mainQ
      BY <2>1 DEF PostWebhook, WebhookAccepted, WebhookRefused
    <3> QED
      BY <3>1, <3>2, NobodyPublishes
  <2> QED
    BY <1>3, <1>4, <2>1 DEF DispatcherStep, SkipMessage, ProcessMessage
<1>5. ASSUME NEW r \in Reqs, req[r].pc # "idle", Goto(r, "fail"), UNCHANGED mainQ
      PROVE  NoMore(t)
  <2>1. \A s \in Reqs : req'[s].pc = "publish" => req'[s] = req[s]
    BY <1>1, <1>5 DEF Goto, Requests, ReqIdle
  <2> QED
    BY <1>5, <2>1, NobodyPublishes
<1>6. ASSUME NEW r \in Reqs, PublishFails(r)
      PROVE  NoMore(t)
  <2>1. \A s \in Reqs : req'[s].pc = "publish" => req'[s] = req[s]
    BY <1>1, <1>6 DEF PublishFails, Serving, Goto, Requests, ReqIdle
  <2> QED
    BY <1>6, <2>1, NobodyPublishes DEF PublishFails
<1>7. CASE IntakeFault
  BY <1>3, <1>5, <1>6, <1>7 DEF IntakeFault, DispatcherRestart, ClientTimeout, DbError,
     InsertReplyLost, Serving
<1> QED
  BY <1>2, <1>3, <1>4, <1>7 DEF IntakeNext, EmitTransaction, ExpireOrder

\* The broker takes back what a consumer that is gone had not acked.
LEMMA RequeuedCopies ==
  ASSUME TypeOK, TypeOK', NEW t \in Txs, mainQ' = RouterRequeued, treasuryQ' = SweeperRequeued,
         router'.pc = "idle", ~sweeper'.owned, Publishing(t)' => Publishing(t)
  PROVE  NoMore(t) \/ Redelivered(t)
<1>1. /\ mainQ \in [Txs -> Nat] /\ treasuryQ \in [Txs -> Nat] /\ router \in Routers
  BY DEF TypeOK, LedgerTypeOK, TreasuryTypeOK
<1>2. treasuryQ'[t] + One(sweeper'.owned /\ sweeper'.tx = t)
        = treasuryQ[t] + One(sweeper.owned /\ sweeper.tx = t)
  BY <1>1, BusyIsTransfer, CopiesAreCounted DEF SweeperRequeued, Put, One
<1>3. mainQ'[t] = IF router.pc # "idle" /\ router.tx = t THEN mainQ[t] + 1 ELSE mainQ[t]
  BY <1>1, BusyIsTransfer DEF RouterRequeued, Put
<1>4. CASE router.pc = "sent" /\ router.tx = t
  <2>1. router = [pc |-> "sent", tx |-> t]
    BY <1>1, <1>4 DEF Routers, RouterIdle
  <2>2. Copies(t)' <= Copies(t) \/ Copies(t)' = Copies(t) + 1
    BY <1>2, <1>3, <1>4, CopiesAreCounted DEF Copies, One
  <2> QED
    BY <2>1, <2>2 DEF NoMore, Redelivered
<1>5. CASE ~(router.pc = "sent" /\ router.tx = t)
  <2>1. mainQ'[t] = mainQ[t] + One(router.pc = "got" /\ router.tx = t)
    BY <1>1, <1>3, <1>5, CopiesAreCounted DEF One, Routers, RouterIdle
  <2> QED
    BY <1>2, <2>1, CopiesAreCounted DEF Copies, One, NoMore
<1> QED
  BY <1>4, <1>5

\* Messages move between queues and hands; a failed sweep puts back its own copy.
LEMMA TreasuryCopies ==
  ASSUME TypeOK, TypeOK', TreasuryNext, UNCHANGED intakeVars, NEW t \in Txs
  PROVE  NoMore(t) \/ Redelivered(t)
<1>1. Publishing(t)' = Publishing(t)
  BY DEF Publishing
<1>2. /\ mainQ \in [Txs -> Nat] /\ treasuryQ \in [Txs -> Nat]
      /\ router \in Routers /\ sweeper \in Sweepers
  BY DEF TypeOK, LedgerTypeOK, TreasuryTypeOK
<1>3. CASE UNCHANGED <<mainQ, treasuryQ, router>> /\ (sweeper'.owned => sweeper.owned) /\
           (sweeper'.owned => sweeper'.tx = sweeper.tx)
  BY <1>1, <1>3, CopiesAreCounted DEF Copies, One, NoMore
<1>4. ASSUME sweeper.pc # "idle", SweepFailed, UNCHANGED <<mainQ, router>>
      PROVE  NoMore(t)
  <2>1. ~sweeper'.owned
    BY <1>4 DEF SweepFailed, SweeperIdle
  <2>2. \/ treasuryQ'[t] = treasuryQ[t]
        \/ sweeper.owned /\ sweeper.tx = t /\ treasuryQ'[t] = treasuryQ[t] + 1
    BY <1>2, <1>4, BusyIsTransfer DEF SweepFailed, Put
  <2> QED
    BY <1>1, <1>4, <2>1, <2>2, CopiesAreCounted DEF Copies, One, NoMore
<1>5. CASE \E u \in Txs : RouterReceive(u)
  <2> PICK u \in Txs : RouterReceive(u)
    BY <1>5
  <2>1. router.pc = "idle" /\ router' = [pc |-> "got", tx |-> u] /\ UNCHANGED <<treasuryQ, sweeper>>
    BY DEF RouterReceive
  <2>2. mainQ'[t] = IF t = u THEN mainQ[t] - 1 ELSE mainQ[t]
    BY <1>2 DEF RouterReceive, Take
  <2> QED
    BY <1>1, <2>1, <2>2, CopiesAreCounted DEF Copies, One, NoMore
<1>6. CASE \E u \in Txs : SweeperReceive(u)
  <2> PICK u \in Txs : SweeperReceive(u)
    BY <1>6
  <2>1. /\ ~sweeper.owned /\ sweeper'.owned /\ sweeper'.tx = u /\ UNCHANGED <<mainQ, router>>
    BY BusyIsTransfer DEF SweeperReceive
  <2>2. treasuryQ'[t] = IF t = u THEN treasuryQ[t] - 1 ELSE treasuryQ[t]
    BY <1>2 DEF SweeperReceive, Take
  <2> QED
    BY <1>1, <2>1, <2>2, CopiesAreCounted DEF Copies, One, NoMore
<1>7. CASE RouteToChainQueue
  <2>1. router.pc = "got" /\ router'.pc = "sent" /\ UNCHANGED <<mainQ, sweeper>>
    BY <1>2, <1>7 DEF RouteToChainQueue, Routers, RouterIdle
  <2>2. treasuryQ'[t] = IF t = router.tx THEN treasuryQ[t] + 1 ELSE treasuryQ[t]
    BY <1>2, <1>7 DEF RouteToChainQueue, Put
  <2> QED
    BY <1>1, <2>1, <2>2, CopiesAreCounted DEF Copies, One, NoMore
<1>8. CASE RouteFails
  <2>1. router.pc = "got" /\ router'.pc = "idle" /\ UNCHANGED <<treasuryQ, sweeper>>
    BY <1>8 DEF RouteFails, RouterIdle
  <2>2. mainQ'[t] = IF t = router.tx THEN mainQ[t] + 1 ELSE mainQ[t]
    BY <1>2, <1>8 DEF RouteFails, Put
  <2> QED
    BY <1>1, <2>1, <2>2, CopiesAreCounted DEF Copies, One, NoMore
<1>9. CASE RouterAck
  <2>1. router'.pc = "idle" /\ UNCHANGED <<mainQ, treasuryQ, sweeper>>
    BY <1>9 DEF RouterAck, RouterIdle
  <2> QED
    BY <1>1, <2>1, CopiesAreCounted DEF Copies, One, NoMore
<1>10. CASE \E u \in Txs : MessageExpires(u)
  <2> PICK u \in Txs : MessageExpires(u)
    BY <1>10
  <2>1. UNCHANGED <<treasuryQ, router, sweeper>>
    BY DEF MessageExpires
  <2>2. mainQ'[t] = IF t = u THEN mainQ[t] - 1 ELSE mainQ[t]
    BY <1>2 DEF MessageExpires, Take
  <2> QED
    BY <1>1, <2>1, <2>2, CopiesAreCounted DEF Copies, One, NoMore
<1>11. CASE Disconnect
  <2>1. ~sweeper'.owned /\ router'.pc = "idle"
    BY <1>2, <1>11 DEF Disconnect, RouterIdle, Sweepers, SweeperIdle
  <2> QED
    BY <1>1, <1>11, <2>1, RequeuedCopies DEF Disconnect
<1>12. CASE SweepStep
  <2>1. CASE MarkSwept \/ SweeperAck \/ SponsoredSweep
    BY <1>2, <1>3, <2>1 DEF MarkSwept, SweeperAck, SponsoredSweep, Sweepers, SweeperIdle
  <2>2. CASE LookupOrder
    <3>1. CASE sweeper' = [sweeper EXCEPT !.pc = "coins"] /\ UNCHANGED treasuryQ
      BY <1>2, <1>3, <2>2, <3>1 DEF LookupOrder, Sweepers, SweeperIdle
    <3> QED
      BY <1>4, <2>2, <3>1 DEF LookupOrder
  <2>3. CASE GetUSDCObjectIDs
    <3>1. CASE (\E S : sweeper' = [sweeper EXCEPT !.pc = "exec", !.coins = S]) /\ UNCHANGED treasuryQ
      BY <1>2, <1>3, <2>3, <3>1 DEF GetUSDCObjectIDs, Sweepers, SweeperIdle
    <3> QED
      BY <1>4, <2>3, <3>1 DEF GetUSDCObjectIDs
  <2>4. CASE SweepRefused
    BY <1>4, <2>4 DEF SweepRefused
  <2> QED
    BY <1>12, <2>1, <2>2, <2>3, <2>4 DEF SweepStep
<1>13. CASE SweepReplyLost \/ SweepStepFails
  BY <1>4, <1>13 DEF SweepReplyLost, SweepStepFails
<1> QED
  BY <1>5, <1>6, <1>7, <1>8, <1>9, <1>10, <1>11, <1>12, <1>13
  DEF TreasuryNext, RouterStep, TreasuryFault

LEMMA StepCopies ==
  ASSUME TypeOK, TypeOK', IInv, OnePublisher, [Next]_vars, NEW t \in Txs
  PROVE  NoMore(t) \/ FirstCopy(t) \/ Redelivered(t)
<1>1. CASE \E u \in Txs : Pay(u) /\ UNCHANGED <<intakeVars, treasuryVars>>
  BY <1>1, NobodyPublishes DEF Pay
<1>2. CASE UNCHANGED vars
  BY <1>2, NobodyPublishes DEF vars
<1>3. CASE BackendRestart
  <2>1. ~Publishing(t)' /\ ~sweeper'.owned /\ router'.pc = "idle"
    BY <1>3 DEF BackendRestart, WorkersRestart, Publishing, ReqIdle, RouterIdle, SweeperIdle
  <2> QED
    BY <1>3, <2>1, RequeuedCopies DEF BackendRestart, WorkersRestart
<1> QED
  BY <1>1, <1>2, <1>3, IntakeCopies, TreasuryCopies DEF Next

\* One order message is made per recorded transfer, by the request whose insert wins;
\* after that only the order worker's unacked delivery makes another copy.
THEOREM CopiesMadeOnce == Spec => CopiesNeedRedelivery
<1>1. Init => OnePublisher
  BY DEF Init, IntakeInit, OnePublisher, ReqIdle
<1>2. TypeOK /\ IInv /\ OnePublisher /\ [Next]_vars => OnePublisher'
  BY StepPublisher
<1>3. TypeOK /\ TypeOK' /\ IInv /\ OnePublisher /\ [Next]_vars =>
        [\A t \in Txs :
           Copies(t)' > Copies(t) =>
             \/ ~Stored(t) /\ Copies(t)' = 1
             \/ router = [pc |-> "sent", tx |-> t] /\ Copies(t)' = Copies(t) + 1]_vars
  <2> SUFFICES ASSUME TypeOK, TypeOK', IInv, OnePublisher, [Next]_vars, NEW t \in Txs,
                      Copies(t)' > Copies(t)
               PROVE  FirstCopy(t) \/ Redelivered(t)
    BY DEF FirstCopy, Redelivered
  <2>1. ~NoMore(t)
    BY CopiesAreCounted DEF NoMore
  <2> QED
    BY <2>1, StepCopies
<1> QED
  BY <1>1, <1>2, <1>3, TypeCorrect, Invariance, PTL DEF Spec, CopiesNeedRedelivery
=============================================================================
