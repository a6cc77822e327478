------------------------------ MODULE Pipeline ------------------------------
(***************************************************************************)
(* The payment pipeline: customers, the event stream, the dispatcher, the  *)
(* webhook handler, the broker and the two treasury workers, running       *)
(* concurrently.  The webhook handler and the workers share one backend    *)
(* process, so they crash together.                                        *)
(***************************************************************************)
EXTENDS Intake, Treasury

vars == <<coin, deposit, linked, mainQ, conn, faults,
          stream, disp, req, expired, treasuryQ, dead, router, sweeper>>

TypeOK == LedgerTypeOK /\ IntakeTypeOK /\ TreasuryTypeOK

Init == LedgerInit /\ IntakeInit /\ TreasuryInit

\* Requests die with the process; the dispatcher sees a broken connection.
BackendRestart ==
  /\ WorkersRestart
  /\ req' = [r \in Reqs |-> ReqIdle]
  /\ disp' = IF disp.pc = "wait" THEN NextAttempt ELSE disp
  /\ UNCHANGED <<stream, expired>>

Next ==
  \/ \E t \in Txs : Pay(t) /\ UNCHANGED <<intakeVars, treasuryVars>>
  \/ IntakeNext /\ UNCHANGED treasuryVars
  \/ TreasuryNext /\ UNCHANGED intakeVars
  \/ BackendRestart

\* The dispatcher, the handler's goroutines and the workers keep running.  A
\* payment, an expiry and a fault may never happen.  The broker pushes the
\* messages of a queue in order, so one that is requeued again and again, and
\* one behind it, is not passed over for ever.
Fairness ==
  /\ WF_vars(DispatcherStep /\ UNCHANGED treasuryVars)
  /\ \A r \in Reqs : WF_vars(ReceiveStep(r) /\ UNCHANGED treasuryVars)
  /\ WF_vars(((\E t \in Txs : RouterReceive(t)) \/ RouterStep) /\ UNCHANGED intakeVars)
  /\ WF_vars(SweepStep /\ UNCHANGED intakeVars)
  /\ \A t \in Txs : SF_vars(SweeperReceive(t) /\ UNCHANGED intakeVars)

Spec == Init /\ [][Next]_vars
FairSpec == Spec /\ Fairness

-----------------------------------------------------------------------------
(* Safety *)

\* A transfer some webhook request has stored and is about to publish.
Publishing(t) == \E r \in Reqs : req[r] = [pc |-> "publish", tx |-> t]

\* The order message of t is somewhere it will be acted on or looked at.
Carried(t) ==
  \/ Publishing(t)
  \/ mainQ[t] > 0 \/ treasuryQ[t] > 0 \/ t \in dead
  \/ router.pc # "idle" /\ router.tx = t
  \/ sweeper.pc # "idle" /\ sweeper.tx = t

One(b) == IF b THEN 1 ELSE 0

\* Copies of t's message that will cause a sweep; the copy the router has
\* forwarded but not acked counts once, in its treasury queue.
Copies(t) ==
  One(Publishing(t)) + mainQ[t] + treasuryQ[t]
  + One(router.pc = "got" /\ router.tx = t)
  + One(sweeper.owned /\ sweeper.tx = t)

\* An event is acknowledged only after a deposit row exists for its transaction:
\* the dispatcher acks on 2xx, and the handler must not answer 2xx to anything
\* else, in whatever order retried and concurrent requests end.
AckedIsStored ==
  \A t \in Registered : stream[t] = "acked" => Known(t)

\* A deposit row carries status 'swept' only if the coin of that very transfer
\* reached the treasury, although executeSweep works on whatever coins the
\* wallet holds, messages come twice and in any order, and one wallet may have
\* received several transfers.
SweptIsInTreasury ==
  \A t \in Txs : deposit[t] = "swept" => coin[t] = "treasury"

\* Without a fault no stored deposit is forgotten: until it is swept, its
\* order message is in a queue, a dead-letter queue or a worker's hands.
\* While the backend runs on NoopPublisher nothing is ever published.
ForgottenNeedsFault ==
  \A t \in Txs :
    Stored(t) /\ deposit[t] # "swept" /\ ~Carried(t) => faults > 0 \/ conn = "noop"

\* A transfer's order message is made once, with its row, however many webhook
\* requests for it run at the same time.  The one other step that makes a copy is
\* the redelivery of a message the order worker had forwarded and not acked.
CopiesNeedRedelivery ==
  [][\A t \in Txs :
       Copies(t)' > Copies(t) =>
         \/ ~Stored(t) /\ Copies(t)' = 1
         \/ router = [pc |-> "sent", tx |-> t] /\ Copies(t)' = Copies(t) + 1]_vars

\* The sweep takes coins only from a wallet with a recorded payment for a
\* linked order, and takes only the coins of one wallet.
SweepsOnlyLinkedWallets ==
  [][\A t \in Txs :
       coin[t] = "wallet" /\ coin'[t] # "wallet" =>
         /\ coin'[t] = "treasury"
         /\ \E u \in linked : Stored(u) /\ OrderOf[u] = OrderOf[t]]_vars

\* The pipeline implements the custody contract.
Contract == INSTANCE Custody WITH
  WalletOf <- OrderOf, place <- coin,
  booked <- {t \in Txs : deposit[t] = "swept"}

CustodySpec == Contract!Spec

-----------------------------------------------------------------------------
(* The inductive invariant behind AckedIsStored, SweptIsInTreasury and the *)
(* custody contract: what each holder of a message knows about its deposit *)

\* A transfer that was seen or stored was paid; nobody in this module refunds.
PaidInv ==
  \A t \in Txs :
    /\ coin[t] # "customer"
    /\ stream[t] # "none" \/ Stored(t) => coin[t] # "unpaid"

\* The dispatcher waits for a request that serves its own event.
DispInv ==
  disp.pc # "idle" =>
    /\ stream[disp.tx] # "none"
    /\ disp.pc = "wait" => /\ disp.slot \in Reqs
                           /\ req[disp.slot].pc # "idle"
                           /\ req[disp.slot].tx = disp.tx

\* A request publishes what it stored itself, and answers 2xx to what is known.
ReqInv ==
  \A r \in Reqs :
    req[r].pc # "idle" =>
      /\ stream[req[r].tx] # "none"
      /\ req[r].pc = "publish" => Stored(req[r].tx)
      /\ req[r].pc = "ok" => Known(req[r].tx)

\* Every message in a queue or in a worker's hands is of a stored deposit.
CarryInv ==
  /\ \A t \in Txs : mainQ[t] > 0 \/ treasuryQ[t] > 0 => Stored(t)
  /\ router.pc # "idle" => Stored(router.tx)
  /\ sweeper.pc # "idle" => Stored(sweeper.tx)

\* The coins to be swept are of the message's wallet; its own is among them
\* unless an earlier sweep took it.
SweepInv ==
  /\ sweeper.pc = "exec" =>
       /\ sweeper.coins # {}
       /\ \A t \in sweeper.coins : OrderOf[t] = OrderOf[sweeper.tx]
       /\ coin[sweeper.tx] = "treasury" \/ sweeper.tx \in sweeper.coins
  /\ sweeper.pc = "mark" => coin[sweeper.tx] = "treasury"

IInv ==
  /\ PaidInv /\ DispInv /\ ReqInv /\ CarryInv /\ SweepInv
  /\ AckedIsStored /\ SweptIsInTreasury

-----------------------------------------------------------------------------
(* Liveness *)

Supported(t) == t \in Registered /\ ChainOf[t] \in Chains

\* An event on the stream ends as a row in deposits, through lost answers,
\* timeouts, Naks and restarts.
QueuedIsStored ==
  \A t \in Txs : stream[t] = "queued" /\ Supported(t) ~> Known(t) \/ stream[t] = "evicted"

\* The order message of t has reached a queue and is not dead-lettered.
InQueue(t) ==
  \/ mainQ[t] > 0 \/ treasuryQ[t] > 0
  \/ router.pc = "got" /\ router.tx = t
  \/ sweeper.pc # "idle" /\ sweeper.tx = t

\* While the broker stays reachable, a published Sui payment of a live order
\* ends in the treasury, whatever poison messages share its queue and however
\* often its own sweep fails for a while.
QueuedIsSwept ==
  <>[](conn = "up") =>
    \A t \in Txs :
      InQueue(t) /\ t \in linked /\ ChainOf[t] = "sui"
        ~> coin[t] = "treasury" \/ t \in dead

-----------------------------------------------------------------------------
(* What the documentation says and the code does not do *)

\* migration.sql:28: "deposits: every confirmed USDC transfer the indexer
\* detected for this platform."  The second of two transfers made by one
\* transaction is answered as a duplicate and acknowledged without a row.
EveryTransferIsRecorded ==
  \A t \in Registered : stream[t] = "acked" => Stored(t)

\* b2b_sui_treasury_worker.go:31: "after maxSweepAttempts transient failures ->
\* Nack(false, false) -> DLQ".  No message is in the queues for ever.
SweepRetriesEnd ==
  <>[](conn = "up") => \A t \in Txs : InQueue(t) ~> ~InQueue(t)
=============================================================================
