------------------------------ MODULE Treasury ------------------------------
(***************************************************************************)
(* From b2b-order-queue to the treasury wallet: the order worker, a single *)
(* consumer that forwards each message to the queue of its chain, and the  *)
(* Sui treasury worker, a single consumer that sweeps the temporary wallet *)
(* of the order with one sponsored transaction and then marks the deposit. *)
(* The Solana and Base workers are placeholders that consume nothing.      *)
(*                                                                         *)
(* Both queues deliver at least once: a message that is received and not   *)
(* acked goes back to its queue when the connection or the process dies.   *)
(***************************************************************************)
EXTENDS Ledger

CONSTANTS
  NoMsg,             \* "no message"
  MaxSweepAttempts   \* 3 in the code

ASSUME TreasuryAssumption ==
  /\ NoMsg \notin Txs
  /\ MaxSweepAttempts \in Nat \ {0}

VARIABLES
  treasuryQ,  \* copies of each message ready in its chain's treasury queue
  dead,       \* messages in orders.dead_letter or a chain's dead-letter queue
  router,     \* StartB2BOrderWorker
  sweeper     \* StartB2BSuiTreasuryWorker

treasuryVars == <<treasuryQ, dead, router, sweeper>>

RouterIdle == [pc |-> "idle", tx |-> NoMsg]

Routers == {RouterIdle} \cup [pc : {"got", "sent"}, tx : Txs]

SweeperIdle == [pc |-> "idle", tx |-> NoMsg, coins |-> {}, owned |-> FALSE]

\* owned: the broker still holds the delivery for this consumer.
Sweepers ==
  {SweeperIdle} \cup
  [pc : {"lookup", "coins", "exec", "mark", "ack"}, tx : Txs,
   coins : SUBSET Txs, owned : BOOLEAN]

TreasuryTypeOK ==
  /\ treasuryQ \in [Txs -> Nat]
  /\ dead \in SUBSET Txs
  /\ router \in Routers
  /\ sweeper \in Sweepers

TreasuryInit ==
  /\ treasuryQ = [t \in Txs |-> 0]
  /\ dead = {}
  /\ router = RouterIdle
  /\ sweeper = SweeperIdle

-----------------------------------------------------------------------------
(* The order worker: processOrderDelivery *)

\* Mutant: a message is handed over although the queue holds none.
RouterReceiveTwice(t) ==
  /\ conn = "up"
  /\ router.pc = "idle"
  /\ mainQ' = Take(mainQ, t)
  /\ router' = [pc |-> "got", tx |-> t]
  /\ UNCHANGED <<coin, deposit, linked, conn, faults, treasuryQ, dead, sweeper>>

RouterReceive(t) ==
  /\ conn = "up"
  /\ router.pc = "idle"
  /\ mainQ[t] > 0
  /\ mainQ' = Take(mainQ, t)
  /\ router' = [pc |-> "got", tx |-> t]
  /\ UNCHANGED <<coin, deposit, linked, conn, faults, treasuryQ, dead, sweeper>>

\* publishToChainQueue comes before the ack: at least once, never at most once.
RouteToChainQueue ==
  /\ router.pc = "got"
  /\ treasuryQ' = Put(treasuryQ, router.tx)
  /\ router' = [router EXCEPT !.pc = "sent"]
  /\ UNCHANGED <<ledgerVars, dead, sweeper>>

RouteFails ==
  /\ router.pc = "got"
  /\ Fault
  /\ mainQ' = Put(mainQ, router.tx)
  /\ router' = RouterIdle
  /\ UNCHANGED <<coin, deposit, linked, conn, treasuryQ, dead, sweeper>>

RouterAck ==
  /\ router.pc = "sent"
  /\ router' = RouterIdle
  /\ UNCHANGED <<ledgerVars, treasuryQ, dead, sweeper>>

\* x-message-ttl: a message nobody consumed for an hour is dead-lettered.
MessageExpires(t) ==
  /\ mainQ[t] > 0
  /\ Fault
  /\ mainQ' = Take(mainQ, t)
  /\ dead' = dead \cup {t}
  /\ UNCHANGED <<coin, deposit, linked, conn, treasuryQ, router, sweeper>>

-----------------------------------------------------------------------------
(* The Sui treasury worker *)

SweeperReceive(t) ==
  /\ conn = "up"
  /\ sweeper.pc = "idle"
  /\ ChainOf[t] = "sui"
  /\ treasuryQ[t] > 0
  /\ treasuryQ' = Take(treasuryQ, t)
  /\ sweeper' = [pc |-> "lookup", tx |-> t, coins |-> {}, owned |-> TRUE]
  /\ UNCHANGED <<ledgerVars, dead, router>>

\* attempts[d.DeliveryTag] after the increment.  A redelivery has a new tag,
\* so the map never holds an entry for the message at hand.
AttemptsOfThisDelivery == 1

\* Mutant: a failed delivery is acked and so dropped.
SweepFailedDrops ==
  /\ sweeper' = SweeperIdle
  /\ UNCHANGED <<treasuryQ, dead>>

\* executeSweep returned an error, whatever its cause: back to the queue, or to
\* the dead-letter queue once the attempts are used up.  Without the delivery
\* (the channel closed) neither Nack has an effect.
SweepFailed ==
  LET spent == AttemptsOfThisDelivery >= MaxSweepAttempts
  IN /\ sweeper' = SweeperIdle
     /\ treasuryQ' = IF sweeper.owned /\ ~spent
                     THEN Put(treasuryQ, sweeper.tx) ELSE treasuryQ
     /\ dead' = IF sweeper.owned /\ spent THEN dead \cup {sweeper.tx} ELSE dead

\* Mutant: the lookup does not join pending_orders and finds every deposit.
LookupDeposit ==
  /\ sweeper.pc = "lookup"
  /\ sweeper' = [sweeper EXCEPT !.pc = "coins"]
  /\ UNCHANGED <<ledgerVars, treasuryQ, dead, router>>

\* 1-2. The deposit with its pending order, and the key of the wallet.
LookupOrder ==
  /\ sweeper.pc = "lookup"
  /\ \/ /\ sweeper.tx \in linked
        /\ sweeper' = [sweeper EXCEPT !.pc = "coins"]
        /\ UNCHANGED <<treasuryQ, dead>>
     \/ /\ sweeper.tx \notin linked
        /\ SweepFailed
  /\ UNCHANGED <<ledgerVars, router>>

\* 3. The coins the wallet holds now.
GetUSDCObjectIDs ==
  /\ sweeper.pc = "coins"
  /\ LET found == WalletCoins(OrderOf[sweeper.tx])
     IN \/ /\ found # {}
           /\ sweeper' = [sweeper EXCEPT !.pc = "exec", !.coins = found]
           /\ UNCHANGED <<treasuryQ, dead>>
        \/ /\ found = {}
           /\ SweepFailed
  /\ UNCHANGED <<ledgerVars, router>>

\* Mutant: only one of the coins found is moved.
SponsoredSweepOfOne ==
  /\ sweeper.pc = "exec"
  /\ \A t \in sweeper.coins : coin[t] = "wallet"
  /\ \E t \in sweeper.coins : coin' = Moved({t}, "treasury")
  /\ sweeper' = [sweeper EXCEPT !.pc = "mark"]
  /\ UNCHANGED <<deposit, linked, mainQ, conn, faults, treasuryQ, dead, router>>

\* 4. One transaction merges and transfers exactly the coins found.
SponsoredSweep ==
  /\ sweeper.pc = "exec"
  /\ \A t \in sweeper.coins : coin[t] = "wallet"
  /\ coin' = Moved(sweeper.coins, "treasury")
  /\ sweeper' = [sweeper EXCEPT !.pc = "mark"]
  /\ UNCHANGED <<deposit, linked, mainQ, conn, faults, treasuryQ, dead, router>>

\* A coin found in step 3 was spent meanwhile: its version is stale and the
\* transaction is refused.
SweepRefused ==
  /\ sweeper.pc = "exec"
  /\ \E t \in sweeper.coins : coin[t] # "wallet"
  /\ SweepFailed
  /\ UNCHANGED <<ledgerVars, router>>

\* The transaction lands but its answer is lost.
SweepReplyLost ==
  /\ sweeper.pc = "exec"
  /\ \A t \in sweeper.coins : coin[t] = "wallet"
  /\ Fault
  /\ coin' = Moved(sweeper.coins, "treasury")
  /\ SweepFailed
  /\ UNCHANGED <<deposit, linked, mainQ, conn, router>>

\* A database or RPC call fails with no effect, before or after the transfer.
SweepStepFails ==
  /\ sweeper.pc \in {"lookup", "coins", "exec", "mark"}
  /\ Fault
  /\ SweepFailed
  /\ UNCHANGED <<coin, deposit, linked, mainQ, conn, router>>

\* Mutant: the UPDATE is by wallet instead of by deposit id.
MarkWalletSwept ==
  /\ sweeper.pc = "mark"
  /\ deposit' = [t \in Txs |-> IF t \in linked /\ OrderOf[t] = OrderOf[sweeper.tx]
                               THEN "swept" ELSE deposit[t]]
  /\ sweeper' = [sweeper EXCEPT !.pc = "ack"]
  /\ UNCHANGED <<coin, linked, mainQ, conn, faults, treasuryQ, dead, router>>

\* 5. UPDATE deposits SET status = 'swept' WHERE id = ...
MarkSwept ==
  /\ sweeper.pc = "mark"
  /\ deposit' = [deposit EXCEPT ![sweeper.tx] = "swept"]
  /\ sweeper' = [sweeper EXCEPT !.pc = "ack"]
  /\ UNCHANGED <<coin, linked, mainQ, conn, faults, treasuryQ, dead, router>>

SweeperAck ==
  /\ sweeper.pc = "ack"
  /\ sweeper' = SweeperIdle
  /\ UNCHANGED <<ledgerVars, treasuryQ, dead, router>>

-----------------------------------------------------------------------------
(* What the broker does with the deliveries of a consumer that is gone *)

RouterRequeued == IF router.pc = "idle" THEN mainQ ELSE Put(mainQ, router.tx)

SweeperRequeued ==
  IF sweeper.owned THEN Put(treasuryQ, sweeper.tx) ELSE treasuryQ

\* The connection breaks.  Both delivery channels close and the workers leave
\* their loops for good; the sweeper first ends the sweep it is in.
Disconnect ==
  /\ conn = "up"
  /\ Fault
  /\ conn' = "closed"
  /\ mainQ' = RouterRequeued
  /\ router' = RouterIdle
  /\ treasuryQ' = SweeperRequeued
  /\ sweeper' = [sweeper EXCEPT !.owned = FALSE]
  /\ UNCHANGED <<coin, deposit, linked, dead>>

\* The backend process dies and starts again, with or without a broker.
WorkersRestart ==
  /\ Fault
  /\ conn' \in {"up", "noop"}
  /\ mainQ' = RouterRequeued
  /\ router' = RouterIdle
  /\ treasuryQ' = SweeperRequeued
  /\ sweeper' = SweeperIdle
  /\ UNCHANGED <<coin, deposit, linked, dead>>

-----------------------------------------------------------------------------
SweepStep ==
  \/ LookupOrder \/ GetUSDCObjectIDs \/ SponsoredSweep \/ SweepRefused
  \/ MarkSwept \/ SweeperAck

RouterStep == RouteToChainQueue \/ RouterAck

TreasuryFault ==
  \/ RouteFails \/ SweepReplyLost \/ SweepStepFails \/ Disconnect
  \/ \E t \in Txs : MessageExpires(t)

TreasuryNext ==
  \/ \E t \in Txs : RouterReceive(t) \/ SweeperReceive(t)
  \/ RouterStep
  \/ SweepStep
  \/ TreasuryFault
=============================================================================
