------------------------------- MODULE Ledger -------------------------------
(***************************************************************************)
(* The state that the services of the payment platform share: the coins on *)
(* the Sui chain, the deposits table in Postgres, the main order queue in  *)
(* RabbitMQ and the backend's connection to that broker.  Intake, Treasury *)
(* and Refunds extend this module and add the state of one service each.   *)
(***************************************************************************)
EXTENDS Naturals, FiniteSets

CONSTANTS
  Txs,        \* on-chain USDC transfers the indexer may see
  Orders,     \* pending orders; each owns one temporary wallet
  NoOrder,    \* "the transfer pays no order's wallet" (a merchant's own address)
  HashOf,     \* the on-chain transaction that a transfer is part of
  OrderOf,    \* the order whose temporary wallet a transfer pays
  ChainOf,    \* the network a transfer is on, as ParseChain reads it
  Registered, \* transfers to an address of an active business
  MaxFaults   \* bound on crashes, lost replies, failed calls, timeouts

Chains == {"sui", "solana", "base"}

ASSUME LedgerAssumption ==
  /\ NoOrder \notin Orders
  /\ DOMAIN HashOf = Txs
  /\ OrderOf \in [Txs -> Orders \cup {NoOrder}]
  /\ ChainOf \in [Txs -> Chains \cup {"unsupported"}]
  /\ Registered \subseteq Txs
  /\ MaxFaults \in Nat

VARIABLES
  coin,       \* where the coin of each transfer is
  deposit,    \* deposits.status of the row a transfer made ("none": no row)
  linked,     \* transfers whose row has a pending_order_id
  mainQ,      \* copies of each order message ready in b2b-order-queue
  conn,       \* the backend's broker connection
  faults      \* faults spent so far

ledgerVars == <<coin, deposit, linked, mainQ, conn, faults>>

Places == {"unpaid", "wallet", "treasury", "customer"}

DepositStatus ==
  {"none", "received", "pending_order_validation", "amount_validated",
   "mismatch_detected", "swept", "refunded"}

\* "noop": the broker was down at start-up, NoopPublisher is in use;
\* "closed": the connection broke, and nothing in the code dials again.
ConnStates == {"up", "closed", "noop"}

LedgerTypeOK ==
  /\ coin \in [Txs -> Places]
  /\ deposit \in [Txs -> DepositStatus]
  /\ linked \in SUBSET Txs
  /\ mainQ \in [Txs -> Nat]
  /\ conn \in ConnStates
  /\ faults \in 0..MaxFaults

\* A service call that fails, a crash or a timeout; every one is counted.
Fault ==
  /\ faults < MaxFaults
  /\ faults' = faults + 1

\* One more (one less) copy of t's message in queue q.
Put(q, t) == [q EXCEPT ![t] = @ + 1]
Take(q, t) == [q EXCEPT ![t] = @ - 1]

Stored(t) == deposit[t] # "none"

\* deposits has a row with t's tx_hash, which is UNIQUE: a transaction that
\* makes several transfers still has one row.
Known(t) == \E u \in Txs : HashOf[u] = HashOf[t] /\ Stored(u)

\* The USDC coins a temporary wallet holds (GetUSDCObjectIDs).  The code reads one
\* page from one node and follows no cursor: the set is exact for a wallet whose
\* coins fit a page and a node that is up to date, as is supposed here.
WalletCoins(o) == {t \in Txs : coin[t] = "wallet" /\ OrderOf[t] = o}

\* The effect of a SponsoredSweep of the coins S that lands on chain.
Moved(S, place) == [t \in Txs |-> IF t \in S THEN place ELSE coin[t]]

LedgerInit ==
  /\ coin = [t \in Txs |-> "unpaid"]
  /\ deposit = [t \in Txs |-> "none"]
  /\ linked = {}
  /\ mainQ = [t \in Txs |-> 0]
  /\ conn \in {"up", "noop"}
  /\ faults = 0

\* A customer sends a transfer; nothing stops a second transfer to the same
\* temporary wallet, or one after the order expired.
Pay(t) ==
  /\ coin[t] = "unpaid"
  /\ coin' = [coin EXCEPT ![t] = "wallet"]
  /\ UNCHANGED <<deposit, linked, mainQ, conn, faults>>
=============================================================================
