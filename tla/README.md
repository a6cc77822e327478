# LinqB2B in TLA+

LinqB2B lets a merchant take USDC payments on Sui, Solana and Base. An indexer
follows the chains and reports transfers to known addresses; a dispatcher hands
each of them to the merchant backend as a webhook; the backend records it, puts an
order message in RabbitMQ, and its workers empty the customer's temporary wallet
into the merchant's treasury, or return the money when the amount is wrong.

This directory holds TLA+ models of the parts where these steps meet each other,
fail and are repeated; TLC configurations that check the models on small instances;
and proofs, checked by TLAPS, of the results that matter most. Paths below are
relative to the repository's root unless a directory is named.

To repeat the work, in this directory:

    tlc -workers 2 -config pipeline.cfg MCPipeline.tla   # one run
    tlapm Pipeline_proofs.tla                              # the proofs of one module

## 1. The system

### 1.1 Components

| Component | State | Operations | Talks to |
|---|---|---|---|
| Regular worker (`indexer/internal/worker/regular.go`) | `currentBlock`; `latest_block` and block hashes in the KV store | choose the start block, fetch a batch, emit, jump over a lag, handle a reorganisation, save, stop | RPC nodes, KV store, emitter, failed-block list |
| Catchup worker (`catchup.go`) | ranges in memory; `catchup_progress` in the KV store | load or compute ranges, work through them, save progress, complete | as above |
| Rescanner (`rescanner.go`, `pkg/store/blockstore/store.go`) | retry counts in memory, `failedChan`, pending saves and removes; `failed_blocks` in the KV store | collect failed blocks, fetch again, count, give up, flush | workers through the channel and the list |
| Manual worker (`manual.go`, `missingblockstore`) | missing ranges and claims in Redis | claim, process, release | Redis, emitter |
| EVM indexer (`indexer/internal/indexer/evm.go`, `rpc/evm`) | none between calls | fetch raw blocks, token logs, receipts and traces, extract transfers | RPC nodes through the failover, regular worker |
| Sui indexer (`indexer/internal/indexer/sui.go`, `rpc/sui/client.go`) | the subscription's height and last checkpoints, in one client | follow the subscription, fetch a batch of checkpoints at once | RPC nodes through the failover, regular worker |
| Mempool worker, manager, factory | pending Bitcoin transactions; the set of workers | start-up wiring | all workers |
| RPC failover (`indexer/internal/rpc/failover.go`) | health and blacklist time of each provider | choose, report failure, recover | RPC nodes |
| Bloom filter (`bloom_sync.go`, `addressbloomfilter`) | set of known addresses | add, test, periodic synchronisation from Postgres | workers, Postgres |
| Event stream (`pkg/infra/message_queue.go`, `events/emitter.go`) | JetStream work queue, 10 KB, discard old, dedup by message id | publish, fetch, ack, nak | workers, dispatcher |
| Dispatcher (`indexer/internal/b2b/handler.go`) | the event in hand and its attempt | fetch one, look the address up, post with retries, ack or nak | stream, Postgres, webhook |
| Webhook handler (`backend/internal/webhook/handler.go`) | `deposits` in Postgres | existence check, insert linked to a live order, publish an order | dispatcher, Postgres, RabbitMQ |
| Order queue (`backend/internal/queue`) | durable queues, dead-letter queues, one connection | publish, deliver, ack, nack, expire | handler, workers |
| Order worker (`workers/b2b_order_worker.go`) | the delivery in hand | forward to the queue of the chain | RabbitMQ |
| Sui treasury worker (`workers/b2b_sui_treasury_worker.go`, `sui/sweep.go`) | the delivery, attempts per delivery tag | look up, read coins, sponsored transfer, mark swept | RabbitMQ, Postgres, Sui |
| Solana and Base treasury workers | none | placeholders without a consumer | - |
| Validator (`worker/validator.go`) | the batch in hand; `deposits`, `refunds` | compare amounts, validate or queue a refund | Postgres |
| Sui refund worker (`worker/sui_refund.go`) | the batch in hand; `refunds` | read coins, return them, mark | Postgres, Sui |
| Order service (`order/service.go`) | `pending_orders`, temporary wallets | create with a one-hour deadline | Postgres |
| Registration and onboarding (`merchant/service.go`, `indexer/internal/onboarding`) | `businesses` with derivation indices, `wallet_addresses`, `merchants` | register (backend), onboard (indexer), derive and store addresses | Postgres, read by the Bloom filter and the dispatcher |
| Read APIs, payment links, settlements, login, front ends, crypto | rows of their own | queries, single inserts | Postgres |

### 1.2 What is hard, and what being correct means

**Pipeline** (stream, dispatcher, handler, queues, treasury worker). Nothing here is
exactly-once: JetStream redelivers, the dispatcher retries after a timeout while the
first request is still running, a publish can fail after its row was written, RabbitMQ
redelivers what was not acked, and one wallet can receive several transfers, so that a
sweep for one deposit takes the coins of another. Correct means: an acknowledged event
has a row; a row marked `swept` has its coin in the treasury; wallets of nobody's order
are left alone; a stored deposit does not drop out of every queue; a payment that can
be swept is.

**Settlement** (validator, refund worker, treasury worker). Three pollers act on the
same wallet and the same row with no lock between them, in several processes, while
customers pay to the wallet when they like. Correct means: the books claim no more than
the chain did, no coin pays for two refunds, a queued refund ends.

**Walking the chain** (regular and catchup worker). A cursor, a set of ranges and
their progress are saved at different moments, nodes answer with heads that differ, and
the process may die anywhere. Correct means: a block behind the cursor was emitted, is on
the failed-block list or is in a saved range.

**Failed blocks** (workers, rescanner, flush loop). One list is read, changed and
written back by several goroutines with no lock. Correct means: a block that failed is
kept somewhere until it is fetched or given up.

**Reorganisation** (regular worker on EVM and Bitcoin). The chain may replace its last
blocks between any two answers of one batch. Only the hash of a batch's last block is
kept, and the check happens when the next block comes. Correct means: the block of the
winning branch is emitted at every height, however the fork falls.

**Missing blocks** (manual workers of several processes, one sorted set in Redis). A claim
is a key that expires and names no owner. Correct means: what an operator asked for is
done, whatever is merged, split, claimed and lost meanwhile.

**Failover** (all goroutines of a chain, one pool). The index of the current provider is
read without a lock on what follows, and a provider is looked at and recovered under two
locks. Correct means: a call reaches a provider that works when there is one, and the pool
settles on it.

**EVM fetching** (one call, several nodes). A block is put together from five kinds of
requests, each answered by whichever node the failover picks; nodes lag, answer null, fail,
and the failure of most requests is only logged. Correct means: a transfer is lost only if
a request that it depends on went wrong, and the worker reaches the head.

**Sui fetching** (one client with a subscription, others without). The height and the
checkpoints that a subscription brought answer in place of the node, while it breaks, skips
what was made meanwhile, or delivers a cursor without contents. Correct means: no checkpoint is
passed over without its contents, the buffer stays small, and the worker reaches the head.

**Addresses** (backend, onboarding, Bloom filter). Two services pick the next derivation
index in two ways, with no lock; one saves row by row. The filter follows the table by
time stamps that are set before the row can be seen. Correct means: no two businesses
share an address, and every address in the table is watched soon.

`PROJECT.json` lists each hazard with its line and the properties that watch it. A hazard
without a property has a note: mostly the code does go wrong there, the properties of that part
excuse it, and section 6 says what is lost.

## 2. The modules

| Module | Models |
|---|---|
| `Ledger` | The state services share: coins on chain, `deposits`, the main order queue, the broker connection, the budget of faults |
| `Intake` | Event stream, dispatcher, webhook handler |
| `Treasury` | Order worker, Sui treasury worker, what the broker does with unacked deliveries |
| `Custody` | Abstract: what the pipeline promises about money |
| `Pipeline` | `Intake` and `Treasury` composed in one backend process; properties; the inductive invariant |
| `Pipeline_proofs` | The theorems about `Pipeline` |
| `Refunds` | Validator and refund worker |
| `Settlement` | `Treasury` and `Refunds` composed, with several backend processes |
| `Scan` | Regular and catchup worker of one chain |
| `FailedBlocks` | Failed-block list, rescanner, flush loop |
| `Reorg` | Regular worker on a chain that replaces its last blocks: parent check, single-block recovery, rollback, flushed hashes |
| `MissingBlocks` | Missing ranges in Redis and the manual workers that share them |
| `Failover` | Provider pool of one chain and its concurrent callers |
| `Registration` | Registering at the backend, onboarding at the indexer, the wallet of an order |
| `AddressWatch` | `Registration` composed with the Bloom filter and its synchronisation |
| `EvmFetch` | `GetBlocks` of the EVM indexer over nodes of different heights, and how the regular worker takes its results |
| `SuiFetch` | The Sui client's subscription, `GetBlock` and `GetBlocks` of the Sui indexer over nodes of different heights |
| `Indexers` | `EvmFetch` and `SuiFetch`: an indexer process started for one chain of either type |
| `Scan_proofs` | The theorems about `Scan`, and about the two lists in which a walk leaves blocks, `FailedBlocks` and `MissingBlocks` |
| `Settlement_proofs`, `Reorg_proofs`, `Failover_proofs`, `AddressWatch_proofs`, `Indexers_proofs` | The theorems about these modules |
| `Extrema` | Lemmas on least and greatest numbers, for the proofs |
| `MC...` | Instances for TLC |

`Ledger` is extended by the three service modules, so that a composition is a
disjunction in which the modules that do not take a step leave their own variables
unchanged. `Pipeline` and `Settlement` state crash actions of their own, because a
crash hits every component of a process together.

### 2.1 How state and actions correspond to the code

*Transfers.* A transfer, its event, its deposit and its order message are all named by
one element of `Txs`: each of them carries the same transaction hash and address. `HashOf`
says which on-chain transaction made the transfer; the handler's key is that hash alone.
Amounts exist only in `Refunds`, as exact, over and under.

*Dispatcher.* `disp` is the goroutine that runs `Fetch(1)` and `processMessage`:
`post` is the top of the retry loop, `wait` is `client.Do`. `ClientTimeout` moves on
while the request keeps running, as the handler of an HTTP server does when its client
hangs up; that request is then `Cancelled`, and its queries may fail for free.

*Handler.* Each request walks `exists -> insert -> publish -> ok/fail`, one step per
call to Postgres or RabbitMQ. Two requests for one event interleave freely. A conflict
on `tx_hash` returns no row, which the code reports as "merchant not found":
`InsertConflict`. `InsertReplyLost` is a committed insert whose caller sees an error.

*Queues.* A queue is a count of copies of each message. Order within a queue is left
out: requeued and redelivered messages change places anyway, and TLC then explores every
order. `publishToChainQueue` before the ack is two steps, `RouteToChainQueue` and
`RouterAck`.

*Treasury worker.* One step for each call of `executeSweep`: `LookupOrder` (deposit and
wallet key), `GetUSDCObjectIDs`, `SponsoredSweep`, `MarkSwept`, then the ack. Every error
goes to `SweepFailed`, as in the code, where permanent errors are not told apart.
Coin objects have versions on Sui, so a transaction with a coin that was spent
meanwhile is refused (`SweepRefused`). `owned` says whether the broker still waits for
this delivery: after a closed channel the sweep runs on, but its ack has no effect.

*Broker connection.* `closed` is final until a restart, since nothing dials again;
`noop` is `NoopPublisher`, chosen at start-up when the broker is down.

*Faults.* A crash, a timeout, a lost reply, a failed call or a message that expires
costs one unit of `MaxFaults`, so a run explores every placement of that many faults.

*Validator and refund worker.* `batch` and `refunder.todo` are what the worker read
before it began to act; the row locks of `FOR UPDATE SKIP LOCKED` ended with the query.
`Settlement` starts with deposits (`Early`) in the schema's default status `received`, their
messages in the queue of their chain. The webhook handler of this commit never writes that
status (section 6), so this module checks the two workers on the rows that they were written
for. Any other transfer may be paid later (`Pay`); if the webhook hears of it, which takes an
indexer that still watches the wallet, it is stored as the handler does, linked or not, and
published (`RecordDeposit`; `Pipeline` has the steps of this one). The bound counts it as a
fault. What a validator tells apart of an amount is whether it is the order's.

*Coins of a wallet.* `WalletCoins` is what the wallet holds. `GetUSDCObjectIDs`
(`sui/wallet.go:17`) asks one node for one page and follows no cursor, so it is exact for a
wallet of at most a page of coins and a node that is up to date; a sweep of a wallet beyond
that moves some of the coins, and a node behind refuses the sweep or hides a coin. Neither
is in the models.

*Scan.* `regular.cur` is `currentBlock`, `latest` the saved cursor, `ranges` the saved
catchup ranges, `work` the ranges in the catchup worker's hands. A batch is one step: a
crash inside it differs only in which of its blocks are emitted twice. In one batch each
block is fetched or not, and each fetched block is published or lost (`lost`, the ignored
error of the emitter). Where `GetBlocks` fails as a whole the possible outcomes are a
subset of these (`AllOrNothing`). The two steps of `SkipAhead` and `SaveLatest` are apart
because a crash can come between them. `Seen` is the head as reported by whichever node
answers. `Stop` saves `currentBlock` while the loop may still be inside a batch and save
its own result afterwards. `Scan` ends where a block is handed to the failed-block list;
`FailedBlocks` begins there. A slot of Solana without a block is a fetched block that holds
nothing. The catchup worker takes a slot that the answering node lacks for such a one
(`catchup.go:283`): in the model, a success in `ok` that nobody handled, counted in `lost`.

*FailedBlocks.* Every read-modify-write of the list is two steps, with the stale copy in
`read`. `Unlocked` is `batchMu`. `AddFailedBlock` is the channel's listener. `ResultNotFound`
is the answer that makes the rescanner drop a slot of Solana (`rescanner.go:200`). A clean stop
is a flush and then `RescannerCrash`; the inline flush of a full batch is a flush at that moment.

*Reorg.* A block is its height and the fork that made it; its parent follows from the
chain at the moment of the answer. `FetchInBatch` is one answer of `GetBlocks`, so `Fork`
may come between two. `Detected` compares with the recorded hash, `Fits` adds the check
against the block before. `RollbackUnsaved` is the rollback whose `SaveLatestBlock`
fails after the hashes were cleared: by a fault, or always where it would go back to block 1,
since `SaveLatestBlock` refuses the 0 before it (`CanSave`). `base` is the first block since which the walk has
had no gap: blocks that a lag jump or a restart hands to the catchup worker are not
checked against their parents by anyone. Every publish succeeds here, and there is one
view of the chain; `Scan` has failed publishes, lagging nodes and late writes.

*MissingBlocks.* A Lua script is one step; the commands of `RemoveRange`'s pipeline are
two, since the pipeline is no transaction. `claimed` is the set of ranges with a
`processing:` key; an expired key is just gone. `owed` are the blocks asked for and not
handled since. A block counts as handled if it is asked for again while a worker has just
fetched it.

*Failover.* Every lock that the code takes is a step of its own. `pc` follows a call through
`GetBestProvider`: `read` (the index is copied), `recover` and `recovering` (each provider in
turn is found to be expired, and then recovered), `check` (the copied provider is looked at),
`search` (the pool's lock is awaited), `scan` (the search, one provider at a time),
`emergency` (the blacklisted ones are collected) and `rescue` under that lock, `request`.
`ExecuteWithRetryProvider` begins with `GetAvailableProviders` (`gather`, `gathering`,
`collect`, under the lock shared) and goes on at `begin`; after an error it passes `review`. `why` says what `GetBestProvider` was called for. Time is not modelled: a
cooldown ends at any moment.

*EvmFetch.* `call.stage` follows `fetchBlocks`: `raw`, `fetch` (the blocks that did not
come, beside the log query), `receipts`, `traces`, `built`. The answers to the requests of
one stage are taken in one step; the log query and the repeated blocks, which run beside
each other, are two. A raw block is the real one, the empty struct that a null answer
parses into, or none: `BatchGetBlocksByNumber` drops a null, `GetBlockByNumber` does not
notice it. Neither does `DebugTraceTransaction`: `hollow` are the traces that came as null
from a node without the block and were kept as traces without calls. Sequential receipts are
asked for in batches, each answered by a node of its own. `tick` holds the locals of `processRegularBlocks`; `attempt` is 0 for the batch
and counts the attempts of `recoverRegularBlock`. A transaction is its block and the kind
of transfer it makes, since the kind decides which requests it depends on. `met` records,
for the call whose block was accepted, what went wrong for which transaction; no step of
the code reads it.

*SuiFetch and Indexers.* `stream` is the state under `streamMu`, with `last` for what the
open subscription has delivered; a subscription starts behind the node's head of that moment.
`Receive(full)` is one message, with a checkpoint or with its cursor alone. `results` says
where each goroutine of `GetBlocksByNumbers` is; the semaphore, which only keeps some of them
from running at once, is left out. `GetBlock` retries once when the checkpoint is not found
although some head says that it exists; any other failure is final for the call, and one
failure fails the batch. What the transactions of a checkpoint say, and their status, is left
out. Workers of different chains share no state of these modules, so `Indexers` chooses one
chain at the start, as an operator does with `--chains`, and asks of both what they have in
common.

*Registration and AddressWatch.* Each request of `Register`, `HandleOnboard` and
`CreatePendingOrder` is a process that makes one step for each statement. Where a
transaction decides is its commit: an insert waits for another transaction with the same
key, so a conflict may be found there. The unique indexes are those of
`indexer/sql/business.sql`. `at` is `created_at`, set before the commit. `late` holds
addresses whose row appeared when the overlap had gone by.

## 3. The runs

| Run | Module and instance | Asks |
|---|---|---|
| `pipeline` | two transfers to one order's wallet, 2 requests, 1 fault, fair | `TypeOK`, `SweptIsInTreasury`, `CopiesNeedRedelivery`, `QueuedIsStored`, `QueuedIsSwept`, refinement `CustodySpec` |
| `pipeline_mixed` | three transfers: to a live or expired order, to a merchant's address on a chain without a treasury worker, to an unregistered address; stream of one event, which a second one evicts, 1 fault | `AckedIsStored`, `ForgottenNeedsFault`, `SweepsOnlyLinkedWallets` |
| `settlement` | one deposit of any amount and a later top-up of the same wallet, stored or not; 2 processes, 1 fault, fair | `TypeOK`, `BooksMatchChain`, `RefundedOnce`, `PendingRefundEnds` |
| `scan_restart` | 4 blocks, batches of 2, lag limit 2, node lag 1, one crash or stop, one failed publish, fair | `TypeOK`, `SkipsAreBounded`, `CursorAdvances`, `RangesEnd` |
| `rescan` | two failing blocks, 2 retries, channel of 1, one crash | `FailedTypeOK`, `ForgottenNeedsCrash` |
| `reorg` | 4 blocks, 2 forks of depth 2, batches of 2, window 1, 1 fault, fair | `TypeOK`, `NoForkMissed`, `ForksAreRepaired` |
| `missing` | 4 blocks, ranges of 3, 2 workers, 2 additions, 1 crash, fair | `MissingTypeOK`, `OwedIsListed`, `SharedNeedsExpiry`, `ListedIsDone` |
| `failover` | 2 providers of which 1 fails, 2 callers, 2 attempts, 1 fault, fair | `TypeOK`, `FailsForAReason`, `SettlesOnGood` |
| `addresses` | 2 names, an order, 2 concurrent requests, 2 networks, a clock of one tick, 1 fault, 1 restart, fair | `TypeOK`, `IndicesDense`, `HandedIsOwn`, `PositionBehindRows`, `FilterCatchesUp` |
| `indexers` | an EVM chain: 3 blocks with transfers of every kind, batches of 2, two nodes, trace providers that come and go, 1 failed request; or a Sui chain: 3 checkpoints, batches of 2, two nodes, a buffer of 1, 1 failed request or broken subscription; fair | `TypesOK`, `LossOnEvmHasCause`, `NoTransferMissed`, `BufferIsBounded`, `HeadIsReached` |
| `pipeline_retry_bound` | fair, no fault | violated: `SweepRetriesEnd` |
| `pipeline_batch` | one on-chain transaction with two transfers | violated: `EveryTransferIsRecorded` |

### 3.1 What the passing runs show

`SweptIsInTreasury` and `CustodySpec`: a second transfer may reach the wallet before,
during or after the first sweep; the transfer may land with its answer lost; messages
come twice. In all of it, a row is marked swept only when its own coin arrived. The
converse does not hold: after a lost answer, or a top-up taken by an earlier sweep, the
coin is in the treasury and the row stays unmarked.

`CopiesNeedRedelivery`: two overlapping requests for one event publish one order
message. The unique key decides, because the loser of the insert does not publish.

`AckedIsStored`: an acknowledged event of a registered address has a row for its
transaction, whatever the order of timeouts, retries and late answers.

`ForgottenNeedsFault`: without any fault, every stored, unswept deposit is in some queue
or somebody's hands. With one fault it may be in none: insert, failed publish, and the
retry is answered 200 since the row exists. `NoopPublisher` does the same with no fault.

`SweepsOnlyLinkedWallets`: only wallets of orders that were live when a payment was
recorded are emptied; late payments and merchant addresses are left alone.

`QueuedIsStored`, `QueuedIsSwept`: see the fairness below.

`BooksMatchChain`, `RefundedOnce`, `PendingRefundEnds`: the sweep and any number of
refunds may have read the same coins; the chain admits one of them and the others mark
their rows as failed. A worker finds the coins of a wallet, whichever transfer brought them,
and books the deposit whose message or refund it had in hand, so with a top-up the books are
not right row by row: the first transfer is swept while its refund is queued, the second is
paid into the empty wallet, and the refund of the first returns the coins of the second. What
the code does keep is the count, order by order: no more deposits are `swept` than coins of
the order are in the treasury, no more are `refunded`, and no more refunds `completed`, than
coins of it went back. For an order that gets one transfer this is row by row.

`SkipsAreBounded`: the only ways to pass over a block are a clean stop, a failed
publish, and in the catchup of Solana a slot taken for a skipped one, at most one block each. Crashes, lagging nodes, lag jumps, failed fetches,
overlapping and overwritten ranges cost none. With `from_latest` a start gives up what came
before it on purpose, so the property is stated for a configuration without it.

`CursorAdvances`, `RangesEnd`: the cursor gets past each block of the chain, on foot or
by a jump, and a range in hand is worked through whichever of its blocks cannot be
fetched.

`ForgottenNeedsCrash`: the list does lose additions (two goroutines overwrite each
other), but the same block is then in the channel or the rescanner's memory, and is
saved again. It is gone only if a crash or a full channel comes on top. A block that the
rescanner dropped itself is given up and not forgotten.

`NoForkMissed`, `ForksAreRepaired`: one recorded hash per batch is enough, because inside
a batch each block is checked against the one before, and because the window is at least
as long as a fork (`ReorgAssumption`). When an old block is still the emitted one, the
next parent check is sure to notice, also if the chain forks again while the worker
recovers or rolls back. The one way to miss a fork is a rollback whose save fails, which it
always does for a fork within the first `Window + 1` blocks. `ForksAreRepaired` excuses at the
end of the bounded chain only a fork that `Pending` still shows.

`OwedIsListed`: merging may take a range away from under the worker that has it, and a
late worker may delete the claim or the range of another; the blocks asked for are then in
another range or already handled. `SharedNeedsExpiry`: two workers do one range only when
a claim ran out under its owner. `ListedIsDone`: a dead worker's claim runs out, and a
range whose last block keeps failing does not hold up the others.

`FailsForAReason`: a call has more attempts than there are bad providers, and each of these
is tried at most once: the shared index moves under the caller, and yet no attempt goes to a
provider that is out of service. It fails only if during the call a provider was put back (a
late success, an uncounted error, a cooldown, a recovery decided on a check that was out of
date) or the working one failed. The last of these reasons is one the code could do without
(section 6): without it among the excuses TLC finds the property violated. `SettlesOnGood`: once the faults are over
every caller succeeds again and again, whatever emergency recovery did to the index.

`IndicesDense`: `COUNT` and `MAX + 1` agree, whichever of the services wrote the rows and
whatever requests died; a gap would make every further onboarding collide.
`HandedIsOwn`: an address in an onboarding's answer belongs to nobody else. It rests on
the unique index on `derivation_index` (section 6).

`PositionBehindRows`: no row that became visible within the overlap is ever behind the
synchronisation's position. `FilterCatchesUp`: as long as rows do not fill a whole batch
within one overlap, every address becomes watched.

`LossOnEvmHasCause`: a transfer in a block that the worker moved past was emitted, unless one of
the requests that its own kind depends on went wrong in the very call whose block was
accepted: a native transfer needs its receipt, a token's also the log query (without
traces), an internal one its trace, and a Safe's may be lost to a trace that came as null,
but not to one that did not come. Trouble with one kind costs no other, and no earlier call
counts. What the property allows is in section 6: the causes `empty`, `hollow` and
`unlogged` need no failed request. `HeadIsReached`: null and missing blocks, exhausted
attempts and broken batches hold the worker up for a while only. On Sui neither does a
subscription that broke and never delivers again, even if every request goes to its client:
its height is no longer taken for the head.

`NoTransferMissed`: what the worker emits for a checkpoint came with its contents, whether from
the buffer, from a node, or from the second request. `BufferIsBounded`: a subscription that
skips checkpoints or starts anew leaves nothing behind that the pruning misses.

### 3.2 What the violated runs show

- `SweepRetriesEnd`: the treasury worker's comment says that after three failures a
  message goes to the dead-letter queue. The attempts are counted per delivery tag, which
  is new at each delivery: the message is requeued for ever.
- `EveryTransferIsRecorded`: the schema says that `deposits` has every confirmed transfer.
  The second transfer of one on-chain transaction is answered as a duplicate, acked and not
  recorded.

### 3.3 Bounds

| Bound | Value | Why it is enough for the question |
|---|---|---|
| `Txs` | 2, in mixed 3 | The wallet is the only thing two transfers share, and a row's key the only thing two transfers of one transaction share; two show both. Mixed adds one of each kind. |
| `Reqs` | 2 | The dispatcher is sequential: one current request and one abandoned one are the race; a third would only repeat the loser's path. |
| `MaxAttempts` | 2 (5 in the code) | First and last attempt; those between behave as the first. |
| `StreamCapacity` | 1 or 2 | Full with one event waiting, and never full. |
| `MaxSweepAttempts` | 3 | The code's value. |
| `MaxFaults` | 0 or 1 | 0 for runs that must not need a fault; with 1, TLC places it anywhere. The second fault, which meets the recovery from the first, was run by hand (below). |
| `Backends`, `RefundIds` | 2 | Two processes that read the same rows; two refunds for one deposit. |
| `MaxBlock` 4, `BatchSize` 2, `MaxLag` 2, `MaxRange` 2 | | A full batch, a cut-off batch, a lag jump and a gap of more than one range all fit; overlapping ranges occur. |
| `StartOffset`, `NodeLag` | 1 | The restart near the head and a head behind an earlier one both occur. |
| `MaxRestarts`, `MaxLost` | 1 | Each is checked to cost at most one block. |
| `MaxBlock` 4, `MaxForks` 2, `MaxDepth` 2, `Window` 1 in reorg | | Forks that cut a batch, that go back over a batch's end, and a second one during the recovery from the first; the window is the smallest that the assumption allows. A rollback can be saved from block 4 on, and two in a row do occur without a fault. |
| `MaxHeight` 4, `MaxBlocksPerRange` 3, `MaxAdds` 2, two workers in missing | | A range that is split, two that overlap or touch, and one merged away under its owner. |
| `NumProviders` 2, `MaxAttempts` 2 (3 in the code), `ErrorThreshold` 3, two callers | | The second caller moves the index under the first, blacklists and recovers between its reads, and both are in emergency. One bad provider and two attempts leave none to spare, so that one provider put back unnoticed would break `FailsForAReason`, as two bad ones and the code's three do in the larger instance below. |
| two names, `Clients` 2, `MaxClock` 1, `Overlap` 1, `BatchSize` 2 in addresses | | Two requests that read one index; a row inside and one outside the overlap; a full batch. |
| `Top` 3, `Batch` 2, `Attempts` 2 (the code's value), two nodes, `MaxFaults` 1 in indexers | | A full batch, a cut-off one, recovery in the middle and at the first block, a node behind the one that reported the head at every stage; every kind of transfer occurs. One request that fails on all nodes, at any point; lagging answers are free. |
| `BufferSize` 1 (100 in the code) | | Three checkpoints fill it, and the oldest goes. |
| `Failing` 2, `MaxRetries` 2, `ChanCap` 1, `MaxCrashes` 1 in rescan | | Two blocks so that one addition can overwrite another; the channel is full with one. |

Larger instances were run by hand and hold as well: the pipeline's safety with two faults
(1.8 million states), `Reorg`'s safety with two faults on five blocks (4.1 million) and with
six blocks (3.1 million), and its liveness with five (896,560),
`MissingBlocks`' with three additions (1.2 million), `Failover` with three attempts (186,175
states, liveness too) and its safety with three providers of which two fail and three attempts
(1,062,714 states),
`AddressWatch`'s safety with two ticks (11 million); `Scan`'s safety with five blocks, two
restarts and ranges of three (5.3 million states), `FailedBlocks` with a channel of two
(12.9 million states). The inductive invariants of the proofs were run as invariants before they
were proved: `IInv` of the pipeline, `Inv` of `Reorg_proofs` with two faults (891,282
states), `Inv` of `Failover_proofs` with two and with three providers, `Inv` of
`Indexers_proofs` in the instance of `indexers` (465,939 states).

`CHECK_DEADLOCK FALSE` stands where the systems may really
stop: customers pay a finite set of transfers, the chain of `Scan` ends at `MaxBlock`,
the failed blocks are all fetched, and then nobody has anything to do. That this is no
stop halfway is what the liveness properties say.

### 3.4 Fairness

- *Pipeline.* Weak fairness of the dispatcher's loop, of each request's goroutine, of
  the order worker and of the treasury worker's steps: loops and goroutines that are
  never held up by another. Strong fairness, per message, of receiving in the treasury
  worker: a message whose sweep fails goes back to the same queue, and RabbitMQ pushes in
  queue order, so one behind it is handed over in the end. No fairness of payments, expiry
  and faults; the faults are finite, so in the end nothing interrupts the services.
  `QueuedIsSwept` assumes that the connection stays up in the end: a broken one is never
  dialled again.
- *Settlement.* Weak fairness of the refund poller of one process: its ticker keeps firing.
  The other processes and the treasury worker have none, so refunds end whether or not they
  go on.
- *Scan.* Weak fairness of both loops while the process lives, and strong fairness of a
  regular batch that has a success. The latter is an assumption about the nodes: a batch
  asked for again and again succeeds in part in the end. Where `GetBlocks` fails as a whole,
  one checkpoint that no node can serve breaks it, and the cursor stays (section 6). No
  fairness of restarts: a halted process may stay down, which `CursorAdvances` allows.
- *Reorg.* The chain grows, the worker's loop runs, and requests are answered; failures are
  bounded. Forks need no fairness.
- *MissingBlocks.* The workers' loops run, Redis lets keys expire, and if ranges are fetched
  again and again one of the fetches brings its last block (strong: the same assumption
  about the nodes as in `Scan`).
- *Failover.* Callers run, a request is answered or times out, and the cooldown of a
  working provider ends. A bad provider's may never end. Whoever waits for the pool's lock
  gets it in the end (strong): `sync.RWMutex` lets no new reader in while a writer waits.
- *EvmFetch.* The worker's loop runs, requests end, and each node reaches the head in the
  end. Requests that fail on every node are finitely many; trace providers need no fairness.
- *SuiFetch.* The same for the loop, and an open subscription delivers. Fairness is stated for
  one node, `Preferred`, since a failover stays with its provider while nothing fails; it may
  be the streaming client's. A broken subscription need not be opened again.
- *AddressWatch.* The synchronisation is started and its loop runs. No fairness of
  registrations, onboardings, orders or restarts.

## 4. The proofs

Eight modules hold proofs: `Extrema` and seven `..._proofs` modules for the models of
section 2. Every invariant that a run checks is stated by a theorem, and so are the action
properties and the refinement. They hold for every value of the constants. What they assume is
the named assumptions of the models (types of the constants, "none" values outside the sets,
bounds that are positive, finitely many transfers and refunds in `Settlement`), for
`ForksNoticed` among them that the window is as long as the deepest fork.

`Scan`, `FailedBlocks` and `MissingBlocks` have no name in common, so that `Scan_proofs` can
extend all three; they share no variable, and each of its theorems speaks of one of them.

| Module | Theorem | Says |
|---|---|---|
| `Pipeline_proofs` | `TypeCorrect` | `Spec => []TypeOK` |
| | `Invariance` | `Spec => []IInv` |
| | `SweptSafe` | `Spec => []SweptIsInTreasury` |
| | `AckedSafe` | `Spec => []AckedIsStored` |
| | `ImplementsCustody` | `Spec => CustodySpec` |
| | `NothingForgotten` | `Spec => []ForgottenNeedsFault` |
| | `OnlyLinkedWalletsSwept` | `Spec => SweepsOnlyLinkedWallets` |
| | `CopiesMadeOnce` | `Spec => CopiesNeedRedelivery` |
| `Settlement_proofs` | `TypeCorrect` | `Spec => []TypeOK` |
| | `RefundedAtMostOnce` | `Spec => []RefundedOnce` |
| | `BooksAgree` | `Spec => []BooksMatchChain` |
| `Scan_proofs` | `TypeCorrect` | `Spec => []TypeOK` |
| | `SkipsStayBounded` | `Spec => []SkipsAreBounded` |
| | `FailedTypeCorrect` | `FailedSpec => []FailedTypeOK` |
| | `NothingForgotten` | `FailedSpec => []ForgottenNeedsCrash` |
| | `MissingTypeCorrect` | `MissingSpec => []MissingTypeOK` |
| | `OwedStaysListed` | `MissingSpec => []OwedIsListed` |
| | `ClaimsExclude` | `MissingSpec => []SharedNeedsExpiry` |
| `Reorg_proofs` | `Invariance` | `Spec => []Inv` |
| | `TypeCorrect` | `Spec => []TypeOK` |
| | `ForksNoticed` | `Spec => []NoForkMissed` |
| `Failover_proofs` | `TypeCorrect` | `Spec => []TypeOK` |
| | `FailuresHaveReasons` | `Spec => []FailsForAReason` |
| `AddressWatch_proofs` | `TypeCorrect` | `Spec => []TypeOK` |
| | `IndicesStayDense` | `Spec => []IndicesDense` |
| | `HandedStaysOwn` | `Spec => []HandedIsOwn` |
| | `PositionStaysBehind` | `Spec => []PositionBehindRows` |
| `Indexers_proofs` | `Invariance` | `StartedSpec => []Inv` |
| | `TypeCorrect` | `StartedSpec => []TypesOK` |
| | `LossExplained` | `StartedSpec => []LossOnEvmHasCause` |
| | `NothingMissed` | `StartedSpec => []NoTransferMissed` |
| | `BufferBounded` | `StartedSpec => []BufferIsBounded` |

### 4.1 Pipeline

Neither `SweptIsInTreasury` nor `AckedIsStored` is inductive. A state in which the worker
is about to mark a row whose coin is still in the wallet satisfies the first and its
successor does not; the same holds for a request about to answer 200 without a row.
`IInv` adds what each holder of a message knows:

- `PaidInv`: a transfer that was seen or stored was paid.
- `DispInv`: the dispatcher's event was on the stream, and the request that it waits for
  serves this event. So a 2xx acknowledges the right event.
- `ReqInv`: a request publishes only what is stored and answers 2xx only to what is known.
- `CarryInv`: every message in a queue or a worker's hands is of a stored deposit.
- `SweepInv`: the coins about to be moved are of the message's own wallet, and the
  message's own coin is among them or already in the treasury; at `mark` it is there.

The delicate case is `SweepInv` at `GetUSDCObjectIDs`: the coins found are all in the
wallet of the order. The message's coin was paid (`CarryInv`, `PaidInv`), so it is in the
wallet, and thus found, or in the treasury.

The proof that a step preserves `IInv` goes by actions. Frame lemmas (`IntakeFrame`,
`TreasuryFrame`) give the conjuncts that a component's steps cannot disturb, and one
lemma for each group of actions gives the rest.

`ImplementsCustody` maps `coin` to `place` and the rows marked `swept` to `booked`. A
payment is `Pay`, a sweep that lands (answered or not) is `Collect`, `MarkSwept` is
`Book` by `SweepInv`, and every other step stutters.

`NothingForgotten` needs `QuietInv`, which says what a run without faults looks like: the
connection is up, the dispatcher has one request at a time (a second one exists only after
a timeout), so that a request that publishes is the one that inserted, and every due
deposit is in a queue or in the hands of the one who holds its message.
`OnlyLinkedWalletsSwept` needs `LinkInv`: messages exist only for linked orders, and links
are never undone. `CopiesMadeOnce` rests on `OnePublisher`: of several requests for one
event at most one publishes.

### 4.2 Settlement

`RefundInv` and `SweepOK` say what the workers have in hand: rows, and for one about to send
a transaction at least one coin, all of the order of its row. `CoinsSuffice` then counts. To
what is booked it adds what is about to be: the deposit of a sweep that has landed (`Sweeps`),
deposits and refunds of workers that have paid (`Returns`, `Payments`). A row joins one of
these sets only in the step in which a transaction takes coins out of the wallet, one row and
at least one coin at a time (`MoveAdds`, `OneForOne`), and coins in the treasury or with the
customer stay there (`CoinsStay`); the bookings themselves, and their loss, add nothing.
Nothing is assumed of what else is paid to the wallet.

### 4.3 Scan and failed blocks

The hard part of `SkipsAreBounded` is that it counts. `Books` says that there is a finite
set `G` of blocks given up, at most as many as stops and failed publishes, such that
everything else below the highest cursor is accounted for (`Accounted(G)`). Each action
either keeps `G` or adds one block for a stop or a lost publish.

`ForgottenNeedsCrash` is proved from `KeptInMemory`: as long as nothing crashed and the
channel never overflowed, each failed block is in memory, in the channel, or in somebody's
hands, whatever the saved list has lost. `DoneIsSettled`: what a pass drops from memory was
fetched or given up.

### 4.4 Missing blocks

`OwedIsListed` needs `DoneIsNotOwed`, since `RemoveRange` drops a whole range: what a worker
has passed is no longer owed. `SharedNeedsExpiry` needs `InHandIsClaimed`. Merging is
treated by the lemmas on `MergedFrom` and `MergedTo`, the ends of a merged range, and those rest on
`Extrema`: a non-empty set of numbers has a least element, a bounded one a greatest.

### 4.5 Failover

`Reasons` counts. In a call that nothing excuses (no provider put back, no working one
failed), each attempt used up put a further faulty provider out of service, and a working
provider that was in service still is (`GoodInService`). With fewer faulty providers than
attempts the call cannot use up all of them. Two things could put a provider back unnoticed.
A stale recovery is charged to every call under way. The emergency recovery is out of reach
(`JustBegun`): the search goes once round under the lock, so while a call without an excuse
is under way either a working provider in service is still before it, or the call began after
the search had passed and has only got as far as waiting for that lock, with no attempt used.
`Exclusive` says that the lock works, and so that one search at a time needs looking at.

### 4.6 Addresses

`RegInv` has the unique indexes as an invariant (`RowsUnique`) and bounds the index that a
request has picked by the rows that it has seen (`PickedInRange`): since indices are dense
and rows never go, a picked index is the next one or taken. `DerivedAreOnboarded` ties
the addresses handed out to the row saved before. `PositionBehindRows` is inductive once
it is known that no row and no position is ahead of the clock.

### 4.7 Reorganisation

`NoForkMissed` speaks of the recorded hash of one block, the last before the cursor. It is
not inductive: after a batch, a rollback or a restart another hash takes that place, and
nothing says that it is as good. `Inv` says it of all of them, and of the tick under way:

- `ChainInv`: versions at one height only grow, so a recorded hash is at most what the chain
  has there now.
- `WalkInv`: where a recorded hash is still the chain's, every block from `base` up to it is
  published as it is now (`Complete`). A fork replaces a suffix, so if it left the recorded
  block alone it left all blocks below alone too. Whatever hashes there are, a block that is
  deeper than a fork reaches is published (`DeepDone`); without a hash, all behind the cursor
  is that deep. This is what a rollback of `Window` blocks relies on.
- `GotInv`: a result is at least as new as what was recorded, and the chain's own where no
  fork reaches. A first result that passes the parent check was answered when the recorded
  block was still its parent, so all before it was published then; what has since become
  too deep for a fork still is.
- `LastInv`: the last block emitted in this tick will be the hash before the cursor, and
  has already what `WalkInv` asks of it.

The longest lemmas are those of `FetchInBatch`, where a fork may come between two answers, and
of the rollback, which trades the hashes it drops for depth.

### 4.8 Indexers

On EVM a transaction goes through the stages of `GetBlocks`. `FetchInv` and `ReceiptInv`
say of each stage that a transaction of the blocks in hand is among what the stage collected,
or something is in `call.trouble` that hides its kind. `TickInv` says that the blocks from
`currentBlock` to the one expected next are emitted or explained, in the batch as in the recovery of
single blocks, and that the call asks for just what is missing. `LossHasCause` follows when a
block is accepted, because its troubles go into `met` at that moment; a hollow trace is noted
when it is kept.

On Sui `StreamInv` says that the subscription is never ahead of its node and that what is
buffered has its contents and is no newer than what came last; `ResultsInv` that no result
lacks its contents and that a batch asks for an interval that begins at the cursor. The bound of the buffer counts an
interval: pruning keeps at most the `BufferSize` numbers before the new one, or all of
a buffer that is small enough. At the start of the chain, where the unsigned subtraction wraps
round, it keeps none.

`Inv` takes one of the two for the chain that was chosen. `StartedSpec` is `FairStarted`
without its fairness.

### 4.9 Only model-checked

The liveness properties: `QueuedIsStored`, `QueuedIsSwept`, `PendingRefundEnds`,
`CursorAdvances`, `RangesEnd`, `ForksAreRepaired`, `ListedIsDone`, `SettlesOnGood`,
`FilterCatchesUp`, `HeadIsReached`. Liveness under fairness is outside what TLAPS proves
here. The two properties of the `violation` runs are refuted by TLC.

## 5. What is not modelled

- *Chain indexers other than EVM's and Sui's, and their RPC clients* (most of the repository's lines by
  hand): parsing of chain data and network I/O. Their result, a transfer or a block that was
  or was not fetched, is an input of the models.
- *Transactions of a Sui checkpoint* (`convertTransactions`, finality): parsing without state.
- *Generated code* (`rpc/sui/rpc/v2/*.pb.go`, the larger half of all lines) and the *web
  front ends*: no behaviour of their own that the other parts depend on.
- *Mempool worker and worker manager*: wiring, and Bitcoin only.
- *Redis variant of the Bloom filter*: only the in-memory one is in `AddressWatch`.
- *Transaction building and gas*: the effect is modelled. The version of the sponsor's
  gas object, which a sweep and a refund may both use, is not; a clash is a fault.
- *HTTP headers, signatures, JSON, Redis writes of the handler*: no shared state that
  another part of the models reads.
- *Keys, read APIs, payment links, settlements, login*: no interaction.
- *Amounts*: float comparison and `rawToUSDC` are abstracted to right or wrong.
- *Several merchants' endpoints*: one backend receives all webhooks, as it is deployed.

The models cover the code that keeps shared state, runs concurrently or recovers from
failure; that is a small share of the lines and most of what can go wrong between parts.

## 6. Further observations

Met while modelling; no run is devoted to them.

- Permanent sweep errors are requeued like all others, where the comment sends them to
  the dead-letter queue (`b2b_sui_treasury_worker.go:29` and `107`).
- Two validators may insert two refunds for one deposit (`validator.go:44`); one of them
  fails when its wallet is found empty. `RefundedOnce` covers the effect.
- A refund of an overpaid order returns the whole wallet, not the stored difference
  (`sui_refund.go:141`, `validator.go:113`).
- The validator updates by id and so overwrites `swept` (`validator.go:100`).
- The outcome of a refund is written by id alone (`sui_refund.go:86` and `93`). When two
  processes picked the same pending row, the one that finds the wallet empty turns
  `completed` into `failed`, where `migration.sql:82` ends a refund in one or the other.
  So `PendingRefundEnds` says that a refund leaves `pending`, not that its outcome stays.
- The Sui configuration sets `from_latest: true` and runs no catchup worker
  (`indexer/configs`, `sui.yaml:6` and `26`), so a restart skips the gap beyond
  `start_offset`. `scan_restart` uses `FALSE`, where the code means to skip nothing.
- The catchup worker ends for good when it finds no range; a range that a lag jump queues
  later waits for a restart. This is why `RangesEnd` speaks of ranges in hand.
- With an all-or-nothing `GetBlocks` (`sui.go:836`), a block that no node can serve holds
  its batch for ever and is not put on the failed-block list.
- Giving up on a failed block is not final: its last failure was just reported to the
  list and the channel, and the next pass begins counting again (`rescanner.go:150`).
- A slot that a Solana node does not have is taken for a skipped one, also when the node
  merely lacks it: `GetBlock` turns null and "ledger jump" errors into no block
  (`rpc/solana/client.go:87` and `100`). The regular worker lists it, but the rescanner then
  takes it off the list (`rescanner.go:200`) and the catchup worker passes it
  (`catchup.go:283`), so its transfers are lost without a retry.
- A block whose event a full channel dropped is on the list only, and is forgotten when a
  flush of the rescanner overwrites the list from a read made before (`base.go:146`,
  `store.go:113`). `ForgottenNeedsCrash` has to allow it.
- A crash between the overwriting of an addition and its next flush loses a failed
  block (`store.go:113`), as `ForgottenNeedsCrash` allows.
- The handler writes `pending_order_validation`, which nothing selects
  (`handler.go:254`), where `ARCHITECTURE.md:70` and the validator's query
  (`validator.go:56`) say `received`. A webhook deposit is never validated nor refunded.
- `Stop` saves the next block where all other saves store the last one done
  (`regular.go:79`), so a clean restart skips one block once the chain has grown by more
  than `start_offset`; `README.indexer.md:30` says "pick up exactly where you left off".
  `SkipsAreBounded` counts it in `stops`.

- The event stream holds 10 KB (`message_queue.go:69`, `MaxBytes` is set from `MaxMsgSize`)
  and discards old events, acknowledged or not: a few events that wait for a slow dispatcher
  are enough to lose one, where `indexer/README.md:364` relies on the durable consumer.
  `QueuedIsStored` has to allow it.

Fetching on EVM chains:

- A null answer to `eth_getBlockByNumber` parses into an empty block without an error
  (`rpc/evm/client.go:76`). A batch drops it, then `fetchMissingBlocksRaw` asks alone, and a
  node that is behind the one that reported the head makes the block a processed one without
  transactions; `TestBuildBlockResults_MissingBlock` (`evm_test.go:579`) expects "block not
  found" for a block that is not there. Only the parent check inside a batch refuses it:
  the first block of a tick has none. The block is on no list afterwards. Cause `empty`.
- A null answer to `debug_traceTransaction` parses into an empty `CallTrace` without an error
  too (`rpc/evm/client.go:161`). It is kept as the trace (`evm.go:703`), no other provider is
  asked, nothing is extracted from it, and because the transaction counts as traced
  (`evm.go:1021`) the Safe's own branch is skipped, which a trace that failed would have
  left to find the payment. Cause `hollow`.
- With traces on, the log query is left out because receipts are fetched for all contract
  calls (comment at `evm.go:587`), but calls of a Safe are excluded there, and the Safe's own
  branch wants plain payments only: a token transfer, or an internal payment, made through a
  Safe is not seen although nothing failed. Cause `unlogged`.
- The log query is answered by one node for the whole batch. If it lags behind the nodes that
  served the blocks, the logs of the last blocks are missing without an error. Cause `logs`.
- `ChunkBySize` takes a size and is given a number of chunks (`evm.go:195`, `254`, `832`): up
  to 20 blocks are asked for one by one, and beyond 400 a batch exceeds its limit.
- The same payment of a Safe is named `trace:n` or `safe:0` depending on whether its trace
  came, so an idempotency key differs between two passes over one block.

Fetching on Sui:

- Neither read mask asks for a checkpoint's `signature` (`rpc/sui/client.go:115` and `228`),
  which `computeSuiFinality` needs (`sui.go:152`). So every payment is reported as `pending`,
  once, and the dispatcher posts it as a confirmed one (`indexer/README.md:270`, `294`).
- `confirmations: 0` is taken for the default of 1 (`sui.go:691`), where the comment
  (`sui.go:50`) and `indexer/README.md:372` tell operators to set it.
- A transfer with an event of its own is reported twice, as `balance:i` and as `event:j`, since
  `uniqueTransactions` includes the index (`sui.go:491`). The webhook handler's key hides it.
- `connect` opens a connection for each request and closes none, and replaces `c.conn` without
  a lock while the goroutines of a batch use it (`rpc/sui/client.go:80`).
- `seq-100` is a difference of unsigned numbers: below 100 it wraps, and the buffer is emptied
  (`rpc/sui/client.go:173`). The nodes are asked instead, so this costs nothing.

Reorganisation:

- The block hashes are cleared before the cursor of a reorganisation is saved; if that
  save fails the reorganisation is forgotten (`regular.go:267`). A rollback to block 1 always
  fails so: it saves block 0, which `SaveLatestBlock` refuses (`blockstore/store.go:94`).
- Blocks that a lag jump or a restart leaves to the catchup worker are not checked against
  their parents: a fork there goes unnoticed.
- A hash added between the write of a flush and the reset of its flag is not flushed, not
  even by `Stop` (`regular.go:347` to `354`); the slice is shared without a lock.
- Persisted hashes help only when the walk resumes at the very next block.

Missing blocks:

- Existing ranges are looked up by their first block (`store.go:61`), so one that begins
  further left is not merged although the test speaks of one continuous range
  (`store_test.go:100`). Blocks are then done twice, none is lost.
- A range asked for again while its worker has just fetched it disappears with that
  worker's `RemoveRange`.
- `README.indexer.md:215` removes a range on full success; the code removes it when its
  last block succeeded (`manual.go:156`). The failed ones are on the failed-block list.
- No caller of `AddMissingBlockRange` is in the repository; the progress key is never read.

Failover:

- A provider whose errors are of no known kind stays current for ever, also when marked
  unhealthy (`provider.go:48`, `failover.go:230`); only blacklisting moves on.
- A late success or a counted error of another caller ends a blacklisting early.
- Whether a blacklisting is over is found out under the provider's lock and acted on under
  another (`failover.go:268` and `270`, `283` and `284`): a caller held up between the two
  puts back a provider that another has just blacklisted anew, and a third call can spend
  its attempts on it. A `Recover` that looks again under its lock would do.
- Emergency recovery sets the index to 0, not to the provider it recovered.
- `State` is read without its lock (`failover.go:343`, `463`, `472`).

Addresses:

- Onboarding that fails after the business was saved leaves addresses without a row; the
  comment at `admin.go:183` hopes for a manual re-run, which is answered 409.
- The backend creates `businesses` on its own if it starts first (`main.go:260`), without
  the unique index on `derivation_index` that `business.sql:27` has. Then a registration
  and an onboarding at the same time may hand out one address twice; a mutant of
  `SaveBusiness` shows it.
- `COUNT` leaves out soft-deleted rows and `MAX` does not.
- Rows that fill a whole batch within one second make `syncNetwork` read the same batch
  for ever (`bloom_sync.go:198`), where its comment promises to handle bursts
  (`bloom_sync.go:144`). Found when `FilterCatchesUp` was stated without `~Burst`.
- Rows that appear between `Initialize` and the start of the synchronisation, older than
  the overlap, or later than the overlap, are not loaded until a restart (`late`).
- `Initialize` pages by offset without an order. The example configuration turns the
  synchronisation off, and then an order's wallet is not watched before a restart.
- With the Redis filter a failed addition is logged and the position moves on.

## 7. Plan

Done: all modules of section 2. What would come next, in this order:

1. `Scan` with a block nobody serves, and liveness of the rescanner.
2. Dispatch of several merchants: an endpoint that fails holds the others' events.
3. The Redis variant of the Bloom filter.
