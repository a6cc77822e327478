------------------------------- MODULE EvmFetch -------------------------------
(***************************************************************************)
(* How the regular worker of an EVM chain reads blocks through several     *)
(* nodes that are not at the same height, and what becomes of the          *)
(* transfers to monitored addresses in the blocks it moves past.           *)
(*                                                                         *)
(* GetBlocks asks for the raw blocks, again for those that did not come,   *)
(* meanwhile for the logs of the token transfers, then for the receipts of *)
(* the transactions that look like a transfer and for their traces.  Each  *)
(* request goes to the node the failover picks; one that is behind answers *)
(* without an error as if the rest of the chain did not exist.             *)
(*                                                                         *)
(* The chain has no forks here (Reorg), the worker does not jump ahead or  *)
(* restart (Scan), and a block put on the failed list is left there        *)
(* (FailedBlocks).  A transaction is <<block, kind>>: it holds one         *)
(* transfer, of that kind, to a monitored address.                         *)
(***************************************************************************)
EXTENDS Integers, FiniteSets

CONSTANTS
  Nodes,
  Top,               \* the last block of the chain
  Batch,             \* Throttle.BatchSize
  Parallel,          \* Throttle.Parallel
  DebugTrace,        \* DebugTrace of the chain's configuration
  Attempts,          \* regularGapRetryAttempts
  Holds,             \* the kinds of transfer in each block
  MaxFaults          \* bound on the requests that fail on every node

Blocks == 1..Top

\* A plain transfer; a call of a token's transfer; a Gnosis Safe's execTransaction
\* that sends the native coin, or that calls a token; a call of another contract
\* that pays the native coin out.
Kinds == {"native", "token", "safe", "safeToken", "internal"}

\* Every batch of raw blocks holds one block: getRawBlocks hands ChunkBySize the
\* number of batches it wants where that takes their size, and up to 20 blocks
\* (the default maxBatchSize) make one batch.
ASSUME EvmFetchAssumption ==
  /\ Nodes # {} /\ IsFiniteSet(Nodes)
  /\ {Top, Attempts} \subseteq Nat \ {0} /\ Batch \in 1..20
  /\ {Parallel, DebugTrace} \subseteq BOOLEAN
  /\ Holds \in [Blocks -> SUBSET Kinds]
  /\ MaxFaults \in Nat

VARIABLES
  height,            \* the last block each node has
  tracing,           \* some provider of traceFailover is available
  currentBlock,
  tick,              \* the pass of processRegularBlocks under way, see Ticks
  call,              \* the GetBlocks or GetBlock it waits for, see Calls
  emitted,           \* transactions whose transfer was emitted
  met,               \* what went wrong, see Troubles, in the calls whose blocks were accepted
  faults

vars == <<height, tracing, currentBlock, tick, call, emitted, met, faults>>

Txs == {tx \in Blocks \X Kinds : tx[2] \in Holds[tx[1]]}
In(bs) == {tx \in Txs : tx[1] \in bs}

\* A block came as null and was taken for a block without transactions; a log query,
\* receipt or trace did not come; a trace came as null and was taken for one without
\* calls; traces were not asked for; they were, and so the logs were not.
Troubles == {"empty", "logs", "receipt", "trace", "hollow", "untraced", "unlogged"}

\* `expected` is the next block to accept, `linked` says that lastSuccessHash is set,
\* `attempt` is 0 for the batch and else that of recoverRegularBlock.
Ticks == [end : Blocks, expected : Blocks, linked : BOOLEAN, attempt : 0..Attempts]

\* A raw block is the real one, the empty struct a null answer is parsed into, or none;
\* of the traces, the hollow ones are such empty structs.
Calls ==
  [stage : {"none", "raw", "fetch", "receipts", "traces", "built"},
   nums : SUBSET Blocks, parallel : BOOLEAN, todo : SUBSET {"missing", "logs"},
   blocks : [Blocks -> {"real", "empty", "none"}], traceActive : BOOLEAN,
   logs : SUBSET Txs, receipts : SUBSET Txs, traces : SUBSET Txs,
   hollow : SUBSET Txs, trouble : SUBSET (Txs \X Troubles)]

TypeOK ==
  /\ height \in [Nodes -> 0..Top]
  /\ tracing \in BOOLEAN
  /\ currentBlock \in 1..(Top + 1)
  /\ tick \in Ticks
  /\ call \in Calls
  /\ emitted \subseteq Txs
  /\ met \subseteq Txs \X Troubles
  /\ faults \in 0..MaxFaults

Asking(nums, par) ==
  [stage |-> "raw", nums |-> nums, parallel |-> par, todo |-> {},
   blocks |-> [b \in Blocks |-> "none"], traceActive |-> FALSE,
   logs |-> {}, receipts |-> {}, traces |-> {}, hollow |-> {}, trouble |-> {}]

NoCall == [Asking({}, FALSE) EXCEPT !.stage = "none"]
NoTick == [end |-> 1, expected |-> 1, linked |-> FALSE, attempt |-> 0]

Init ==
  /\ height = [n \in Nodes |-> 0]
  /\ tracing = TRUE
  /\ currentBlock = 1
  /\ tick = NoTick
  /\ call = NoCall
  /\ emitted = {} /\ met = {}
  /\ faults = 0

-----------------------------------------------------------------------------
\* The environment: a node takes the next block over, the trace providers become
\* unavailable or available again.

Sync(n) ==
  /\ height[n] < Top
  /\ height' = [height EXCEPT ![n] = @ + 1]
  /\ UNCHANGED <<tracing, currentBlock, tick, call, emitted, met, faults>>

TracersChange ==
  /\ DebugTrace
  /\ tracing' = ~tracing
  /\ UNCHANGED <<height, currentBlock, tick, call, emitted, met, faults>>

\* A request either is answered or fails for good, which it does MaxFaults times in all.
Fails(failed) ==
  /\ failed => faults < MaxFaults
  /\ faults' = IF failed THEN faults + 1 ELSE faults

\* What a node may answer for a block: in a batch, where a null is dropped, and alone.
Behind(b) == \E n \in Nodes : height[n] < b
InBatch(b) == {"real"} \cup IF Behind(b) THEN {"none"} ELSE {}
Alone(b) == {"real"} \cup IF Behind(b) THEN {"empty"} ELSE {}

-----------------------------------------------------------------------------
\* The worker.

\* Mutant: the worker waits at the head as well.
BehindOrAt(latest) == latest <= currentBlock

\* Nothing to do yet at the head the node reports.
NothingNew(latest) == latest < currentBlock

\* Mutant: the batch is not cut off at the head.
BatchEndPastHead(latest) == currentBlock + Batch - 1

BatchEnd(latest) ==
  LET last == currentBlock + Batch - 1 IN IF last < latest THEN last ELSE latest

\* The worker sleeps and ends the tick.
WaitForBlocks(n) ==
  /\ call.stage = "none"
  /\ NothingNew(height[n])
  /\ UNCHANGED vars

StartTick(n) ==
  /\ call.stage = "none"
  /\ ~NothingNew(height[n])
  /\ tick' = [end |-> BatchEnd(height[n]), expected |-> currentBlock,
              linked |-> FALSE, attempt |-> 0]
  /\ call' = Asking(currentBlock..BatchEnd(height[n]), Parallel)
  /\ UNCHANGED <<height, tracing, currentBlock, emitted, met, faults>>

-----------------------------------------------------------------------------
\* fetchBlocks.

\* The raw blocks are there (f); processBlocksAndReceipts looks once whether traces
\* can be had and starts the two requests it makes side by side.
Process(f, par) ==
  LET blocks == [b \in Blocks |-> IF b \in call.nums THEN f[b] ELSE "none"]
      untraced == {<<tx, "untraced">> : tx \in {t \in In(call.nums) : t[2] = "internal"}}
      unlogged == {<<tx, "unlogged">> : tx \in {t \in In(call.nums) : t[2] = "safeToken"}}
      active == DebugTrace /\ tracing
  IN  call' = [call EXCEPT
        !.stage = "fetch", !.parallel = par, !.blocks = blocks, !.traceActive = active,
        !.todo = {q \in {"missing", "logs"} :
                    IF q = "logs" THEN ~active ELSE \E b \in call.nums : f[b] = "none"},
        !.trouble = IF active THEN unlogged ELSE untraced]

\* A batch that fails is asked for block by block.
GetRawBlocks ==
  /\ call.stage = "raw"
  /\ \E failed \in BOOLEAN, f \in [call.nums -> {"real", "empty", "none"}] :
       /\ Fails(failed)
       /\ \A b \in call.nums : f[b] \in InBatch(b) \cup IF failed THEN Alone(b) ELSE {}
       /\ Process(f, call.parallel)
  /\ UNCHANGED <<height, tracing, currentBlock, tick, emitted, met>>

\* One of those fails too: all blocks are asked for one by one, and the call goes on
\* as a sequential one.
FallbackIndividual ==
  /\ call.stage = "raw"
  /\ Fails(TRUE)
  /\ \E f \in [call.nums -> {"real", "empty", "none"}] :
       /\ \A b \in call.nums : f[b] \in Alone(b) \cup {"none"}
       /\ Process(f, FALSE)
  /\ UNCHANGED <<height, tracing, currentBlock, tick, emitted, met>>

FetchMissingBlocks ==
  /\ call.stage = "fetch" /\ "missing" \in call.todo
  /\ \E failed \in BOOLEAN, f \in [Blocks -> {"real", "empty", "none"}] :
       /\ Fails(failed)
       /\ \A b \in Blocks :
            IF b \in call.nums /\ call.blocks[b] = "none"
            THEN f[b] \in Alone(b) \cup IF failed THEN {"none"} ELSE {}
            ELSE f[b] = call.blocks[b]
       /\ call' = [call EXCEPT !.blocks = f, !.todo = @ \ {"missing"}]
  /\ UNCHANGED <<height, tracing, currentBlock, tick, emitted, met>>

\* The node that answers knows the logs of the blocks it has.
TokenTxs(bs) == {tx \in In(bs) : tx[2] \in {"token", "safeToken"}}

QueryERC20Transfers ==
  /\ call.stage = "fetch" /\ "logs" \in call.todo
  /\ \E failed \in BOOLEAN, n \in Nodes :
       LET heard == IF failed THEN {} ELSE {b \in call.nums : b <= height[n]}
       IN  /\ Fails(failed)
           /\ call' = [call EXCEPT
                !.logs = TokenTxs(heard), !.todo = @ \ {"logs"},
                !.trouble = @ \cup {<<tx, "logs">> : tx \in TokenTxs(call.nums \ heard)}]
  /\ UNCHANGED <<height, tracing, currentBlock, tick, emitted, met>>

\* The kinds the block itself shows to need a receipt: transfers by their input, and
\* with traces all calls of contracts but a Safe's.
Extracted ==
  {"native", "safe"} \cup IF call.traceActive THEN {"token", "internal"} ELSE {}

AtHand == In({b \in call.nums : call.blocks[b] = "real"})

\* Mutant: the transactions the log query found are not added.
ReceiptTxsUnmerged == {tx \in AtHand : tx[2] \in Extracted}

ReceiptTxs == {tx \in AtHand : tx[2] \in Extracted \/ tx \in call.logs}

\* A node knows the receipts of the blocks it has; the others come as null and are dropped.
BatchReceipts(n, txs) == {tx \in txs : tx[1] <= height[n]}

\* fetchReceiptsSequential: batches of at most Batch in no order (the hashes come from
\* a map), each answered by one node; the first to fail ends it, what came before is kept.
FetchReceiptsSequential(txs, got, failed) ==
  LET last == (Cardinality(txs) + Batch - 1) \div Batch
  IN  \E batch \in [txs -> 1..last], done \in 0..last :
        LET Asked(i) == {tx \in txs : batch[tx] = i}
        IN  /\ \A i \in 1..last : Cardinality(Asked(i)) <= Batch
            /\ failed \/ done = last
            /\ \A i \in 1..done : \E n \in Nodes : got \cap Asked(i) = BatchReceipts(n, Asked(i))
            /\ \A tx \in got : batch[tx] <= done

\* In parallel every receipt is a request of its own, to a provider that may be
\* behind and is not replaced.
FetchReceiptsParallel(txs, got, failed) ==
  \A tx \in txs \ got : failed \/ \E n \in Nodes : BatchReceipts(n, {tx}) = {}

FetchAllReceipts ==
  /\ call.stage = "fetch" /\ call.todo = {}
  /\ LET txs == ReceiptTxs
     IN  \E failed \in BOOLEAN, got \in SUBSET txs :
           /\ Fails(failed)
           /\ IF call.parallel THEN FetchReceiptsParallel(txs, got, failed)
              ELSE FetchReceiptsSequential(txs, got, failed)
           /\ call' = [call EXCEPT
                !.stage = IF call.traceActive THEN "traces" ELSE "built", !.receipts = got,
                !.trouble = @ \cup {<<tx, "receipt">> : tx \in txs \ got}]
  /\ UNCHANGED <<height, tracing, currentBlock, tick, emitted, met>>

\* DebugTraceTransaction: the null of a node that lacks the transaction is parsed, without
\* an error, into a trace without calls.
MayBeHollow(tx) == Behind(tx[1])

\* Each trace is tried on every provider that is available now: they may all have
\* gone since traceActive was read.  The first answer without an error is kept.
TraceWithProviderAwareness(got, hollow, candidates) ==
  /\ hollow \subseteq {tx \in got : MayBeHollow(tx)}
  /\ IF tracing THEN Fails(got # candidates) ELSE got = {} /\ Fails(FALSE)

FetchTraces ==
  /\ call.stage = "traces"
  /\ LET candidates == {tx \in call.receipts : tx[2] # "native"}
     IN  \E got \in SUBSET candidates, hollow \in SUBSET candidates :
           /\ TraceWithProviderAwareness(got, hollow, candidates)
           /\ call' = [call EXCEPT
                !.stage = "built", !.traces = got, !.hollow = hollow,
                !.trouble = @ \cup {<<tx, "trace">> : tx \in candidates \ got}
                              \cup {<<tx, "hollow">> : tx \in hollow}]
  /\ UNCHANGED <<height, tracing, currentBlock, tick, emitted, met>>

\* convertBlock: what a transaction itself and the logs of its receipt say, what its
\* trace says, and for a Safe what its input says, but only where no trace came.
ExtractTransfers(tx) == tx[2] \in {"native", "token", "safeToken"}
ExtractInternalTransfers(tx) ==
  tx \in call.traces \ call.hollow /\ tx[2] \in {"safe", "internal"}
ExtractSafeTransfers(tx) == tx \notin call.traces /\ tx[2] = "safe"

Transfers(bs) ==
  {tx \in call.receipts :
     /\ tx[1] \in bs
     /\ ExtractTransfers(tx) \/ ExtractInternalTransfers(tx) \/ ExtractSafeTransfers(tx)}

-----------------------------------------------------------------------------
\* The worker takes the results.

\* A block follows the one accepted before it in this tick: an empty one, which has no
\* parent hash, follows only a block without a hash or none.
Linked(b) == IF b = tick.expected THEN tick.linked ELSE call.blocks[b - 1] = "real"
Acceptable(b) ==
  \/ call.blocks[b] = "real"
  \/ call.blocks[b] = "empty" /\ ~Linked(b)

\* handleBlockResult for each block up to the first that cannot be accepted.
Accepted == {b \in call.nums : \A c \in tick.expected..b : Acceptable(c)}

Emit ==
  /\ emitted' = emitted \cup Transfers(Accepted)
  /\ met' = met \cup {t \in call.trouble : t[1][1] \in Accepted}
                \cup {<<tx, "empty">> : tx \in In({b \in Accepted : call.blocks[b] = "empty"})}

EndTick(next) ==
  /\ currentBlock' = next
  /\ tick' = NoTick
  /\ call' = NoCall

\* The first block that was not accepted, and whether the one accepted before has a hash.
FirstLeft == tick.expected + Cardinality(Accepted)
LinkedAfter == IF Accepted = {} THEN tick.linked ELSE call.blocks[FirstLeft - 1] = "real"

\* recoverRegularGap goes on with the blocks one by one, each asked for Attempts times.
Recover(b, attempt) ==
  /\ tick' = [tick EXCEPT !.expected = b, !.linked = LinkedAfter, !.attempt = attempt]
  /\ call' = Asking({b}, FALSE)
  /\ UNCHANGED currentBlock

TakeResults ==
  /\ call.stage = "built"
  /\ Emit
  /\ \/ /\ FirstLeft > tick.end
        /\ EndTick(FirstLeft)
     \/ /\ FirstLeft <= tick.end /\ (tick.attempt = 0 \/ Accepted # {})
        /\ Recover(FirstLeft, 1)
     \/ /\ Accepted = {} /\ tick.attempt \in 1..(Attempts - 1)
        /\ Recover(FirstLeft, tick.attempt + 1)
     \/ /\ Accepted = {} /\ tick.attempt = Attempts
        /\ EndTick(FirstLeft)
  /\ UNCHANGED <<height, tracing, faults>>

-----------------------------------------------------------------------------
Fetch ==
  \/ GetRawBlocks \/ FallbackIndividual \/ FetchMissingBlocks
  \/ QueryERC20Transfers \/ FetchAllReceipts \/ FetchTraces

Work == (\E n \in Nodes : StartTick(n)) \/ Fetch \/ TakeResults

Next ==
  \/ Work
  \/ \E n \in Nodes : Sync(n) \/ WaitForBlocks(n)
  \/ TracersChange

Spec == Init /\ [][Next]_vars

-----------------------------------------------------------------------------
\* What can hide a transfer of each kind.
Hides(kind) ==
  {"empty", "receipt"} \cup
  CASE kind = "native" -> {}
    [] kind = "safe" -> {"hollow"}
    [] kind = "token" -> {"logs"}
    [] kind = "safeToken" -> {"logs", "unlogged"}
    [] kind = "internal" -> {"trace", "hollow", "untraced"}

\* A transfer in a block the worker moved past was emitted, or one of the requests
\* its kind depends on went wrong in the very call whose block was accepted: no
\* failed or late answer of another call, and no trouble with another kind, loses it.
LossHasCause ==
  \A tx \in In(1..(currentBlock - 1)) :
    tx \in emitted \/ \E why \in Hides(tx[2]) : <<tx, why>> \in met

\* While no node stays behind for good and requests do not keep failing, the worker
\* gets past every block, whatever came null, late or not at all on the way (stated
\* of the fair specification in Indexers).
HeadIsReached == <>[](currentBlock = Top + 1)
=============================================================================
