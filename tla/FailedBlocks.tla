---------------------------- MODULE FailedBlocks ----------------------------
(***************************************************************************)
(* The failed-block list of one chain and the rescanner.  The list is one  *)
(* value of the key-value store, which the workers and the rescanner's     *)
(* flush loop read, change and write back without a lock; the rescanner    *)
(* keeps a copy with retry counts, fed by the list and by a channel.       *)
(*                                                                         *)
(* A pass asks for all blocks it holds (the code for up to 20 of them), of *)
(* a chain whose GetBlocksByNumbers reports each failure on its own.       *)
(***************************************************************************)
EXTENDS Naturals, Sequences

CONSTANTS
  Failing,      \* the blocks that may fail
  MaxRetries,   \* RescannerMaxRetries
  ChanCap,      \* capacity of failedChan
  NotHeld, NoBlock,
  MaxCrashes    \* bound

ASSUME FailedBlocksAssumption ==
  /\ NotHeld \notin Nat /\ NoBlock \notin Failing
  /\ MaxRetries \in Nat \ {0} /\ ChanCap \in Nat \ {0} /\ MaxCrashes \in Nat

VARIABLES
  list,        \* store: failed_blocks
  retries,     \* rescanner: failedBlocks, the count of each block it holds
  failedChan,  \* blocks on their way to the rescanner
  saves,       \* rescanner: pendingSaves
  removes,     \* rescanner: pendingRemoves
  worker,      \* the regular worker in handleBlockResult
  rescan,      \* the rescanner in processRescan
  flush,       \* the flush loop
  passed,      \* blocks that failed and were left to the rescanner
  emitted,     \* blocks fetched by the rescanner
  gaveUp,      \* blocks with a "Max retries reached; giving up" in the log, and
               \* blocks taken for skipped slots
  overflow,    \* an event was dropped because the channel was full
  crashes

memVars == <<retries, failedChan, saves, removes>>
histVars == <<passed, emitted, gaveUp>>
failedVars == <<list, retries, failedChan, saves, removes, worker, rescan, flush,
                passed, emitted, gaveUp, overflow, crashes>>

MaybeBlock == Failing \cup {NoBlock}

FailedTypeOK ==
  /\ list \subseteq Failing
  /\ retries \in [Failing -> {NotHeld} \cup 0..(MaxRetries - 1)]
  /\ failedChan \in Seq(Failing) /\ Len(failedChan) <= ChanCap
  /\ saves \subseteq Failing /\ removes \subseteq Failing
  /\ worker \in [pc : {"idle", "write", "push"}, block : MaybeBlock, read : SUBSET Failing]
  /\ rescan \in [pc : {"idle", "results", "write", "push", "count"}, block : MaybeBlock,
                 read : SUBSET Failing, todo : SUBSET Failing, done : SUBSET Failing]
  /\ flush \in [pc : {"idle", "save", "reread", "remove"}, read : SUBSET Failing]
  /\ passed \subseteq Failing /\ emitted \subseteq Failing /\ gaveUp \subseteq Failing
  /\ overflow \in BOOLEAN /\ crashes \in 0..MaxCrashes

WorkerIdle == [pc |-> "idle", block |-> NoBlock, read |-> {}]
RescanIdle == [pc |-> "idle", block |-> NoBlock, read |-> {}, todo |-> {}, done |-> {}]
FlushIdle == [pc |-> "idle", read |-> {}]

FailedInit ==
  /\ retries = [b \in Failing |-> NotHeld] /\ failedChan = <<>>
  /\ saves = {} /\ removes = {}
  /\ worker = WorkerIdle /\ rescan = RescanIdle /\ flush = FlushIdle
  /\ list = {} /\ passed = {} /\ emitted = {} /\ gaveUp = {}
  /\ overflow = FALSE /\ crashes = 0

Held == {b \in Failing : retries[b] # NotHeld}

\* A send that does not wait: a full channel drops the event.
Push(b) ==
  IF Len(failedChan) < ChanCap
  THEN failedChan' = Append(failedChan, b) /\ UNCHANGED overflow
  ELSE overflow' = TRUE /\ UNCHANGED failedChan

\* batchMu is free: pendingSaves and pendingRemoves may be changed.
Unlocked == flush.pc = "idle"

-----------------------------------------------------------------------------
(* The regular worker: handleBlockResult of a failed block *)

ReadList(b) ==
  /\ worker.pc = "idle" /\ b \notin passed
  /\ worker' = [pc |-> "write", block |-> b, read |-> list]
  /\ UNCHANGED <<list, memVars, rescan, flush, histVars, overflow, crashes>>

SaveFailedBlock ==
  /\ worker.pc = "write"
  /\ list' = IF worker.block \in worker.read THEN list ELSE worker.read \cup {worker.block}
  /\ worker' = [worker EXCEPT !.pc = "push"]
  /\ UNCHANGED <<memVars, rescan, flush, histVars, overflow, crashes>>

\* Mutant: the block is saved in the list only.
PushNothing ==
  /\ worker.pc = "push"
  /\ passed' = passed \cup {worker.block}
  /\ worker' = WorkerIdle
  /\ UNCHANGED <<list, memVars, rescan, flush, emitted, gaveUp, overflow, crashes>>

PushFailed ==
  /\ worker.pc = "push"
  /\ Push(worker.block)
  /\ passed' = passed \cup {worker.block}
  /\ worker' = WorkerIdle
  /\ UNCHANGED <<list, retries, saves, removes, rescan, flush, emitted, gaveUp, crashes>>

-----------------------------------------------------------------------------
(* The rescanner *)

\* The channel's listener: addFailedBlock.
AddFailedBlock ==
  /\ failedChan # <<>>
  /\ LET b == Head(failedChan) IN
     \/ /\ b \in Held
        /\ UNCHANGED <<retries, saves>>
     \/ /\ b \notin Held /\ Unlocked
        /\ retries' = [retries EXCEPT ![b] = 0]
        /\ saves' = saves \cup {b}
  /\ failedChan' = Tail(failedChan)
  /\ UNCHANGED <<list, removes, worker, rescan, flush, histVars, overflow, crashes>>

\* syncFromKV and collectBlocksForRetry.
StartPass ==
  /\ rescan.pc = "idle"
  /\ retries' = [b \in Failing |-> IF b \in list \ Held THEN 0 ELSE retries[b]]
  /\ list \cup Held # {}
  /\ rescan' = [RescanIdle EXCEPT !.pc = "results", !.todo = list \cup Held]
  /\ UNCHANGED <<list, failedChan, saves, removes, worker, flush, histVars, overflow, crashes>>

\* processBatch: the next result is a block, whose transfers are published ...
ResultOk(b) ==
  /\ rescan.pc = "results" /\ b \in rescan.todo
  /\ emitted' = emitted \cup {b}
  /\ rescan' = [rescan EXCEPT !.todo = @ \ {b}, !.done = @ \cup {b}]
  /\ UNCHANGED <<list, memVars, worker, flush, passed, gaveUp, overflow, crashes>>

\* ... a slot without a block, as a Solana node says: it is removed like the
\* others, even when the node merely lacks it (null, or "ledger jump") ...
ResultNotFound(b) ==
  /\ rescan.pc = "results" /\ b \in rescan.todo
  /\ gaveUp' = gaveUp \cup {b}
  /\ rescan' = [rescan EXCEPT !.todo = @ \ {b}, !.done = @ \cup {b}]
  /\ UNCHANGED <<list, memVars, worker, flush, passed, emitted, overflow, crashes>>

\* ... or a failure, which handleBlockResult reports once more.
ResultFailed(b) ==
  /\ rescan.pc = "results" /\ b \in rescan.todo
  /\ rescan' = [rescan EXCEPT !.pc = "write", !.block = b, !.read = list, !.todo = @ \ {b}]
  /\ UNCHANGED <<list, memVars, worker, flush, histVars, overflow, crashes>>

SaveAgain ==
  /\ rescan.pc = "write"
  /\ list' = IF rescan.block \in rescan.read THEN list ELSE rescan.read \cup {rescan.block}
  /\ rescan' = [rescan EXCEPT !.pc = "push", !.read = {}]
  /\ UNCHANGED <<memVars, worker, flush, histVars, overflow, crashes>>

PushAgain ==
  /\ rescan.pc = "push"
  /\ Push(rescan.block)
  /\ rescan' = [rescan EXCEPT !.pc = "count"]
  /\ UNCHANGED <<list, retries, saves, removes, worker, flush, histVars, crashes>>

\* Mutant: the count is compared before it is raised.
IncrementRetryFirst ==
  /\ rescan.pc = "count" /\ Unlocked
  /\ LET b == rescan.block IN
     /\ b \in Held
     /\ retries' = [retries EXCEPT ![b] = IF @ >= MaxRetries THEN NotHeld ELSE @ + 1]
     /\ saves' = saves \cup {b}
  /\ rescan' = [rescan EXCEPT !.pc = "results", !.block = NoBlock]
  /\ UNCHANGED <<list, failedChan, removes, worker, flush, histVars, overflow, crashes>>

IncrementRetry ==
  /\ rescan.pc = "count" /\ Unlocked
  /\ LET b == rescan.block IN
     \/ /\ b \notin Held
        /\ UNCHANGED <<retries, saves, removes, gaveUp>>
     \/ /\ b \in Held /\ retries[b] + 1 >= MaxRetries
        /\ retries' = [retries EXCEPT ![b] = NotHeld]
        /\ removes' = removes \cup {b}
        /\ gaveUp' = gaveUp \cup {b}
        /\ UNCHANGED saves
     \/ /\ b \in Held /\ retries[b] + 1 < MaxRetries
        /\ retries' = [retries EXCEPT ![b] = @ + 1]
        /\ saves' = saves \cup {b}
        /\ UNCHANGED <<removes, gaveUp>>
  /\ rescan' = [rescan EXCEPT !.pc = "results", !.block = NoBlock]
  /\ UNCHANGED <<list, failedChan, worker, flush, passed, emitted, overflow, crashes>>

\* removeBlocks, the end of a pass.
EndPass ==
  /\ rescan.pc = "results" /\ rescan.todo = {}
  /\ rescan.done = {} \/ Unlocked
  /\ retries' = [b \in Failing |-> IF b \in rescan.done THEN NotHeld ELSE retries[b]]
  /\ removes' = removes \cup rescan.done
  /\ rescan' = RescanIdle
  /\ UNCHANGED <<list, failedChan, saves, worker, flush, histVars, overflow, crashes>>

-----------------------------------------------------------------------------
(* The flush loop: flushUnsafe, every 5 s or when a batch is full *)

FlushStart ==
  /\ flush.pc = "idle" /\ saves \cup removes # {}
  /\ flush' = [pc |-> IF saves # {} THEN "save" ELSE "remove", read |-> list]
  /\ UNCHANGED <<list, memVars, worker, rescan, histVars, overflow, crashes>>

SaveFailedBlocks ==
  /\ flush.pc = "save"
  /\ list' = flush.read \cup saves
  /\ saves' = {}
  /\ flush' = [pc |-> IF removes # {} THEN "reread" ELSE "idle", read |-> {}]
  /\ UNCHANGED <<retries, failedChan, removes, worker, rescan, histVars, overflow, crashes>>

ReadAgain ==
  /\ flush.pc = "reread"
  /\ flush' = [pc |-> "remove", read |-> list]
  /\ UNCHANGED <<list, memVars, worker, rescan, histVars, overflow, crashes>>

RemoveFailedBlocks ==
  /\ flush.pc = "remove"
  /\ list' = flush.read \ removes
  /\ removes' = {}
  /\ flush' = FlushIdle
  /\ UNCHANGED <<retries, failedChan, saves, worker, rescan, histVars, overflow, crashes>>

-----------------------------------------------------------------------------
RescannerCrash ==
  /\ crashes < MaxCrashes /\ crashes' = crashes + 1
  /\ retries' = [b \in Failing |-> NotHeld] /\ failedChan' = <<>>
  /\ saves' = {} /\ removes' = {}
  /\ worker' = WorkerIdle /\ rescan' = RescanIdle /\ flush' = FlushIdle
  /\ UNCHANGED <<list, histVars, overflow>>

WorkerStep == SaveFailedBlock \/ PushFailed

RescanStep ==
  \/ StartPass \/ SaveAgain \/ PushAgain \/ IncrementRetry \/ EndPass
  \/ \E b \in Failing : ResultOk(b) \/ ResultNotFound(b) \/ ResultFailed(b)

FlushStep == FlushStart \/ SaveFailedBlocks \/ ReadAgain \/ RemoveFailedBlocks

FailedNext ==
  \/ \E b \in Failing : ReadList(b)
  \/ WorkerStep \/ AddFailedBlock \/ RescanStep \/ FlushStep \/ RescannerCrash

FailedSpec == FailedInit /\ [][FailedNext]_failedVars

-----------------------------------------------------------------------------
(* Safety *)

\* A block that failed, was never fetched and is in no place where the
\* rescanner would find it.
Forgotten(b) ==
  /\ b \in passed \ (emitted \cup gaveUp)
  /\ b \notin list \cup Held
  /\ \A i \in DOMAIN failedChan : failedChan[i] # b

\* The list loses additions, since three goroutines overwrite it from stale
\* reads, but then the channel and the rescanner's memory make up for it: a
\* failed block is forgotten only if a crash or a full channel comes on top.  What
\* the rescanner itself dropped, for its count or as a skipped slot, is gaveUp.
ForgottenNeedsCrash ==
  \A b \in Failing : Forgotten(b) => crashes > 0 \/ overflow
=============================================================================
