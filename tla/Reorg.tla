-------------------------------- MODULE Reorg --------------------------------
(***************************************************************************)
(* The regular worker on a chain that may replace its last blocks (EVM and *)
(* Bitcoin): the check of parent hashes, the single-block recovery of a    *)
(* batch that does not fit together, the rollback, and the hashes that are *)
(* kept for the check and flushed to the store from time to time.          *)
(*                                                                         *)
(* A block is named by its height and the fork that made it, which decides *)
(* its parent.  Scan has the catchup worker, the late writes of a stopped  *)
(* worker and nodes that lag; they are left out here.                      *)
(***************************************************************************)
EXTENDS Naturals, Sequences, FiniteSetsExt, Functions

CONSTANTS
  MaxBlock,     \* bound: the highest block of the chain
  MaxForks,     \* bound: how often the chain replaces its last blocks
  MaxDepth,     \* how many blocks it may replace at a time
  MaxFaults,    \* bound: failed fetches and saves, crashes and stops
  BatchSize,    \* throttle.batch_size
  Window,       \* reorg_rollback_window
  MaxLag,       \* max_lag
  StartOffset,  \* start_offset
  MaxBlockHashSize,
  MaxAttempts,  \* regularGapRetryAttempts
  NoHash        \* the empty string

Versions == 0..MaxForks

\* The window is chosen so that a fork within MaxDepth lies inside it.
ASSUME ReorgAssumption ==
  /\ {MaxBlock, MaxDepth, BatchSize, Window, MaxLag, MaxBlockHashSize, MaxAttempts}
       \subseteq Nat \ {0}
  /\ {MaxForks, MaxFaults, StartOffset} \subseteq Nat
  /\ MaxDepth <= Window + 1
  /\ NoHash \notin Versions

VARIABLES
  chain,      \* the version of each block, up to the head
  forks,      \* times the chain was reorganised
  pc,         \* where the worker's tick is
  cur,        \* currentBlock
  hashes,     \* blockHashes, oldest first
  modified,   \* hashesModified
  end,        \* last block of the batch
  got,        \* GetBlocks: the results that have arrived
  last,       \* lastSuccess and lastSuccessHash
  attempt,    \* of the single-block recovery
  latest,     \* store: latest_block
  stored,     \* store: the flushed block hashes
  flushing,   \* the flush loop is between its write and its reset
  emitted,    \* blocks handed to the emitter, each with its version
  base,       \* lowest block since which the walk has had no gap
  forgotten,  \* a rollback whose cursor could not be saved
  faults

hashVars == <<hashes, modified>>
tickVars == <<end, got, last, attempt>>
walkVars == <<cur, latest, base>>
vars == <<chain, forks, pc, cur, hashes, modified, end, got, last, attempt, latest,
          stored, flushing, emitted, base, forgotten, faults>>

Blocks == 1..MaxBlock
Tip == Len(chain)
MaybeHash == Versions \cup {NoHash}
HashEntry == [num : Blocks, hash : Versions]

\* What a fetch of block b returns now: its hash and its parent's.
ParentOf(b) == IF b = 1 THEN NoHash ELSE chain[b - 1]
Fetched(b) == [hash |-> chain[b], parent |-> ParentOf(b)]
Unresolved == [hash |-> NoHash, parent |-> NoHash]

TypeOK ==
  /\ chain \in Seq(Versions) /\ Tip \in Blocks
  /\ forks \in Versions
  /\ pc \in {"off", "tick", "fetch", "recover", "save"}
  /\ {cur, base} \subseteq 1..(MaxBlock + 1)
  /\ hashes \in Seq(HashEntry) /\ Len(hashes) <= MaxBlockHashSize
  /\ stored \in Seq(HashEntry) /\ Len(stored) <= MaxBlockHashSize
  /\ end \in 0..MaxBlock
  /\ DOMAIN got \subseteq Blocks
  /\ \A b \in DOMAIN got : got[b] \in [hash : MaybeHash, parent : MaybeHash]
  /\ last \in [num : 0..MaxBlock, hash : MaybeHash]
  /\ attempt \in 0..(MaxAttempts - 1)
  /\ latest \in 0..(MaxBlock + 1)
  /\ emitted \subseteq Blocks \X Versions
  /\ {modified, flushing, forgotten} \subseteq BOOLEAN
  /\ faults \in 0..MaxFaults

NoResults == <<>>
NoSuccess == [num |-> 0, hash |-> NoHash]

Init ==
  /\ chain = <<0>> /\ forks = 0
  /\ pc = "off" /\ cur = 1 /\ base = 1
  /\ hashes = <<>> /\ modified = FALSE /\ stored = <<>> /\ flushing = FALSE
  /\ end = 0 /\ got = NoResults /\ last = NoSuccess /\ attempt = 0
  /\ latest = 0 /\ emitted = {} /\ forgotten = FALSE
  /\ faults = 0

-----------------------------------------------------------------------------
(* The chain *)

workerVars == <<pc, hashVars, tickVars, walkVars, stored, flushing, emitted,
                forgotten, faults>>

NewBlock ==
  /\ Tip < MaxBlock
  /\ chain' = Append(chain, forks)
  /\ UNCHANGED <<forks, workerVars>>

\* Another branch wins: it replaces the last depth blocks and is as long or
\* longer.  Block 1 stays.
Fork(depth) ==
  /\ forks < MaxForks /\ depth < Tip
  /\ forks' = forks + 1
  /\ \E longer \in {0, 1} :
       /\ Tip + longer <= MaxBlock
       /\ chain' = [b \in 1..(Tip + longer) |->
                      IF b <= Tip - depth THEN chain[b] ELSE forks']
  /\ UNCHANGED workerVars

-----------------------------------------------------------------------------
(* The hashes kept for the check *)

\* Mutant: the list grows for ever.
WithHashUntrimmed(num, hash) == Append(hashes, [num |-> num, hash |-> hash])

\* addBlockHash drops the oldest entries when the list is full.
WithHash(num, hash) ==
  LET all == Append(hashes, [num |-> num, hash |-> hash])
      extra == IF Len(all) > MaxBlockHashSize THEN Len(all) - MaxBlockHashSize ELSE 0 IN
  SubSeq(all, extra + 1, Len(all))

\* getBlockHash: the first entry for this block.
StoredHash(num) ==
  LET found == {i \in DOMAIN hashes : hashes[i].num = num} IN
  IF found = {} THEN NoHash ELSE hashes[Min(found)].hash

ClearHashes == hashes' = <<>> /\ modified' = TRUE

\* detectAndHandleReorg: block b's parent is not the block that was recorded.
Detected(b, block) ==
  StoredHash(b - 1) # NoHash /\ StoredHash(b - 1) # block.parent

\* Mutant: one block too few is rolled back.
RollbackStartLate(prev) == IF prev > Window THEN prev - Window + 1 ELSE 1

RollbackStart(prev) == IF prev > Window THEN prev - Window ELSE 1

\* SaveLatestBlock refuses block 0: a walk that would begin at block 1 again.
CanSave(cursor) == cursor > 0

\* Mutant: the cursor is saved, the walk does not go back.
RollbackInStoreOnly(b) ==
  /\ CanSave(RollbackStart(b - 1) - 1)
  /\ ClearHashes
  /\ latest' = RollbackStart(b - 1) - 1
  /\ pc' = "tick"
  /\ UNCHANGED <<cur, base, forgotten, faults>>

\* Block b does not fit what was recorded: forget the hashes and start again.
Rollback(b) ==
  /\ CanSave(RollbackStart(b - 1) - 1)
  /\ ClearHashes
  /\ cur' = RollbackStart(b - 1)
  /\ latest' = cur' - 1
  /\ base' = Min({base, cur'})
  /\ pc' = "tick"
  /\ UNCHANGED <<forgotten, faults>>

\* The same when the cursor cannot be saved: the hashes are gone already.
RollbackUnsaved(b) ==
  /\ IF CanSave(RollbackStart(b - 1) - 1)
     THEN faults < MaxFaults /\ faults' = faults + 1
     ELSE UNCHANGED faults
  /\ ClearHashes
  /\ forgotten' = TRUE
  /\ pc' = "save"
  /\ UNCHANGED walkVars

-----------------------------------------------------------------------------
(* One tick of the worker *)

Lagging == Tip > cur /\ Tip - cur > MaxLag

\* skipAheadIfLagging: what is jumped over goes to the catchup worker, which
\* checks no parents.
SkipAhead ==
  /\ pc = "tick" /\ Lagging
  /\ cur' = Tip /\ latest' = Tip - 1 /\ base' = Tip
  /\ ClearHashes
  /\ UNCHANGED <<chain, forks, pc, tickVars, stored, flushing, emitted,
                 forgotten, faults>>

BeginBatch ==
  /\ pc = "tick" /\ ~Lagging /\ cur <= Tip
  /\ pc' = "fetch"
  /\ end' = Min({cur + BatchSize - 1, Tip})
  /\ got' = NoResults /\ last' = [num |-> cur - 1, hash |-> NoHash] /\ attempt' = 0
  /\ UNCHANGED <<chain, forks, hashVars, walkVars, stored, flushing, emitted,
                 forgotten, faults>>

\* GetBlocks asks for the blocks of a batch in parallel; the chain may change
\* between two answers.
FetchInBatch(b, block) ==
  /\ pc = "fetch" /\ b \in (cur..end) \ DOMAIN got
  /\ got' = [n \in DOMAIN got \cup {b} |-> IF n = b THEN block ELSE got[n]]
  /\ UNCHANGED <<chain, forks, pc, end, last, attempt, hashVars, walkVars, stored,
                 flushing, emitted, forgotten>>

GetBlock(b) == FetchInBatch(b, Fetched(b)) /\ UNCHANGED faults

GetBlockFails(b) ==
  /\ faults < MaxFaults /\ faults' = faults + 1
  /\ FetchInBatch(b, Unresolved)

\* The result was fetched, passes the check and follows the one before it.
Fits(b) ==
  /\ got[b].hash # NoHash
  /\ ~Detected(b, got[b])
  /\ b > cur => got[b].parent = got[b - 1].hash

\* processReorgCheckedBatch: emit up to the first result that does not fit.
ProcessBatch ==
  /\ pc = "fetch" /\ DOMAIN got = cur..end
  /\ LET stop == Min({b \in cur..end : ~Fits(b)} \cup {end + 1}) IN
     /\ emitted' = emitted \cup {<<b, got[b].hash>> : b \in cur..(stop - 1)}
     /\ last' = [num |-> stop - 1,
                 hash |-> IF stop = cur THEN NoHash ELSE got[stop - 1].hash]
     /\ \/ /\ stop > end /\ pc' = "save"
           /\ UNCHANGED <<hashVars, walkVars, forgotten, faults>>
        \/ /\ stop <= end /\ got[stop].hash # NoHash /\ Detected(stop, got[stop])
           /\ Rollback(stop) \/ RollbackUnsaved(stop)
        \/ /\ stop <= end
           /\ got[stop].hash # NoHash => ~Detected(stop, got[stop])
           /\ pc' = "recover"
           /\ UNCHANGED <<hashVars, walkVars, forgotten, faults>>
  /\ got' = NoResults
  /\ UNCHANGED <<chain, forks, end, attempt, stored, flushing>>

\* recoverRegularBlock: one more attempt, or the end of the tick.  The block goes
\* to the failed-block list as well; the cursor stays in front of it.
NextAttempt ==
  /\ UNCHANGED last
  /\ IF attempt + 1 < MaxAttempts
     THEN attempt' = attempt + 1 /\ UNCHANGED pc
     ELSE attempt' = 0 /\ pc' = "save"

RecoverFails ==
  /\ pc = "recover"
  /\ faults < MaxFaults /\ faults' = faults + 1
  /\ NextAttempt
  /\ UNCHANGED <<chain, forks, end, got, hashVars, walkVars, stored, flushing,
                 emitted, forgotten>>

RecoverBlock ==
  /\ pc = "recover"
  /\ LET b == last.num + 1 IN
     \/ /\ Detected(b, Fetched(b))
        /\ Rollback(b) \/ RollbackUnsaved(b)
        /\ UNCHANGED <<emitted, last, attempt>>
     \/ /\ ~Detected(b, Fetched(b))
        /\ last.hash \notin {NoHash, ParentOf(b)}
        /\ NextAttempt
        /\ UNCHANGED <<emitted, hashVars, walkVars, forgotten, faults>>
     \/ /\ ~Detected(b, Fetched(b))
        /\ last.hash \in {NoHash, ParentOf(b)}
        /\ emitted' = emitted \cup {<<b, chain[b]>>}
        /\ last' = [num |-> b, hash |-> chain[b]] /\ attempt' = 0
        /\ pc' = IF b = end THEN "save" ELSE "recover"
        /\ UNCHANGED <<hashVars, walkVars, forgotten, faults>>
  /\ UNCHANGED <<chain, forks, end, got, stored, flushing>>

\* The end of processRegularBlocks: cursor, store, and the last block's hash.
SaveProgress ==
  /\ pc = "save" /\ pc' = "tick"
  /\ IF last.num >= cur
     THEN /\ cur' = last.num + 1 /\ latest' = last.num
          /\ hashes' = WithHash(last.num, last.hash) /\ modified' = TRUE
     ELSE UNCHANGED <<cur, latest, hashVars>>
  /\ UNCHANGED <<chain, forks, base, tickVars, stored, flushing, emitted, forgotten, faults>>

-----------------------------------------------------------------------------
(* Flush, stop, crash and start *)

\* flushBlockHashes writes, and only then resets the flag, with no lock between
\* it and the tick.
FlushWrite ==
  /\ pc # "off" /\ modified /\ ~flushing
  /\ stored' = hashes /\ flushing' = TRUE
  /\ UNCHANGED <<chain, forks, pc, hashVars, tickVars, walkVars, emitted, forgotten, faults>>

FlushReset ==
  /\ pc # "off" /\ flushing
  /\ modified' = FALSE /\ flushing' = FALSE
  /\ UNCHANGED <<chain, forks, pc, hashes, tickVars, walkVars, stored, emitted,
                 forgotten, faults>>

\* The process ends and its memory with it.
Halt ==
  /\ pc # "off" /\ pc' = "off"
  /\ faults < MaxFaults /\ faults' = faults + 1
  /\ hashes' = <<>> /\ modified' = FALSE /\ flushing' = FALSE
  /\ end' = 0 /\ got' = NoResults /\ last' = NoSuccess /\ attempt' = 0
  /\ UNCHANGED <<chain, forks, cur, base, emitted, forgotten>>

Crash == Halt /\ UNCHANGED <<latest, stored>>

\* Stop saves currentBlock and flushes the hashes.
Stop == Halt /\ latest' = cur /\ stored' = IF modified THEN hashes ELSE stored

\* NewRegularWorker: near the head, or at the saved block if the chain does not
\* answer; the gap goes to the catchup worker.  The walk goes on without a gap
\* where it starts at the block it had come to and the hash before was flushed.
Start ==
  /\ pc = "off" /\ pc' = "tick"
  /\ cur' \in {IF Tip > StartOffset THEN Tip - StartOffset ELSE Tip,
               IF latest > 0 THEN latest ELSE 1}
  /\ hashes' = stored
  /\ base' = IF cur' = cur /\ StoredHash(cur - 1)' # NoHash THEN base ELSE cur'
  /\ UNCHANGED <<chain, forks, modified, tickVars, latest, stored, flushing, emitted,
                 forgotten, faults>>

TickStep == SkipAhead \/ BeginBatch \/ ProcessBatch \/ RecoverBlock \/ SaveProgress

Next ==
  \/ NewBlock
  \/ \E depth \in 1..MaxDepth : Fork(depth)
  \/ TickStep \/ RecoverFails
  \/ \E b \in cur..end : GetBlock(b) \/ GetBlockFails(b)
  \/ FlushWrite \/ FlushReset
  \/ Crash \/ Stop \/ Start

Spec == Init /\ [][Next]_vars

\* The chain keeps growing, and the worker's loop runs while the process lives.
\* What fails is bounded by MaxFaults.
Fairness ==
  /\ WF_vars(NewBlock) /\ WF_vars(TickStep)
  /\ WF_vars(\E b \in cur..end : GetBlock(b))

FairSpec == Spec /\ Fairness

-----------------------------------------------------------------------------
(* Properties *)

\* The block that the chain has now at this height went to the emitter.
Published(b) == b <= Tip /\ <<b, chain[b]>> \in emitted

\* Blocks that the worker went past, in the part it walked block by block.
Passed == IF pc = "off" THEN {} ELSE base..(cur - 1)

\* The next block that comes will not fit: its parent is not what was recorded.
Pending ==
  /\ cur - 1 \in 1..Tip
  /\ StoredHash(cur - 1) \notin {NoHash, chain[cur - 1]}

\* However a fork falls between the answers of a batch, the recovery of single
\* blocks, the rollback and the save of the cursor, a block of the winning branch
\* that was not emitted is one the next parent check brings the worker back to.
\* Only the last hash of each batch is kept for it; the checks inside the batch
\* and the window make up for the others.
NoForkMissed == ~forgotten /\ (\E b \in Passed : ~Published(b)) => Pending

\* Every block of the final chain is emitted in the end: the rollback does go
\* back far enough, and never for ever.  Excused are blocks that became the
\* catchup worker's, a dead process, a rollback that could not be saved, and a
\* fork found by nobody because the bounded chain has no block after it whose
\* parent could be checked.
ForksAreRepaired ==
  \A b \in Blocks :
    pc # "off" /\ base <= b /\ b <= Tip
      ~> \/ Published(b)
         \/ pc = "off" \/ b < base \/ forgotten
         \/ cur > MaxBlock /\ Pending
=============================================================================
