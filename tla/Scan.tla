-------------------------------- MODULE Scan --------------------------------
(***************************************************************************)
(* How the indexer of one chain walks its blocks: the regular worker that  *)
(* follows the head, the catchup worker that fills what the regular worker *)
(* jumped over, and the progress both keep in the key-value store, through *)
(* crashes, clean stops and nodes that lag behind each other.              *)
(*                                                                         *)
(* This is the walk of the chains without a reorganisation check.  A       *)
(* block's transfers are one event; a batch is handled in one step, since  *)
(* a crash inside it differs from one after it only in which of its blocks *)
(* are emitted twice.  Writes to the embedded store do not fail.  A slot   *)
(* of Solana without a block is a block that was fetched and holds no      *)
(* transfer.                                                               *)
(***************************************************************************)
EXTENDS Naturals, FiniteSets, FiniteSetsExt

CONSTANTS
  MaxBlock,      \* bound: the highest block of the chain
  BatchSize,     \* throttle.batch_size
  MaxLag,        \* max_lag
  StartOffset,   \* start_offset
  StartBlock,    \* start_block
  MaxRange,      \* MAX_RANGE_SIZE of a catchup range
  NodeLag,       \* bound: how far the answering node is behind the chain
  FromLatest,    \* from_latest
  AllOrNothing,  \* GetBlocks returns an error when one block fails (Sui)
  MaxRestarts,   \* bound: crashes and clean stops
  MaxLost        \* bound: blocks whose publish failed

ASSUME ScanAssumption ==
  /\ {BatchSize, MaxLag, StartBlock, MaxRange} \subseteq Nat \ {0}
  /\ {StartOffset, NodeLag, MaxRestarts, MaxLost} \subseteq Nat
  /\ MaxBlock \in Nat /\ MaxBlock >= StartBlock
  /\ {FromLatest, AllOrNothing} \subseteq BOOLEAN

Blocks == 1..MaxBlock

VARIABLES
  head,      \* the chain's newest block
  handled,   \* blocks whose transfers were published, or that are on the
             \* failed-block list
  latest,    \* store: latest_block, 0 when absent
  ranges,    \* store: catchup_progress, [lo, hi, current]
  phase,     \* "up", "stopping" (contexts cancelled) or "off"
  regular,   \* regular worker: pc, currentBlock, last block handled
  catchup,   \* catchup worker: "load", "run" or "done"
  work,      \* its ranges in hand: [lo, hi, next, last]
  first,     \* where the indexer began when it had no progress
  restarts,  \* crashes and clean stops so far
  stops,     \* clean stops so far
  lost       \* publishes that failed, and blocks taken for skipped slots

regularVars == <<latest, regular>>
catchupVars == <<catchup, work>>
runVars == <<phase, first, restarts, stops>>
vars == <<head, handled, latest, ranges, phase, regular,
          catchup, work, first, restarts, stops, lost>>

TypeOK ==
  /\ head \in Blocks
  /\ handled \subseteq Blocks
  /\ latest \in 0..(MaxBlock + 1)
  /\ ranges \subseteq [lo : Blocks, hi : Blocks, current : 0..MaxBlock]
  /\ phase \in {"up", "stopping", "off"}
  /\ regular \in [pc : {"tick", "save"}, cur : 1..(MaxBlock + 1), last : 0..MaxBlock]
  /\ catchup \in {"load", "run", "done"}
  /\ work \subseteq [lo : Blocks, hi : Blocks, next : 1..(MaxBlock + 1), last : 0..MaxBlock]
  /\ first \in Blocks
  /\ restarts \in 0..MaxRestarts /\ stops \in 0..restarts /\ lost \in 0..MaxLost

\* GetLatestBlockNumber is answered by a node that may lag behind the chain.
Seen == {n \in Blocks : n <= head /\ head <= n + NodeLag}

\* splitCatchupRange: lo..hi in pieces, with nothing of them done.
Chunks(lo, hi) ==
  {[lo |-> s, hi |-> Min({s + MaxRange - 1, hi}), current |-> s - 1] :
     s \in {n \in lo..hi : (n - lo) % MaxRange = 0}}

\* SaveCatchupRanges and SaveCatchupProgress: the key is <start>-<end>.
SaveRanges(new) ==
  {r \in ranges : \A n \in new : <<n.lo, n.hi>> # <<r.lo, r.hi>>} \cup new

\* determineStartingBlock, the ordinary result.
NearHead(seen) == IF seen > StartOffset THEN seen - StartOffset ELSE seen

Init ==
  /\ head = StartBlock
  /\ handled = {}
  /\ latest = 0 /\ ranges = {}
  /\ phase = "off"
  /\ regular = [pc |-> "tick", cur |-> 1, last |-> 0]
  /\ catchup = "load" /\ work = {}
  /\ first = 1
  /\ restarts = 0 /\ stops = 0 /\ lost = 0

NewBlock ==
  /\ head < MaxBlock /\ head' = head + 1
  /\ UNCHANGED <<handled, regularVars, ranges, runVars, catchupVars, lost>>

-----------------------------------------------------------------------------
(* Start *)

Launch(block) ==
  /\ phase = "off" /\ phase' = "up"
  /\ regular' = [pc |-> "tick", cur |-> block, last |-> 0]
  /\ first' = IF latest = 0 THEN block ELSE first
  /\ catchup' = "load" /\ work' = {}
  /\ UNCHANGED <<head, handled, latest, restarts, stops, lost>>

\* The chain cannot be reached: saved progress, or the configured block.
StartBlind ==
  /\ Launch(IF latest > 0 THEN latest ELSE StartBlock)
  /\ UNCHANGED ranges

StartAtHead(seen) ==
  /\ latest = 0 \/ FromLatest
  /\ Launch(NearHead(seen))
  /\ UNCHANGED ranges

\* The gap since the saved block is queued for the catchup worker.
StartWithGap(seen) ==
  /\ latest > 0 /\ ~FromLatest
  /\ Launch(NearHead(seen))
  /\ ranges' = IF seen > latest THEN SaveRanges(Chunks(latest + 1, seen)) ELSE ranges

Start == StartBlind \/ \E seen \in Seen : StartAtHead(seen) \/ StartWithGap(seen)

-----------------------------------------------------------------------------
(* Regular worker *)

\* handleBlockResult for a batch: a block that was not fetched goes to the
\* failed-block list; emitBlock ignores the error of a publish, so the blocks
\* of gone are handled by nobody.  In the catchup worker gone holds as well the
\* blocks of Solana that the answering node lacks: it takes them for skipped slots,
\* that is for successes.
HandleResults(batch, ok) ==
  /\ AllOrNothing => ok = batch
  /\ \E gone \in SUBSET ok :
       /\ lost' = lost + Cardinality(gone) /\ lost' <= MaxLost
       /\ handled' = handled \cup (batch \ gone)

Lagging(seen) == seen > regular.cur /\ seen - regular.cur > MaxLag

\* Mutant: the current block is taken for done.
SkipAheadAfterCurrent(seen) ==
  /\ phase = "up" /\ regular.pc = "tick"
  /\ Lagging(seen)
  /\ ranges' = SaveRanges(Chunks(regular.cur + 1, seen - 1))
  /\ regular' = [pc |-> "save", cur |-> seen, last |-> seen - 1]
  /\ UNCHANGED <<head, handled, latest, runVars, catchupVars, lost>>

\* Mutant: the cursor stays where it was.
SkipAheadStays(seen) ==
  /\ phase = "up" /\ regular.pc = "tick"
  /\ Lagging(seen)
  /\ ranges' = SaveRanges(Chunks(regular.cur, seen - 1))
  /\ regular' = [regular EXCEPT !.pc = "save", !.last = seen - 1]
  /\ UNCHANGED <<head, handled, latest, runVars, catchupVars, lost>>

\* skipAheadIfLagging: the ranges are stored before the cursor moves.
SkipAhead(seen) ==
  /\ phase = "up" /\ regular.pc = "tick"
  /\ Lagging(seen)
  /\ ranges' = SaveRanges(Chunks(regular.cur, seen - 1))
  /\ regular' = [pc |-> "save", cur |-> seen, last |-> seen - 1]
  /\ UNCHANGED <<head, handled, latest, runVars, catchupVars, lost>>

\* Mutant: the batch is not cut off at the head.
RegularBatchBeyondHead(seen) ==
  /\ phase = "up" /\ regular.pc = "tick"
  /\ ~Lagging(seen) /\ regular.cur <= seen
  /\ HandleResults(regular.cur..(regular.cur + BatchSize - 1), regular.cur..(regular.cur + BatchSize - 1))
  /\ regular' = [pc |-> "save", cur |-> regular.cur + BatchSize, last |-> regular.cur + BatchSize - 1]
  /\ UNCHANGED <<head, latest, ranges, runVars, catchupVars>>

\* processRegularBlocks: the cursor moves behind the last success.
RegularBatch(seen) ==
  /\ phase = "up" /\ regular.pc = "tick"
  /\ ~Lagging(seen) /\ regular.cur <= seen
  /\ LET batch == regular.cur..Min({regular.cur + BatchSize - 1, seen}) IN
     \E ok \in SUBSET batch :
       /\ HandleResults(batch, ok)
       /\ regular' = IF ok = {} THEN regular
                     ELSE [pc |-> "save", cur |-> Max(ok) + 1, last |-> Max(ok)]
  /\ UNCHANGED <<head, latest, ranges, runVars, catchupVars>>

\* SaveLatestBlock at the end of a tick; it may still come after Stop's.
SaveLatest ==
  /\ phase # "off" /\ regular.pc = "save"
  /\ latest' = regular.last
  /\ regular' = [regular EXCEPT !.pc = "tick"]
  /\ UNCHANGED <<head, handled, ranges, runVars, catchupVars, lost>>

-----------------------------------------------------------------------------
(* Catchup worker *)

Unstarted(rs) ==
  {[lo |-> r.lo, hi |-> r.hi, next |-> r.current + 1, last |-> r.current] : r \in rs}

\* loadCatchupProgress: the stored ranges, or else the gap behind the head.
LoadRanges(new) ==
  /\ phase = "up" /\ catchup = "load"
  /\ ranges' = SaveRanges(new)
  /\ work' = Unstarted(ranges')
  /\ catchup' = IF ranges' = {} THEN "done" ELSE "run"
  /\ UNCHANGED <<head, handled, regularVars, runVars, lost>>

CatchupLoad ==
  \/ LoadRanges({})
  \/ \E seen \in Seen :
       /\ ranges = {} /\ latest > 0 /\ seen > latest
       /\ LoadRanges(Chunks(latest + 1, seen))

\* One batch of processRange: progress is the highest success; a batch without
\* one is passed over, its blocks are on the failed-block list.
CatchupBatch(w) ==
  /\ phase = "up" /\ w.next <= w.hi
  /\ LET end == Min({w.next + BatchSize - 1, w.hi}) IN
     \E ok \in SUBSET (w.next..end) :
       /\ HandleResults(w.next..end, ok)
       /\ LET last == IF ok = {} THEN w.last ELSE Max(ok)
              next == IF ok = {} THEN end + 1 ELSE last + 1 IN
          /\ work' = (work \ {w}) \cup {[w EXCEPT !.next = next, !.last = last]}
          /\ ranges' = SaveRanges({[lo |-> w.lo, hi |-> w.hi, current |-> last]})
  /\ UNCHANGED <<head, regularVars, runVars, catchup>>

\* Mutant: the range stays in the worker's hands.
CompleteRangeKeeps(w) ==
  /\ phase = "up" /\ w.next > w.hi
  /\ ranges' = {r \in ranges : <<r.lo, r.hi>> # <<w.lo, w.hi>>}
  /\ UNCHANGED <<head, handled, regularVars, runVars, catchupVars, lost>>

\* completeRange and, after the last one, the reload at the end of the pass.
CompleteRange(w) ==
  /\ phase = "up" /\ w.next > w.hi
  /\ ranges' = {r \in ranges : <<r.lo, r.hi>> # <<w.lo, w.hi>>}
  /\ work' = work \ {w}
  /\ catchup' = IF work' = {} THEN "load" ELSE catchup
  /\ UNCHANGED <<head, handled, regularVars, runVars, lost>>

-----------------------------------------------------------------------------
(* Stop and crash *)

\* The process ends: what is in memory is gone.
Halt ==
  /\ phase' = "off"
  /\ regular' = [regular EXCEPT !.pc = "tick"]
  /\ catchup' = "load" /\ work' = {}

Crash ==
  /\ phase = "up" /\ restarts < MaxRestarts /\ restarts' = restarts + 1
  /\ Halt
  /\ UNCHANGED <<head, handled, latest, ranges, first, stops, lost>>

\* RegularWorker.Stop saves currentBlock, the block that comes next, while
\* its loop may be inside a batch.
Stop ==
  /\ phase = "up" /\ restarts < MaxRestarts /\ restarts' = restarts + 1
  /\ stops' = stops + 1
  /\ phase' = "stopping"
  /\ latest' = regular.cur
  /\ catchup' = "load" /\ work' = {}
  /\ UNCHANGED <<head, handled, ranges, regular, first, lost>>

Exit ==
  /\ phase = "stopping"
  /\ Halt
  /\ UNCHANGED <<head, handled, latest, ranges, first, restarts, stops, lost>>

RegularStep == SaveLatest \/ \E seen \in Seen : SkipAhead(seen) \/ RegularBatch(seen)

CatchupStep == CatchupLoad \/ \E w \in work : CatchupBatch(w) \/ CompleteRange(w)

Next == NewBlock \/ Start \/ RegularStep \/ CatchupStep \/ Crash \/ Stop \/ Exit

Spec == Init /\ [][Next]_vars

\* The worker loops run, the node that knows the head answers now and then, and
\* a batch that is asked for again and again has a success in the end.  The
\* catchup worker moves on even when none has.
Fairness ==
  /\ WF_vars(SaveLatest) /\ WF_vars(CatchupLoad) /\ WF_vars(SkipAhead(head))
  /\ SF_vars(RegularBatch(head) /\ regular' # regular)
  /\ WF_vars(\E w \in work : CatchupBatch(w) \/ CompleteRange(w))

FairSpec == Spec /\ Fairness

-----------------------------------------------------------------------------
(* Safety *)

\* A block some stored range still has to fetch.
Queued(b) == \E r \in ranges : r.current < b /\ b <= r.hi

\* Blocks behind the cursor that nothing will look at again.
Skipped == {b \in first..(regular.cur - 1) : b \notin handled /\ ~Queued(b)}

\* Whatever crashes, lags and fails to be fetched, a block behind the cursor was
\* published, is on the failed-block list or is in a stored range: cursor,
\* ranges and progress are saved in an order that forgets none.  A clean stop, a
\* failed publish and a block taken for a skipped slot cost at most one block each,
\* and nothing else costs any, except that from_latest passes over what came before
\* a start.
SkipsAreBounded == ~FromLatest => Cardinality(Skipped) <= stops + lost

-----------------------------------------------------------------------------
(* Liveness *)

\* The regular worker gets past every block of the chain while the process
\* lives, whether it walks there or jumps because it lags.
CursorAdvances ==
  \A b \in Blocks : phase = "up" /\ b <= head ~> phase # "up" \/ regular.cur > b

\* The catchup worker gets through every range it has in hand, whatever blocks
\* of it cannot be fetched.
RangesEnd ==
  \A b \in Blocks :
    (\E w \in work : w.lo <= b /\ b <= w.hi)
      ~> ~(\E w \in work : w.lo <= b /\ b <= w.hi)
=============================================================================
