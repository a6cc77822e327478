------------------------------- MODULE SuiFetch -------------------------------
(***************************************************************************)
(* How the regular worker of a Sui chain reads checkpoints.  One client    *)
(* keeps a subscription open, from which it knows the head and the last    *)
(* checkpoints; the others, and this one while the subscription is broken, *)
(* ask their node.  GetBlocks asks for the checkpoints of a batch at the   *)
(* same time, each through the failover, and fails as a whole.             *)
(*                                                                         *)
(* Checkpoints have no forks.  The worker does not jump ahead or restart   *)
(* here (Scan); what the transactions of a checkpoint say is left out, and *)
(* so is their status.                                                     *)
(***************************************************************************)
EXTENDS Integers, FiniteSetsExt

CONSTANTS
  Nodes,
  NoNode,
  Top,               \* the last checkpoint of the chain
  Batch,             \* throttle.batch_size
  BufferSize,        \* checkpoints kept from the subscription, 100 in the code
  MaxFaults          \* bound on the requests that fail and the streams that break

Checkpoints == 1..Top

VARIABLES
  height,            \* the last checkpoint each node has
  streamer,          \* the node whose client was told to StartStreaming
  stream,            \* its subscription and what it keeps, see Streams
  currentBlock,
  results,           \* GetBlocks under way: where each of its checkpoints is
  emitted,           \* checkpoints whose transfers were emitted
  faults

streamVars == <<streamer, stream>>
vars == <<height, streamer, stream, currentBlock, results, emitted, faults>>

\* `last` is the checkpoint the open subscription delivered last or started after.
\* A buffered checkpoint that came without its contents would be "empty".
Streams ==
  [open : BOOLEAN, last : 0..Top, streamHeight : 0..Top, streamDisconnected : BOOLEAN,
   streamBuffer : SUBSET (Checkpoints \X {"full", "empty"})]

\* Asked for, asked for again, there, there without contents, or failed.
Stages == {"fetch", "again", "full", "empty", "failed"}

TypeOK ==
  /\ height \in [Nodes -> 0..Top]
  /\ streamer \in Nodes \cup {NoNode}
  /\ stream \in Streams
  /\ currentBlock \in 1..(Top + 1)
  /\ DOMAIN results \subseteq Checkpoints
  /\ \A b \in DOMAIN results : results[b] \in Stages
  /\ emitted \subseteq Checkpoints
  /\ faults \in 0..MaxFaults

NoResults == [b \in {} |-> "fetch"]

Init ==
  /\ height = [n \in Nodes |-> 0]
  /\ streamer = NoNode
  /\ stream = [open |-> FALSE, last |-> 0, streamHeight |-> 0,
               streamDisconnected |-> FALSE, streamBuffer |-> {}]
  /\ currentBlock = 1
  /\ results = NoResults
  /\ emitted = {}
  /\ faults = 0

Fault == faults < MaxFaults /\ faults' = faults + 1

-----------------------------------------------------------------------------
(* The nodes and the subscription *)

Sync(n) ==
  /\ height[n] < Top
  /\ height' = [height EXCEPT ![n] = @ + 1]
  /\ UNCHANGED <<streamVars, currentBlock, results, emitted, faults>>

\* NewSuiIndexer, a second after it was built: the provider the failover has then.
\* Connecting is lazy and does not fail, so it stays this one.
StartStreaming(n) ==
  /\ streamer = NoNode
  /\ streamer' = n
  /\ UNCHANGED <<height, stream, currentBlock, results, emitted, faults>>

besideStream == <<height, streamer, currentBlock, results, emitted>>

\* The node delivers what comes after its head of now.
Subscribe ==
  /\ streamer # NoNode /\ ~stream.open
  /\ stream' = [stream EXCEPT !.open = TRUE, !.last = height[streamer]]
  /\ UNCHANGED <<besideStream, faults>>

\* Mutant: a message without a checkpoint is kept too.
KeptAlways(seq, full) == {<<seq, IF full THEN "full" ELSE "empty">>}

\* Only a checkpoint that has a digest is kept.
Kept(seq, full) == {<<seq, "full">> : f \in {full} \cap {TRUE}}

\* Mutant: nothing is thrown away.
PrunedNot(buffer, seq) == buffer

\* Beyond the limit, what is older than the last BufferSize goes.  The difference is
\* of unsigned numbers: below BufferSize it wraps round and everything goes.
Pruned(buffer, seq) ==
  IF Cardinality(buffer) <= BufferSize THEN buffer
  ELSE {e \in buffer : seq >= BufferSize /\ e[1] >= seq - BufferSize}

\* A message with a checkpoint, or with the cursor alone.
Receive(full) ==
  /\ stream.open /\ stream.last < height[streamer]
  /\ LET seq  == stream.last + 1
         all  == stream.streamBuffer \cup Kept(seq, full)
     IN  stream' = [stream EXCEPT
           !.last = seq, !.streamDisconnected = FALSE,
           !.streamHeight = IF seq > @ THEN seq ELSE @,
           !.streamBuffer = IF full THEN Pruned(all, seq) ELSE all]
  /\ UNCHANGED <<besideStream, faults>>

\* Mutant: the height of the broken subscription is still taken for the head.
BrokenUnnoticed == [stream EXCEPT !.open = FALSE]

Broken == [stream EXCEPT !.open = FALSE, !.streamDisconnected = TRUE]

\* An open subscription breaks, or one cannot be opened.
StreamBreaks ==
  /\ streamer # NoNode
  /\ Fault
  /\ stream' = Broken
  /\ UNCHANGED besideStream

-----------------------------------------------------------------------------
(* What a client answers *)

GetLatestCheckpointSequence(n) ==
  IF n = streamer /\ stream.streamHeight > 0 /\ ~stream.streamDisconnected
  THEN stream.streamHeight ELSE height[n]

\* What GetCheckpoint finds: in the buffer of the streaming client, or at the node.
Found(n, b) ==
  LET buffered == {e \in stream.streamBuffer : n = streamer /\ e[1] = b}
  IN  IF buffered # {} THEN {e[2] : e \in buffered}
      ELSE {"full" : m \in {n} \cap {k \in Nodes : b <= height[k]}}

-----------------------------------------------------------------------------
(* The worker's tick *)

WaitForBlocks(n) ==
  /\ results = NoResults
  /\ currentBlock > GetLatestCheckpointSequence(n)
  /\ UNCHANGED vars

\* The head may come from another client than the checkpoints.
StartTick(n) ==
  LET latest == GetLatestCheckpointSequence(n) IN
  /\ results = NoResults
  /\ currentBlock <= latest
  /\ results' = [b \in currentBlock..Min({currentBlock + Batch - 1, latest}) |-> "fetch"]
  /\ UNCHANGED <<height, streamVars, currentBlock, emitted, faults>>

Becomes(b, stage) ==
  /\ results' = [results EXCEPT ![b] = stage]
  /\ UNCHANGED <<height, streamVars, currentBlock, emitted>>

\* GetBlock asks the node the failover picks.  If that one does not know the
\* checkpoint and some client's head says that it exists, GetBlock waits and asks
\* once more.
GetBlock(b, n) ==
  /\ results[b] = "fetch" /\ UNCHANGED faults
  /\ \/ \E stage \in Found(n, b) : Becomes(b, stage)
     \/ /\ Found(n, b) = {}
        /\ \E m \in Nodes :
             Becomes(b, IF b <= GetLatestCheckpointSequence(m) THEN "again" ELSE "failed")

GetBlockAgain(b, n) ==
  /\ results[b] = "again" /\ UNCHANGED faults
  /\ \/ \E stage \in Found(n, b) : Becomes(b, stage)
     \/ Found(n, b) = {} /\ Becomes(b, "failed")

\* Another error is not asked about again; the head may be unknown as well.
RequestFails(b) ==
  /\ results[b] \in {"fetch", "again"}
  /\ Fault
  /\ Becomes(b, "failed")

Answered == results # NoResults /\ \A b \in DOMAIN results : results[b] \notin {"fetch", "again"}

\* GetBlocks returns the first error with its results, and the worker drops them all.
BatchFails ==
  /\ Answered /\ \E b \in DOMAIN results : results[b] = "failed"
  /\ results' = NoResults
  /\ UNCHANGED <<height, streamVars, currentBlock, emitted, faults>>

\* The worker emits block after block and moves behind the last.
BatchSucceeds ==
  /\ Answered /\ \A b \in DOMAIN results : results[b] # "failed"
  /\ emitted' = emitted \cup {b \in DOMAIN results : results[b] = "full"}
  /\ currentBlock' = Max(DOMAIN results) + 1
  /\ results' = NoResults
  /\ UNCHANGED <<height, streamVars, faults>>

-----------------------------------------------------------------------------
\* The loop while the failover chooses node n.
WorkOn(n) ==
  \/ StartTick(n)
  \/ \E b \in DOMAIN results : GetBlock(b, n) \/ GetBlockAgain(b, n)
  \/ BatchFails \/ BatchSucceeds

Deliver == \E full \in BOOLEAN : Receive(full)

Next ==
  \/ \E b \in DOMAIN results : RequestFails(b)
  \/ \E n \in Nodes : WorkOn(n) \/ Sync(n) \/ StartStreaming(n) \/ WaitForBlocks(n)
  \/ Subscribe \/ Deliver \/ StreamBreaks

Spec == Init /\ [][Next]_vars

-----------------------------------------------------------------------------
\* Whatever mixture of buffered, cursor-only and late answers a batch is put
\* together from, a checkpoint behind the cursor had its transfers emitted.
NoTransferMissed == 1..(currentBlock - 1) \subseteq emitted

\* The buffer of a subscription that runs for weeks, breaks and skips checkpoints
\* never has more than BufferSize and the one that has just come.
BufferIsBounded == Cardinality(stream.streamBuffer) <= BufferSize + 1
=============================================================================
