------------------------------- MODULE Indexers -------------------------------
(***************************************************************************)
(* An indexer process that was started, with --chains, for an EVM chain or *)
(* for a Sui chain.  What the regular workers of two chains share is not   *)
(* in these modules, so a process with both behaves like two processes.    *)
(***************************************************************************)
EXTENDS EvmFetch

CONSTANTS
  NoNode, BufferSize,
  Preferred          \* the node that a failover without a reason to switch stays with

ASSUME IndexersAssumption ==
  NoNode \notin Nodes /\ Preferred \in Nodes /\ BufferSize \in Nat \ {0}

VARIABLES
  chain,             \* the type of the chain
  streamer, stream, results,
  emittedCheckpoints

Sui == INSTANCE SuiFetch WITH emitted <- emittedCheckpoints

evmVars == <<tracing, tick, call, emitted, met>>
suiVars == <<streamer, stream, results, emittedCheckpoints>>
allVars == <<vars, suiVars, chain>>

OnEvm == chain = "evm" /\ UNCHANGED <<suiVars, chain>>
OnSui == chain = "sui" /\ UNCHANGED <<evmVars, chain>>

StartedInit == chain \in {"evm", "sui"} /\ Init /\ Sui!Init
StartedNext == (OnEvm /\ Next) \/ (OnSui /\ Sui!Next)

StartedSpec == StartedInit /\ [][StartedNext]_allVars

\* The loop runs, every node reaches the head, and an open subscription delivers.  On
\* Sui the loop may always be sent to one node, which may be the streaming client's.
FairStarted ==
  /\ StartedSpec
  /\ WF_allVars(OnEvm /\ Work) /\ WF_allVars(OnSui /\ Sui!WorkOn(Preferred))
  /\ \A n \in Nodes : WF_allVars(OnEvm /\ Sync(n)) /\ WF_allVars(OnSui /\ Sui!Sync(n))
  /\ WF_allVars(OnSui /\ Sui!Deliver)

-----------------------------------------------------------------------------
\* Both indexers' variables have their types.
TypesOK == TypeOK /\ Sui!TypeOK

\* EVM: a transfer the worker went past without emitting it has a cause of its own.
LossOnEvmHasCause == chain = "evm" => LossHasCause

\* Sui: whatever mixture of buffered, cursor-only and late answers a batch is put
\* together from, a checkpoint behind the cursor had its transfers emitted.
NoTransferMissed == chain = "sui" => Sui!NoTransferMissed

\* Sui: the buffer of a subscription that runs for weeks, breaks and skips
\* checkpoints has at most BufferSize and the one that has just come.
BufferIsBounded == Sui!BufferIsBounded
=============================================================================
