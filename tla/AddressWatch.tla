----------------------------- MODULE AddressWatch -----------------------------
(***************************************************************************)
(* Registration, and the indexer process that has to know the addresses:   *)
(* its Bloom filter for the Sui chain is filled from the database at the   *)
(* start and followed up by BloomSyncWorker, which reads the rows that     *)
(* were created after the last it saw, less an overlap for clocks that     *)
(* differ and transactions that take time.                                 *)
(*                                                                         *)
(* The filter is in memory.  Its false positives are left out here; the    *)
(* pipeline's unregistered transfers stand for them.                       *)
(***************************************************************************)
EXTENDS Registration

CONSTANTS
  Overlap,     \* a second, in ticks of the clock
  BatchSize,
  MaxRestarts  \* bound

ASSUME AddressWatchAssumption ==
  /\ {Overlap, BatchSize} \subseteq Nat \ {0}
  /\ MaxRestarts \in Nat

VARIABLES
  process,     \* the indexer: "starting" (filter filled) or "syncing"
  filter,      \* addresses in the Bloom filter
  lastSynced,
  late,        \* addresses whose row appeared too late for its created_at
  restarts

watchVars == <<process, filter, lastSynced, late, restarts>>
vars == <<regVars, watchVars>>

TypeOK ==
  /\ RegTypeOK
  /\ process \in {"starting", "syncing"}
  /\ filter \subseteq Addresses /\ late \subseteq Addresses
  /\ lastSynced \in 0..MaxClock
  /\ restarts \in 0..MaxRestarts

Init ==
  /\ RegInit
  /\ process = "starting" /\ filter = {}
  /\ lastSynced = 0 /\ late = {} /\ restarts = 0

\* The rows of the chain's network type.
Watched == {w \in wallets : w.addr \in Orders \/ w.addr[1] = Sui}
AddrsOf(rows) == {w.addr : w \in rows}

\* A new row is late when the overlap has gone by since its created_at.
RegistrationStep ==
  /\ RegNext
  /\ late' = late \cup {w.addr : w \in {x \in wallets' \ wallets : clock - x.at >= Overlap}}
  /\ UNCHANGED <<process, filter, lastSynced, restarts>>

\* The worker runs.  It begins at the present, not when the filter was filled: what
\* was created in between and is older than the overlap stays out.
StartSync ==
  /\ process = "starting"
  /\ process' = "syncing" /\ lastSynced' = clock
  /\ late' = late \cup AddrsOf({w \in Watched : w.addr \notin filter /\ w.at <= clock - Overlap})
  /\ UNCHANGED <<regVars, filter, restarts>>

Found == {w \in Watched : w.at > lastSynced - Overlap}

\* LoadAddresses: by created_at, at most BatchSize.
IsBatch(rows) ==
  /\ Cardinality(rows) = Min({BatchSize, Cardinality(Found)})
  /\ \A w \in rows, v \in Found \ rows : w.at <= v.at

\* Mutant: the rows are not ordered.
SyncNetworkUnordered ==
  /\ process = "syncing"
  /\ \E rows \in SUBSET Found :
       /\ rows # {} /\ Cardinality(rows) = Min({BatchSize, Cardinality(Found)})
       /\ filter' = filter \cup AddrsOf(rows)
       /\ lastSynced' = Max({w.at : w \in rows})
  /\ UNCHANGED <<regVars, process, late, restarts>>

\* Mutant: the position is put behind the last row of the batch.
SyncNetworkPast ==
  /\ process = "syncing"
  /\ \E rows \in SUBSET Found :
       /\ rows # {} /\ IsBatch(rows)
       /\ filter' = filter \cup AddrsOf(rows)
       /\ lastSynced' = Max({w.at : w \in rows}) + 1
  /\ UNCHANGED <<regVars, process, late, restarts>>

\* Mutant: the batch is read and only the position is kept.
SyncNetworkForgets ==
  /\ process = "syncing"
  /\ \E rows \in SUBSET Found :
       /\ rows # {} /\ IsBatch(rows)
       /\ lastSynced' = Max({w.at : w \in rows})
  /\ UNCHANGED <<regVars, process, filter, late, restarts>>

\* One turn of syncNetwork's loop: the batch goes in, its last row is the new position.
SyncNetwork ==
  /\ process = "syncing"
  /\ \E rows \in SUBSET Found :
       /\ rows # {} /\ IsBatch(rows)
       /\ filter' = filter \cup AddrsOf(rows)
       /\ lastSynced' = Max({w.at : w \in rows})
  /\ UNCHANGED <<regVars, process, late, restarts>>

\* The process starts again; Initialize reads the table page by page.
Initialize ==
  /\ restarts < MaxRestarts /\ restarts' = restarts + 1
  /\ process' = "starting" /\ lastSynced' = 0
  /\ filter' = AddrsOf(Watched)
  /\ UNCHANGED <<regVars, late>>

Next == RegistrationStep \/ StartSync \/ SyncNetwork \/ Initialize

Spec == Init /\ [][Next]_vars

\* The worker is started and its loop runs.
Fairness == WF_vars(StartSync) /\ WF_vars(SyncNetwork)

FairSpec == Spec /\ Fairness

-----------------------------------------------------------------------------

\* The position never passes an address: a row that is there in time is in the
\* filter, or the next query will find it, however the commits of registrations,
\* onboardings and orders fall between the queries and the process's restarts.
PositionBehindRows ==
  process = "syncing" =>
    \A w \in Watched : w.addr \in filter \cup late \/ w.at > lastSynced - Overlap

\* Rows that fill a whole batch within one overlap.
Burst ==
  \E t \in 0..MaxClock :
    Cardinality({w \in Watched : t - Overlap < w.at /\ w.at <= t}) >= BatchSize

\* Unless so many rows come at once, the filter catches up with the database again
\* and again: every address that was registered in time is watched.
FilterCatchesUp ==
  [](~Burst) => []<>(AddrsOf(Watched) \subseteq filter \cup late)
=============================================================================
