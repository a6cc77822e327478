---------------------------- MODULE MissingBlocks ----------------------------
(***************************************************************************)
(* Ranges of missing blocks of one chain in Redis, and the manual workers  *)
(* of several indexer processes that share them.  An operator adds ranges; *)
(* a worker claims the lowest one that nobody has claimed, by a key that   *)
(* expires, and deletes range and key when it is through.  The key names   *)
(* no owner.                                                               *)
(*                                                                         *)
(* The progress key of a range is written and never read, so it is left    *)
(* out.  A script runs as one step in Redis.                               *)
(***************************************************************************)
EXTENDS Naturals, FiniteSets, FiniteSetsExt

CONSTANTS
  MaxHeight,          \* bound: the highest block asked for
  MaxBlocksPerRange,
  Workers,            \* manual workers, one per process
  MaxAdds,            \* bound: ranges added by the operator
  MaxManualCrashes,   \* bound
  NoRange

Heights == 1..MaxHeight
BlockRange == {r \in Heights \X Heights : r[1] <= r[2]}

ASSUME MissingBlocksAssumption ==
  /\ {MaxHeight, MaxBlocksPerRange} \subseteq Nat \ {0}
  /\ {MaxAdds, MaxManualCrashes} \subseteq Nat
  /\ NoRange \notin BlockRange

VARIABLES
  missing,  \* Redis: missing_blocks, the sorted set
  claimed,  \* Redis: processing:<range>, the ranges with a claim
  manual,   \* each manual worker: where handleRange is, and its range
  owed,     \* blocks asked for and not handled since
  expired,  \* a claim ran out while somebody still worked on the range
  adds, manualCrashes

missingVars == <<missing, claimed, manual, owed, expired, adds, manualCrashes>>

Idle == [pc |-> "idle", range |-> NoRange]

MissingTypeOK ==
  /\ missing \subseteq BlockRange /\ claimed \subseteq BlockRange
  /\ manual \in [Workers -> {Idle} \cup [pc : {"fetch", "unlist", "release"}, range : BlockRange]]
  /\ owed \subseteq Heights
  /\ expired \in BOOLEAN
  /\ adds \in 0..MaxAdds /\ manualCrashes \in 0..MaxManualCrashes

MissingInit ==
  /\ missing = {} /\ claimed = {}
  /\ manual = [w \in Workers |-> Idle]
  /\ owed = {} /\ expired = FALSE
  /\ adds = 0 /\ manualCrashes = 0

BlocksOf(rs) == UNION {r[1]..r[2] : r \in rs}

\* Every MaxBlocksPerRange-th block of lo..hi.
Starts(lo, hi) == {s \in lo..hi : \E k \in 0..(s - lo) : s = lo + k * MaxBlocksPerRange}

\* Mutant: the last piece is not cut off at the end.
SplitOverrun(lo, hi) == {<<s, s + MaxBlocksPerRange - 1>> : s \in Starts(lo, hi)}

\* lo..hi in pieces of at most MaxBlocksPerRange.
Split(lo, hi) ==
  {<<s, Min({s + MaxBlocksPerRange - 1, hi})>> : s \in Starts(lo, hi)}

\* The existing ranges the new one is merged with.  They are looked up by their
\* first block, so one that begins further left is not found though it overlaps.
Merged(lo, hi) == {r \in missing : lo - 1 <= r[1] /\ r[1] <= hi + 1 /\ r[2] + 1 >= lo}

\* Ranges that a worker has fetched and is about to take off the list.
AlmostDone == {manual[w].range : w \in {v \in Workers : manual[v].pc = "unlist"}}

\* Mutant: the merged ranges are removed and only the new one is added.
AddMissingBlockRangeAlone(lo, hi) ==
  /\ adds < MaxAdds /\ adds' = adds + 1
  /\ missing' = (missing \ Merged(lo, hi)) \cup Split(lo, hi)
  /\ owed' = owed \cup ((lo..hi) \ BlocksOf(AlmostDone))
  /\ UNCHANGED <<claimed, manual, expired, manualCrashes>>

\* AddMissingBlockRange.  A block that a worker has just fetched counts as
\* handled: that worker may yet take the new range off the list, if it is the same.
AddMissingBlockRange(lo, hi) ==
  /\ adds < MaxAdds /\ adds' = adds + 1
  /\ LET old == Merged(lo, hi)
         from == Min({lo} \cup {r[1] : r \in old})
         to == Max({hi} \cup {r[2] : r \in old}) IN
     missing' = (missing \ old) \cup Split(from, to)
  /\ owed' = owed \cup ((lo..hi) \ BlocksOf(AlmostDone))
  /\ UNCHANGED <<claimed, manual, expired, manualCrashes>>

\* Mutant: the script does not set the claim.
GetNextRangeUnclaimed(w) ==
  /\ manual[w].pc = "idle"
  /\ \E r \in missing \ claimed :
       /\ \A s \in missing \ claimed : r[1] <= s[1]
       /\ manual' = [manual EXCEPT ![w] = [pc |-> "fetch", range |-> r]]
  /\ UNCHANGED <<claimed, missing, owed, expired, adds, manualCrashes>>

\* GetNextRange: the first range, by its first block, whose claim can be set.
GetNextRange(w) ==
  /\ manual[w].pc = "idle"
  /\ \E r \in missing \ claimed :
       /\ \A s \in missing \ claimed : r[1] <= s[1]
       /\ claimed' = claimed \cup {r}
       /\ manual' = [manual EXCEPT ![w] = [pc |-> "fetch", range |-> r]]
  /\ UNCHANGED <<missing, owed, expired, adds, manualCrashes>>

\* GetBlocks fails as a whole: the worker goes on, the claim has to run out.
GetBlocksFails(w) ==
  /\ manual[w].pc = "fetch"
  /\ manual' = [manual EXCEPT ![w] = Idle]
  /\ UNCHANGED <<missing, claimed, owed, expired, adds, manualCrashes>>

\* Each block is emitted or goes to the failed-block list.  The range is done
\* when its last block was emitted; else it stays, with its claim.
HandleRange(w, lastSucceeds) ==
  /\ manual[w].pc = "fetch"
  /\ owed' = owed \ BlocksOf({manual[w].range})
  /\ manual' = [manual EXCEPT ![w] = IF lastSucceeds THEN [@ EXCEPT !.pc = "unlist"] ELSE Idle]
  /\ UNCHANGED <<missing, claimed, expired, adds, manualCrashes>>

\* Mutant: the range is not found under the name it is looked for.
UnlistNothing(w) ==
  /\ manual[w].pc = "unlist"
  /\ manual' = [manual EXCEPT ![w].pc = "release"]
  /\ UNCHANGED <<missing, claimed, owed, expired, adds, manualCrashes>>

\* RemoveRange is a pipeline without a transaction: the range first.
Unlist(w) ==
  /\ manual[w].pc = "unlist"
  /\ missing' = missing \ {manual[w].range}
  /\ manual' = [manual EXCEPT ![w].pc = "release"]
  /\ UNCHANGED <<claimed, owed, expired, adds, manualCrashes>>

\* Then the claim, whoever has it by now.
Release(w) ==
  /\ manual[w].pc = "release"
  /\ claimed' = claimed \ {manual[w].range}
  /\ manual' = [manual EXCEPT ![w] = Idle]
  /\ UNCHANGED <<missing, owed, expired, adds, manualCrashes>>

Holders(r) == {w \in Workers : manual[w].range = r}

\* RangeProcessingTimeout has passed since the claim was set.
ClaimExpires(r) ==
  /\ r \in claimed
  /\ claimed' = claimed \ {r}
  /\ expired' = (expired \/ Holders(r) # {})
  /\ UNCHANGED <<missing, manual, owed, adds, manualCrashes>>

ManualCrash(w) ==
  /\ manual[w].pc # "idle"
  /\ manualCrashes < MaxManualCrashes /\ manualCrashes' = manualCrashes + 1
  /\ manual' = [manual EXCEPT ![w] = Idle]
  /\ UNCHANGED <<missing, claimed, owed, expired, adds>>

Finish(w) == HandleRange(w, TRUE) \/ Unlist(w) \/ Release(w)

MissingNext ==
  \/ \E r \in BlockRange : AddMissingBlockRange(r[1], r[2]) \/ ClaimExpires(r)
  \/ \E w \in Workers :
       \/ GetNextRange(w) \/ GetBlocksFails(w) \/ ManualCrash(w)
       \/ HandleRange(w, FALSE) \/ Finish(w)

MissingSpec == MissingInit /\ [][MissingNext]_missingVars

\* The loops run, keys expire, and where ranges are fetched again and again, one
\* of the fetches brings its last block.
MissingFairness ==
  /\ \A w \in Workers : WF_missingVars(GetNextRange(w) \/ Unlist(w) \/ Release(w))
  /\ WF_missingVars(\E r \in BlockRange : ClaimExpires(r))
  /\ SF_missingVars(\E w \in Workers : HandleRange(w, TRUE))

FairMissingSpec == MissingSpec /\ MissingFairness

-----------------------------------------------------------------------------

\* Whatever is added, merged and split while workers claim, finish, crash and
\* lose their claims, a block that was asked for and not handled since is in some
\* range: merging takes no range away from under its owner so that its blocks are
\* forgotten, and an owner that comes late takes away nothing but what it did.
OwedIsListed == owed \subseteq BlocksOf(missing)

\* Two workers have the same range in hand only if a claim ran out under one of
\* them.  The claim has no owner, so a late worker may delete another's; this says
\* that lateness is the only way to get there.
SharedNeedsExpiry ==
  \A w, v \in Workers :
    w # v /\ manual[w].range = manual[v].range /\ manual[w] # Idle => expired

\* Every block that is listed is off the list in the end, though a crashed or
\* unlucky worker leaves its claim behind and ranges in front of it keep failing.
ListedIsDone == \A b \in Heights : b \in BlocksOf(missing) ~> b \notin BlocksOf(missing)
=============================================================================
