----------------------------- MODULE Scan_proofs -----------------------------
(***************************************************************************)
(* Proofs about the walk of a chain, for every length of the chain and     *)
(* every setting of the workers, and about the two lists in which it       *)
(* leaves blocks: FailedBlocks and MissingBlocks, at the end.              *)
(*                                                                         *)
(* A block behind the cursor need not be handled, so SkipsAreBounded is    *)
(* proved from what the saved state says: up to the cursor, and up to the  *)
(* saved latest block, every block is handled, queued in a stored range or *)
(* in a set of given-up blocks that grows only with a stop or a failed     *)
(* publish; and below the progress of a range nothing is left to fetch.    *)
(***************************************************************************)
EXTENDS Scan, FailedBlocks, MissingBlocks, Extrema, FiniteSetTheorems

RangeRecords == [lo : Blocks, hi : Blocks, current : 0..MaxBlock]
WorkRecords == [lo : Blocks, hi : Blocks, next : 1..(MaxBlock + 1), last : 0..MaxBlock]

\* Progress is never before the range, and the next block is after it.
Shape ==
  /\ TypeOK
  /\ regular.pc = "save" => regular.last = regular.cur - 1
  /\ \A r \in ranges : r.lo <= r.current + 1
  /\ \A w \in work : w.last < w.next /\ w.lo <= w.last + 1

-----------------------------------------------------------------------------
(* Ranges *)

LEMMA Numbers ==
  /\ MaxBlock \in Nat /\ StartBlock \in Blocks /\ Blocks \in SUBSET Nat
  /\ BatchSize \in Nat \ {0} /\ MaxRange \in Nat \ {0} /\ StartOffset \in Nat
  /\ MaxRestarts \in Nat /\ MaxLost \in Nat
BY ScanAssumption DEF Blocks

LEMMA SmallerOf ==
  ASSUME NEW m \in Nat, NEW n \in Nat
  PROVE  Min({m, n}) \in {m, n} /\ Min({m, n}) <= m /\ Min({m, n}) <= n
<1>1. {m, n} \in SUBSET Nat
  OBVIOUS
<1> QED
  BY <1>1, MinOfNat

LEMMA ChunkType ==
  ASSUME NEW lo \in Blocks, NEW hi \in Blocks, NEW r \in Chunks(lo, hi)
  PROVE  r \in RangeRecords /\ r.current = r.lo - 1
<1>1. PICK s \in lo..hi : r = [lo |-> s, hi |-> Min({s + MaxRange - 1, hi}), current |-> s - 1]
  BY DEF Chunks
<1>2. lo \in Nat /\ hi \in Nat /\ s \in Nat /\ s + MaxRange - 1 \in Nat /\ s <= s + MaxRange - 1
  BY <1>1, Numbers DEF Blocks
<1> DEFINE e == Min({s + MaxRange - 1, hi})
<1>3. e \in {s + MaxRange - 1, hi} /\ e <= hi
  BY <1>2, SmallerOf
<1> HIDE DEF e
<1>4. e \in s..hi
  BY <1>1, <1>2, <1>3
<1>5. s \in Blocks /\ e \in Blocks /\ s - 1 \in 0..MaxBlock
  BY <1>1, <1>4, Numbers DEF Blocks
<1>6. r = [lo |-> s, hi |-> e, current |-> s - 1]
  BY <1>1 DEF e
<1> QED
  BY <1>5, <1>6 DEF RangeRecords

\* The pieces cover every block: look at the first one they would leave out.
LEMMA ChunksCover ==
  ASSUME NEW lo \in Blocks, NEW hi \in Blocks, NEW b \in lo..hi
  PROVE  \E r \in Chunks(lo, hi) : r.current < b /\ b <= r.hi
<1> DEFINE InPiece(n, s) == /\ \E k \in Nat : s = lo + k * MaxRange
                            /\ s <= n /\ n <= s + MaxRange - 1
           Missed == {n \in lo..hi : ~ \E s \in lo..hi : InPiece(n, s)}
<1>1. MaxRange \in Nat \ {0} /\ lo \in Nat /\ hi \in Nat /\ b \in Nat /\ lo <= b /\ b <= hi
  BY Numbers DEF Blocks
<1>2. Missed = {}
  <2> SUFFICES ASSUME Missed # {} PROVE FALSE
    OBVIOUS
  <2>1. Missed \in SUBSET Nat
    BY <1>1
  <2>2. PICK n \in Missed : \A m \in Missed : n <= m
    BY <2>1, SmallestNat
  <2>3. n \in lo..hi /\ n \in Nat
    BY <1>1, <2>2
  <2>4. InPiece(lo, lo)
    <3>1. lo = lo + 0 * MaxRange
      BY <1>1
    <3> QED
      BY <1>1, <3>1
  <2>5. n # lo
    BY <1>1, <2>2, <2>3, <2>4
  <2>6. PICK s \in lo..hi : InPiece(n - 1, s)
    <3>1. n - 1 \in lo..hi /\ ~(n <= n - 1)
      BY <1>1, <2>3, <2>5
    <3>2. n - 1 \notin Missed
      BY <2>2, <3>1, Zenon
    <3> QED
      BY <3>1, <3>2
  <2>7. InPiece(n - 1, s)
    BY <2>6
  <2>8. n = s + MaxRange
    <3>1. ~InPiece(n, s)
      BY <2>2, <2>7
    <3> QED
      BY <1>1, <2>3, <2>7, <3>1
  <2>9. PICK k \in Nat : s = lo + k * MaxRange
    BY <2>7
  <2>10. k * MaxRange \in Nat /\ n = lo + (k * MaxRange + MaxRange)
    BY <1>1, <2>8, <2>9
  <2>11. (k + 1) * MaxRange = k * MaxRange + MaxRange /\ k + 1 \in Nat
    BY <1>1, <2>9
  <2>12. InPiece(n, n)
    BY <1>1, <2>3, <2>10, <2>11
  <2> QED
    BY <2>2, <2>3, <2>12
<1>3. PICK s \in lo..hi : InPiece(b, s)
  BY <1>2
<1>4. (s - lo) % MaxRange = 0
  <2>1. PICK k \in Nat : s = lo + k * MaxRange
    BY <1>3
  <2>2. s - lo \in Nat /\ s - lo = k * MaxRange
    BY <1>1, <2>1
  <2>3. \A n \in Nat \ {0}, a \in Nat : a = k * n => a % n = 0
    OBVIOUS
  <2> QED
    BY <1>1, <2>2, <2>3
<1> DEFINE e == Min({s + MaxRange - 1, hi})
<1>5. [lo |-> s, hi |-> e, current |-> s - 1] \in Chunks(lo, hi)
  BY <1>4 DEF Chunks
<1>6. s + MaxRange - 1 \in Nat /\ s \in Nat
  BY <1>1
<1>7. e \in {s + MaxRange - 1, hi}
  BY <1>1, <1>6, SmallerOf
<1> HIDE DEF e
<1>8. s - 1 < b /\ b <= e
  BY <1>1, <1>3, <1>6, <1>7
<1> QED
  BY <1>5, <1>8

LEMMA SavedRanges ==
  ASSUME ranges \subseteq RangeRecords, \A r \in ranges : r.lo <= r.current + 1,
         NEW new \in SUBSET RangeRecords, \A r \in new : r.lo <= r.current + 1
  PROVE  SaveRanges(new) \subseteq RangeRecords /\ \A r \in SaveRanges(new) : r.lo <= r.current + 1
BY DEF SaveRanges

LEMMA NearHeadType ==
  ASSUME NEW seen \in Blocks
  PROVE  NearHead(seen) \in Blocks /\ NearHead(seen) <= seen
BY Numbers DEF NearHead, Blocks

\* Work comes from the ranges it was loaded from.
LEMMA LoadedWork ==
  ASSUME NEW rs \in SUBSET RangeRecords, \A r \in rs : r.lo <= r.current + 1
  PROVE  /\ Unstarted(rs) \subseteq WorkRecords
         /\ \A w \in Unstarted(rs) : w.last < w.next /\ w.lo <= w.last + 1
BY Numbers DEF Unstarted, RangeRecords, WorkRecords, Blocks

LEMMA ResultsType ==
  ASSUME TypeOK, NEW lo \in Blocks, NEW hi \in Blocks, NEW ok \in SUBSET (lo..hi),
         HandleResults(lo..hi, ok)
  PROVE  handled' \subseteq Blocks /\ lost' \in 0..MaxLost
<1>1. PICK gone \in SUBSET ok : /\ lost' = lost + Cardinality(gone) /\ lost' <= MaxLost
                                /\ handled' = handled \cup ((lo..hi) \ gone)
  BY DEF HandleResults
<1>2. IsFiniteSet(lo..hi)
  BY Numbers, FS_Interval DEF Blocks
<1>3. Cardinality(gone) \in Nat
  BY <1>2, FS_Subset, FS_CardinalityType
<1>4. lo..hi \subseteq Blocks
  BY Numbers DEF Blocks
<1> QED
  BY <1>1, <1>3, <1>4, Numbers DEF TypeOK

LEMMA LastOf ==
  ASSUME NEW lo \in Blocks, NEW hi \in Blocks, NEW ok \in SUBSET (lo..hi), ok # {}
  PROVE  Max(ok) \in lo..hi /\ Max(ok) \in ok /\ \A b \in ok : b <= Max(ok)
<1>1. hi \in Nat /\ ok \in SUBSET (0..hi)
  BY Numbers DEF Blocks
<1>2. Max(ok) \in ok /\ \A b \in ok : Max(ok) >= b
  BY <1>1, MaxOfBounded
<1> QED
  BY <1>1, <1>2

-----------------------------------------------------------------------------
(* Types *)

LEMMA SeenType ==
  ASSUME TypeOK, NEW seen \in Seen
  PROVE  seen \in Blocks /\ seen \in Nat
BY Numbers DEF Seen

LEMMA LaunchShape ==
  ASSUME Shape, NEW block \in 1..(MaxBlock + 1), latest = 0 => block \in Blocks, Launch(block),
         ranges' \subseteq RangeRecords, \A r \in ranges' : r.lo <= r.current + 1
  PROVE  Shape'
<1>1. regular' \in [pc : {"tick", "save"}, cur : 1..(MaxBlock + 1), last : 0..MaxBlock]
  BY Numbers DEF Launch
<1>2. first' \in Blocks
  BY DEF Launch, Shape, TypeOK
<1> QED
  BY <1>1, <1>2 DEF Launch, Shape, TypeOK, RangeRecords

LEMMA GapType ==
  ASSUME Shape, NEW seen \in Seen, seen > latest
  PROVE  latest + 1 \in Blocks /\ seen \in Blocks
BY SeenType, Numbers DEF Shape, TypeOK, Blocks

LEMMA QueuedType ==
  ASSUME Shape, NEW lo \in Blocks, NEW hi \in Blocks
  PROVE  /\ SaveRanges(Chunks(lo, hi)) \subseteq RangeRecords
         /\ \A r \in SaveRanges(Chunks(lo, hi)) : r.lo <= r.current + 1
<1>1. \A r \in Chunks(lo, hi) : r \in RangeRecords /\ r.current = r.lo - 1
  BY ChunkType
<1>2. \A r \in Chunks(lo, hi) : r.lo <= r.current + 1
  BY <1>1, Numbers DEF RangeRecords, Blocks
<1> QED
  BY <1>1, <1>2, SavedRanges DEF Shape, TypeOK, RangeRecords

LEMMA StartShape ==
  ASSUME Shape, Start
  PROVE  Shape'
<1>1. ranges \subseteq RangeRecords /\ \A r \in ranges : r.lo <= r.current + 1
  BY DEF Shape, TypeOK, RangeRecords
<1>2. CASE StartBlind
  <2> DEFINE block == IF latest > 0 THEN latest ELSE StartBlock
  <2>1. block \in 1..(MaxBlock + 1) /\ (latest = 0 => block \in Blocks)
    BY Numbers DEF Shape, TypeOK, Blocks
  <2> QED
    BY <1>1, <1>2, <2>1, LaunchShape DEF StartBlind
<1>3. ASSUME NEW seen \in Seen PROVE NearHead(seen) \in Blocks /\ NearHead(seen) \in 1..(MaxBlock + 1)
  BY <1>3, SeenType, NearHeadType, Numbers DEF Blocks, Shape
<1>4. CASE \E seen \in Seen : StartAtHead(seen)
  BY <1>1, <1>3, <1>4, LaunchShape DEF StartAtHead
<1>5. CASE \E seen \in Seen : StartWithGap(seen)
  <2>1. PICK seen \in Seen : StartWithGap(seen)
    BY <1>5
  <2>2. ranges' \subseteq RangeRecords /\ \A r \in ranges' : r.lo <= r.current + 1
    <3>1. CASE seen > latest
      BY <2>1, <3>1, GapType, QueuedType DEF StartWithGap
    <3>2. CASE ~(seen > latest)
      BY <1>1, <2>1, <3>2 DEF StartWithGap
    <3> QED
      BY <3>1, <3>2
  <2> QED
    BY <1>3, <2>1, <2>2, LaunchShape DEF StartWithGap
<1> QED
  BY <1>2, <1>4, <1>5 DEF Start

LEMMA RegularShape ==
  ASSUME Shape, RegularStep
  PROVE  Shape'
<1>1. /\ TypeOK /\ regular.cur \in Nat /\ regular.last \in 0..MaxBlock
      /\ regular.cur \in 1..(MaxBlock + 1)
  BY Numbers DEF Shape, TypeOK
<1>2. CASE SaveLatest
  BY <1>1, <1>2, Numbers DEF SaveLatest, runVars, catchupVars, Shape, TypeOK
<1>3. CASE \E seen \in Seen : SkipAhead(seen)
  <2>1. PICK seen \in Seen : SkipAhead(seen)
    BY <1>3
  <2>2. seen \in Blocks /\ seen \in Nat /\ seen > regular.cur
    BY <1>1, <2>1, SeenType DEF SkipAhead, Lagging
  <2>3. regular.cur \in Blocks /\ seen - 1 \in Blocks
    BY <1>1, <2>2, Numbers DEF Blocks
  <2>4. ranges' \subseteq RangeRecords /\ \A r \in ranges' : r.lo <= r.current + 1
    BY <2>1, <2>3, QueuedType DEF SkipAhead
  <2>5. /\ regular' = [pc |-> "save", cur |-> seen, last |-> seen - 1]
        /\ regular' \in [pc : {"tick", "save"}, cur : 1..(MaxBlock + 1), last : 0..MaxBlock]
    BY <2>1, <2>2, <2>3, Numbers DEF SkipAhead, Blocks
  <2> QED
    BY <2>1, <2>4, <2>5 DEF SkipAhead, runVars, catchupVars, Shape, TypeOK, RangeRecords
<1>4. CASE \E seen \in Seen : RegularBatch(seen)
  <2>1. PICK seen \in Seen : RegularBatch(seen)
    BY <1>4
  <2> DEFINE e == Min({regular.cur + BatchSize - 1, seen})
  <2>2. PICK ok \in SUBSET (regular.cur..e) :
          /\ HandleResults(regular.cur..e, ok)
          /\ regular' = IF ok = {} THEN regular
                        ELSE [pc |-> "save", cur |-> Max(ok) + 1, last |-> Max(ok)]
    BY <2>1 DEF RegularBatch
  <2>3. seen \in Blocks /\ seen \in Nat /\ regular.cur <= seen /\ regular.cur \in Blocks
    BY <1>1, <2>1, SeenType, Numbers DEF RegularBatch, Blocks
  <2>4. e \in Blocks
    <3>1. regular.cur + BatchSize - 1 \in Nat /\ regular.cur <= regular.cur + BatchSize - 1
      BY <1>1, Numbers
    <3>2. e \in {regular.cur + BatchSize - 1, seen} /\ e <= seen
      BY <2>3, <3>1, SmallerOf
    <3> HIDE DEF e
    <3> QED
      BY <1>1, <2>3, <3>1, <3>2, Numbers DEF Blocks
  <2> HIDE DEF e
  <2>5. handled' \subseteq Blocks /\ lost' \in 0..MaxLost
    BY <1>1, <2>2, <2>3, <2>4, ResultsType
  <2>6. /\ regular' \in [pc : {"tick", "save"}, cur : 1..(MaxBlock + 1), last : 0..MaxBlock]
        /\ regular'.pc = "save" => regular'.last = regular'.cur - 1
    <3>1. CASE ok = {}
      BY <2>2, <3>1 DEF Shape, TypeOK
    <3>2. CASE ok # {}
      <4>1. Max(ok) \in regular.cur..e
        BY <2>2, <2>3, <2>4, <3>2, LastOf
      <4>2. Max(ok) \in Nat /\ Max(ok) >= 1 /\ Max(ok) <= MaxBlock
        BY <1>1, <2>4, <4>1, Numbers DEF Blocks
      <4>3. regular' = [pc |-> "save", cur |-> Max(ok) + 1, last |-> Max(ok)]
        BY <2>2, <3>2
      <4>4. /\ Max(ok) + 1 \in 1..(MaxBlock + 1) /\ Max(ok) \in 0..MaxBlock
            /\ Max(ok) = (Max(ok) + 1) - 1
        BY <4>2, Numbers
      <4> QED
        BY <4>3, <4>4
    <3> QED
      BY <3>1, <3>2
  <2> QED
    BY <2>1, <2>5, <2>6 DEF RegularBatch, runVars, catchupVars, Shape, TypeOK
<1> QED
  BY <1>2, <1>3, <1>4 DEF RegularStep

LEMMA CatchupShape ==
  ASSUME Shape, CatchupStep
  PROVE  Shape'
<1>1. /\ TypeOK /\ ranges \subseteq RangeRecords /\ work \subseteq WorkRecords
      /\ \A r \in ranges : r.lo <= r.current + 1
      /\ \A w \in work : w.last < w.next /\ w.lo <= w.last + 1
  BY DEF Shape, TypeOK, RangeRecords, WorkRecords
<1>2. CASE CatchupLoad
  <2>1. PICK new \in SUBSET RangeRecords :
          LoadRanges(new) /\ \A r \in new : r.lo <= r.current + 1
    <3>1. CASE LoadRanges({})
      BY <3>1
    <3>2. CASE \E seen \in Seen : seen > latest /\ LoadRanges(Chunks(latest + 1, seen))
      <4>1. PICK seen \in Seen : seen > latest /\ LoadRanges(Chunks(latest + 1, seen))
        BY <3>2
      <4>2. \A r \in Chunks(latest + 1, seen) : r \in RangeRecords /\ r.current = r.lo - 1
        BY <4>1, GapType, ChunkType
      <4>3. \A r \in Chunks(latest + 1, seen) : r.lo <= r.current + 1
        BY <4>2, Numbers DEF RangeRecords, Blocks
      <4>4. Chunks(latest + 1, seen) \in SUBSET RangeRecords
        BY <4>2
      <4> QED
        BY <4>1, <4>3, <4>4
    <3> QED
      BY <1>2, <3>1, <3>2 DEF CatchupLoad
  <2>2. ranges' = SaveRanges(new) /\ work' = Unstarted(ranges')
    BY <2>1 DEF LoadRanges
  <2>3. ranges' \in SUBSET RangeRecords /\ \A r \in ranges' : r.lo <= r.current + 1
    BY <1>1, <2>1, <2>2, SavedRanges
  <2>4. work' \subseteq WorkRecords /\ \A w \in work' : w.last < w.next /\ w.lo <= w.last + 1
    BY <2>2, <2>3, LoadedWork
  <2> QED
    BY <2>1, <2>3, <2>4 DEF LoadRanges, regularVars, runVars, Shape, TypeOK, RangeRecords,
                            WorkRecords
<1>3. ASSUME NEW w \in work, CatchupBatch(w) PROVE Shape'
  <2> DEFINE e == Min({w.next + BatchSize - 1, w.hi})
  <2>1. /\ w \in WorkRecords /\ w.lo \in Nat /\ w.hi \in Blocks /\ w.hi \in Nat
        /\ w.next \in Nat /\ w.last \in Nat
        /\ w.next <= w.hi /\ w.last < w.next /\ w.lo <= w.last + 1
    <3>1. w \in WorkRecords /\ w.last < w.next /\ w.lo <= w.last + 1 /\ w.next <= w.hi
      BY <1>1, <1>3 DEF CatchupBatch
    <3> QED
      BY <3>1, Numbers DEF WorkRecords, Blocks
  <2>2. PICK ok \in SUBSET (w.next..e) :
          /\ HandleResults(w.next..e, ok)
          /\ LET last == IF ok = {} THEN w.last ELSE Max(ok)
                 next == IF ok = {} THEN e + 1 ELSE last + 1 IN
             /\ work' = (work \ {w}) \cup {[w EXCEPT !.next = next, !.last = last]}
             /\ ranges' = SaveRanges({[lo |-> w.lo, hi |-> w.hi, current |-> last]})
    BY <1>3 DEF CatchupBatch
  <2>3. w.next \in Blocks
    BY <2>1, Numbers DEF WorkRecords, Blocks
  <2>4. e \in Blocks /\ w.next <= e /\ e \in Nat
    <3>1. w.next + BatchSize - 1 \in Nat /\ w.next <= w.next + BatchSize - 1
      BY <2>1, Numbers
    <3>2. e \in {w.next + BatchSize - 1, w.hi} /\ e <= w.hi
      BY <2>1, <3>1, SmallerOf
    <3> HIDE DEF e
    <3> QED
      BY <2>1, <2>3, <3>1, <3>2, Numbers DEF Blocks
  <2> HIDE DEF e
  <2>5. handled' \subseteq Blocks /\ lost' \in 0..MaxLost
    BY <1>1, <2>2, <2>3, <2>4, ResultsType
  <2> DEFINE last == IF ok = {} THEN w.last ELSE Max(ok)
             next == IF ok = {} THEN e + 1 ELSE last + 1
  <2>6. /\ last \in 0..MaxBlock /\ next \in 1..(MaxBlock + 1) /\ last < next
        /\ w.lo <= last + 1
    <3>1. CASE ok = {}
      BY <2>1, <2>4, <3>1, Numbers DEF WorkRecords, Blocks
    <3>2. CASE ok # {}
      <4>1. Max(ok) \in w.next..e
        BY <2>2, <2>3, <2>4, <3>2, LastOf
      <4> QED
        BY <2>1, <2>4, <3>2, <4>1, Numbers DEF Blocks
    <3> QED
      BY <3>1, <3>2
  <2>7. /\ work' = (work \ {w}) \cup {[w EXCEPT !.next = next, !.last = last]}
        /\ ranges' = SaveRanges({[lo |-> w.lo, hi |-> w.hi, current |-> last]})
    BY <2>2
  <2> HIDE DEF last, next
  <2>8. work' \subseteq WorkRecords /\ \A v \in work' : v.last < v.next /\ v.lo <= v.last + 1
    <3> DEFINE v == [w EXCEPT !.next = next, !.last = last]
    <3>1. v \in WorkRecords /\ v.last = last /\ v.next = next /\ v.lo = w.lo
      BY <2>1, <2>6 DEF WorkRecords
    <3>2. v.last < v.next /\ v.lo <= v.last + 1
      BY <2>6, <3>1
    <3> HIDE DEF v
    <3>3. work' = (work \ {w}) \cup {v}
      BY <2>7 DEF v
    <3> QED
      BY <1>1, <3>1, <3>2, <3>3
  <2>9. ranges' \subseteq RangeRecords /\ \A r \in ranges' : r.lo <= r.current + 1
    <3> DEFINE r == [lo |-> w.lo, hi |-> w.hi, current |-> last]
    <3>1. r \in RangeRecords /\ r.lo <= r.current + 1
      BY <2>1, <2>6 DEF RangeRecords, WorkRecords
    <3> HIDE DEF r
    <3>2. ranges' = SaveRanges({r})
      BY <2>7 DEF r
    <3> QED
      BY <1>1, <3>1, <3>2, SavedRanges
  <2> QED
    BY <1>3, <2>5, <2>8, <2>9 DEF CatchupBatch, regularVars, runVars, Shape, TypeOK,
                                  RangeRecords, WorkRecords
<1>4. ASSUME NEW w \in work, CompleteRange(w) PROVE Shape'
  BY <1>4 DEF CompleteRange, regularVars, runVars, Shape, TypeOK
<1> QED
  BY <1>2, <1>3, <1>4 DEF CatchupStep

LEMMA ShapeInvariant == Spec => []Shape
<1>1. Init => Shape
  BY Numbers DEF Init, Shape, TypeOK, Blocks
<1>2. Shape /\ [Next]_vars => Shape'
  <2> SUFFICES ASSUME Shape, [Next]_vars PROVE Shape'
    OBVIOUS
  <2>1. CASE NewBlock
    BY <2>1, Numbers DEF NewBlock, regularVars, runVars, catchupVars, Shape, TypeOK, Blocks
  <2>2. CASE Crash
    BY <2>2, Numbers DEF Crash, Halt, Shape, TypeOK
  <2>3. CASE Stop
    BY <2>3, Numbers DEF Stop, Shape, TypeOK
  <2>4. CASE Exit
    BY <2>4 DEF Exit, Halt, Shape, TypeOK
  <2>5. CASE UNCHANGED vars
    BY <2>5 DEF vars, Shape, TypeOK
  <2> QED
    BY <2>1, <2>2, <2>3, <2>4, <2>5, StartShape, RegularShape, CatchupShape DEF Next
<1> QED
  BY <1>1, <1>2, PTL DEF Spec

\* Every reachable state has the types of the module: cursor, saved block and the
\* progress of every range stay within the chain.
THEOREM TypeCorrect == Spec => []TypeOK
BY ShapeInvariant, PTL DEF Shape

-----------------------------------------------------------------------------
(* No block is forgotten *)

Done(b, G) == b \in handled \cup G
Covered(b, G) == Done(b, G) \/ Queued(b)

\* Every block that cursor, saved block or progress vouch for is handled or among
\* the given-up blocks G; the first two may leave it to a stored range.
Accounted(G) ==
  /\ \A b \in first..(regular.cur - 1) : Covered(b, G)
  /\ latest > 0 => \A b \in first..latest : Covered(b, G)
  /\ \A r \in ranges : \A b \in r.lo..r.current : Done(b, G)
  /\ \A w \in work : \A b \in w.lo..(w.next - 1) : Done(b, G)

Books == \E G : IsFiniteSet(G) /\ Cardinality(G) <= stops + lost /\ Accounted(G)

\* What is given up more is paid for by a stop or a failed publish.
LEMMA GivenUpMore ==
  ASSUME Shape, NEW G, IsFiniteSet(G), Cardinality(G) <= stops + lost,
         NEW X, IsFiniteSet(X), Cardinality(X) + stops + lost <= stops' + lost',
         stops' \in Nat, lost' \in Nat, Accounted(G \cup X)'
  PROVE  Books'
<1>1. IsFiniteSet(G \cup X) /\ Cardinality(G \cup X) \in Nat
  BY FS_Union, FS_CardinalityType
<1>2. Cardinality(G \cup X) <= Cardinality(G) + Cardinality(X)
  <2>1. Cardinality(G \cup X) = Cardinality(G) + Cardinality(X) - Cardinality(G \cap X)
    BY FS_Union
  <2>2. IsFiniteSet(G \cap X)
    BY FS_Intersection
  <2>3. Cardinality(G) \in Nat /\ Cardinality(X) \in Nat /\ Cardinality(G \cap X) \in Nat
    BY <2>2, FS_CardinalityType
  <2> QED
    BY <2>1, <2>3
<1>3. Cardinality(G) \in Nat /\ Cardinality(X) \in Nat
  BY FS_CardinalityType
<1>4. stops \in Nat /\ lost \in Nat
  BY Numbers DEF Shape, TypeOK
<1>5. Cardinality(G \cup X) <= stops' + lost'
  BY <1>1, <1>2, <1>3, <1>4
<1> QED
  BY <1>1, <1>5 DEF Books

LEMMA NothingGivenUp ==
  ASSUME stops' = stops, lost' = lost,
         \A G : Accounted(G) => Accounted(G)', Books
  PROVE  Books'
BY DEF Books

\* Ranges queued again from their start leave no block out.
LEMMA QueuedKept ==
  ASSUME Shape, NEW new \in SUBSET RangeRecords, \A n \in new : n.current = n.lo - 1,
         ranges' = SaveRanges(new)
  PROVE  \A b \in Nat : Queued(b) => Queued(b)'
<1> SUFFICES ASSUME NEW b \in Nat, Queued(b) PROVE Queued(b)'
  OBVIOUS
<1>1. PICK r \in ranges : r.current < b /\ b <= r.hi
  BY DEF Queued
<1>2. CASE r \in ranges'
  BY <1>1, <1>2 DEF Queued
<1>3. CASE r \notin ranges'
  <2>1. PICK n \in new : n.lo = r.lo /\ n.hi = r.hi
    BY <1>3 DEF SaveRanges
  <2>2. n \in ranges'
    BY DEF SaveRanges
  <2>3. r.lo <= r.current + 1 /\ n.current = r.lo - 1
    BY <2>1 DEF Shape
  <2>4. r.lo \in Nat /\ r.current \in Nat
    BY Numbers DEF Shape, TypeOK, Blocks
  <2>5. n.current < b /\ b <= n.hi
    BY <1>1, <2>1, <2>3, <2>4
  <2> QED
    BY <2>2, <2>5 DEF Queued
<1> QED
  BY <1>2, <1>3

LEMMA ChunksQueued ==
  ASSUME Shape, NEW lo \in Blocks, NEW hi \in Blocks, ranges' = SaveRanges(Chunks(lo, hi))
  PROVE  /\ \A b \in lo..hi : Queued(b)'
         /\ \A b \in Nat : Queued(b) => Queued(b)'
         /\ \A G : \A r \in ranges' : r \in ranges \/ \A b \in r.lo..r.current : Done(b, G)
<1>1. \A r \in Chunks(lo, hi) : r \in RangeRecords /\ r.current = r.lo - 1
  BY ChunkType
<1>2. \A b \in lo..hi : Queued(b)'
  <2> SUFFICES ASSUME NEW b \in lo..hi PROVE Queued(b)'
    OBVIOUS
  <2>1. PICK r \in Chunks(lo, hi) : r.current < b /\ b <= r.hi
    BY ChunksCover
  <2>2. r \in ranges'
    BY DEF SaveRanges
  <2> QED
    BY <2>1, <2>2 DEF Queued
<1>3. \A b \in Nat : Queued(b) => Queued(b)'
  BY <1>1, QueuedKept
<1>4. ASSUME NEW G, NEW r \in ranges', r \notin ranges PROVE \A b \in r.lo..r.current : Done(b, G)
  <2>1. r \in Chunks(lo, hi)
    BY <1>4 DEF SaveRanges
  <2>2. r.current = r.lo - 1 /\ r.lo \in Nat
    BY <1>1, <2>1, Numbers DEF RangeRecords, Blocks
  <2> QED
    BY <2>2
<1> QED
  BY <1>2, <1>3, <1>4

LEMMA StartBooks ==
  ASSUME ~FromLatest, Shape, Books, Start
  PROVE  Books'
<1>1. stops' = stops /\ lost' = lost
  BY DEF Start, StartBlind, StartAtHead, StartWithGap, Launch
<1>2. SUFFICES ASSUME NEW G, Accounted(G) PROVE Accounted(G)'
  BY <1>1, NothingGivenUp
<1>3. /\ first \in Nat /\ latest \in Nat /\ handled' = handled /\ latest' = latest /\ work' = {}
      /\ latest = 0 => first' = regular'.cur
      /\ latest > 0 => first' = first
  BY Numbers DEF Start, StartBlind, StartAtHead, StartWithGap, Launch, Shape, TypeOK, Blocks
<1>4. \A b : Done(b, G)' <=> Done(b, G)
  BY <1>3 DEF Done
<1>5. \A b \in Nat : Queued(b) => Queued(b)'
  <2>1. CASE ranges' = ranges
    BY <2>1 DEF Queued
  <2>2. CASE \E seen \in Seen : seen > latest /\ ranges' = SaveRanges(Chunks(latest + 1, seen))
    BY <2>2, GapType, ChunksQueued
  <2> QED
    BY <2>1, <2>2 DEF Start, StartBlind, StartAtHead, StartWithGap
<1>6. \A r \in ranges' : \A b \in r.lo..r.current : Done(b, G)'
  <2>1. CASE ranges' = ranges
    BY <1>2, <1>4, <2>1 DEF Accounted
  <2>2. CASE \E seen \in Seen : seen > latest /\ ranges' = SaveRanges(Chunks(latest + 1, seen))
    BY <1>2, <1>4, <2>2, GapType, ChunksQueued DEF Accounted
  <2> QED
    BY <2>1, <2>2 DEF Start, StartBlind, StartAtHead, StartWithGap
<1>7. latest > 0 => \A b \in first..latest : Covered(b, G)'
  <2> SUFFICES ASSUME latest > 0, NEW b \in first..latest PROVE Covered(b, G)'
    OBVIOUS
  <2>1. Covered(b, G) /\ b \in Nat
    BY <1>2, <1>3 DEF Accounted
  <2> QED
    BY <1>4, <1>5, <2>1 DEF Covered
<1>8. CASE latest = 0
  <2>1. first' = regular'.cur /\ regular'.cur \in Nat
    BY <1>3, <1>8, StartShape, Numbers DEF Shape, TypeOK
  <2>2. \A b \in first'..(regular'.cur - 1) : Covered(b, G)'
    BY <2>1
  <2> QED
    BY <1>3, <1>6, <1>8, <2>2 DEF Accounted
<1>9. CASE latest > 0
  <2>1. \A b \in first..(regular'.cur - 1) : Covered(b, G)'
    <3>1. CASE StartBlind
      <4>1. regular'.cur = latest
        BY <1>9, <3>1 DEF StartBlind, Launch
      <4> QED
        BY <1>3, <1>7, <1>9, <4>1
    <3>2. CASE \E seen \in Seen : StartWithGap(seen)
      <4>1. PICK seen \in Seen : StartWithGap(seen)
        BY <3>2
      <4>2. regular'.cur = NearHead(seen) /\ NearHead(seen) <= seen /\ NearHead(seen) \in Nat
            /\ seen \in Nat
        BY <4>1, SeenType, NearHeadType, Numbers DEF StartWithGap, Launch, Shape
      <4>3. \A b \in Nat : b > latest /\ b <= seen => Queued(b)'
        <5> SUFFICES ASSUME NEW b \in Nat, b > latest, b <= seen PROVE Queued(b)'
          OBVIOUS
        <5>1. seen > latest
          BY <1>3, <4>2
        <5>2. ranges' = SaveRanges(Chunks(latest + 1, seen))
          BY <4>1, <5>1 DEF StartWithGap
        <5>3. b \in (latest + 1)..seen
          BY <1>3, <4>2
        <5> QED
          BY <5>1, <5>2, <5>3, GapType, ChunksQueued
      <4> SUFFICES ASSUME NEW b \in first..(regular'.cur - 1) PROVE Covered(b, G)'
        OBVIOUS
      <4>4. b \in Nat /\ b <= seen
        BY <1>3, <4>2
      <4> QED
        BY <1>3, <1>7, <1>9, <4>3, <4>4 DEF Covered
    <3> QED
      BY <1>9, <3>1, <3>2 DEF Start, StartAtHead
  <2> QED
    BY <1>3, <1>6, <1>7, <1>9, <2>1 DEF Accounted
<1> QED
  BY <1>3, <1>8, <1>9

\* A batch gives up the blocks whose publish failed; every other one is handled.
LEMMA BatchDone ==
  ASSUME Shape, NEW lo \in Blocks, NEW hi \in Blocks, NEW ok \in SUBSET (lo..hi),
         HandleResults(lo..hi, ok)
  PROVE  \E X : /\ IsFiniteSet(X) /\ lost' = lost + Cardinality(X)
                /\ \A b \in lo..hi : b \in handled' \cup X
                /\ handled \subseteq handled'
<1>1. PICK gone \in SUBSET ok : /\ lost' = lost + Cardinality(gone)
                                /\ handled' = handled \cup ((lo..hi) \ gone)
  BY DEF HandleResults
<1>2. IsFiniteSet(lo..hi)
  BY Numbers, FS_Interval DEF Blocks
<1>3. IsFiniteSet(gone)
  BY <1>2, FS_Subset
<1> QED
  BY <1>1, <1>3

LEMMA RegularBooks ==
  ASSUME Shape, Shape', Books, RegularStep
  PROVE  Books'
<1>1. /\ regular.cur \in Nat /\ first \in Nat /\ latest \in Nat /\ stops \in Nat /\ lost \in Nat
      /\ stops' \in Nat /\ lost' \in Nat
  BY Numbers DEF Shape, TypeOK, Blocks
<1>2. CASE SaveLatest
  <2> SUFFICES ASSUME NEW G, Accounted(G) PROVE Accounted(G)'
    BY <1>2, NothingGivenUp DEF SaveLatest, runVars
  <2>1. /\ latest' = regular.cur - 1 /\ regular'.cur = regular.cur
        /\ UNCHANGED <<handled, ranges, first, work>>
    BY <1>2 DEF SaveLatest, runVars, catchupVars, Shape, TypeOK
  <2> QED
    BY <2>1 DEF Accounted, Covered, Done, Queued
<1>3. CASE \E seen \in Seen : SkipAhead(seen)
  <2>1. PICK seen \in Seen : SkipAhead(seen)
    BY <1>3
  <2> SUFFICES ASSUME NEW G, Accounted(G) PROVE Accounted(G)'
    BY <2>1, NothingGivenUp DEF SkipAhead, runVars
  <2>2. /\ UNCHANGED <<handled, first, work, latest>> /\ regular'.cur = seen
        /\ ranges' = SaveRanges(Chunks(regular.cur, seen - 1))
    BY <2>1 DEF SkipAhead, runVars, catchupVars
  <2>3. regular.cur \in Blocks /\ seen - 1 \in Blocks /\ seen \in Nat
    BY <1>1, <2>1, SeenType, Numbers DEF SkipAhead, Lagging, Blocks, Shape, TypeOK
  <2>4. /\ \A b \in regular.cur..(seen - 1) : Queued(b)'
        /\ \A b \in Nat : Queued(b) => Queued(b)'
        /\ \A r \in ranges' : r \in ranges \/ \A b \in r.lo..r.current : Done(b, G)
    BY <2>2, <2>3, ChunksQueued
  <2>5. \A b : Done(b, G)' <=> Done(b, G)
    BY <2>2 DEF Done
  <2>6. \A b \in Nat : Covered(b, G) => Covered(b, G)'
    BY <2>4, <2>5 DEF Covered
  <2>7. \A b \in first..(regular'.cur - 1) : Covered(b, G)'
    <3> SUFFICES ASSUME NEW b \in first..(seen - 1) PROVE Covered(b, G)'
      BY <2>2
    <3>1. b \in Nat
      BY <1>1
    <3>2. CASE b >= regular.cur
      <4>1. b \in regular.cur..(seen - 1)
        BY <1>1, <2>3, <3>1, <3>2
      <4> QED
        BY <2>4, <4>1 DEF Covered
    <3>3. CASE b < regular.cur
      <4>1. b \in first..(regular.cur - 1)
        BY <1>1, <3>1, <3>3
      <4> QED
        BY <2>6, <3>1, <4>1 DEF Accounted
    <3> QED
      BY <1>1, <3>1, <3>2, <3>3
  <2>8. latest > 0 => \A b \in first..latest : Covered(b, G)'
    <3> SUFFICES ASSUME latest > 0, NEW b \in first..latest PROVE Covered(b, G)'
      OBVIOUS
    <3> QED
      BY <1>1, <2>6 DEF Accounted
  <2> QED
    BY <2>2, <2>4, <2>5, <2>7, <2>8 DEF Accounted
<1>4. CASE \E seen \in Seen : RegularBatch(seen)
  <2>1. PICK seen \in Seen : RegularBatch(seen)
    BY <1>4
  <2> DEFINE e == Min({regular.cur + BatchSize - 1, seen})
  <2>2. PICK ok \in SUBSET (regular.cur..e) :
          /\ HandleResults(regular.cur..e, ok)
          /\ regular' = IF ok = {} THEN regular
                        ELSE [pc |-> "save", cur |-> Max(ok) + 1, last |-> Max(ok)]
    BY <2>1 DEF RegularBatch
  <2>3. seen \in Blocks /\ seen \in Nat /\ regular.cur <= seen /\ regular.cur \in Blocks
    BY <1>1, <2>1, SeenType, Numbers DEF RegularBatch, Blocks, Shape, TypeOK
  <2>4. e \in Blocks /\ e \in Nat
    <3>1. regular.cur + BatchSize - 1 \in Nat /\ regular.cur <= regular.cur + BatchSize - 1
      BY <1>1, Numbers
    <3>2. e \in {regular.cur + BatchSize - 1, seen} /\ e <= seen
      BY <2>3, <3>1, SmallerOf
    <3> HIDE DEF e
    <3> QED
      BY <1>1, <2>3, <3>1, <3>2, Numbers DEF Blocks
  <2> HIDE DEF e
  <2>5. PICK X : /\ IsFiniteSet(X) /\ lost' = lost + Cardinality(X)
                 /\ \A b \in regular.cur..e : b \in handled' \cup X
                 /\ handled \subseteq handled'
    BY <2>2, <2>3, <2>4, BatchDone
  <2>6. /\ UNCHANGED <<first, work, latest, ranges, stops>>
        /\ \E n \in Nat : (regular'.cur = n /\ n <= e + 1) \/ regular'.cur = regular.cur
    <3>1. UNCHANGED <<first, work, latest, ranges, stops>>
      BY <2>1 DEF RegularBatch, runVars, catchupVars
    <3>2. CASE ok = {}
      BY <1>1, <2>2, <3>1, <3>2
    <3>3. CASE ok # {}
      <4>1. Max(ok) \in regular.cur..e
        BY <2>2, <2>3, <2>4, <3>3, LastOf
      <4>2. regular'.cur = Max(ok) + 1
        BY <2>2, <3>3
      <4> QED
        BY <1>1, <2>4, <3>1, <4>1, <4>2
    <3> QED
      BY <3>2, <3>3
  <2>7. PICK G : IsFiniteSet(G) /\ Cardinality(G) <= stops + lost /\ Accounted(G)
    BY DEF Books
  <2>8. Accounted(G \cup X)'
    <3>1. \A b : Done(b, G) => Done(b, G \cup X)'
      BY <2>5 DEF Done
    <3>2. \A b : Covered(b, G) => Covered(b, G \cup X)'
      BY <2>6, <3>1 DEF Covered, Queued
    <3>3. \A b \in regular.cur..e : Covered(b, G \cup X)'
      BY <2>5 DEF Covered, Done
    <3>4. \A b \in first..(regular'.cur - 1) : Covered(b, G \cup X)'
      <4> SUFFICES ASSUME NEW b \in first..(regular'.cur - 1) PROVE Covered(b, G \cup X)'
        OBVIOUS
      <4>1. b \in first..(regular.cur - 1) \/ b \in regular.cur..e
        BY <1>1, <2>4, <2>6
      <4> QED
        BY <2>7, <3>2, <3>3, <4>1 DEF Accounted
    <3> QED
      BY <2>6, <2>7, <3>1, <3>2, <3>4 DEF Accounted
  <2>9. Cardinality(X) + stops + lost <= stops' + lost'
    <3>1. Cardinality(X) \in Nat
      BY <2>5, FS_CardinalityType
    <3> QED
      BY <1>1, <2>5, <2>6, <3>1
  <2> QED
    BY <1>1, <2>5, <2>7, <2>8, <2>9, GivenUpMore
<1> QED
  BY <1>2, <1>3, <1>4 DEF RegularStep

LEMMA CatchupBatchBooks ==
  ASSUME Shape, Shape', Books, NEW w \in work, CatchupBatch(w)
  PROVE  Books'
<1> DEFINE e == Min({w.next + BatchSize - 1, w.hi})
<1>1. PICK ok \in SUBSET (w.next..e) :
        /\ HandleResults(w.next..e, ok)
        /\ LET last == IF ok = {} THEN w.last ELSE Max(ok)
               next == IF ok = {} THEN e + 1 ELSE last + 1 IN
           /\ work' = (work \ {w}) \cup {[w EXCEPT !.next = next, !.last = last]}
           /\ ranges' = SaveRanges({[lo |-> w.lo, hi |-> w.hi, current |-> last]})
  BY DEF CatchupBatch
<1>2. /\ w \in WorkRecords /\ w.lo \in Nat /\ w.hi \in Blocks /\ w.hi \in Nat
      /\ w.next \in Blocks /\ w.next \in Nat /\ w.last \in Nat
      /\ w.next <= w.hi /\ w.last < w.next /\ w.lo <= w.last + 1
  <2>1. w \in WorkRecords /\ w.last < w.next /\ w.lo <= w.last + 1 /\ w.next <= w.hi
    BY DEF CatchupBatch, Shape, TypeOK, WorkRecords
  <2> QED
    BY <2>1, Numbers DEF WorkRecords, Blocks
<1>3. e \in Blocks /\ w.next <= e /\ e \in Nat
  <2>1. w.next + BatchSize - 1 \in Nat /\ w.next <= w.next + BatchSize - 1
    BY <1>2, Numbers
  <2>2. e \in {w.next + BatchSize - 1, w.hi} /\ e <= w.hi
    BY <1>2, <2>1, SmallerOf
  <2> HIDE DEF e
  <2> QED
    BY <1>2, <2>1, <2>2, Numbers DEF Blocks
<1> HIDE DEF e
<1> DEFINE last == IF ok = {} THEN w.last ELSE Max(ok)
           next == IF ok = {} THEN e + 1 ELSE last + 1
           v == [w EXCEPT !.next = next, !.last = last]
           r == [lo |-> w.lo, hi |-> w.hi, current |-> last]
<1>4. last \in Nat /\ next \in Nat /\ last < next /\ next <= e + 1 /\ w.next <= next
  <2>1. CASE ok = {}
    BY <1>2, <1>3, <2>1
  <2>2. CASE ok # {}
    <3>1. Max(ok) \in w.next..e
      BY <1>1, <1>2, <1>3, <2>2, LastOf
    <3> QED
      BY <1>2, <1>3, <2>2, <3>1
  <2> QED
    BY <2>1, <2>2
<1>5. work' = (work \ {w}) \cup {v} /\ ranges' = SaveRanges({r})
  BY <1>1
<1> HIDE DEF last, next
<1>6. /\ v.lo = w.lo /\ v.next = next
      /\ r.lo = w.lo /\ r.hi = w.hi /\ r.current = last
  BY <1>2 DEF WorkRecords
<1> HIDE DEF v, r
<1>7. PICK X : /\ IsFiniteSet(X) /\ lost' = lost + Cardinality(X)
               /\ \A b \in w.next..e : b \in handled' \cup X
               /\ handled \subseteq handled'
  BY <1>1, <1>2, <1>3, BatchDone
<1>8. UNCHANGED <<first, regular, latest, stops>>
  BY DEF CatchupBatch, regularVars, runVars
<1>9. PICK G : IsFiniteSet(G) /\ Cardinality(G) <= stops + lost /\ Accounted(G)
  BY DEF Books
<1>10. \A b : Done(b, G) => Done(b, G \cup X)'
  BY <1>7 DEF Done
<1>11. \A b \in w.lo..(next - 1) : Done(b, G \cup X)'
  <2> SUFFICES ASSUME NEW b \in w.lo..(next - 1) PROVE Done(b, G \cup X)'
    OBVIOUS
  <2>1. b \in w.lo..(w.next - 1) \/ b \in w.next..e
    BY <1>2, <1>3, <1>4
  <2>2. CASE b \in w.lo..(w.next - 1)
    BY <1>9, <1>10, <2>2 DEF Accounted
  <2>3. CASE b \in w.next..e
    BY <1>7, <2>3 DEF Done
  <2> QED
    BY <2>1, <2>2, <2>3
<1>12. \A b \in Nat : Covered(b, G) => Covered(b, G \cup X)'
  <2> SUFFICES ASSUME NEW b \in Nat, Queued(b) PROVE Covered(b, G \cup X)'
    BY <1>10 DEF Covered
  <2>1. PICK q \in ranges : q.current < b /\ b <= q.hi
    BY DEF Queued
  <2>2. CASE q \in ranges'
    BY <2>1, <2>2 DEF Covered, Queued
  <2>3. CASE q \notin ranges'
    <3>1. r.lo = q.lo /\ r.hi = q.hi /\ r \in ranges'
      BY <1>5, <2>3 DEF SaveRanges
    <3>2. q.lo \in Nat /\ q.current \in Nat /\ q.lo <= q.current + 1
      BY Numbers DEF Shape, TypeOK, Blocks
    <3>3. CASE last < b
      <4>1. r.current < b /\ b <= r.hi
        BY <1>6, <2>1, <3>1, <3>3
      <4> QED
        BY <3>1, <4>1 DEF Covered, Queued
    <3>4. CASE ~(last < b)
      <4>1. b \in w.lo..(next - 1)
        BY <1>2, <1>4, <1>6, <2>1, <3>1, <3>2, <3>4
      <4> QED
        BY <1>11, <4>1 DEF Covered
    <3> QED
      BY <3>3, <3>4
  <2> QED
    BY <2>2, <2>3
<1>13. Accounted(G \cup X)'
  <2>1. first \in Nat /\ latest \in Nat /\ regular.cur \in Nat
    BY Numbers DEF Shape, TypeOK, Blocks
  <2>2. \A b \in first..(regular.cur - 1) : Covered(b, G \cup X)'
    <3> SUFFICES ASSUME NEW b \in first..(regular.cur - 1) PROVE Covered(b, G \cup X)'
      OBVIOUS
    <3>1. Covered(b, G)
      BY <1>9 DEF Accounted
    <3>2. b \in Nat
      BY <2>1
    <3> QED
      BY <1>12, <3>1, <3>2
  <2>3. latest > 0 => \A b \in first..latest : Covered(b, G \cup X)'
    <3> SUFFICES ASSUME latest > 0, NEW b \in first..latest PROVE Covered(b, G \cup X)'
      OBVIOUS
    <3>1. Covered(b, G)
      BY <1>9 DEF Accounted
    <3>2. b \in Nat
      BY <2>1
    <3> QED
      BY <1>12, <3>1, <3>2
  <2>4. \A q \in ranges' : \A b \in q.lo..q.current : Done(b, G \cup X)'
    <3> SUFFICES ASSUME NEW q \in ranges' PROVE \A b \in q.lo..q.current : Done(b, G \cup X)'
      OBVIOUS
    <3>1. CASE q \in ranges
      BY <1>9, <1>10, <3>1 DEF Accounted
    <3>2. CASE q = r
      <4>1. \A b \in w.lo..last : b \in w.lo..(next - 1)
        BY <1>2, <1>4
      <4> QED
        BY <1>6, <1>11, <3>2, <4>1
    <3> QED
      BY <1>5, <3>1, <3>2 DEF SaveRanges
  <2>5. \A u \in work' : \A b \in u.lo..(u.next - 1) : Done(b, G \cup X)'
    <3> SUFFICES ASSUME NEW u \in work' PROVE \A b \in u.lo..(u.next - 1) : Done(b, G \cup X)'
      OBVIOUS
    <3>1. CASE u \in work
      BY <1>9, <1>10, <3>1 DEF Accounted
    <3>2. CASE u = v
      BY <1>6, <1>11, <3>2
    <3> QED
      BY <1>5, <3>1, <3>2
  <2> QED
    BY <1>8, <2>2, <2>3, <2>4, <2>5 DEF Accounted
<1>14. Cardinality(X) + stops + lost <= stops' + lost' /\ stops' \in Nat /\ lost' \in Nat
  <2>1. Cardinality(X) \in Nat /\ stops \in Nat /\ lost \in Nat
    BY <1>7, FS_CardinalityType, Numbers DEF Shape, TypeOK
  <2> QED
    BY <1>7, <1>8, <2>1
<1> QED
  BY <1>7, <1>9, <1>13, <1>14, GivenUpMore

LEMMA CompleteRangeBooks ==
  ASSUME Shape, Books, NEW w \in work, CompleteRange(w)
  PROVE  Books'
<1>1. /\ UNCHANGED <<handled, first, regular, latest, stops, lost>>
      /\ w.next > w.hi /\ work' \subseteq work
      /\ ranges' = {r \in ranges : <<r.lo, r.hi>> # <<w.lo, w.hi>>}
  BY DEF CompleteRange, regularVars, runVars
<1> SUFFICES ASSUME NEW G, Accounted(G) PROVE Accounted(G)'
  BY <1>1, NothingGivenUp
<1>2. \A b : Done(b, G)' <=> Done(b, G)
  BY <1>1 DEF Done
<1>3. \A b \in Nat : Covered(b, G) => Covered(b, G)'
  <2> SUFFICES ASSUME NEW b \in Nat, Queued(b) PROVE Covered(b, G)'
    BY <1>2 DEF Covered
  <2>1. PICK q \in ranges : q.current < b /\ b <= q.hi
    BY DEF Queued
  <2>2. CASE q \in ranges'
    BY <2>1, <2>2 DEF Covered, Queued
  <2>3. CASE q \notin ranges'
    <3>1. q.lo = w.lo /\ q.hi = w.hi
      BY <1>1, <2>3
    <3>2. q.lo \in Nat /\ q.current \in Nat /\ q.hi \in Nat /\ q.lo <= q.current + 1
      BY Numbers DEF Shape, TypeOK, Blocks
    <3>3. w.next \in Nat
      BY Numbers DEF Shape, TypeOK
    <3>4. b \in w.lo..(w.next - 1)
      BY <1>1, <2>1, <3>1, <3>2, <3>3
    <3> QED
      BY <1>2, <3>4 DEF Accounted, Covered
  <2> QED
    BY <2>2, <2>3
<1>4. first \in Nat /\ latest \in Nat
  BY Numbers DEF Shape, TypeOK, Blocks
<1>5. /\ \A b \in first..(regular.cur - 1) : Covered(b, G)'
      /\ latest > 0 => \A b \in first..latest : Covered(b, G)'
  BY <1>3, <1>4 DEF Accounted
<1> QED
  BY <1>1, <1>2, <1>5 DEF Accounted

LEMMA CatchupLoadBooks ==
  ASSUME Shape, Books, CatchupLoad
  PROVE  Books'
<1>1. /\ UNCHANGED <<handled, first, regular, latest, stops, lost>> /\ work' = Unstarted(ranges')
  BY DEF CatchupLoad, LoadRanges, regularVars, runVars
<1> SUFFICES ASSUME NEW G, Accounted(G) PROVE Accounted(G)'
  BY <1>1, NothingGivenUp
<1>2. /\ \A b \in Nat : Queued(b) => Queued(b)'
      /\ \A r \in ranges' : r \in ranges \/ \A b \in r.lo..r.current : Done(b, G)
  <2>1. CASE LoadRanges({})
    BY <2>1 DEF LoadRanges, SaveRanges, Queued
  <2>2. CASE \E seen \in Seen : seen > latest /\ LoadRanges(Chunks(latest + 1, seen))
    BY <2>2, GapType, ChunksQueued DEF LoadRanges
  <2> QED
    BY <2>1, <2>2 DEF CatchupLoad
<1>3. \A b : Done(b, G)' <=> Done(b, G)
  BY <1>1 DEF Done
<1>4. \A r \in ranges' : \A b \in r.lo..r.current : Done(b, G)'
  BY <1>2, <1>3 DEF Accounted
<1>5. \A w \in work' : \A b \in w.lo..(w.next - 1) : Done(b, G)'
  <2> SUFFICES ASSUME NEW w \in work' PROVE \A b \in w.lo..(w.next - 1) : Done(b, G)'
    OBVIOUS
  <2>1. PICK r \in ranges' : w = [lo |-> r.lo, hi |-> r.hi, next |-> r.current + 1, last |-> r.current]
    BY <1>1 DEF Unstarted
  <2>2. r.current \in Nat
    <3>1. Shape'
      BY CatchupShape DEF CatchupStep
    <3> QED
      BY <3>1, Numbers DEF Shape, TypeOK
  <2>3. w.lo = r.lo /\ w.next - 1 = r.current
    BY <2>1, <2>2
  <2> QED
    BY <1>4, <2>3
<1>6. first \in Nat /\ latest \in Nat
  BY Numbers DEF Shape, TypeOK, Blocks
<1>7. /\ \A b \in first..(regular.cur - 1) : Covered(b, G)'
      /\ latest > 0 => \A b \in first..latest : Covered(b, G)'
  BY <1>2, <1>3, <1>6 DEF Accounted, Covered
<1> QED
  BY <1>1, <1>4, <1>5, <1>7 DEF Accounted

\* A stop saves the block that comes next, which was not handled: give it up.
LEMMA StopBooks ==
  ASSUME Shape, Shape', Books, Stop
  PROVE  Books'
<1>0. PICK given : given = regular.cur
  OBVIOUS
<1> DEFINE X == {given}
<1>1. /\ UNCHANGED <<handled, first, regular, ranges, lost>> /\ work' = {}
      /\ latest' = given /\ regular.cur = given /\ stops' = stops + 1
  BY <1>0 DEF Stop
<1>2. IsFiniteSet(X) /\ Cardinality(X) = 1
  BY FS_Singleton
<1>3. PICK G : IsFiniteSet(G) /\ Cardinality(G) <= stops + lost /\ Accounted(G)
  BY DEF Books
<1>4. \A b : Covered(b, G) => Covered(b, G \cup X)'
  BY <1>1 DEF Covered, Done, Queued
<1>5. \A b \in first..given : Covered(b, G \cup X)'
  <2> SUFFICES ASSUME NEW b \in first..given PROVE Covered(b, G \cup X)'
    OBVIOUS
  <2>1. b = given \/ b \in first..(regular.cur - 1)
    BY <1>1, Numbers DEF Shape, TypeOK, Blocks
  <2>2. CASE b = given
    BY <2>2 DEF Covered, Done
  <2>3. CASE b \in first..(regular.cur - 1)
    BY <1>3, <1>4, <2>3 DEF Accounted
  <2> QED
    BY <2>1, <2>2, <2>3
<1>6. Accounted(G \cup X)'
  <2>1. \A b \in first..(regular.cur - 1) : Covered(b, G \cup X)'
    BY <1>3, <1>4 DEF Accounted
  <2>2. \A r \in ranges : \A b \in r.lo..r.current : Done(b, G \cup X)'
    BY <1>1, <1>3 DEF Accounted, Done
  <2> QED
    BY <1>1, <1>5, <2>1, <2>2 DEF Accounted
<1>7. /\ Cardinality(X) + stops + lost <= stops' + lost' /\ stops' \in Nat /\ lost' \in Nat
  BY <1>1, <1>2, Numbers DEF Shape, TypeOK
<1> HIDE DEF X
<1> QED
  BY <1>2, <1>3, <1>6, <1>7, GivenUpMore

LEMMA BooksInvariant ==
  ASSUME ~FromLatest
  PROVE  Spec => []Books
<1>1. Init => Books
  <2> SUFFICES ASSUME Init PROVE Books
    OBVIOUS
  <2>1. Accounted({})
    BY DEF Init, Accounted
  <2>2. IsFiniteSet({}) /\ Cardinality({}) = 0
    BY FS_EmptySet
  <2>3. stops + lost = 0
    BY DEF Init
  <2> QED
    BY <2>1, <2>2, <2>3 DEF Books
<1>2. Shape /\ Shape' /\ Books /\ [Next]_vars => Books'
  <2> SUFFICES ASSUME Shape, Shape', Books, [Next]_vars PROVE Books'
    OBVIOUS
  <2>1. ASSUME /\ UNCHANGED <<handled, latest, ranges, first, stops, lost>>
               /\ regular'.cur = regular.cur /\ work' \subseteq work
        PROVE  Books'
    <3> SUFFICES ASSUME NEW G, Accounted(G) PROVE Accounted(G)'
      BY <2>1, NothingGivenUp
    <3> QED
      BY <2>1 DEF Accounted, Covered, Done, Queued
  <2>2. CASE NewBlock
    BY <2>1, <2>2 DEF NewBlock, regularVars, runVars, catchupVars
  <2>3. CASE Crash \/ Exit
    BY <2>1, <2>3 DEF Crash, Exit, Halt, Shape, TypeOK
  <2>4. CASE UNCHANGED vars
    BY <2>1, <2>4 DEF vars
  <2> QED
    BY <1>1, <2>2, <2>3, <2>4, StartBooks, RegularBooks, CatchupLoadBooks, CatchupBatchBooks,
       CompleteRangeBooks, StopBooks DEF Next, CatchupStep
<1> QED
  BY <1>1, <1>2, ShapeInvariant, PTL DEF Spec

\* A block behind the cursor is forgotten only by a clean stop or a failed publish,
\* one each, for every chain and every setting of batches, lag, offsets and ranges,
\* whatever crashes and failed fetches come between.
THEOREM SkipsStayBounded == Spec => []SkipsAreBounded
<1>1. CASE ~FromLatest
  <2>1. Shape /\ Books => SkipsAreBounded
    <3> SUFFICES ASSUME Shape, Books PROVE Cardinality(Skipped) <= stops + lost
      BY DEF SkipsAreBounded
    <3>1. PICK G : IsFiniteSet(G) /\ Cardinality(G) <= stops + lost /\ Accounted(G)
      BY DEF Books
    <3>2. Skipped \subseteq G
      BY <3>1 DEF Skipped, Accounted, Covered, Done
    <3>3. Cardinality(Skipped) <= Cardinality(G) /\ IsFiniteSet(Skipped)
      BY <3>1, <3>2, FS_Subset
    <3>4. /\ Cardinality(Skipped) \in Nat /\ Cardinality(G) \in Nat
          /\ stops \in Nat /\ lost \in Nat
      BY <3>1, <3>3, FS_CardinalityType, Numbers DEF Shape, TypeOK
    <3> QED
      BY <3>1, <3>3, <3>4
  <2> QED
    BY <1>1, <2>1, ShapeInvariant, BooksInvariant, PTL
<1>2. CASE FromLatest
  <2>1. SkipsAreBounded
    BY <1>2 DEF SkipsAreBounded
  <2> QED
    BY <2>1, PTL
<1> QED
  BY <1>1, <1>2, ScanAssumption

-----------------------------------------------------------------------------
(* The failed-block list and the rescanner *)

\* A handler that reports a block has one.
BlocksInHand ==
  /\ worker.pc # "idle" => worker.block \in Failing
  /\ rescan.pc \in {"write", "push", "count"} => rescan.block \in Failing

\* What a pass is going to remove was published, or taken for a skipped slot.
DoneIsSettled == rescan.done \subseteq emitted \cup gaveUp

\* The list may lose a block; the channel and the rescanner's memory do not.
InChan(b) == \E i \in DOMAIN failedChan : failedChan[i] = b
KeptInMemory ==
  crashes = 0 /\ ~overflow =>
    \A b \in passed \ (emitted \cup gaveUp) : b \in Held \/ InChan(b)

FailedInv == FailedTypeOK /\ BlocksInHand /\ DoneIsSettled /\ KeptInMemory

-----------------------------------------------------------------------------

LEMMA FailedInitInv == FailedInit => FailedInv
<1> SUFFICES ASSUME FailedInit PROVE FailedInv
  OBVIOUS
<1>1. retries \in [Failing -> {NotHeld} \cup 0..(MaxRetries - 1)]
  BY DEF FailedInit
<1>2. failedChan \in Seq(Failing) /\ Len(failedChan) <= ChanCap /\ crashes \in 0..MaxCrashes
  BY FailedBlocksAssumption DEF FailedInit
<1>3. /\ worker \in [pc : {"idle", "write", "push"}, block : MaybeBlock, read : SUBSET Failing]
      /\ rescan \in [pc : {"idle", "results", "write", "push", "count"}, block : MaybeBlock,
                     read : SUBSET Failing, todo : SUBSET Failing, done : SUBSET Failing]
      /\ flush \in [pc : {"idle", "save", "reread", "remove"}, read : SUBSET Failing]
  BY DEF FailedInit, WorkerIdle, RescanIdle, FlushIdle, MaybeBlock
<1>4. FailedTypeOK
  BY <1>1, <1>2, <1>3 DEF FailedInit, FailedTypeOK
<1> QED
  BY <1>4 DEF FailedInit, FailedInv, BlocksInHand, DoneIsSettled, KeptInMemory, WorkerIdle, RescanIdle

\* A send appends, or drops the event and says so.
LEMMA PushKeeps ==
  ASSUME FailedTypeOK, NEW b \in Failing, Push(b)
  PROVE  /\ failedChan' \in Seq(Failing) /\ Len(failedChan') <= ChanCap /\ overflow' \in BOOLEAN
         /\ \A a : InChan(a) => InChan(a)'
         /\ ~overflow' => ~overflow /\ InChan(b)'
<1>1. failedChan \in Seq(Failing) /\ Len(failedChan) \in Nat /\ ChanCap \in Nat
  BY FailedBlocksAssumption DEF FailedTypeOK
<1>2. CASE Len(failedChan) < ChanCap
  <2>1. failedChan' = Append(failedChan, b) /\ overflow' = overflow
    BY <1>2 DEF Push
  <2>2. failedChan' \in Seq(Failing) /\ Len(failedChan') = Len(failedChan) + 1
    BY <1>1, <2>1
  <2>3. /\ \A i \in DOMAIN failedChan : i \in DOMAIN failedChan' /\ failedChan'[i] = failedChan[i]
        /\ Len(failedChan) + 1 \in DOMAIN failedChan' /\ failedChan'[Len(failedChan) + 1] = b
    BY <1>1, <2>1
  <2> QED
    BY <1>1, <1>2, <2>1, <2>2, <2>3 DEF FailedTypeOK, InChan
<1>3. CASE ~(Len(failedChan) < ChanCap)
  BY <1>3 DEF Push, FailedTypeOK, InChan
<1> QED
  BY <1>2, <1>3

LEMMA ReadListStep ==
  ASSUME FailedInv, NEW b \in Failing, ReadList(b)
  PROVE  FailedInv'
<1>1. /\ worker' = [pc |-> "write", block |-> b, read |-> list]
      /\ UNCHANGED <<list, retries, failedChan, saves, removes, rescan, flush,
                     passed, emitted, gaveUp, overflow, crashes>>
  BY DEF ReadList, memVars, histVars
<1>2. FailedTypeOK'
  BY <1>1 DEF FailedInv, FailedTypeOK, MaybeBlock
<1> QED
  BY <1>1, <1>2 DEF FailedInv, BlocksInHand, DoneIsSettled, KeptInMemory, Held, InChan

LEMMA SaveFailedBlockStep ==
  ASSUME FailedInv, SaveFailedBlock
  PROVE  FailedInv'
<1>1. /\ worker.pc = "write" /\ worker.block \in Failing
      /\ list' = IF worker.block \in worker.read THEN list ELSE worker.read \cup {worker.block}
      /\ worker' = [worker EXCEPT !.pc = "push"]
      /\ UNCHANGED <<retries, failedChan, saves, removes, rescan, flush,
                     passed, emitted, gaveUp, overflow, crashes>>
  BY DEF SaveFailedBlock, memVars, histVars, FailedInv, BlocksInHand
<1>2. list' \subseteq Failing
  BY <1>1 DEF FailedInv, FailedTypeOK
<1>3. worker' \in [pc : {"idle", "write", "push"}, block : MaybeBlock, read : SUBSET Failing]
      /\ worker'.block = worker.block
  BY <1>1 DEF FailedInv, FailedTypeOK
<1>4. FailedTypeOK'
  BY <1>1, <1>2, <1>3 DEF FailedInv, FailedTypeOK
<1> QED
  BY <1>1, <1>3, <1>4 DEF FailedInv, BlocksInHand, DoneIsSettled, KeptInMemory, Held, InChan

LEMMA PushFailedStep ==
  ASSUME FailedInv, PushFailed
  PROVE  FailedInv'
<1>1. PICK b \in Failing : worker.block = b
  BY DEF PushFailed, FailedInv, BlocksInHand
<1>2. /\ Push(b) /\ passed' = passed \cup {b} /\ worker' = WorkerIdle
      /\ UNCHANGED <<list, retries, saves, removes, rescan, flush, emitted, gaveUp, crashes>>
  BY <1>1 DEF PushFailed
<1>3. /\ failedChan' \in Seq(Failing) /\ Len(failedChan') <= ChanCap /\ overflow' \in BOOLEAN
      /\ \A a : InChan(a) => InChan(a)'
      /\ ~overflow' => ~overflow /\ InChan(b)'
  BY <1>2, PushKeeps DEF FailedInv
<1>4. FailedTypeOK'
  BY <1>2, <1>3 DEF FailedInv, FailedTypeOK, WorkerIdle, MaybeBlock
<1>5. KeptInMemory'
  BY <1>2, <1>3 DEF FailedInv, KeptInMemory, Held
<1> QED
  BY <1>2, <1>4, <1>5 DEF FailedInv, BlocksInHand, DoneIsSettled, WorkerIdle

\* The channel's listener takes the first block and holds it.
LEMMA AddFailedBlockStep ==
  ASSUME FailedInv, AddFailedBlock
  PROVE  FailedInv'
<1>1. failedChan \in Seq(Failing) /\ failedChan # <<>>
  BY DEF AddFailedBlock, FailedInv, FailedTypeOK
<1>2. PICK b \in Failing : b = Head(failedChan)
  BY <1>1
<1>3. /\ failedChan' = Tail(failedChan)
      /\ \/ b \in Held /\ UNCHANGED <<retries, saves>>
         \/ /\ b \notin Held /\ retries' = [retries EXCEPT ![b] = 0]
            /\ saves' = saves \cup {b}
      /\ UNCHANGED <<list, removes, worker, rescan, flush, passed, emitted, gaveUp,
                     overflow, crashes>>
  BY <1>2 DEF AddFailedBlock, histVars
<1>4. failedChan' \in Seq(Failing) /\ Len(failedChan') <= ChanCap
  BY <1>1, <1>3, FailedBlocksAssumption DEF FailedInv, FailedTypeOK
<1>5. \A a : InChan(a) => a = b \/ InChan(a)'
  <2> SUFFICES ASSUME NEW i \in DOMAIN failedChan, i # 1
               PROVE  \E j \in DOMAIN failedChan' : failedChan'[j] = failedChan[i]
    BY <1>1, <1>2 DEF InChan
  <2>1. i - 1 \in DOMAIN failedChan' /\ failedChan'[i - 1] = failedChan[i]
    BY <1>1, <1>3
  <2> QED
    BY <2>1
<1>6. /\ retries' \in [Failing -> {NotHeld} \cup 0..(MaxRetries - 1)] /\ saves' \subseteq Failing
      /\ b \in Held' /\ Held \subseteq Held'
  <2>1. 0 \in 0..(MaxRetries - 1) /\ 0 # NotHeld
    BY FailedBlocksAssumption
  <2> QED
    BY <1>3, <2>1 DEF FailedInv, FailedTypeOK, Held
<1>7. FailedTypeOK'
  BY <1>3, <1>4, <1>6 DEF FailedInv, FailedTypeOK
<1>8. KeptInMemory'
  BY <1>3, <1>5, <1>6 DEF FailedInv, KeptInMemory
<1> QED
  BY <1>3, <1>7, <1>8 DEF FailedInv, BlocksInHand, DoneIsSettled

\* The rescanner's steps that leave the channel alone and forget no block that was
\* not published or given up.
LEMMA RescanKeeps ==
  ASSUME FailedInv,
         rescan' \in [pc : {"idle", "results", "write", "push", "count"}, block : MaybeBlock,
                     read : SUBSET Failing, todo : SUBSET Failing, done : SUBSET Failing],
         rescan'.pc \in {"write", "push", "count"} => rescan'.block \in Failing,
         rescan'.done \subseteq emitted' \cup gaveUp',
         list' \subseteq Failing, saves' \subseteq Failing, removes' \subseteq Failing,
         retries' \in [Failing -> {NotHeld} \cup 0..(MaxRetries - 1)],
         emitted \subseteq emitted', emitted' \subseteq Failing,
         gaveUp \subseteq gaveUp', gaveUp' \subseteq Failing,
         Held \subseteq Held' \cup emitted' \cup gaveUp',
         UNCHANGED <<failedChan, worker, flush, passed, overflow, crashes>>
  PROVE  FailedInv'
<1>1. FailedTypeOK'
  BY DEF FailedInv, FailedTypeOK
<1>2. BlocksInHand' /\ DoneIsSettled'
  BY DEF FailedInv, BlocksInHand, DoneIsSettled
<1>3. KeptInMemory'
  BY DEF FailedInv, KeptInMemory, InChan
<1> QED
  BY <1>1, <1>2, <1>3 DEF FailedInv

LEMMA StartPassStep ==
  ASSUME FailedInv, StartPass
  PROVE  FailedInv'
<1> DEFINE r == [pc |-> "results", block |-> NoBlock, read |-> {}, todo |-> list \cup Held,
                 done |-> {}]
<1>1. /\ rescan' = r /\ retries' = [b \in Failing |-> IF b \in list \ Held THEN 0 ELSE retries[b]]
      /\ UNCHANGED <<list, failedChan, saves, removes, worker, flush, passed, emitted, gaveUp,
                     overflow, crashes>>
  BY DEF StartPass, RescanIdle, histVars
<1>2. /\ r \in [pc : {"idle", "results", "write", "push", "count"}, block : MaybeBlock,
                read : SUBSET Failing, todo : SUBSET Failing, done : SUBSET Failing]
      /\ r.pc = "results" /\ r.done = {}
  BY DEF MaybeBlock, Held, FailedInv, FailedTypeOK
<1>3. 0 \in 0..(MaxRetries - 1) /\ 0 # NotHeld
  BY FailedBlocksAssumption
<1>4. retries' \in [Failing -> {NotHeld} \cup 0..(MaxRetries - 1)] /\ Held \subseteq Held'
  BY <1>1, <1>3 DEF Held, FailedInv, FailedTypeOK
<1>5. /\ list' \subseteq Failing /\ saves' \subseteq Failing /\ removes' \subseteq Failing
      /\ emitted' = emitted /\ emitted \subseteq Failing /\ gaveUp' = gaveUp /\ gaveUp \subseteq Failing
  BY <1>1 DEF FailedInv, FailedTypeOK
<1> HIDE DEF r
<1> QED
  BY <1>1, <1>2, <1>4, <1>5, RescanKeeps

LEMMA ResultOkStep ==
  ASSUME FailedInv, NEW b \in Failing, ResultOk(b)
  PROVE  FailedInv'
<1>1. /\ rescan.pc = "results" /\ emitted' = emitted \cup {b}
      /\ rescan' = [rescan EXCEPT !.todo = @ \ {b}, !.done = @ \cup {b}]
      /\ UNCHANGED <<list, retries, failedChan, saves, removes, worker, flush, passed, gaveUp,
                     overflow, crashes>>
  BY DEF ResultOk, memVars
<1>2. /\ rescan' \in [pc : {"idle", "results", "write", "push", "count"}, block : MaybeBlock,
                      read : SUBSET Failing, todo : SUBSET Failing, done : SUBSET Failing]
      /\ rescan'.pc = "results" /\ rescan'.done = rescan.done \cup {b}
  BY <1>1 DEF FailedInv, FailedTypeOK
<1>3. rescan'.done \subseteq emitted' \cup gaveUp'
  BY <1>1, <1>2 DEF FailedInv, DoneIsSettled
<1> QED
  BY <1>1, <1>2, <1>3, RescanKeeps DEF FailedInv, FailedTypeOK, Held

LEMMA ResultNotFoundStep ==
  ASSUME FailedInv, NEW b \in Failing, ResultNotFound(b)
  PROVE  FailedInv'
<1>1. /\ rescan.pc = "results" /\ gaveUp' = gaveUp \cup {b}
      /\ rescan' = [rescan EXCEPT !.todo = @ \ {b}, !.done = @ \cup {b}]
      /\ UNCHANGED <<list, retries, failedChan, saves, removes, worker, flush, passed, emitted,
                     overflow, crashes>>
  BY DEF ResultNotFound, memVars
<1>2. /\ rescan' \in [pc : {"idle", "results", "write", "push", "count"}, block : MaybeBlock,
                      read : SUBSET Failing, todo : SUBSET Failing, done : SUBSET Failing]
      /\ rescan'.pc = "results" /\ rescan'.done = rescan.done \cup {b}
  BY <1>1 DEF FailedInv, FailedTypeOK
<1>3. rescan'.done \subseteq emitted' \cup gaveUp'
  BY <1>1, <1>2 DEF FailedInv, DoneIsSettled
<1> QED
  BY <1>1, <1>2, <1>3, RescanKeeps DEF FailedInv, FailedTypeOK, Held

LEMMA ResultFailedStep ==
  ASSUME FailedInv, NEW b \in Failing, ResultFailed(b)
  PROVE  FailedInv'
<1>1. /\ rescan' = [rescan EXCEPT !.pc = "write", !.block = b, !.read = list, !.todo = @ \ {b}]
      /\ UNCHANGED <<list, retries, failedChan, saves, removes, worker, flush, passed, emitted,
                     gaveUp, overflow, crashes>>
  BY DEF ResultFailed, memVars, histVars
<1>2. /\ rescan' \in [pc : {"idle", "results", "write", "push", "count"}, block : MaybeBlock,
                      read : SUBSET Failing, todo : SUBSET Failing, done : SUBSET Failing]
      /\ rescan'.block = b /\ rescan'.done = rescan.done
  BY <1>1 DEF FailedInv, FailedTypeOK, MaybeBlock
<1> QED
  BY <1>1, <1>2, RescanKeeps DEF FailedInv, FailedTypeOK, DoneIsSettled, Held

LEMMA SaveAgainStep ==
  ASSUME FailedInv, SaveAgain
  PROVE  FailedInv'
<1>1. /\ rescan.pc = "write" /\ rescan.block \in Failing
      /\ list' = IF rescan.block \in rescan.read THEN list ELSE rescan.read \cup {rescan.block}
      /\ rescan' = [rescan EXCEPT !.pc = "push", !.read = {}]
      /\ UNCHANGED <<retries, failedChan, saves, removes, worker, flush, passed, emitted, gaveUp,
                     overflow, crashes>>
  BY DEF SaveAgain, memVars, histVars, FailedInv, BlocksInHand
<1>2. /\ rescan' \in [pc : {"idle", "results", "write", "push", "count"}, block : MaybeBlock,
                      read : SUBSET Failing, todo : SUBSET Failing, done : SUBSET Failing]
      /\ rescan'.block = rescan.block /\ rescan'.done = rescan.done
  BY <1>1 DEF FailedInv, FailedTypeOK
<1>3. list' \subseteq Failing
  BY <1>1 DEF FailedInv, FailedTypeOK
<1> QED
  BY <1>1, <1>2, <1>3, RescanKeeps DEF FailedInv, FailedTypeOK, DoneIsSettled, Held

LEMMA PushAgainStep ==
  ASSUME FailedInv, PushAgain
  PROVE  FailedInv'
<1>1. PICK b \in Failing : rescan.block = b
  BY DEF PushAgain, FailedInv, BlocksInHand
<1>2. /\ Push(b) /\ rescan' = [rescan EXCEPT !.pc = "count"]
      /\ UNCHANGED <<list, retries, saves, removes, worker, flush, passed, emitted, gaveUp, crashes>>
  BY <1>1 DEF PushAgain, histVars
<1>3. /\ failedChan' \in Seq(Failing) /\ Len(failedChan') <= ChanCap /\ overflow' \in BOOLEAN
      /\ \A a : InChan(a) => InChan(a)'
      /\ ~overflow' => ~overflow
  BY <1>2, PushKeeps DEF FailedInv
<1>4. /\ rescan' \in [pc : {"idle", "results", "write", "push", "count"}, block : MaybeBlock,
                      read : SUBSET Failing, todo : SUBSET Failing, done : SUBSET Failing]
      /\ rescan'.block = b /\ rescan'.done = rescan.done
  BY <1>1, <1>2 DEF FailedInv, FailedTypeOK
<1>5. FailedTypeOK'
  BY <1>2, <1>3, <1>4 DEF FailedInv, FailedTypeOK
<1>6. KeptInMemory'
  BY <1>2, <1>3 DEF FailedInv, KeptInMemory, Held
<1> QED
  BY <1>2, <1>4, <1>5, <1>6 DEF FailedInv, BlocksInHand, DoneIsSettled

LEMMA IncrementRetryStep ==
  ASSUME FailedInv, IncrementRetry
  PROVE  FailedInv'
<1>1. PICK b \in Failing : rescan.block = b
  BY DEF IncrementRetry, FailedInv, BlocksInHand
<1>2. /\ rescan' = [rescan EXCEPT !.pc = "results", !.block = NoBlock]
      /\ UNCHANGED <<list, failedChan, worker, flush, passed, emitted, overflow, crashes>>
  BY DEF IncrementRetry
<1>3. /\ rescan' \in [pc : {"idle", "results", "write", "push", "count"}, block : MaybeBlock,
                      read : SUBSET Failing, todo : SUBSET Failing, done : SUBSET Failing]
      /\ rescan'.pc = "results" /\ rescan'.done = rescan.done
  BY <1>2 DEF FailedInv, FailedTypeOK, MaybeBlock
<1>4. CASE b \notin Held /\ UNCHANGED <<retries, saves, removes, gaveUp>>
  BY <1>2, <1>3, <1>4, RescanKeeps DEF FailedInv, FailedTypeOK, DoneIsSettled, Held
<1>5. CASE /\ retries' = [retries EXCEPT ![b] = NotHeld]
           /\ removes' = removes \cup {b} /\ gaveUp' = gaveUp \cup {b} /\ saves' = saves
  <2>1. /\ retries' \in [Failing -> {NotHeld} \cup 0..(MaxRetries - 1)]
        /\ Held \subseteq Held' \cup {b}
    BY <1>5 DEF FailedInv, FailedTypeOK, Held
  <2> QED
    BY <1>2, <1>3, <1>5, <2>1, RescanKeeps DEF FailedInv, FailedTypeOK, DoneIsSettled
<1>6. CASE /\ b \in Held /\ retries[b] + 1 < MaxRetries
           /\ retries' = [retries EXCEPT ![b] = @ + 1]
           /\ saves' = saves \cup {b} /\ UNCHANGED <<removes, gaveUp>>
  <2>1. retries[b] + 1 \in 0..(MaxRetries - 1) /\ retries[b] + 1 # NotHeld
    BY <1>6, FailedBlocksAssumption DEF Held, FailedInv, FailedTypeOK
  <2>2. /\ retries' \in [Failing -> {NotHeld} \cup 0..(MaxRetries - 1)]
        /\ Held \subseteq Held'
    BY <1>6, <2>1 DEF FailedInv, FailedTypeOK, Held
  <2> QED
    BY <1>2, <1>3, <1>6, <2>2, RescanKeeps DEF FailedInv, FailedTypeOK, DoneIsSettled
<1> QED
  BY <1>1, <1>4, <1>5, <1>6 DEF IncrementRetry

LEMMA EndPassStep ==
  ASSUME FailedInv, EndPass
  PROVE  FailedInv'
<1>1. /\ retries' = [b \in Failing |-> IF b \in rescan.done THEN NotHeld ELSE retries[b]]
      /\ removes' = removes \cup rescan.done /\ rescan' = RescanIdle
      /\ UNCHANGED <<list, failedChan, saves, worker, flush, passed, emitted, gaveUp,
                     overflow, crashes>>
  BY DEF EndPass, histVars
<1>2. rescan.done \subseteq Failing /\ rescan.done \subseteq emitted \cup gaveUp
  BY DEF FailedInv, FailedTypeOK, DoneIsSettled
<1>3. /\ rescan' \in [pc : {"idle", "results", "write", "push", "count"}, block : MaybeBlock,
                      read : SUBSET Failing, todo : SUBSET Failing, done : SUBSET Failing]
      /\ rescan'.pc = "idle" /\ rescan'.done = {}
  BY <1>1 DEF RescanIdle, MaybeBlock
<1>4. /\ retries' \in [Failing -> {NotHeld} \cup 0..(MaxRetries - 1)]
      /\ Held \subseteq Held' \cup emitted \cup gaveUp
  BY <1>1, <1>2 DEF FailedInv, FailedTypeOK, Held
<1> QED
  BY <1>1, <1>2, <1>3, <1>4, RescanKeeps DEF FailedInv, FailedTypeOK

\* The flush loop touches the list and its batches only.
LEMMA FlushKeeps ==
  ASSUME FailedInv, FlushStep
  PROVE  FailedInv'
<1>1. UNCHANGED <<retries, failedChan, worker, rescan, passed, emitted, gaveUp, overflow, crashes>>
  BY DEF FlushStep, FlushStart, SaveFailedBlocks, ReadAgain, RemoveFailedBlocks, memVars, histVars
<1>2. list' \subseteq Failing /\ saves' \subseteq Failing /\ removes' \subseteq Failing
  BY DEF FlushStep, FlushStart, SaveFailedBlocks, ReadAgain, RemoveFailedBlocks, memVars,
         FailedInv, FailedTypeOK
<1>3. flush' \in [pc : {"idle", "save", "reread", "remove"}, read : SUBSET Failing]
  BY DEF FlushStep, FlushStart, SaveFailedBlocks, ReadAgain, RemoveFailedBlocks, FlushIdle,
         FailedInv, FailedTypeOK
<1>4. FailedTypeOK'
  BY <1>1, <1>2, <1>3 DEF FailedInv, FailedTypeOK
<1> QED
  BY <1>1, <1>4 DEF FailedInv, BlocksInHand, DoneIsSettled, KeptInMemory, Held, InChan

LEMMA RescannerCrashStep ==
  ASSUME FailedInv, RescannerCrash
  PROVE  FailedInv'
<1>1. crashes' \in 0..MaxCrashes /\ crashes' # 0
  BY FailedBlocksAssumption DEF RescannerCrash, FailedInv, FailedTypeOK
<1>2. /\ worker' = WorkerIdle /\ rescan' = RescanIdle /\ flush' = FlushIdle
      /\ retries' = [b \in Failing |-> NotHeld] /\ failedChan' = <<>>
      /\ saves' = {} /\ removes' = {}
      /\ UNCHANGED <<list, passed, emitted, gaveUp, overflow>>
  BY DEF RescannerCrash, histVars
<1>3. failedChan' \in Seq(Failing) /\ Len(failedChan') <= ChanCap
  BY <1>2, FailedBlocksAssumption
<1>4. /\ worker' \in [pc : {"idle", "write", "push"}, block : MaybeBlock, read : SUBSET Failing]
      /\ rescan' \in [pc : {"idle", "results", "write", "push", "count"}, block : MaybeBlock,
                      read : SUBSET Failing, todo : SUBSET Failing, done : SUBSET Failing]
      /\ flush' \in [pc : {"idle", "save", "reread", "remove"}, read : SUBSET Failing]
      /\ worker'.pc = "idle" /\ rescan'.pc = "idle" /\ rescan'.done = {}
  BY <1>2 DEF WorkerIdle, RescanIdle, FlushIdle, MaybeBlock
<1>5. FailedTypeOK'
  BY <1>1, <1>2, <1>3, <1>4 DEF FailedInv, FailedTypeOK
<1> QED
  BY <1>1, <1>4, <1>5 DEF FailedInv, BlocksInHand, DoneIsSettled, KeptInMemory

LEMMA FailedNextInv == FailedInv /\ [FailedNext]_failedVars => FailedInv'
<1> SUFFICES ASSUME FailedInv, [FailedNext]_failedVars PROVE FailedInv'
  OBVIOUS
<1>1. CASE UNCHANGED failedVars
  BY <1>1 DEF failedVars, memVars, FailedInv, FailedTypeOK, BlocksInHand, DoneIsSettled, KeptInMemory, Held, InChan
<1>2. CASE RescanStep
  BY <1>2, StartPassStep, SaveAgainStep, PushAgainStep, IncrementRetryStep, EndPassStep,
     ResultOkStep, ResultNotFoundStep, ResultFailedStep DEF RescanStep
<1> QED
  BY <1>1, <1>2, ReadListStep, SaveFailedBlockStep, PushFailedStep, AddFailedBlockStep,
     FlushKeeps, RescannerCrashStep DEF FailedNext, WorkerStep

LEMMA FailedInvariance == FailedSpec => []FailedInv
  BY FailedInitInv, FailedNextInv, PTL DEF FailedSpec

-----------------------------------------------------------------------------

\* Retry counts stay below RescannerMaxRetries, whoever counts, and the channel
\* below its capacity.
THEOREM FailedTypeCorrect == FailedSpec => []FailedTypeOK
<1>1. FailedInv => FailedTypeOK
  BY DEF FailedInv
<1> QED
  BY FailedInvariance, <1>1, PTL

\* Three goroutines overwrite the failed-block list from stale reads; still no
\* block is forgotten without a crash or a full channel, since every report also
\* goes through the channel into the rescanner's memory, and only a published or a
\* given-up block leaves that.
THEOREM NothingForgotten == FailedSpec => []ForgottenNeedsCrash
<1>1. FailedInv => ForgottenNeedsCrash
  BY FailedBlocksAssumption
  DEF FailedInv, FailedTypeOK, KeptInMemory, InChan, ForgottenNeedsCrash, Forgotten
<1> QED
  BY FailedInvariance, <1>1, PTL

-----------------------------------------------------------------------------
(* Missing blocks and the manual workers *)

(* Ranges *)

LEMMA InBlocksOf ==
  \A rs, b : b \in BlocksOf(rs) <=> \E r \in rs : b \in r[1]..r[2]
BY DEF BlocksOf

\* A piece of a split range is a range, inside what is split.
LEMMA PieceIsRange ==
  ASSUME NEW lo \in Heights, NEW hi \in Heights, NEW p \in Split(lo, hi)
  PROVE  p \in BlockRange
<1>1. MaxBlocksPerRange \in Nat \ {0} /\ MaxHeight \in Nat /\ lo \in Nat /\ hi \in Nat
  BY MissingBlocksAssumption DEF Heights
<1>2. PICK s \in lo..hi : p = <<s, Min({s + MaxBlocksPerRange - 1, hi})>>
  BY DEF Split, Starts
<1> DEFINE e == Min({s + MaxBlocksPerRange - 1, hi})
<1>3. {s + MaxBlocksPerRange - 1, hi} \in SUBSET Nat
  BY <1>1, <1>2
<1>4. e \in {s + MaxBlocksPerRange - 1, hi} /\ e <= hi
  BY <1>3, MinOfNat
<1> HIDE DEF e
<1>5. e \in s..hi
  BY <1>1, <1>2, <1>4
<1>6. s \in Heights /\ e \in Heights /\ s <= e /\ p = <<s, e>>
  BY <1>1, <1>2, <1>5 DEF Heights, e
<1> QED
  BY <1>6 DEF BlockRange

\* The pieces cover every block: look at the first one they would leave out.
LEMMA SplitCovers ==
  ASSUME NEW lo \in Heights, NEW hi \in Heights, NEW b \in lo..hi
  PROVE  b \in BlocksOf(Split(lo, hi))
<1> DEFINE M == MaxBlocksPerRange
           InPiece(n, s) == s \in Starts(lo, hi) /\ s <= n /\ n <= s + M - 1
           Out == {n \in lo..hi : ~ \E s \in lo..hi : InPiece(n, s)}
<1>1. M \in Nat \ {0} /\ lo \in Nat /\ hi \in Nat /\ b \in Nat /\ lo <= b /\ b <= hi
  BY MissingBlocksAssumption DEF Heights
<1>2. Out = {}
  <2> SUFFICES ASSUME Out # {} PROVE FALSE
    OBVIOUS
  <2>1. Out \in SUBSET Nat
    BY <1>1
  <2>2. PICK n \in Out : \A m \in Out : n <= m
    BY <2>1, SmallestNat
  <2>3. n \in lo..hi /\ n \in Nat
    BY <1>1, <2>2
  <2>4. lo \in Starts(lo, hi)
    BY <1>1, <2>3 DEF Starts
  <2>5. n # lo
    BY <1>1, <2>2, <2>4, <2>3
  <2>6. n - 1 \in lo..hi /\ n - 1 \notin Out
    BY <1>1, <2>2, <2>3, <2>5
  <2>7. PICK s \in lo..hi : InPiece(n - 1, s)
    BY <2>6
  <2>8. n = s + M
    <3>1. ~InPiece(n, s)
      BY <2>2, <2>7
    <3> QED
      BY <1>1, <2>3, <2>7, <3>1
  <2>9. PICK k \in 0..(s - lo) : s = lo + k * M
    BY <2>7 DEF Starts
  <2>10. k \in Nat /\ k * M \in Nat /\ n = lo + (k * M + M)
    BY <1>1, <2>8, <2>9, <2>7
  <2>11. (k + 1) * M = k * M + M
    BY <1>1, <2>10
  <2>12. k + 1 \in 0..(n - lo)
    BY <1>1, <2>8, <2>9, <2>7
  <2>13. n \in Starts(lo, hi)
    BY <2>3, <2>10, <2>11, <2>12 DEF Starts
  <2> QED
    BY <1>1, <2>2, <2>3, <2>13
<1>3. PICK s \in lo..hi : InPiece(b, s)
  BY <1>2
<1> DEFINE e == Min({s + M - 1, hi})
<1>4. {s + M - 1, hi} \in SUBSET Nat
  BY <1>1
<1>5. e \in {s + M - 1, hi}
  BY <1>4, MinOfNat
<1>6. <<s, e>> \in Split(lo, hi)
  BY <1>3 DEF Split
<1> HIDE DEF e
<1>7. b \in s..e
  BY <1>1, <1>3, <1>5
<1> QED
  BY <1>6, <1>7, InBlocksOf

\* What a new range is merged with lies in the range it becomes.
MergedFrom(lo, old) == Min({lo} \cup {r[1] : r \in old})
MergedTo(hi, old) == Max({hi} \cup {r[2] : r \in old})

LEMMA MergeCovers ==
  ASSUME MissingTypeOK, NEW lo \in Heights, NEW hi \in Heights, lo <= hi, NEW old \in SUBSET missing
  PROVE  /\ MergedFrom(lo, old) \in Heights /\ MergedTo(hi, old) \in Heights
         /\ MergedFrom(lo, old) <= lo /\ hi <= MergedTo(hi, old)
         /\ \A r \in old : MergedFrom(lo, old) <= r[1] /\ r[2] <= MergedTo(hi, old)
<1> DEFINE from == MergedFrom(lo, old)
           to == MergedTo(hi, old)
<1>1. MaxHeight \in Nat /\ \A r \in old : r[1] \in Heights /\ r[2] \in Heights
  BY MissingBlocksAssumption DEF MissingTypeOK, BlockRange
<1> DEFINE A == {lo} \cup {r[1] : r \in old}
           B == {hi} \cup {r[2] : r \in old}
<1>2. A \in SUBSET Heights /\ B \in SUBSET Heights
  BY <1>1
<1>3. A \in SUBSET Nat /\ B \in SUBSET (0..MaxHeight)
  BY <1>1, <1>2 DEF Heights
<1>4. Min(A) \in A /\ \A m \in A : m >= Min(A)
  BY <1>3, MinOfNat
<1>5. Max(B) \in B /\ \A m \in B : Max(B) >= m
  BY <1>1, <1>3, MaxOfBounded
<1>6. lo \in A /\ hi \in B /\ \A r \in old : r[1] \in A /\ r[2] \in B
  OBVIOUS
<1>7. from = Min(A) /\ to = Max(B)
  BY DEF MergedFrom, MergedTo
<1> HIDE DEF A, B, from, to
<1>8. from \in A /\ to \in B /\ (\A m \in A : m >= from) /\ \A m \in B : to >= m
  BY <1>4, <1>5, <1>7
<1>9. from \in Heights /\ to \in Heights
  BY <1>2, <1>8
<1>10. \A m \in A : from <= m
  BY <1>2, <1>8, <1>9 DEF Heights
<1>11. \A m \in B : m <= to
  BY <1>2, <1>8, <1>9 DEF Heights
<1>12. from <= lo /\ hi <= to /\ \A r \in old : from <= r[1] /\ r[2] <= to
  BY <1>6, <1>10, <1>11
<1> QED
  BY <1>9, <1>12 DEF from, to

-----------------------------------------------------------------------------
(* The invariant *)

\* What a worker takes off the list is owed no more.
DoneIsNotOwed ==
  \A w \in Workers : manual[w].pc = "unlist" => owed \cap BlocksOf({manual[w].range}) = {}

\* As long as no claim ran out early, a range in hand is claimed, by one worker.
InHandIsClaimed ==
  ~expired => \A w \in Workers : manual[w] # Idle => manual[w].range \in claimed

MissingInv == MissingTypeOK /\ OwedIsListed /\ DoneIsNotOwed /\ InHandIsClaimed /\ SharedNeedsExpiry

LEMMA MissingInitInv == MissingInit => MissingInv
<1> SUFFICES ASSUME MissingInit PROVE MissingInv
  OBVIOUS
<1>1. MissingTypeOK
  <2>1. 0 \in 0..MaxAdds /\ 0 \in 0..MaxManualCrashes
    BY MissingBlocksAssumption
  <2>2. manual \in [Workers -> {Idle} \cup [pc : {"fetch", "unlist", "release"}, range : BlockRange]]
    BY DEF MissingInit
  <2> QED
    BY <2>1, <2>2 DEF MissingInit, MissingTypeOK
<1>2. OwedIsListed /\ DoneIsNotOwed
  BY DEF MissingInit, OwedIsListed, DoneIsNotOwed
<1>3. InHandIsClaimed /\ SharedNeedsExpiry
  BY DEF MissingInit, InHandIsClaimed, SharedNeedsExpiry
<1> QED
  BY <1>1, <1>2, <1>3 DEF MissingInv

LEMMA WorkerType ==
  ASSUME MissingTypeOK, NEW w \in Workers
  PROVE  /\ manual[w].pc \in {"idle", "fetch", "unlist", "release"}
         /\ manual[w].pc = "idle" <=> manual[w] = Idle
         /\ manual[w] # Idle => manual[w].range \in BlockRange
         /\ manual[w] # Idle => manual[w] = [pc |-> manual[w].pc, range |-> manual[w].range]
<1>1. CASE manual[w] = Idle
  BY <1>1 DEF Idle
<1>2. CASE manual[w] \in [pc : {"fetch", "unlist", "release"}, range : BlockRange]
  BY <1>2 DEF Idle
<1> QED
  BY <1>1, <1>2 DEF MissingTypeOK

LEMMA AddStep ==
  ASSUME MissingInv, NEW lo \in Heights, NEW hi \in Heights, lo <= hi, AddMissingBlockRange(lo, hi)
  PROVE  MissingInv'
<1> DEFINE old == Merged(lo, hi)
           from == MergedFrom(lo, old)
           to == MergedTo(hi, old)
<1>1. /\ missing' = (missing \ old) \cup Split(from, to)
      /\ owed' = owed \cup ((lo..hi) \ BlocksOf(AlmostDone))
      /\ UNCHANGED <<claimed, manual, expired, manualCrashes>>
      /\ adds' \in 0..MaxAdds
  BY MissingBlocksAssumption DEF AddMissingBlockRange, MergedFrom, MergedTo, MissingInv, MissingTypeOK
<1>2. /\ from \in Heights /\ to \in Heights /\ from <= lo /\ hi <= to
      /\ \A r \in old : from <= r[1] /\ r[2] <= to
  <2>1. old \in SUBSET missing
    BY DEF Merged
  <2> HIDE DEF old
  <2> QED
    BY <2>1, MergeCovers DEF MissingInv
<1> HIDE DEF old, from, to
<1>3. MissingTypeOK'
  <2>1. missing' \subseteq BlockRange
    BY <1>1, <1>2, PieceIsRange DEF MissingInv, MissingTypeOK
  <2>2. lo..hi \subseteq Heights
    BY MissingBlocksAssumption DEF Heights
  <2> QED
    BY <1>1, <2>1, <2>2 DEF MissingInv, MissingTypeOK
<1>4. OwedIsListed'
  <2> SUFFICES ASSUME NEW b \in owed' PROVE b \in BlocksOf(missing')
    BY DEF OwedIsListed
  <2>1. CASE b \in from..to
    <3>1. PICK p \in Split(from, to) : b \in p[1]..p[2]
      BY <1>2, <2>1, SplitCovers, InBlocksOf
    <3> QED
      BY <1>1, <3>1, InBlocksOf
  <2>2. CASE b \notin from..to
    <3>1. b \in owed
      BY <1>1, <1>2, <2>2 DEF Heights
    <3>2. PICK r \in missing : b \in r[1]..r[2]
      BY <3>1, InBlocksOf DEF MissingInv, OwedIsListed
    <3>3. r[1] \in Heights /\ r[2] \in Heights
      BY DEF MissingInv, MissingTypeOK, BlockRange
    <3>4. r \notin old
      BY <1>2, <2>2, <3>2, <3>3 DEF Heights
    <3> QED
      BY <1>1, <3>2, <3>4, InBlocksOf
  <2> QED
    BY <2>1, <2>2
<1>5. DoneIsNotOwed'
  <2> SUFFICES ASSUME NEW w \in Workers, manual[w].pc = "unlist",
                      NEW b \in owed', b \in BlocksOf({manual[w].range})
               PROVE  FALSE
    BY <1>1 DEF DoneIsNotOwed
  <2>1. manual[w].range \in AlmostDone
    BY DEF AlmostDone
  <2>2. b \in BlocksOf(AlmostDone)
    BY <2>1, InBlocksOf
  <2> QED
    BY <1>1, <2>2 DEF MissingInv, DoneIsNotOwed
<1> QED
  BY <1>1, <1>3, <1>4, <1>5 DEF MissingInv, InHandIsClaimed, SharedNeedsExpiry

LEMMA GetNextRangeStep ==
  ASSUME MissingInv, NEW w \in Workers, GetNextRange(w)
  PROVE  MissingInv'
<1>1. PICK r \in missing \ claimed :
        /\ claimed' = claimed \cup {r}
        /\ manual' = [manual EXCEPT ![w] = [pc |-> "fetch", range |-> r]]
  BY DEF GetNextRange
<1>2. r \in BlockRange /\ manual \in [Workers -> {Idle} \cup
         [pc : {"fetch", "unlist", "release"}, range : BlockRange]]
  BY DEF MissingInv, MissingTypeOK
<1>3. UNCHANGED <<missing, owed, expired, adds, manualCrashes>>
  BY DEF GetNextRange
<1>4. MissingTypeOK'
  BY <1>1, <1>2, <1>3 DEF MissingInv, MissingTypeOK
<1>5. OwedIsListed' /\ DoneIsNotOwed'
  BY <1>1, <1>2, <1>3 DEF MissingInv, OwedIsListed, DoneIsNotOwed
<1>6. InHandIsClaimed'
  BY <1>1, <1>2, <1>3 DEF MissingInv, InHandIsClaimed
<1>7. SharedNeedsExpiry'
  <2> SUFFICES ASSUME ~expired, NEW u \in Workers, NEW v \in Workers, u # v,
                      manual'[u].range = manual'[v].range, manual'[u] # Idle
               PROVE  FALSE
    BY <1>3 DEF SharedNeedsExpiry
  <2>1. \A x \in Workers : manual[x] = Idle \/ manual[x].range # r
    BY DEF MissingInv, InHandIsClaimed
  <2>2. NoRange # r
    BY <1>2, MissingBlocksAssumption
  <2>3. CASE u = w
    BY <1>1, <1>2, <2>1, <2>2, <2>3 DEF Idle
  <2>4. CASE v = w
    BY <1>1, <1>2, <2>1, <2>2, <2>4 DEF Idle
  <2>5. CASE u # w /\ v # w
    BY <1>1, <1>2, <2>5 DEF MissingInv, SharedNeedsExpiry
  <2> QED
    BY <2>3, <2>4, <2>5
<1> QED
  BY <1>4, <1>5, <1>6, <1>7 DEF MissingInv

\* The worker lets go of its range.
LEMMA LetGo ==
  ASSUME MissingInv, NEW w \in Workers, manual' = [manual EXCEPT ![w] = Idle],
         UNCHANGED <<missing, expired>>, owed' \subseteq owed,
         \/ claimed' = claimed
         \/ claimed' = claimed \ {manual[w].range} /\ manual[w] # Idle,
         adds' \in 0..MaxAdds, manualCrashes' \in 0..MaxManualCrashes
  PROVE  MissingInv'
<1>1. manual \in [Workers -> {Idle} \cup [pc : {"fetch", "unlist", "release"}, range : BlockRange]]
  BY DEF MissingInv, MissingTypeOK
<1>2. MissingTypeOK'
  BY <1>1 DEF MissingInv, MissingTypeOK
<1>3. OwedIsListed' /\ DoneIsNotOwed'
  BY <1>1 DEF MissingInv, OwedIsListed, DoneIsNotOwed, Idle
<1>4. InHandIsClaimed'
  BY <1>1 DEF MissingInv, InHandIsClaimed, SharedNeedsExpiry
<1>5. SharedNeedsExpiry'
  <2> SUFFICES ASSUME ~expired, NEW u \in Workers, NEW v \in Workers, u # v,
                      manual'[u].range = manual'[v].range, manual'[u] # Idle
               PROVE  FALSE
    BY DEF SharedNeedsExpiry
  <2>1. u # w /\ manual'[u] = manual[u] /\ manual[u].range \in BlockRange
    BY <1>1, WorkerType DEF MissingInv
  <2>2. v # w
    BY <1>1, <2>1, MissingBlocksAssumption DEF Idle
  <2> QED
    BY <1>1, <2>1, <2>2 DEF MissingInv, SharedNeedsExpiry
<1> QED
  BY <1>2, <1>3, <1>4, <1>5 DEF MissingInv

\* The worker goes on with its range.
LEMMA GoOn ==
  ASSUME MissingInv, NEW w \in Workers, manual[w] # Idle, NEW pc \in {"unlist", "release"},
         manual' = [manual EXCEPT ![w] = [pc |-> pc, range |-> manual[w].range]],
         UNCHANGED <<claimed, expired, adds, manualCrashes>>,
         missing' \subseteq missing, owed' \subseteq owed, OwedIsListed',
         pc = "unlist" => owed' \cap BlocksOf({manual[w].range}) = {}
  PROVE  MissingInv'
<1>1. /\ manual \in [Workers -> {Idle} \cup [pc : {"fetch", "unlist", "release"}, range : BlockRange]]
      /\ manual[w].range \in BlockRange
  BY WorkerType DEF MissingInv, MissingTypeOK
<1>2. MissingTypeOK'
  BY <1>1 DEF MissingInv, MissingTypeOK
<1>3. DoneIsNotOwed'
  BY <1>1 DEF MissingInv, DoneIsNotOwed
<1>4. \A u \in Workers : manual'[u].range = manual[u].range /\ (manual'[u] # Idle => manual[u] # Idle)
  BY <1>1
<1>5. InHandIsClaimed' /\ SharedNeedsExpiry'
  BY <1>4 DEF MissingInv, InHandIsClaimed, SharedNeedsExpiry
<1> QED
  BY <1>2, <1>3, <1>5 DEF MissingInv

LEMMA HandleRangeStep ==
  ASSUME MissingInv, NEW w \in Workers, NEW ok \in BOOLEAN, HandleRange(w, ok)
  PROVE  MissingInv'
<1>1. /\ manual[w] # Idle /\ manual[w] = [pc |-> manual[w].pc, range |-> manual[w].range]
      /\ UNCHANGED <<missing, claimed, expired, adds, manualCrashes>>
      /\ owed' = owed \ BlocksOf({manual[w].range})
  BY WorkerType DEF HandleRange, MissingInv, Idle
<1>2. adds' \in 0..MaxAdds /\ manualCrashes' \in 0..MaxManualCrashes
  BY <1>1 DEF MissingInv, MissingTypeOK
<1>3. CASE ok
  <2>1. [manual[w] EXCEPT !.pc = "unlist"] = [pc |-> "unlist", range |-> manual[w].range]
    BY <1>1
  <2>2. manual' = [manual EXCEPT ![w] = [pc |-> "unlist", range |-> manual[w].range]]
    BY <1>3, <2>1 DEF HandleRange
  <2>3. OwedIsListed'
    BY <1>1 DEF MissingInv, OwedIsListed
  <2> QED
    BY <1>1, <2>2, <2>3, GoOn
<1>4. CASE ~ok
  <2>1. manual' = [manual EXCEPT ![w] = Idle]
    BY <1>4 DEF HandleRange
  <2> QED
    BY <1>1, <1>2, <2>1, LetGo
<1> QED
  BY <1>3, <1>4

LEMMA UnlistStep ==
  ASSUME MissingInv, NEW w \in Workers, Unlist(w)
  PROVE  MissingInv'
<1>1. /\ manual[w] # Idle /\ manual[w].pc = "unlist"
      /\ manual[w] = [pc |-> manual[w].pc, range |-> manual[w].range]
      /\ UNCHANGED <<claimed, owed, expired, adds, manualCrashes>>
      /\ missing' = missing \ {manual[w].range}
  BY WorkerType DEF Unlist, MissingInv, Idle
<1>2. manual' = [manual EXCEPT ![w] = [pc |-> "release", range |-> manual[w].range]]
  <2>1. [manual[w] EXCEPT !.pc = "release"] = [pc |-> "release", range |-> manual[w].range]
    BY <1>1
  <2> QED
    BY <2>1 DEF Unlist
<1>3. OwedIsListed'
  <2> SUFFICES ASSUME NEW b \in owed PROVE b \in BlocksOf(missing')
    BY <1>1 DEF OwedIsListed
  <2>1. PICK r \in missing : b \in r[1]..r[2]
    BY InBlocksOf DEF MissingInv, OwedIsListed
  <2>2. r # manual[w].range
    <3>1. b \notin BlocksOf({manual[w].range})
      BY <1>1 DEF MissingInv, DoneIsNotOwed
    <3> QED
      BY <2>1, <3>1, InBlocksOf
  <2> QED
    BY <1>1, <2>1, <2>2, InBlocksOf
<1> QED
  BY <1>1, <1>2, <1>3, GoOn

LEMMA ClaimExpiresStep ==
  ASSUME MissingInv, NEW r \in BlockRange, ClaimExpires(r)
  PROVE  MissingInv'
<1>1. /\ UNCHANGED <<missing, manual, owed, adds, manualCrashes>>
      /\ claimed' = claimed \ {r} /\ expired' \in BOOLEAN
      /\ ~expired' => ~expired /\ \A w \in Workers : manual[w].range # r
  BY DEF ClaimExpires, Holders, MissingInv, MissingTypeOK
<1>2. MissingTypeOK' /\ OwedIsListed' /\ DoneIsNotOwed'
  BY <1>1 DEF MissingInv, MissingTypeOK, OwedIsListed, DoneIsNotOwed
<1>3. InHandIsClaimed' /\ SharedNeedsExpiry'
  BY <1>1 DEF MissingInv, InHandIsClaimed, SharedNeedsExpiry
<1> QED
  BY <1>2, <1>3 DEF MissingInv

LEMMA MissingNextInv == MissingInv /\ [MissingNext]_missingVars => MissingInv'
<1> SUFFICES ASSUME MissingInv, [MissingNext]_missingVars PROVE MissingInv'
  OBVIOUS
<1>1. CASE UNCHANGED missingVars
  BY <1>1 DEF missingVars, MissingInv, MissingTypeOK, OwedIsListed, DoneIsNotOwed, InHandIsClaimed, SharedNeedsExpiry
<1>2. ASSUME NEW r \in BlockRange, AddMissingBlockRange(r[1], r[2])
      PROVE  MissingInv'
  BY <1>2, AddStep DEF BlockRange
<1>3. ASSUME NEW w \in Workers, GetBlocksFails(w) \/ ManualCrash(w) \/ Release(w)
      PROVE  MissingInv'
  <2>1. manual' = [manual EXCEPT ![w] = Idle] /\ UNCHANGED <<missing, expired, owed>>
    BY <1>3 DEF GetBlocksFails, ManualCrash, Release
  <2>2. adds' \in 0..MaxAdds /\ manualCrashes' \in 0..MaxManualCrashes
    BY <1>3, MissingBlocksAssumption DEF GetBlocksFails, ManualCrash, Release, MissingInv, MissingTypeOK
  <2>3. \/ claimed' = claimed
        \/ claimed' = claimed \ {manual[w].range} /\ manual[w] # Idle
    BY <1>3 DEF GetBlocksFails, ManualCrash, Release, Idle
  <2> QED
    BY <2>1, <2>2, <2>3, LetGo
<1> QED
  BY <1>1, <1>2, <1>3, GetNextRangeStep, HandleRangeStep, UnlistStep, ClaimExpiresStep
  DEF MissingNext, Finish

LEMMA MissingInvariance == MissingSpec => []MissingInv
  BY MissingInitInv, MissingNextInv, PTL DEF MissingSpec

-----------------------------------------------------------------------------

\* The pieces of a merged and split range are ranges of blocks that were asked for:
\* none is empty, turned round or beyond the end.
THEOREM MissingTypeCorrect == MissingSpec => []MissingTypeOK
<1>1. MissingInv => MissingTypeOK
  BY DEF MissingInv
<1> QED
  BY MissingInvariance, <1>1, PTL

\* AddMissingBlockRange's merge and split, and RemoveRange, lose no block that was
\* asked for and not handled, however many workers claim, finish and crash.
THEOREM OwedStaysListed == MissingSpec => []OwedIsListed
<1>1. MissingInv => OwedIsListed
  BY DEF MissingInv
<1> QED
  BY MissingInvariance, <1>1, PTL

\* The claim of GetNextRange excludes, as long as it does not run out early.
THEOREM ClaimsExclude == MissingSpec => []SharedNeedsExpiry
<1>1. MissingInv => SharedNeedsExpiry
  BY DEF MissingInv
<1> QED
  BY MissingInvariance, <1>1, PTL
=============================================================================
