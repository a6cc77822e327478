----------------------------- MODULE Reorg_proofs -----------------------------
(***************************************************************************)
(* Theorems about Reorg, for every length of the chain, depth and number   *)
(* of forks, batch size, window and number of faults.                      *)
(***************************************************************************)
EXTENDS Reorg, Extrema, SequenceTheorems

(***************************************************************************)
(* The inductive invariant.  Versions at one height only grow, so what was *)
(* recorded is at most what the chain has now, and where it still is what  *)
(* the chain has, nothing below it was replaced in the meantime.           *)
(***************************************************************************)

\* The recorded hashes of block n, in memory and in the store.
Recorded == Range(hashes) \cup Range(stored)
Noted(n) == {e \in Recorded : e.num = n}

ChainInv ==
  /\ \A b \in 1..Tip : chain[b] <= forks
  /\ cur <= Tip + 1 /\ latest <= Tip + 1
  /\ \A e \in Recorded : e.num <= Tip /\ e.hash <= chain[e.num]

\* The walk up to block n: all of it is published, or what lies too deep below n to
\* be replaced by a fork.
Complete(n) == \A b \in base..n : Published(b)
DeepDone(n, m) == \A b \in base..n : b + MaxDepth <= m => Published(b)

\* Behind the cursor: if some recorded hash is the chain's, all is published; without
\* a hash, all is published and out of the reach of forks.
WalkInv ==
  ~forgotten =>
    /\ DeepDone(cur - 1, cur - 1)
    /\ \A e \in Noted(cur - 1) : e.hash = chain[cur - 1] => Complete(cur - 1)
    /\ pc # "off" /\ StoredHash(cur - 1) = NoHash =>
         \A b \in base..(cur - 1) : Published(b) /\ b + MaxDepth <= Tip

\* A result is at most as new as the chain, it is newer than what was recorded, and
\* it is the chain's where no fork reaches.
Current(b, block) ==
  /\ block.hash <= chain[b]
  /\ block.hash = chain[b] => block.parent = ParentOf(b)
  /\ b + MaxDepth <= end => block.hash = chain[b]
  /\ \A e \in Noted(b) : e.hash <= block.hash

\* A first result that passes the check was fetched when the blocks before it were
\* published; those that lie deep enough still are.
GotInv ==
  pc = "fetch" =>
    /\ cur <= end /\ end <= Tip
    /\ DOMAIN got \subseteq cur..end
    /\ \A b \in DOMAIN got : got[b].hash # NoHash => Current(b, got[b])
    /\ ~forgotten /\ cur \in DOMAIN got /\ got[cur].hash # NoHash
         /\ ~Detected(cur, got[cur]) => DeepDone(cur - 1, end)

\* The last block emitted in this tick, as WalkInv has it for the cursor.
LastInv ==
  pc \in {"recover", "save"} =>
    /\ end <= Tip /\ last.num \in (cur - 1)..end
    /\ pc = "recover" => last.num < end
    /\ last.num = cur - 1 => last.hash = NoHash
    /\ last.num >= cur =>
         /\ last.hash \in Versions /\ last.hash <= chain[last.num]
         /\ \A e \in Noted(last.num) : e.hash <= last.hash
         /\ ~forgotten =>
              /\ DeepDone(last.num, last.num)
              /\ last.hash = chain[last.num] => Complete(last.num)

Inv == TypeOK /\ ChainInv /\ WalkInv /\ GotInv /\ LastInv

-----------------------------------------------------------------------------
(* The constants, the recorded hashes, the chain *)

LEMMA Constants ==
  /\ MaxBlock \in Nat \ {0} /\ MaxDepth \in Nat \ {0} /\ BatchSize \in Nat \ {0}
  /\ Window \in Nat \ {0} /\ MaxLag \in Nat \ {0} /\ MaxBlockHashSize \in Nat \ {0}
  /\ MaxAttempts \in Nat \ {0} /\ MaxForks \in Nat /\ MaxFaults \in Nat /\ StartOffset \in Nat
  /\ MaxDepth <= Window + 1 /\ NoHash \notin Versions
BY ReorgAssumption

\* getBlockHash finds a hash of that block if the list has one.
LEMMA StoredHashFound ==
  ASSUME TypeOK, NEW n \in Nat
  PROVE  /\ (\A e \in Range(hashes) : e.num # n) => StoredHash(n) = NoHash
         /\ (\E e \in Range(hashes) : e.num = n) =>
              \E e \in Range(hashes) : e.num = n /\ e.hash = StoredHash(n)
<1> DEFINE found == {i \in DOMAIN hashes : hashes[i].num = n}
<1>1. hashes \in Seq(HashEntry) /\ DOMAIN hashes = 1..Len(hashes) /\ Len(hashes) \in Nat
  BY DEF TypeOK
<1>2. found \in SUBSET Nat
  BY <1>1
<1>3. found # {} <=> \E e \in Range(hashes) : e.num = n
  BY DEF Range
<1>4. CASE found = {}
  BY <1>3, <1>4 DEF StoredHash
<1>5. CASE found # {}
  <2>1. Min(found) \in found
    BY <1>2, <1>5, MinOfNat
  <2>2. StoredHash(n) = hashes[Min(found)].hash
    BY <1>5 DEF StoredHash
  <2>3. hashes[Min(found)] \in Range(hashes)
    BY <2>1 DEF Range
  <2> QED
    BY <1>3, <1>5, <2>1, <2>2, <2>3
<1> QED
  BY <1>4, <1>5

\* What is recorded are entries, each with a hash.
LEMMA RecordedTyped ==
  ASSUME TypeOK
  PROVE  /\ \A e \in Recorded : e \in HashEntry /\ e.num \in Blocks /\ e.hash \in Versions
         /\ \A n \in Nat : StoredHash(n) # NoHash =>
              \E e \in Noted(n) : e.hash = StoredHash(n)
         /\ \A n \in Nat : StoredHash(n) = NoHash => \A e \in Range(hashes) : e.num # n
<1>1. hashes \in Seq(HashEntry) /\ stored \in Seq(HashEntry)
  BY DEF TypeOK
<1>2. \A e \in Range(hashes) \cup Range(stored) : e \in HashEntry
  BY <1>1 DEF Range
<1>3. \A e \in HashEntry : e.num \in Blocks /\ e.hash \in Versions
  BY DEF HashEntry
<1>4. ASSUME NEW n \in Nat
      PROVE  /\ StoredHash(n) # NoHash => \E e \in Noted(n) : e.hash = StoredHash(n)
             /\ StoredHash(n) = NoHash => \A e \in Range(hashes) : e.num # n
  <2>1. Range(hashes) \subseteq Recorded
    BY DEF Recorded
  <2>2. \A e \in Range(hashes) : e.hash # NoHash
    BY <1>2, <1>3, Constants
  <2> QED
    BY <2>1, <2>2, StoredHashFound DEF Noted
<1> QED
  BY <1>2, <1>3, <1>4 DEF Recorded

\* addBlockHash keeps the new entry and only old ones beside it.
LEMMA WithHashKeeps ==
  ASSUME TypeOK, NEW n \in Blocks, NEW h \in Versions
  PROVE  /\ WithHash(n, h) \in Seq(HashEntry) /\ Len(WithHash(n, h)) <= MaxBlockHashSize
         /\ [num |-> n, hash |-> h] \in Range(WithHash(n, h))
         /\ Range(WithHash(n, h)) \subseteq Range(hashes) \cup {[num |-> n, hash |-> h]}
<1> DEFINE new == [num |-> n, hash |-> h]
           all == Append(hashes, new)
           extra == IF Len(all) > MaxBlockHashSize THEN Len(all) - MaxBlockHashSize ELSE 0
           kept == SubSeq(all, extra + 1, Len(all))
<1>1. hashes \in Seq(HashEntry) /\ Len(hashes) \in Nat
  BY DEF TypeOK
<1>2. new \in HashEntry
  BY DEF HashEntry
<1>3. /\ all \in Seq(HashEntry) /\ Len(all) = Len(hashes) + 1
      /\ \A i \in 1..Len(hashes) : all[i] = hashes[i]
      /\ all[Len(hashes) + 1] = new
  BY <1>1, <1>2, AppendProperties
<1>4. WithHash(n, h) = kept
  BY DEF WithHash
<1> HIDE DEF new, all
<1>5. extra \in 0..(Len(all) - 1) /\ Len(all) - extra <= MaxBlockHashSize
  BY <1>1, <1>3, Constants
<1>6. \A i \in (extra + 1)..Len(all) : all[i] \in HashEntry
  BY <1>3, <1>5
<1> HIDE DEF extra
<1>7. /\ kept \in Seq(HashEntry) /\ Len(kept) = Len(all) - extra
      /\ \A i \in 1..(Len(all) - extra) : kept[i] = all[extra + i]
  <2>1. extra + 1 \in Int /\ Len(all) \in Int
    BY <1>1, <1>3, <1>5
  <2>2. /\ kept \in Seq(HashEntry)
        /\ Len(kept) = IF extra + 1 <= Len(all) THEN Len(all) - (extra + 1) + 1 ELSE 0
        /\ \A i \in 1..(Len(all) - (extra + 1) + 1) : kept[i] = all[extra + 1 + i - 1]
    BY <2>1, <1>6, SubSeqProperties
  <2> QED
    BY <2>1, <2>2, <1>5
<1> HIDE DEF kept
<1>8. DOMAIN kept = 1..(Len(all) - extra)
  BY <1>7
<1>9. new \in Range(kept)
  <2>1. Len(all) - extra \in DOMAIN kept /\ kept[Len(all) - extra] = new
    BY <1>1, <1>3, <1>5, <1>7, <1>8
  <2> QED
    BY <2>1 DEF Range
<1>10. Range(kept) \subseteq Range(hashes) \cup {new}
  <2>1. ASSUME NEW i \in DOMAIN kept PROVE kept[i] \in Range(hashes) \cup {new}
    <3>1. kept[i] = all[extra + i] /\ extra + i \in 1..(Len(hashes) + 1)
      BY <1>1, <1>3, <1>5, <1>7, <1>8
    <3>2. DOMAIN hashes = 1..Len(hashes)
      BY <1>1
    <3> QED
      BY <1>1, <1>3, <3>1, <3>2 DEF Range
  <2> QED
    BY <2>1 DEF Range
<1> QED
  BY <1>4, <1>5, <1>7, <1>9, <1>10 DEF new

\* The chain, Tip and the version of each block.
LEMMA ChainTyped ==
  ASSUME TypeOK
  PROVE  /\ Tip \in Nat /\ Tip >= 1 /\ Tip <= MaxBlock /\ DOMAIN chain = 1..Tip
         /\ forks \in Nat /\ forks <= MaxForks
         /\ \A b \in 1..Tip : chain[b] \in Versions /\ chain[b] \in Nat /\ chain[b] # NoHash
         /\ cur \in Nat /\ cur >= 1 /\ base \in Nat /\ base >= 1 /\ latest \in Nat /\ end \in Nat
         /\ cur <= MaxBlock + 1 /\ base <= MaxBlock + 1
<1>1. chain \in Seq(Versions) /\ Tip \in Blocks /\ forks \in Versions
  BY DEF TypeOK
<1>2. Tip = Len(chain)
  BY DEF Tip
<1>3. DOMAIN chain = 1..Tip /\ \A b \in 1..Tip : chain[b] \in Versions
  BY <1>1, <1>2
<1>4. \A v \in Versions : v \in Nat /\ v # NoHash
  BY Constants DEF Versions
<1> QED
  BY <1>1, <1>3, <1>4, Constants DEF TypeOK, Blocks, Versions

-----------------------------------------------------------------------------
(* Steps of the chain *)

ChainStep == NewBlock \/ \E depth \in 1..MaxDepth : Fork(depth)

\* The chain grows, versions grow, and what a step replaces is newer than all before.
LEMMA ChainGrows ==
  ASSUME TypeOK, ChainInv, ChainStep
  PROVE  /\ chain' \in Seq(Versions) /\ Tip' \in Blocks /\ forks' \in Versions
         /\ Tip <= Tip' /\ forks <= forks'
         /\ \A b \in 1..Tip' : chain'[b] <= forks'
         /\ \A b \in 1..Tip : chain[b] <= chain'[b] /\ chain'[b] \in Nat
         /\ \A b \in 1..Tip : chain'[b] # chain[b] => chain'[b] > forks
         /\ \A b \in 1..Tip : b + MaxDepth <= Tip => chain'[b] = chain[b]
         /\ \A b \in 1..Tip : chain'[b] = chain[b] =>
              \A c \in 1..b : chain'[c] = chain[c]
<1>1. CASE NewBlock
  <2>1. chain' = Append(chain, forks) /\ forks' = forks /\ Tip < MaxBlock
    BY <1>1 DEF NewBlock
  <2>2. chain \in Seq(Versions) /\ forks \in Versions /\ Tip = Len(chain)
    BY DEF TypeOK, Tip
  <2>3. /\ chain' \in Seq(Versions) /\ Len(chain') = Tip + 1
        /\ \A b \in 1..Tip : chain'[b] = chain[b]
        /\ chain'[Tip + 1] = forks
    BY <2>1, <2>2, AppendProperties
  <2>4. Tip' = Tip + 1 /\ Tip' \in Blocks
    BY <2>1, <2>3, ChainTyped, Constants DEF Tip, Blocks
  <2>5. \A b \in 1..Tip' : chain'[b] <= forks'
    BY <2>1, <2>3, <2>4, ChainTyped DEF ChainInv
  <2>6. \A b \in 1..Tip : \A c \in 1..b : c \in 1..Tip
    BY ChainTyped
  <2> QED
    BY <2>1, <2>2, <2>3, <2>4, <2>5, <2>6, ChainTyped
<1>2. ASSUME NEW depth \in 1..MaxDepth, Fork(depth)
      PROVE  /\ chain' \in Seq(Versions) /\ Tip' \in Blocks /\ forks' \in Versions
             /\ Tip <= Tip' /\ forks <= forks'
             /\ \A b \in 1..Tip' : chain'[b] <= forks'
             /\ \A b \in 1..Tip : chain[b] <= chain'[b] /\ chain'[b] \in Nat
             /\ \A b \in 1..Tip : chain'[b] # chain[b] => chain'[b] > forks
             /\ \A b \in 1..Tip : b + MaxDepth <= Tip => chain'[b] = chain[b]
             /\ \A b \in 1..Tip : chain'[b] = chain[b] =>
                  \A c \in 1..b : chain'[c] = chain[c]
  <2>1. PICK longer \in {0, 1} :
          /\ Tip + longer <= MaxBlock
          /\ chain' = [b \in 1..(Tip + longer) |->
                         IF b <= Tip - depth THEN chain[b] ELSE forks']
    BY <1>2 DEF Fork
  <2>2. forks' = forks + 1 /\ forks < MaxForks /\ depth < Tip
    BY <1>2 DEF Fork
  <2>3. depth \in Nat /\ depth >= 1 /\ depth <= MaxDepth /\ Tip + longer \in Nat
    BY ChainTyped, Constants
  <2>4. forks' \in Versions /\ forks' \in Nat
    BY <2>2, ChainTyped, Constants DEF Versions
  <2>5. \A b \in 1..(Tip + longer) :
          chain'[b] = IF b <= Tip - depth THEN chain[b] ELSE forks'
    BY <2>1
  <2>6. \A b \in 1..(Tip + longer) : chain'[b] \in Versions
    BY <2>3, <2>4, <2>5, ChainTyped
  <2>7. chain' \in [1..(Tip + longer) -> Versions]
    BY <2>1, <2>4, <2>6
  <2>8. chain' \in Seq(Versions) /\ Len(chain') = Tip + longer
    <3>1. \A n \in Nat : \A f \in [1..n -> Versions] : f \in Seq(Versions) /\ Len(f) = n
      OBVIOUS
    <3> QED
      BY <2>3, <2>7, <3>1
  <2>9. Tip' = Tip + longer
    BY <2>8 DEF Tip
  <2>10. Tip' \in Blocks /\ Tip <= Tip'
    BY <2>1, <2>9, ChainTyped, Constants DEF Blocks
  <2>11. \A b \in 1..Tip' : chain'[b] <= forks'
    <3>1. ASSUME NEW b \in 1..Tip', b <= Tip - depth PROVE chain'[b] <= forks'
      <4>1. b \in 1..Tip
        BY <2>3, <2>9, <3>1, ChainTyped
      <4>2. chain'[b] = chain[b]
        BY <2>5, <2>9, <3>1
      <4> QED
        BY <2>2, <4>1, <4>2, ChainTyped DEF ChainInv
    <3>2. ASSUME NEW b \in 1..Tip', ~(b <= Tip - depth) PROVE chain'[b] <= forks'
      BY <2>4, <2>5, <2>9, <3>2
    <3> QED
      BY <3>1, <3>2
  <2>12. \A b \in 1..Tip : b \in 1..(Tip + longer)
    BY ChainTyped
  <2>13. \A b \in 1..Tip : chain[b] <= chain'[b] /\ chain'[b] \in Nat
    BY <2>2, <2>4, <2>5, <2>12, ChainTyped DEF ChainInv
  <2>14. \A b \in 1..Tip : chain'[b] = chain[b] <=> b <= Tip - depth
    BY <2>2, <2>3, <2>5, <2>12, ChainTyped DEF ChainInv
  <2>15. \A b \in 1..Tip : b + MaxDepth <= Tip => b <= Tip - depth
    BY <2>3, ChainTyped, Constants
  <2>16. \A b \in 1..Tip : \A c \in 1..b : c \in 1..Tip /\ (b <= Tip - depth => c <= Tip - depth)
    BY <2>3, ChainTyped
  <2>17. \A b \in 1..Tip : chain'[b] # chain[b] => chain'[b] > forks
    BY <2>2, <2>5, <2>12, ChainTyped
  <2>18. \A b \in 1..Tip : b + MaxDepth <= Tip => chain'[b] = chain[b]
    BY <2>14, <2>15
  <2>19. \A b \in 1..Tip : chain'[b] = chain[b] => \A c \in 1..b : chain'[c] = chain[c]
    BY <2>14, <2>16
  <2>20. forks <= forks'
    BY <2>2, ChainTyped
  <2> QED
    BY <2>4, <2>8, <2>10, <2>11, <2>13, <2>17, <2>18, <2>19, <2>20
<1> QED
  BY <1>1, <1>2 DEF ChainStep


\* Nothing else moves, and what is published and not replaced stays published.
LEMMA ChainFrame ==
  ASSUME TypeOK, ChainStep
  PROVE  /\ UNCHANGED <<pc, cur, hashes, modified, end, got, last>>
         /\ UNCHANGED <<attempt, latest, base, stored, flushing, emitted, forgotten, faults>>
         /\ Recorded' = Recorded
         /\ \A n : Noted(n)' = Noted(n) /\ StoredHash(n)' = StoredHash(n)
         /\ Detected(cur, got[cur])' = Detected(cur, got[cur])
<1>1. UNCHANGED workerVars
  BY DEF ChainStep, NewBlock, Fork
<1>2. /\ UNCHANGED <<pc, cur, hashes, modified, end, got, last>>
      /\ UNCHANGED <<attempt, latest, base, stored, flushing, emitted, forgotten, faults>>
  BY <1>1 DEF workerVars, hashVars, tickVars, walkVars
<1>3. Recorded' = Recorded
  BY <1>2 DEF Recorded
<1>4. \A n : Noted(n)' = Noted(n) /\ StoredHash(n)' = StoredHash(n)
  BY <1>2, <1>3 DEF Noted, StoredHash
<1>5. Detected(cur, got[cur])' = Detected(cur, got[cur])
  BY <1>2 DEF Detected, StoredHash
<1> QED
  BY <1>2, <1>3, <1>4, <1>5

LEMMA StaysPublished ==
  ASSUME TypeOK, ChainInv, ChainStep, NEW b \in 1..Tip, Published(b),
         chain'[b] = chain[b] \/ b + MaxDepth <= Tip
  PROVE  Published(b)'
<1>1. chain'[b] = chain[b] /\ Tip <= Tip'
  BY ChainGrows
<1>2. b <= Tip'
  BY <1>1, ChainGrows, ChainTyped DEF Blocks
<1>3. emitted' = emitted
  BY ChainFrame
<1> QED
  BY <1>1, <1>2, <1>3 DEF Published

\* A step of the chain keeps the invariant.
LEMMA ChainStepType ==
  ASSUME Inv, ChainStep
  PROVE  TypeOK' /\ ChainInv'
<1>1. TypeOK /\ ChainInv
  BY DEF Inv
<1>2. TypeOK'
  BY <1>1, ChainFrame, ChainGrows DEF TypeOK
<1>3. cur' <= Tip' + 1 /\ latest' <= Tip' + 1
  <2>1. Tip' \in Nat /\ Tip <= Tip'
    BY <1>1, ChainGrows, Constants DEF Blocks
  <2> QED
    BY <1>1, <2>1, ChainFrame, ChainTyped DEF ChainInv
<1>4. \A e \in Recorded' : e.num <= Tip' /\ e.hash <= chain'[e.num]
  <2>1. ASSUME NEW e \in Recorded PROVE e.num <= Tip' /\ e.hash <= chain'[e.num]
    <3>1. e.num \in Blocks /\ e.hash \in Versions /\ e.num <= Tip /\ e.hash <= chain[e.num]
      BY <1>1, RecordedTyped DEF ChainInv
    <3>2. e.num \in 1..Tip /\ e.hash \in Nat
      BY <1>1, <3>1, ChainTyped, Constants DEF Blocks, Versions
    <3>3. chain[e.num] <= chain'[e.num] /\ chain[e.num] \in Nat /\ chain'[e.num] \in Nat
      BY <1>1, <3>2, ChainGrows, ChainTyped
    <3>4. Tip <= Tip' /\ Tip' \in Nat
      BY <1>1, ChainGrows, Constants DEF Blocks
    <3> QED
      BY <1>1, <3>1, <3>2, <3>3, <3>4, ChainTyped
  <2> QED
    BY <1>1, <2>1, ChainFrame
<1> QED
  BY <1>1, <1>2, <1>3, <1>4, ChainGrows DEF ChainInv

\* Where a hash is at most the chain's, and the chain's afterwards, nothing up to there
\* was replaced.
LEMMA NotReplaced ==
  ASSUME TypeOK, ChainInv, ChainStep, NEW b \in 1..Tip, NEW h \in Nat,
         h <= chain[b], h = chain'[b]
  PROVE  h = chain[b] /\ \A c \in 1..b : chain'[c] = chain[c]
<1>1. chain[b] <= chain'[b] /\ chain[b] \in Nat /\ chain'[b] \in Nat
  BY ChainGrows, ChainTyped
<1>2. chain'[b] = chain[b]
  BY <1>1
<1> QED
  BY <1>2, ChainGrows

LEMMA ChainStepWalk ==
  ASSUME Inv, ChainStep
  PROVE  WalkInv'
<1>1. TypeOK /\ ChainInv /\ WalkInv
  BY DEF Inv
<1> SUFFICES ASSUME ~forgotten
             PROVE  /\ DeepDone(cur - 1, cur - 1)'
                    /\ \A e \in Noted(cur - 1) :
                         e.hash = chain'[cur - 1] => Complete(cur - 1)'
                    /\ pc # "off" /\ StoredHash(cur - 1) = NoHash =>
                         \A b \in base..(cur - 1) : Published(b)' /\ b + MaxDepth <= Tip'
  <2>1. StoredHash(cur - 1)' = StoredHash(cur - 1) /\ Noted(cur - 1)' = Noted(cur - 1)
    BY <1>1, ChainFrame DEF StoredHash, Noted
  <2> QED
    BY <1>1, <2>1, ChainFrame DEF WalkInv
<1>2. base \in Nat /\ base >= 1 /\ cur \in Nat /\ cur - 1 <= Tip /\ Tip \in Nat /\ cur >= 1
  BY <1>1, ChainTyped DEF ChainInv
<1>3. \A b \in base..(cur - 1) : b \in 1..Tip
  BY <1>2
<1>4. base' = base /\ cur' = cur
  BY <1>1, ChainFrame
<1>5. DeepDone(cur - 1, cur - 1)'
  <2>1. ASSUME NEW b \in base..(cur - 1), b + MaxDepth <= cur - 1 PROVE Published(b)'
    <3>1. Published(b)
      BY <1>1, <2>1 DEF WalkInv, DeepDone
    <3>2. b + MaxDepth <= Tip
      BY <1>2, <2>1, Constants
    <3> QED
      BY <1>1, <1>3, <3>1, <3>2, StaysPublished
  <2> QED
    BY <1>4, <2>1 DEF DeepDone
<1>6. ASSUME NEW e \in Noted(cur - 1), e.hash = chain'[cur - 1] PROVE Complete(cur - 1)'
  <2>1. e \in Recorded /\ e.num = cur - 1
    BY DEF Noted
  <2>2. cur - 1 \in 1..Tip /\ e.hash \in Nat /\ e.hash <= chain[cur - 1]
    BY <1>1, <1>2, <2>1, RecordedTyped, Constants DEF ChainInv, Blocks, Versions
  <2>3. e.hash = chain[cur - 1] /\ \A c \in 1..(cur - 1) : chain'[c] = chain[c]
    BY <1>1, <1>6, <2>2, NotReplaced
  <2>4. Complete(cur - 1)
    BY <1>1, <2>3 DEF WalkInv
  <2>5. ASSUME NEW b \in base..(cur - 1) PROVE Published(b)'
    <3>1. Published(b) /\ chain'[b] = chain[b]
      BY <1>2, <2>3, <2>4 DEF Complete
    <3> QED
      BY <1>1, <1>3, <3>1, StaysPublished
  <2> QED
    BY <1>4, <2>5 DEF Complete
<1>7. ASSUME pc # "off", StoredHash(cur - 1) = NoHash, NEW b \in base..(cur - 1)
      PROVE  Published(b)' /\ b + MaxDepth <= Tip'
  <2>1. Published(b) /\ b + MaxDepth <= Tip
    BY <1>1, <1>7 DEF WalkInv
  <2>2. Published(b)'
    BY <1>1, <1>3, <2>1, StaysPublished
  <2>3. Tip <= Tip' /\ Tip' \in Nat
    BY <1>1, ChainGrows, Constants DEF Blocks
  <2> QED
    BY <1>2, <2>1, <2>2, <2>3, Constants
<1> QED
  BY <1>5, <1>6, <1>7

LEMMA ChainStepGot ==
  ASSUME Inv, ChainStep
  PROVE  GotInv'
<1>1. TypeOK /\ ChainInv /\ GotInv
  BY DEF Inv
<1> SUFFICES ASSUME pc = "fetch" PROVE GotInv'
  BY <1>1, ChainFrame DEF GotInv
<1>2. /\ cur <= end /\ end <= Tip /\ DOMAIN got \subseteq cur..end
      /\ \A b \in DOMAIN got : got[b].hash # NoHash => Current(b, got[b])
  BY <1>1 DEF GotInv
<1>3. cur \in Nat /\ cur >= 1 /\ end \in Nat /\ base \in Nat /\ base >= 1 /\ Tip \in Nat
  BY <1>1, ChainTyped
<1>4. Tip' \in Nat /\ Tip <= Tip'
  BY <1>1, ChainGrows, Constants DEF Blocks
<1>5. ASSUME NEW b \in DOMAIN got, got[b].hash # NoHash
      PROVE  Current(b, got[b])'
  <2>1. Current(b, got[b]) /\ b \in 1..Tip /\ got[b].hash \in Nat
    <3>1. got[b] \in [hash : MaybeHash, parent : MaybeHash]
      BY <1>1 DEF TypeOK
    <3> QED
      BY <1>2, <1>3, <1>5, <3>1, Constants DEF MaybeHash, Versions
  <2>2. got' = got /\ end' = end /\ Noted(b)' = Noted(b)
    BY <1>1, ChainFrame
  <2>3. chain[b] \in Nat /\ chain'[b] \in Nat /\ chain[b] <= chain'[b]
    BY <1>1, <2>1, ChainTyped, ChainGrows
  <2>4. got[b].hash <= chain[b] /\ got[b].hash <= chain'[b]
    BY <2>1, <2>3 DEF Current
  <2>5. ASSUME got[b].hash = chain'[b] PROVE got[b].parent = ParentOf(b)'
    <3>1. got[b].hash = chain[b] /\ \A c \in 1..b : chain'[c] = chain[c]
      BY <1>1, <2>1, <2>4, <2>5, NotReplaced
    <3>2. got[b].parent = ParentOf(b)
      BY <2>1, <3>1 DEF Current
    <3>3. b # 1 => b - 1 \in 1..b
      BY <2>1
    <3> QED
      BY <3>1, <3>2, <3>3 DEF ParentOf
  <2>6. ASSUME b + MaxDepth <= end PROVE got[b].hash = chain'[b]
    <3>1. got[b].hash = chain[b] /\ b + MaxDepth <= Tip
      BY <1>2, <1>3, <2>1, <2>6, Constants DEF Current
    <3> QED
      BY <1>1, <2>1, <3>1, ChainGrows
  <2>7. \A e \in Noted(b) : e.hash <= got[b].hash
    BY <2>1 DEF Current
  <2> QED
    BY <2>2, <2>4, <2>5, <2>6, <2>7 DEF Current
<1>6. ASSUME ~forgotten, cur \in DOMAIN got, got[cur].hash # NoHash, ~Detected(cur, got[cur])
      PROVE  DeepDone(cur - 1, end)'
  <2>1. DeepDone(cur - 1, end)
    BY <1>1, <1>6 DEF GotInv
  <2>2. ASSUME NEW b \in base..(cur - 1), b + MaxDepth <= end PROVE Published(b)'
    <3>1. Published(b) /\ b \in 1..Tip /\ b + MaxDepth <= Tip
      BY <1>2, <1>3, <2>1, <2>2, Constants DEF DeepDone
    <3> QED
      BY <1>1, <3>1, StaysPublished
  <2>3. base' = base /\ cur' = cur /\ end' = end
    BY <1>1, ChainFrame
  <2> QED
    BY <2>2, <2>3 DEF DeepDone
<1>7. /\ cur' = cur /\ end' = end /\ got' = got /\ forgotten' = forgotten
      /\ Detected(cur, got[cur])' = Detected(cur, got[cur])
  BY <1>1, ChainFrame
<1>8. end' <= Tip'
  BY <1>2, <1>3, <1>4, <1>7
<1>9. \A b \in DOMAIN got' : got'[b].hash # NoHash => Current(b, got[b])'
  BY <1>5, <1>7
<1> QED
  BY <1>2, <1>6, <1>7, <1>8, <1>9 DEF GotInv

LEMMA ChainStepLast ==
  ASSUME Inv, ChainStep
  PROVE  LastInv'
<1>1. TypeOK /\ ChainInv /\ LastInv
  BY DEF Inv
<1> SUFFICES ASSUME pc \in {"recover", "save"} PROVE LastInv'
  BY <1>1, ChainFrame DEF LastInv
<1>2. /\ end <= Tip /\ last.num \in (cur - 1)..end
      /\ pc = "recover" => last.num < end
      /\ last.num = cur - 1 => last.hash = NoHash
  BY <1>1 DEF LastInv
<1>3. cur \in Nat /\ cur >= 1 /\ end \in Nat /\ base \in Nat /\ base >= 1 /\ Tip \in Nat
      /\ last.num \in Nat
  BY <1>1, <1>2, ChainTyped DEF TypeOK
<1>4. Tip' \in Nat /\ Tip <= Tip'
  BY <1>1, ChainGrows, Constants DEF Blocks
<1>5. pc' = pc /\ end' = end /\ cur' = cur /\ last' = last /\ forgotten' = forgotten /\ base' = base
  BY <1>1, ChainFrame
<1>6. ASSUME last.num >= cur
      PROVE  /\ last.hash \in Versions /\ last.hash <= chain'[last.num]
             /\ \A e \in Noted(last.num)' : e.hash <= last.hash
             /\ ~forgotten =>
                  /\ DeepDone(last.num, last.num)'
                  /\ last.hash = chain'[last.num] => Complete(last.num)'
  <2>1. /\ last.hash \in Versions /\ last.hash <= chain[last.num]
        /\ \A e \in Noted(last.num) : e.hash <= last.hash
        /\ ~forgotten =>
             /\ DeepDone(last.num, last.num)
             /\ last.hash = chain[last.num] => Complete(last.num)
    BY <1>1, <1>6 DEF LastInv
  <2>2. last.num \in 1..Tip /\ last.hash \in Nat
    BY <1>2, <1>3, <1>6, <2>1, Constants DEF Versions
  <2>3. last.hash <= chain'[last.num]
    BY <1>1, <2>1, <2>2, ChainGrows, ChainTyped
  <2>4. Noted(last.num)' = Noted(last.num)
    BY <1>1, <1>5, ChainFrame DEF Noted
  <2>5. ASSUME ~forgotten PROVE DeepDone(last.num, last.num)'
    <3>1. ASSUME NEW b \in base..last.num, b + MaxDepth <= last.num PROVE Published(b)'
      <4>1. Published(b) /\ b \in 1..Tip /\ b + MaxDepth <= Tip
        BY <1>3, <2>1, <2>2, <2>5, <3>1, Constants DEF DeepDone
      <4> QED
        BY <1>1, <4>1, StaysPublished
    <3> QED
      BY <1>5, <3>1 DEF DeepDone
  <2>6. ASSUME ~forgotten, last.hash = chain'[last.num] PROVE Complete(last.num)'
    <3>1. last.hash = chain[last.num] /\ \A c \in 1..last.num : chain'[c] = chain[c]
      BY <1>1, <2>1, <2>2, <2>6, NotReplaced
    <3>2. ASSUME NEW b \in base..last.num PROVE Published(b)'
      <4>1. Published(b) /\ b \in 1..Tip /\ chain'[b] = chain[b]
        BY <1>3, <2>1, <2>2, <2>6, <3>1 DEF Complete
      <4> QED
        BY <1>1, <4>1, StaysPublished
    <3> QED
      BY <1>5, <3>2 DEF Complete
  <2> QED
    BY <2>1, <2>3, <2>4, <2>5, <2>6
<1>7. end' <= Tip'
  BY <1>2, <1>3, <1>4, <1>5
<1> QED
  BY <1>2, <1>5, <1>6, <1>7 DEF LastInv

LEMMA ChainStepInv ==
  ASSUME Inv, ChainStep
  PROVE  Inv'
BY ChainStepType, ChainStepWalk, ChainStepGot, ChainStepLast DEF Inv


-----------------------------------------------------------------------------
(* Steps of the worker: what they share *)

\* The chain stays, and what was emitted stays emitted.
ChainStays == UNCHANGED <<chain, forks>> /\ emitted \subseteq emitted'

LEMMA StillPublished ==
  ASSUME ChainStays, NEW b, Published(b)
  PROVE  Published(b)'
BY DEF ChainStays, Published, Tip

\* What is recorded stays within the chain, and so does the walk behind the cursor.
LEMMA KeepsChain ==
  ASSUME Inv, ChainStays, Recorded' \subseteq Recorded, cur' <= Tip + 1, latest' <= Tip + 1
  PROVE  ChainInv'
BY DEF Inv, ChainInv, ChainStays, Tip

LEMMA KeepsWalk ==
  ASSUME Inv, ChainStays, UNCHANGED <<cur, base, hashes, forgotten>>,
         Recorded' \subseteq Recorded, pc' # "off" => pc # "off"
  PROVE  WalkInv'
<1>1. WalkInv
  BY DEF Inv
<1>2. Tip' = Tip /\ chain' = chain /\ cur' = cur /\ base' = base /\ hashes' = hashes
  BY DEF ChainStays, Tip
<1>3. StoredHash(cur - 1)' = StoredHash(cur - 1)
  BY <1>2 DEF StoredHash
<1> SUFFICES ASSUME ~forgotten PROVE WalkInv'
  BY DEF WalkInv
<1>4. DeepDone(cur - 1, cur - 1)'
  BY <1>1, <1>2, StillPublished DEF WalkInv, DeepDone
<1>5. ASSUME NEW e \in Noted(cur - 1)', e.hash = chain'[cur' - 1] PROVE Complete(cur - 1)'
  <2>1. e \in Noted(cur - 1) /\ e.hash = chain[cur - 1]
    BY <1>2, <1>5 DEF Noted
  <2>2. Complete(cur - 1)
    BY <1>1, <2>1 DEF WalkInv
  <2> QED
    BY <1>2, <2>2, StillPublished DEF Complete
<1>6. ASSUME pc' # "off", StoredHash(cur - 1)' = NoHash, NEW b \in base'..(cur' - 1)
      PROVE  Published(b)' /\ b + MaxDepth <= Tip'
  <2>1. Published(b) /\ b + MaxDepth <= Tip
    BY <1>1, <1>2, <1>3, <1>6 DEF WalkInv
  <2> QED
    BY <1>2, <2>1, StillPublished
<1> QED
  BY <1>4, <1>5, <1>6 DEF WalkInv

\* What LastInv says of the last block, once more for a step that changes it: a block n
\* with hash h closes the walk.
Closed(n, h) ==
  /\ h \in Versions /\ h <= chain[n]
  /\ \A e \in Noted(n) : e.hash <= h
  /\ ~forgotten =>
       /\ DeepDone(n, n)
       /\ h = chain[n] => Complete(n)

LEMMA KeepsClosed ==
  ASSUME ChainStays, base' = base, forgotten => forgotten', Recorded' \subseteq Recorded,
         NEW n, NEW h, Closed(n, h)
  PROVE  Closed(n, h)'
<1>1. chain' = chain
  BY DEF ChainStays
<1>2. Noted(n)' \subseteq Noted(n)
  BY DEF Noted
<1>3. DeepDone(n, n) => DeepDone(n, n)'
  BY StillPublished DEF DeepDone
<1>4. Complete(n) => Complete(n)'
  BY StillPublished DEF Complete
<1> QED
  BY <1>1, <1>2, <1>3, <1>4 DEF Closed

LEMMA KeepsLast ==
  ASSUME Inv, ChainStays, UNCHANGED <<cur, base, end, last>>, forgotten => forgotten',
         Recorded' \subseteq Recorded, pc' \in {"recover", "save"} => pc' = pc \/ pc = "recover"
  PROVE  LastInv'
<1>1. LastInv
  BY DEF Inv
<1>2. Tip' = Tip
  BY DEF ChainStays, Tip
<1> SUFFICES ASSUME pc' \in {"recover", "save"} PROVE LastInv'
  BY DEF LastInv
<1>3. pc \in {"recover", "save"} /\ (pc' = "recover" => pc = "recover")
  OBVIOUS
<1>4. last.num >= cur => Closed(last.num, last.hash)
  BY <1>1, <1>3 DEF LastInv, Closed
<1>5. last.num >= cur => Closed(last.num, last.hash)'
  BY <1>4, KeepsClosed
<1> QED
  BY <1>1, <1>2, <1>3, <1>5 DEF LastInv, Closed

LEMMA KeepsGot ==
  ASSUME Inv, ChainStays, UNCHANGED <<pc, cur, base, end, got, hashes, forgotten>>,
         Recorded' \subseteq Recorded
  PROVE  GotInv'
<1>1. GotInv
  BY DEF Inv
<1>2. Tip' = Tip /\ chain' = chain
  BY DEF ChainStays, Tip
<1>3. \A b : Noted(b)' \subseteq Noted(b)
  BY DEF Noted
<1>4. \A b : Current(b, got[b]) => Current(b, got[b])'
  BY <1>2, <1>3 DEF Current, ParentOf
<1>5. Detected(cur, got[cur])' = Detected(cur, got[cur])
  BY DEF Detected, StoredHash
<1>6. DeepDone(cur - 1, end) => DeepDone(cur - 1, end)'
  BY StillPublished DEF DeepDone
<1> QED
  BY <1>1, <1>2, <1>4, <1>5, <1>6 DEF GotInv

\* Nothing is being fetched and no batch is under way.
LEMMA NoBatch ==
  ASSUME pc' \notin {"fetch", "recover", "save"}
  PROVE  GotInv' /\ LastInv'
BY DEF GotInv, LastInv

\* A block whose parent is the chain's, and that passes the check, has all before it
\* published.
LEMMA FollowsRecord ==
  ASSUME Inv, pc # "off", ~forgotten, cur <= Tip, NEW block, ~Detected(cur, block),
         block.parent = ParentOf(cur)
  PROVE  Complete(cur - 1)
<1>1. TypeOK /\ WalkInv
  BY DEF Inv
<1>2. CASE StoredHash(cur - 1) = NoHash
  BY <1>1, <1>2 DEF WalkInv, Complete
<1>3. CASE StoredHash(cur - 1) # NoHash
  <2>1. StoredHash(cur - 1) = ParentOf(cur)
    BY <1>3 DEF Detected
  <2>2. StoredHash(cur - 1) = chain[cur - 1]
    BY <1>3, <2>1 DEF ParentOf
  <2>3. \E e \in Noted(cur - 1) : e.hash = chain[cur - 1]
    BY <1>1, <1>3, <2>2, RecordedTyped, ChainTyped
  <2> QED
    BY <1>1, <2>3 DEF WalkInv
<1> QED
  BY <1>2, <1>3

\* Between the start of the walk and the block a rollback from b goes back to lies only
\* what no fork below b reaches.
LEMMA RollbackReach ==
  ASSUME NEW old \in Nat, NEW b \in Nat, NEW new \in Nat, NEW low,
         new = (IF b - 1 > Window THEN b - 1 - Window ELSE 1), old >= 1, low \in {old, new},
         NEW c \in low..(new - 1)
  PROVE  c \in old..(b - 1) /\ c + MaxDepth <= b - 1
<1>1. Window \in Nat /\ MaxDepth \in Nat /\ MaxDepth <= Window + 1
  BY Constants
<1>2. low \in Nat
  OBVIOUS
<1>3. c \in Int /\ low <= c /\ c <= new - 1
  BY <1>2
<1>4. low = old
  BY <1>3
<1> QED
  BY <1>1, <1>3, <1>4

\* The rollback goes back to where no fork reaches.
LEMMA RollsBack ==
  ASSUME Inv, ChainStays, NEW b \in 1..(Tip + 1), Rollback(b), stored' = stored,
         ~forgotten => \A a \in base..(b - 1) : a + MaxDepth <= b - 1 => Published(a)'
  PROVE  /\ {cur, base}' \subseteq 1..(MaxBlock + 1) /\ latest' \in 0..(MaxBlock + 1)
         /\ ChainInv' /\ WalkInv'
<1>1. TypeOK
  BY DEF Inv
<1>2. cur' = (IF b - 1 > Window THEN b - 1 - Window ELSE 1) /\ latest' = cur' - 1
  BY DEF Rollback, RollbackStart
<1>3. /\ cur' \in 1..(Tip + 1) /\ latest' \in 0..Tip /\ Tip \in Nat /\ Tip <= MaxBlock
      /\ base \in Nat /\ base >= 1 /\ base <= MaxBlock + 1 /\ b \in Nat /\ Window \in Nat
      /\ MaxDepth \in Nat /\ MaxDepth <= Window + 1
  BY <1>1, <1>2, ChainTyped, Constants
<1>4. base' \in {base, cur'} /\ base' <= base /\ base' <= cur'
  <2>1. {base, cur'} \in SUBSET Nat /\ {base, cur'} # {}
    BY <1>3
  <2>2. base' = Min({base, cur'})
    BY DEF Rollback
  <2> QED
    BY <2>1, <2>2, MinOfNat
<1>5. Recorded' \subseteq Recorded
  BY DEF Rollback, ClearHashes, Recorded, Range
<1>6. ChainInv'
  BY <1>3, <1>5, KeepsChain
<1>7. Tip' = Tip
  BY DEF ChainStays, Tip
<1>8. ASSUME ~forgotten, NEW c \in base'..(cur' - 1)
      PROVE  Published(c)' /\ c + MaxDepth <= Tip'
  <2>1. c \in base..(b - 1) /\ c + MaxDepth <= b - 1
    BY <1>2, <1>3, <1>4, <1>8, RollbackReach
  <2> QED
    BY <1>3, <1>7, <1>8, <2>1
<1>9. WalkInv'
  <2>1. forgotten' = forgotten
    BY DEF Rollback
  <2> QED
    BY <1>8, <2>1 DEF WalkInv, DeepDone, Complete
<1>10. {cur, base}' \subseteq 1..(MaxBlock + 1) /\ latest' \in 0..(MaxBlock + 1)
  BY <1>1, <1>3, <1>4, Constants
<1> QED
  BY <1>6, <1>9, <1>10


-----------------------------------------------------------------------------
(* The steps of a tick *)

LEMMA SkipAheadInv ==
  ASSUME Inv, SkipAhead
  PROVE  Inv'
<1>1. TypeOK
  BY DEF Inv
<1>2. /\ pc' = "tick" /\ cur' = Tip /\ latest' = Tip - 1 /\ base' = Tip
      /\ hashes' = <<>> /\ stored' = stored
  BY DEF SkipAhead, ClearHashes
<1>3. ChainStays
  BY DEF SkipAhead, ChainStays
<1>4. Recorded' \subseteq Recorded
  BY <1>2 DEF Recorded, Range
<1>5. TypeOK'
  <2>1. /\ Tip \in 1..(MaxBlock + 1) /\ Tip - 1 \in 0..(MaxBlock + 1)
        /\ <<>> \in Seq(HashEntry) /\ Len(<<>>) <= MaxBlockHashSize
    BY <1>1, ChainTyped, Constants
  <2> QED
    BY <1>1, <1>2, <2>1 DEF SkipAhead, ClearHashes, tickVars, TypeOK, Tip
<1>6. ChainInv'
  <2>1. cur' <= Tip + 1 /\ latest' <= Tip + 1
    BY <1>1, <1>2, ChainTyped
  <2> QED
    BY <1>3, <1>4, <2>1, KeepsChain
<1>7. WalkInv'
  <2>1. \A b \in base'..(cur' - 1) : FALSE
    BY <1>1, <1>2, ChainTyped
  <2> QED
    BY <2>1 DEF WalkInv, DeepDone, Complete
<1> QED
  BY <1>2, <1>5, <1>6, <1>7, NoBatch DEF Inv

LEMMA BeginBatchInv ==
  ASSUME Inv, BeginBatch
  PROVE  Inv'
<1>1. TypeOK /\ ChainInv
  BY DEF Inv
<1>2. /\ pc = "tick" /\ pc' = "fetch" /\ cur <= Tip /\ end' = Min({cur + BatchSize - 1, Tip})
      /\ got' = NoResults /\ last' = [num |-> cur - 1, hash |-> NoHash] /\ attempt' = 0
      /\ UNCHANGED <<chain, forks, hashes, modified, cur, latest, base>>
      /\ UNCHANGED <<stored, flushing, emitted, forgotten, faults>>
  BY DEF BeginBatch, hashVars, walkVars
<1>3. ChainStays
  BY <1>2 DEF ChainStays
<1>4. Recorded' = Recorded
  BY <1>2 DEF Recorded
<1>5. cur <= end' /\ end' <= Tip /\ end' \in 0..MaxBlock
  <2>1. {cur + BatchSize - 1, Tip} \in SUBSET Nat /\ {cur + BatchSize - 1, Tip} # {}
    BY <1>1, ChainTyped, Constants
  <2>2. end' \in {cur + BatchSize - 1, Tip} /\ end' <= Tip
    BY <1>2, <2>1, MinOfNat
  <2> QED
    BY <1>1, <1>2, <2>2, ChainTyped, Constants
<1>6. TypeOK'
  <2>1. DOMAIN got' = {}
    BY <1>2 DEF NoResults
  <2>2. last' \in [num : 0..MaxBlock, hash : MaybeHash]
    BY <1>1, <1>2, ChainTyped, Constants DEF MaybeHash
  <2>3. attempt' \in 0..(MaxAttempts - 1)
    BY <1>2, Constants
  <2> QED
    BY <1>1, <1>2, <1>5, <2>1, <2>2, <2>3 DEF TypeOK, Tip
<1>7. ChainInv' /\ WalkInv'
  BY <1>1, <1>2, <1>3, <1>4, KeepsChain, KeepsWalk DEF ChainInv
<1>8. GotInv'
  <2>1. DOMAIN got' = {} /\ Tip' = Tip
    BY <1>2 DEF NoResults, Tip
  <2> QED
    BY <1>2, <1>5, <2>1 DEF GotInv
<1>9. LastInv'
  BY <1>2 DEF LastInv
<1> QED
  BY <1>6, <1>7, <1>8, <1>9 DEF Inv

\* An answer is what the chain has now, or nothing.
LEMMA FetchInv ==
  ASSUME Inv, NEW b, NEW block, FetchInBatch(b, block),
         \/ block = Fetched(b) /\ faults' = faults
         \/ block = Unresolved /\ faults' \in 0..MaxFaults
  PROVE  Inv'
<1>1. TypeOK /\ ChainInv /\ GotInv
  BY DEF Inv
<1>2. /\ pc = "fetch" /\ b \in (cur..end) \ DOMAIN got
      /\ got' = [n \in DOMAIN got \cup {b} |-> IF n = b THEN block ELSE got[n]]
      /\ UNCHANGED <<chain, forks, pc, hashes, modified, cur, latest, base>>
      /\ UNCHANGED <<end, last, attempt, stored, flushing, emitted, forgotten>>
  BY DEF FetchInBatch, hashVars, walkVars
<1>3. ChainStays
  BY <1>2 DEF ChainStays
<1>4. Recorded' = Recorded /\ \A n : Noted(n)' = Noted(n)
  BY <1>2 DEF Recorded, Noted
<1>5. /\ cur <= end /\ end <= Tip /\ DOMAIN got \subseteq cur..end
      /\ \A n \in DOMAIN got : got[n].hash # NoHash => Current(n, got[n])
  BY <1>1, <1>2 DEF GotInv
<1>6. b \in 1..Tip /\ cur \in Nat /\ end \in Nat /\ cur >= 1 /\ b \in cur..end
  BY <1>1, <1>2, <1>5, ChainTyped
<1>7. /\ DOMAIN got' = DOMAIN got \cup {b} /\ got'[b] = block
      /\ \A n \in DOMAIN got : n # b /\ got'[n] = got[n]
  BY <1>2
<1>8. TypeOK'
  <2>1. block \in [hash : MaybeHash, parent : MaybeHash]
    <3>1. b # 1 => b - 1 \in 1..Tip
      BY <1>1, <1>6, ChainTyped
    <3>2. ParentOf(b) \in MaybeHash /\ chain[b] \in MaybeHash /\ NoHash \in MaybeHash
      BY <1>1, <1>6, <3>1, ChainTyped DEF ParentOf, MaybeHash
    <3> QED
      BY <3>2 DEF Fetched, Unresolved
  <2>2. b \in Blocks
    BY <1>1, <1>6, ChainTyped, Constants DEF Blocks
  <2>3. /\ DOMAIN got' \subseteq Blocks
        /\ \A n \in DOMAIN got' : got'[n] \in [hash : MaybeHash, parent : MaybeHash]
    BY <1>1, <1>7, <2>1, <2>2 DEF TypeOK
  <2>4. faults' \in 0..MaxFaults
    BY <1>1 DEF TypeOK
  <2> QED
    BY <1>1, <1>2, <2>3, <2>4 DEF TypeOK, Tip
<1>9. ChainInv' /\ WalkInv'
  BY <1>1, <1>2, <1>3, <1>4, KeepsChain, KeepsWalk DEF ChainInv
<1>10. LastInv'
  BY <1>2 DEF LastInv
<1>11. \A n \in DOMAIN got' : got'[n].hash # NoHash => Current(n, got'[n])
  <2>1. ASSUME block = Fetched(b) PROVE Current(b, block)
    <3>1. block.hash = chain[b] /\ block.parent = ParentOf(b)
      BY <2>1 DEF Fetched
    <3>2. chain[b] \in Nat
      BY <1>1, <1>6, ChainTyped
    <3>3. \A e \in Noted(b) : e.hash <= chain[b]
      BY <1>1 DEF Noted, ChainInv
    <3> QED
      BY <3>1, <3>2, <3>3 DEF Current
  <2>2. block = Unresolved => block.hash = NoHash
    BY DEF Unresolved
  <2> QED
    BY <1>5, <1>7, <2>1, <2>2
<1>12. \A n : Current(n, got'[n]) => Current(n, got[n])'
  BY <1>2, <1>4 DEF Current, ParentOf
<1>13. ASSUME ~forgotten, cur \in DOMAIN got', got'[cur].hash # NoHash, ~Detected(cur, got'[cur])
       PROVE  DeepDone(cur - 1, end)
  <2>1. CASE cur = b
    <3>1. block = Fetched(b)
      BY <1>7, <1>13, <2>1 DEF Unresolved
    <3>2. block.parent = ParentOf(cur) /\ ~Detected(cur, block) /\ cur <= Tip
      BY <1>6, <1>7, <1>13, <2>1, <3>1 DEF Fetched
    <3>3. Complete(cur - 1)
      BY <1>2, <1>13, <3>2, FollowsRecord
    <3> QED
      BY <3>3 DEF Complete, DeepDone
  <2>2. CASE cur # b
    BY <1>1, <1>2, <1>7, <1>13, <2>2 DEF GotInv
  <2> QED
    BY <2>1, <2>2
<1>14. Detected(cur, got[cur])' = Detected(cur, got'[cur])
  BY <1>2 DEF Detected, StoredHash
<1>15. DeepDone(cur - 1, end) => DeepDone(cur - 1, end)'
  BY <1>2, <1>3, StillPublished DEF DeepDone
<1>16. GotInv'
  <2>1. DOMAIN got' \subseteq cur..end /\ Tip' = Tip
    BY <1>2, <1>5, <1>6, <1>7 DEF Tip
  <2> QED
    BY <1>2, <1>5, <1>11, <1>12, <1>13, <1>14, <1>15, <2>1 DEF GotInv
<1> QED
  BY <1>8, <1>9, <1>10, <1>16 DEF Inv

LEMMA GetBlockInv ==
  ASSUME Inv, NEW b, GetBlock(b) \/ GetBlockFails(b)
  PROVE  Inv'
<1>1. CASE GetBlock(b)
  BY <1>1, FetchInv DEF GetBlock
<1>2. CASE GetBlockFails(b)
  <2>1. faults' \in 0..MaxFaults
    BY <1>2, Constants DEF GetBlockFails, Inv, TypeOK
  <2> QED
    BY <1>2, <2>1, FetchInv DEF GetBlockFails
<1> QED
  BY <1>1, <1>2


-----------------------------------------------------------------------------
(* A whole batch *)

\* The results that fit hang together: where one is the chain's, all before it are.
LEMMA Linked ==
  ASSUME Inv, pc = "fetch", NEW n \in cur..end, cur..n \subseteq DOMAIN got,
         \A b \in cur..n : Fits(b), NEW c \in cur..n, got[c].hash = chain[c],
         NEW d \in cur..c
  PROVE  got[d].hash = chain[d]
<1>1. TypeOK /\ GotInv
  BY DEF Inv
<1>2. cur \in Nat /\ cur >= 1 /\ end \in Nat /\ n \in Nat /\ c \in Nat /\ d \in Nat /\ c <= n
  BY <1>1, ChainTyped
<1>3. \A b \in cur..n : Current(b, got[b]) /\ (b > cur => got[b].parent = got[b - 1].hash)
  BY <1>1 DEF GotInv, Fits
<1> DEFINE odd == {b \in cur..c : got[b].hash # chain[b]}
<1> SUFFICES ASSUME odd # {} PROVE FALSE
  OBVIOUS
<1>4. odd \in SUBSET (0..c)
  BY <1>2
<1>5. PICK x \in odd : \A m \in odd : x >= m
  BY <1>2, <1>4, LargestNat
<1>6. x \in cur..c /\ got[x].hash # chain[x]
  OBVIOUS
<1>7. x # c
  BY <1>6
<1>8. x + 1 \in cur..c /\ x + 1 > cur /\ x + 1 \in cur..n /\ x + 1 # 1 /\ (x + 1) - 1 = x
  BY <1>2, <1>6, <1>7
<1>9. x + 1 \notin odd
  BY <1>2, <1>5, <1>6
<1> HIDE DEF odd
<1>10. got[x + 1].hash = chain[x + 1]
  BY <1>8, <1>9 DEF odd
<1>11. got[x + 1].parent = ParentOf(x + 1) /\ got[x + 1].parent = got[(x + 1) - 1].hash
  BY <1>3, <1>8, <1>10 DEF Current
<1>12. ParentOf(x + 1) = chain[(x + 1) - 1]
  BY <1>8 DEF ParentOf
<1> QED
  BY <1>6, <1>8, <1>11, <1>12

\* The first result that fits and is the chain's hangs on what was published before.
LEMMA FirstLinked ==
  ASSUME Inv, pc = "fetch", cur \in DOMAIN got, Fits(cur), ~forgotten,
         got[cur].hash = chain[cur]
  PROVE  Complete(cur - 1)
<1>1. TypeOK /\ GotInv
  BY DEF Inv
<1>2. Current(cur, got[cur]) /\ ~Detected(cur, got[cur])
  BY <1>1 DEF GotInv, Fits
<1>3. got[cur].parent = ParentOf(cur)
  BY <1>2 DEF Current
<1>4. cur <= Tip
  BY <1>1, ChainTyped DEF GotInv
<1> QED
  BY <1>2, <1>3, <1>4, FollowsRecord

\* Up to the last result that fits, the batch is emitted and closes the walk.
LEMMA BatchClosed ==
  ASSUME Inv, pc = "fetch", NEW n \in cur..end, cur..n \subseteq DOMAIN got,
         \A b \in cur..n : Fits(b), ChainStays,
         emitted' = emitted \cup {<<b, got[b].hash>> : b \in cur..n}
  PROVE  /\ got[n].hash \in Versions /\ got[n].hash <= chain[n]
         /\ \A e \in Noted(n) : e.hash <= got[n].hash
         /\ ~forgotten =>
              /\ \A b \in base..n : b + MaxDepth <= n => Published(b)'
              /\ got[n].hash = chain[n] => \A b \in base..n : Published(b)'
<1>1. TypeOK /\ GotInv
  BY DEF Inv
<1>2. cur \in Nat /\ cur >= 1 /\ end \in Nat /\ n \in Nat /\ end <= Tip /\ base \in Nat
      /\ Tip \in Nat
  BY <1>1, ChainTyped DEF GotInv
<1>3. \A b \in cur..n : got[b].hash # NoHash /\ Current(b, got[b])
  BY <1>1 DEF GotInv, Fits
<1>4. n \in cur..n /\ cur \in cur..n
  BY <1>2
<1>5. got[n].hash \in Versions /\ got[n].hash <= chain[n]
      /\ \A e \in Noted(n) : e.hash <= got[n].hash
  <2>1. got[n] \in [hash : MaybeHash, parent : MaybeHash]
    BY <1>1, <1>4 DEF TypeOK
  <2> QED
    BY <1>3, <1>4, <2>1 DEF Current, MaybeHash
<1>6. Tip' = Tip /\ chain' = chain
  BY DEF ChainStays, Tip
<1>7. \A b \in cur..n : got[b].hash = chain[b] => Published(b)'
  <2>1. \A b \in cur..n : <<b, got[b].hash>> \in emitted' /\ b <= Tip
    BY <1>2
  <2> QED
    BY <1>6, <2>1 DEF Published
<1>8. ASSUME ~forgotten, NEW b \in base..n, b + MaxDepth <= n PROVE Published(b)'
  <2>1. CASE b >= cur
    <3>1. b \in cur..n /\ b + MaxDepth <= end
      BY <1>2, <1>8, <2>1, Constants
    <3> QED
      BY <1>3, <1>7, <3>1 DEF Current
  <2>2. CASE ~(b >= cur)
    <3>1. DeepDone(cur - 1, end)
      BY <1>1, <1>3, <1>4, <1>8 DEF GotInv, Fits
    <3>2. b \in base..(cur - 1) /\ b + MaxDepth <= end
      BY <1>2, <1>8, <2>2, Constants
    <3>3. Published(b)
      BY <3>1, <3>2 DEF DeepDone
    <3> QED
      BY <3>3, StillPublished
  <2> QED
    BY <2>1, <2>2
<1>9. ASSUME ~forgotten, got[n].hash = chain[n], NEW b \in base..n PROVE Published(b)'
  <2>1. CASE b >= cur
    <3>1. b \in cur..n
      BY <1>2, <2>1
    <3>2. got[b].hash = chain[b]
      BY <1>4, <1>9, <3>1, Linked
    <3> QED
      BY <1>7, <3>1, <3>2
  <2>2. CASE ~(b >= cur)
    <3>1. got[cur].hash = chain[cur]
      BY <1>4, <1>9, Linked
    <3>2. Complete(cur - 1)
      BY <1>4, <1>9, <3>1, FirstLinked
    <3>3. b \in base..(cur - 1)
      BY <1>2, <1>9, <2>2
    <3>4. Published(b)
      BY <3>2, <3>3 DEF Complete
    <3> QED
      BY <3>4, StillPublished
  <2> QED
    BY <2>1, <2>2
<1> QED
  BY <1>5, <1>8, <1>9

\* The first result that does not fit, or the end of the batch.
Stops(stop) ==
  /\ stop \in cur..(end + 1)
  /\ \A b \in cur..(stop - 1) : Fits(b)
  /\ emitted' = emitted \cup {<<b, got[b].hash>> : b \in cur..(stop - 1)}
  /\ last' = [num |-> stop - 1,
              hash |-> IF stop = cur THEN NoHash ELSE got[stop - 1].hash]
  /\ \/ /\ stop > end /\ pc' = "save"
        /\ UNCHANGED <<hashes, modified, cur, latest, base, forgotten, faults>>
     \/ stop <= end /\ (Rollback(stop) \/ RollbackUnsaved(stop))
     \/ /\ stop <= end /\ pc' = "recover"
        /\ UNCHANGED <<hashes, modified, cur, latest, base, forgotten, faults>>

LEMMA BatchStops ==
  ASSUME TypeOK, GotInv, ProcessBatch
  PROVE  \E stop : Stops(stop)
<1> DEFINE S == {b \in cur..end : ~Fits(b)} \cup {end + 1}
           stop == Min(S)
<1>1. cur \in Nat /\ end \in Nat /\ cur <= end
  BY ChainTyped DEF GotInv, ProcessBatch
<1>2. S \in SUBSET Nat /\ S # {} /\ S \subseteq cur..(end + 1)
  BY <1>1
<1>3. stop \in S /\ \A m \in S : m >= stop
  BY <1>2, MinOfNat
<1>4. stop \in cur..(end + 1) /\ stop \in Nat
  BY <1>1, <1>2, <1>3
<1>5. \A b \in cur..(stop - 1) : Fits(b)
  <2>1. \A b \in cur..(stop - 1) : b \in cur..end /\ ~(b >= stop)
    BY <1>1, <1>4
  <2> QED
    BY <1>3, <2>1
<1>6. /\ emitted' = emitted \cup {<<b, got[b].hash>> : b \in cur..(stop - 1)}
      /\ last' = [num |-> stop - 1,
                  hash |-> IF stop = cur THEN NoHash ELSE got[stop - 1].hash]
      /\ \/ /\ stop > end /\ pc' = "save"
            /\ UNCHANGED <<hashVars, walkVars, forgotten, faults>>
         \/ stop <= end /\ (Rollback(stop) \/ RollbackUnsaved(stop))
         \/ /\ stop <= end /\ pc' = "recover"
            /\ UNCHANGED <<hashVars, walkVars, forgotten, faults>>
  BY DEF ProcessBatch
<1> HIDE DEF stop
<1>7. Stops(stop)
  BY <1>4, <1>5, <1>6 DEF Stops, hashVars, walkVars
<1> QED
  BY <1>7


LEMMA ProcessBatchInv ==
  ASSUME Inv, ProcessBatch
  PROVE  Inv'
<1>1. TypeOK /\ ChainInv /\ WalkInv /\ GotInv
  BY DEF Inv
<1>2. /\ pc = "fetch" /\ DOMAIN got = cur..end /\ got' = NoResults
      /\ UNCHANGED <<chain, forks, end, attempt, stored, flushing>>
  BY DEF ProcessBatch
<1>3. PICK stop : Stops(stop)
  BY <1>1, BatchStops
<1>4. /\ cur \in Nat /\ cur >= 1 /\ end \in Nat /\ cur <= end /\ end <= Tip /\ base \in Nat
      /\ Tip \in Nat /\ Tip <= MaxBlock /\ stop \in Nat /\ stop \in cur..(end + 1)
      /\ base >= 1
  BY <1>1, <1>2, <1>3, ChainTyped DEF GotInv, Stops
<1>5. \A b \in cur..(stop - 1) : Fits(b) /\ b \in cur..end
  BY <1>3, <1>4 DEF Stops
<1>6. emitted' = emitted \cup {<<b, got[b].hash>> : b \in cur..(stop - 1)}
  BY <1>3 DEF Stops
<1>7. ChainStays
  BY <1>2, <1>6 DEF ChainStays
<1>8. last'.num = stop - 1 /\ (stop = cur => last'.hash = NoHash)
      /\ (stop > cur => last'.hash = got[stop - 1].hash)
  BY <1>3, <1>4 DEF Stops
<1>9. ASSUME stop > cur
      PROVE  /\ last'.hash \in Versions /\ last'.hash <= chain[stop - 1]
             /\ \A e \in Noted(stop - 1) : e.hash <= last'.hash
             /\ ~forgotten =>
                  /\ \A a \in base..(stop - 1) : a + MaxDepth <= stop - 1 => Published(a)'
                  /\ last'.hash = chain[stop - 1] => \A a \in base..(stop - 1) : Published(a)'
  <2>1. stop - 1 \in cur..end
    BY <1>4, <1>9
  <2>2. cur..(stop - 1) \subseteq DOMAIN got
    BY <1>2, <1>5
  <2> QED
    BY <1>2, <1>5, <1>6, <1>7, <1>8, <1>9, <2>1, <2>2, BatchClosed
<1>10. ~forgotten => \A a \in base..(stop - 1) : a + MaxDepth <= stop - 1 => Published(a)'
  <2>1. CASE stop > cur
    BY <1>9, <2>1
  <2>2. CASE stop = cur
    BY <1>1, <1>7, <2>2, StillPublished DEF WalkInv, DeepDone
  <2> QED
    BY <1>4, <2>1, <2>2
<1>11. /\ DOMAIN got' = {} /\ last' \in [num : 0..MaxBlock, hash : MaybeHash]
       /\ emitted' \subseteq Blocks \X Versions
  <2>1. DOMAIN got' = {}
    BY <1>2 DEF NoResults
  <2>2. last' \in [num : 0..MaxBlock, hash : MaybeHash]
    <3>1. last'.num \in 0..MaxBlock
      BY <1>4, <1>8, Constants
    <3>2. last'.hash \in MaybeHash
      BY <1>4, <1>8, <1>9 DEF MaybeHash
    <3>3. last' = [num |-> last'.num, hash |-> last'.hash]
      BY <1>3 DEF Stops
    <3> QED
      BY <3>1, <3>2, <3>3
  <2>3. ASSUME NEW b \in cur..(stop - 1) PROVE <<b, got[b].hash>> \in Blocks \X Versions
    <3>1. b \in DOMAIN got /\ got[b].hash # NoHash
      BY <1>2, <1>5 DEF Fits
    <3>2. b \in Blocks /\ got[b].hash \in MaybeHash
      BY <1>1, <3>1 DEF TypeOK
    <3> QED
      BY <3>1, <3>2 DEF MaybeHash
  <2>4. emitted' \subseteq Blocks \X Versions
    BY <1>1, <1>6, <2>3 DEF TypeOK
  <2> QED
    BY <2>1, <2>2, <2>4
<1>12. ASSUME cur' = cur, base' = base, forgotten => forgotten', Recorded' \subseteq Recorded,
              pc' = "recover" => stop <= end
       PROVE  LastInv'
  <2>1. end' = end /\ Tip' = Tip /\ chain' = chain
    BY <1>2 DEF Tip
  <2>2. Noted(stop - 1)' \subseteq Noted(stop - 1)
    BY <1>12 DEF Noted
  <2>3. last'.num \in (cur - 1)..end /\ (pc' = "recover" => last'.num < end)
        /\ (last'.num = cur - 1 => last'.hash = NoHash)
    BY <1>4, <1>8, <1>12
  <2>4. ASSUME last'.num >= cur
        PROVE  /\ last'.hash \in Versions /\ last'.hash <= chain[last'.num]
               /\ \A e \in Noted(last.num)' : e.hash <= last'.hash
               /\ ~forgotten' =>
                    /\ DeepDone(last.num, last.num)'
                    /\ last'.hash = chain[last'.num] => Complete(last.num)'
    <3>1. stop > cur
      BY <1>4, <1>8, <2>4
    <3>2. Noted(last.num)' \subseteq Noted(stop - 1)
      BY <1>8, <2>2 DEF Noted
    <3>3. ~forgotten' => DeepDone(last.num, last.num)'
      BY <1>8, <1>9, <1>12, <3>1 DEF DeepDone
    <3>4. ~forgotten' /\ last'.hash = chain[last'.num] => Complete(last.num)'
      BY <1>8, <1>9, <1>12, <3>1 DEF Complete
    <3> QED
      BY <1>8, <1>9, <3>1, <3>2, <3>3, <3>4
  <2> QED
    BY <1>4, <1>12, <2>1, <2>3, <2>4 DEF LastInv
<1>13. CASE /\ pc' = "save" \/ (pc' = "recover" /\ stop <= end)
            /\ UNCHANGED <<hashes, modified, cur, latest, base, forgotten, faults>>
  <2>1. Recorded' = Recorded
    BY <1>2, <1>13 DEF Recorded
  <2>2. TypeOK'
    BY <1>1, <1>2, <1>11, <1>13 DEF TypeOK, Tip
  <2>3. ChainInv' /\ WalkInv'
    BY <1>1, <1>2, <1>7, <1>13, <2>1, KeepsChain, KeepsWalk DEF ChainInv
  <2>4. GotInv'
    BY <1>13 DEF GotInv
  <2>5. LastInv'
    BY <1>12, <1>13, <2>1
  <2> QED
    BY <2>2, <2>3, <2>4, <2>5 DEF Inv
<1>14. CASE stop <= end /\ Rollback(stop)
  <2>1. stop \in 1..(Tip + 1)
    BY <1>4
  <2>2. /\ {cur, base}' \subseteq 1..(MaxBlock + 1) /\ latest' \in 0..(MaxBlock + 1)
        /\ ChainInv' /\ WalkInv'
    BY <1>2, <1>7, <1>10, <1>14, <2>1, RollsBack
  <2>3. /\ pc' = "tick" /\ hashes' = <<>> /\ modified' = TRUE
        /\ forgotten' = forgotten /\ faults' = faults
    BY <1>14 DEF Rollback, ClearHashes
  <2>4. <<>> \in Seq(HashEntry) /\ Len(<<>>) <= MaxBlockHashSize
    BY Constants
  <2>5. TypeOK'
    BY <1>1, <1>2, <1>11, <2>2, <2>3, <2>4 DEF TypeOK, Tip
  <2> QED
    BY <2>2, <2>3, <2>5, NoBatch DEF Inv
<1>15. CASE stop <= end /\ RollbackUnsaved(stop)
  <2>1. /\ pc' = "save" /\ hashes' = <<>> /\ modified' = TRUE /\ forgotten' = TRUE
        /\ faults' = faults \/ (faults < MaxFaults /\ faults' = faults + 1)
        /\ UNCHANGED <<cur, latest, base>>
    BY <1>15 DEF RollbackUnsaved, ClearHashes, walkVars
  <2>2. Recorded' \subseteq Recorded
    BY <1>2, <2>1 DEF Recorded, Range
  <2>3. /\ <<>> \in Seq(HashEntry) /\ Len(<<>>) <= MaxBlockHashSize
        /\ faults' \in 0..MaxFaults
    BY <1>1, <2>1, Constants DEF TypeOK
  <2>4. TypeOK'
    BY <1>1, <1>2, <1>11, <2>1, <2>3 DEF TypeOK, Tip
  <2>5. ChainInv'
    BY <1>1, <1>7, <2>1, <2>2, KeepsChain DEF ChainInv
  <2>6. WalkInv' /\ GotInv'
    BY <2>1 DEF WalkInv, GotInv
  <2>7. LastInv'
    BY <1>12, <2>1, <2>2
  <2> QED
    BY <2>4, <2>5, <2>6, <2>7 DEF Inv
<1> QED
  BY <1>3, <1>13, <1>14, <1>15 DEF Stops


-----------------------------------------------------------------------------
(* Single-block recovery and the end of the tick *)

LEMMA NextAttemptInv ==
  ASSUME Inv, NextAttempt, pc = "recover", faults' \in 0..MaxFaults,
         UNCHANGED <<chain, forks, end, got, hashes, modified, cur, latest, base>>,
         UNCHANGED <<stored, flushing, emitted, forgotten>>
  PROVE  Inv'
<1>1. TypeOK /\ ChainInv
  BY DEF Inv
<1>2. ChainStays /\ Recorded' = Recorded
  BY DEF ChainStays, Recorded
<1>3. /\ last' = last /\ pc' \in {"recover", "save"} /\ attempt' \in 0..(MaxAttempts - 1)
  BY <1>1, Constants DEF NextAttempt, TypeOK
<1>4. TypeOK'
  BY <1>1, <1>3 DEF TypeOK, Tip
<1>5. ChainInv' /\ WalkInv'
  BY <1>1, <1>2, KeepsChain, KeepsWalk DEF ChainInv
<1>6. GotInv'
  BY <1>3 DEF GotInv
<1>7. LastInv'
  BY <1>2, <1>3, KeepsLast
<1> QED
  BY <1>4, <1>5, <1>6, <1>7 DEF Inv

LEMMA RecoverFailsInv ==
  ASSUME Inv, RecoverFails
  PROVE  Inv'
<1>1. faults' \in 0..MaxFaults
  BY Constants DEF RecoverFails, Inv, TypeOK
<1> QED
  BY <1>1, NextAttemptInv DEF RecoverFails, hashVars, walkVars

\* What LastInv says of the block that comes next in the recovery.
LEMMA NextToRecover ==
  ASSUME Inv, pc = "recover", NEW b, b = last.num + 1
  PROVE  /\ b \in 1..Tip /\ b >= cur /\ b <= end /\ b - 1 = last.num
         /\ ~forgotten => DeepDone(b - 1, b - 1)
         /\ ~forgotten /\ ~Detected(b, Fetched(b)) /\ last.hash \in {NoHash, ParentOf(b)} =>
              Complete(b - 1)
<1>1. TypeOK /\ WalkInv /\ LastInv
  BY DEF Inv
<1>2. /\ cur \in Nat /\ cur >= 1 /\ end \in Nat /\ Tip \in Nat /\ end <= Tip
      /\ last.num \in (cur - 1)..end /\ last.num < end
      /\ last.num = cur - 1 => last.hash = NoHash
      /\ last.num >= cur => Closed(last.num, last.hash)
  BY <1>1, ChainTyped DEF LastInv, Closed
<1>3. b \in 1..Tip /\ b >= cur /\ b <= end /\ b - 1 = last.num
  BY <1>2
<1>4. CASE last.num = cur - 1
  <2>1. b = cur /\ b - 1 = cur - 1
    BY <1>2, <1>3, <1>4
  <2>2. ~forgotten => DeepDone(b - 1, b - 1)
    BY <1>1, <2>1 DEF WalkInv
  <2>3. Fetched(b).parent = ParentOf(cur)
    BY <2>1 DEF Fetched
  <2>4. ~forgotten /\ ~Detected(b, Fetched(b)) => Complete(b - 1)
    BY <1>3, <2>1, <2>3, FollowsRecord
  <2> QED
    BY <1>3, <2>2, <2>4
<1>5. CASE last.num # cur - 1
  <2>1. last.num >= cur /\ last.hash # NoHash
    BY <1>2, <1>5, Constants DEF Closed
  <2>2. ~forgotten => DeepDone(b - 1, b - 1)
    BY <1>2, <1>3, <2>1 DEF Closed
  <2>3. b # 1 /\ ParentOf(b) = chain[b - 1]
    BY <1>2, <1>3, <2>1 DEF ParentOf
  <2>4. ~forgotten /\ last.hash = ParentOf(b) => Complete(b - 1)
    BY <1>2, <1>3, <2>1, <2>3 DEF Closed
  <2> QED
    BY <1>3, <2>1, <2>2, <2>4
<1> QED
  BY <1>4, <1>5

LEMMA RecoverBlockInv ==
  ASSUME Inv, RecoverBlock
  PROVE  Inv'
<1> DEFINE b == last.num + 1
<1>1. TypeOK /\ ChainInv /\ WalkInv
  BY DEF Inv
<1>2. pc = "recover" /\ UNCHANGED <<chain, forks, end, got, stored, flushing>>
  BY DEF RecoverBlock
<1>3. /\ b \in 1..Tip /\ b >= cur /\ b <= end /\ b - 1 = last.num
      /\ ~forgotten => DeepDone(b - 1, b - 1)
      /\ ~forgotten /\ ~Detected(b, Fetched(b)) /\ last.hash \in {NoHash, ParentOf(b)} =>
           Complete(b - 1)
  BY <1>2, NextToRecover
<1>4. /\ cur \in Nat /\ cur >= 1 /\ end \in Nat /\ Tip \in Nat /\ Tip <= MaxBlock
      /\ b \in Nat /\ base \in Nat /\ Tip' = Tip /\ end <= Tip
  BY <1>1, <1>2, <1>3, ChainTyped DEF Inv, LastInv, Tip
<1>5. CASE Rollback(b) /\ UNCHANGED <<emitted, last, attempt>>
  <2>1. ChainStays
    BY <1>2, <1>5 DEF ChainStays
  <2>2. ~forgotten => \A a \in base..(b - 1) : a + MaxDepth <= b - 1 => Published(a)'
    BY <1>3, <2>1, StillPublished DEF DeepDone
  <2>3. b \in 1..(Tip + 1)
    BY <1>3, <1>4
  <2>4. /\ {cur, base}' \subseteq 1..(MaxBlock + 1) /\ latest' \in 0..(MaxBlock + 1)
        /\ ChainInv' /\ WalkInv'
    BY <1>2, <1>5, <2>1, <2>2, <2>3, RollsBack
  <2>5. /\ pc' = "tick" /\ hashes' = <<>> /\ modified' = TRUE
        /\ forgotten' = forgotten /\ faults' = faults
    BY <1>5 DEF Rollback, ClearHashes
  <2>6. <<>> \in Seq(HashEntry) /\ Len(<<>>) <= MaxBlockHashSize
    BY Constants
  <2>7. TypeOK'
    BY <1>1, <1>2, <1>5, <2>4, <2>5, <2>6 DEF TypeOK, Tip
  <2> QED
    BY <2>4, <2>5, <2>7, NoBatch DEF Inv
<1>6. CASE RollbackUnsaved(b) /\ UNCHANGED <<emitted, last, attempt>>
  <2>1. /\ pc' = "save" /\ hashes' = <<>> /\ modified' = TRUE /\ forgotten' = TRUE
        /\ faults' = faults \/ (faults < MaxFaults /\ faults' = faults + 1)
        /\ UNCHANGED <<cur, latest, base>>
    BY <1>6 DEF RollbackUnsaved, ClearHashes, walkVars
  <2>2. ChainStays /\ Recorded' \subseteq Recorded
    BY <1>2, <1>6, <2>1 DEF ChainStays, Recorded, Range
  <2>3. /\ <<>> \in Seq(HashEntry) /\ Len(<<>>) <= MaxBlockHashSize
        /\ faults' \in 0..MaxFaults
    BY <1>1, <2>1, Constants DEF TypeOK
  <2>4. TypeOK'
    BY <1>1, <1>2, <1>6, <2>1, <2>3 DEF TypeOK, Tip
  <2>5. ChainInv'
    BY <1>1, <2>1, <2>2, KeepsChain DEF ChainInv
  <2>6. WalkInv' /\ GotInv'
    BY <2>1 DEF WalkInv, GotInv
  <2>7. LastInv'
    BY <1>2, <1>6, <2>1, <2>2, KeepsLast
  <2> QED
    BY <2>4, <2>5, <2>6, <2>7 DEF Inv
<1>7. CASE NextAttempt /\ UNCHANGED <<emitted, hashVars, walkVars, forgotten, faults>>
  <2>1. faults' \in 0..MaxFaults
    BY <1>1, <1>7 DEF TypeOK
  <2> QED
    BY <1>2, <1>7, <2>1, NextAttemptInv DEF hashVars, walkVars
<1>8. CASE /\ ~Detected(b, Fetched(b)) /\ last.hash \in {NoHash, ParentOf(b)}
           /\ emitted' = emitted \cup {<<b, chain[b]>>}
           /\ last' = [num |-> b, hash |-> chain[b]] /\ attempt' = 0
           /\ pc' = IF b = end THEN "save" ELSE "recover"
           /\ UNCHANGED <<hashVars, walkVars, forgotten, faults>>
  <2>1. UNCHANGED <<hashes, modified, cur, latest, base, forgotten, faults>>
    BY <1>8 DEF hashVars, walkVars
  <2>2. ChainStays /\ Recorded' = Recorded
    BY <1>2, <1>8, <2>1 DEF ChainStays, Recorded
  <2>3. chain[b] \in Versions /\ b \in Blocks /\ b \in 0..MaxBlock
    BY <1>1, <1>3, <1>4, ChainTyped, Constants DEF Blocks
  <2>4. TypeOK'
    <3>1. last' \in [num : 0..MaxBlock, hash : MaybeHash] /\ attempt' \in 0..(MaxAttempts - 1)
      BY <1>8, <2>3, Constants DEF MaybeHash
    <3>2. emitted' \subseteq Blocks \X Versions
      BY <1>1, <1>8, <2>3 DEF TypeOK
    <3>3. pc' \in {"save", "recover"}
      BY <1>8
    <3> QED
      BY <1>1, <1>2, <2>1, <3>1, <3>2, <3>3 DEF TypeOK, Tip
  <2>5. ChainInv' /\ WalkInv'
    BY <1>1, <1>2, <2>1, <2>2, KeepsChain, KeepsWalk DEF ChainInv
  <2>6. GotInv'
    BY <1>8 DEF GotInv
  <2>7. last'.num = b /\ last'.hash = chain[b] /\ (pc' = "recover" => b < end)
    BY <1>3, <1>4, <1>8
  <2>8. \A e \in Noted(last.num)' : e.hash <= chain[b]
    BY <1>1, <2>2, <2>7 DEF Noted, ChainInv
  <2>9. ASSUME ~forgotten PROVE Complete(last.num)' /\ DeepDone(last.num, last.num)'
    <3>1. Complete(b - 1)
      BY <1>3, <1>8, <2>9
    <3>2. ASSUME NEW a \in base..b PROVE Published(a)'
      <4>1. CASE a = b
        <5>1. <<b, chain[b]>> \in emitted'
          BY <1>8
        <5> QED
          BY <1>2, <1>3, <1>4, <4>1, <5>1 DEF Published
      <4>2. CASE a # b
        <5>1. a \in base..(b - 1)
          BY <1>4, <4>2
        <5>2. Published(a)
          BY <3>1, <5>1 DEF Complete
        <5> QED
          BY <2>2, <5>2, StillPublished
      <4> QED
        BY <4>1, <4>2
    <3> QED
      BY <2>1, <2>7, <3>2 DEF Complete, DeepDone
  <2>10. chain[b] \in Nat
    BY <1>1, <1>3, ChainTyped
  <2>11. LastInv'
    <3>1. b \in (cur - 1)..end /\ b # cur - 1
      BY <1>3, <1>4
    <3> QED
      BY <1>2, <1>4, <2>1, <2>3, <2>7, <2>8, <2>9, <2>10, <3>1 DEF LastInv
  <2> QED
    BY <2>4, <2>5, <2>6, <2>11 DEF Inv
<1> QED
  BY <1>5, <1>6, <1>7, <1>8 DEF RecoverBlock


\* A list with an entry for block n has a hash for it.
LEMMA EntryFound ==
  ASSUME NEW list \in Seq(HashEntry), NEW n \in Nat, \E e \in Range(list) : e.num = n
  PROVE  LET found == {i \in DOMAIN list : list[i].num = n}
         IN  found # {} /\ list[Min(found)].hash # NoHash
<1> DEFINE found == {i \in DOMAIN list : list[i].num = n}
<1>1. found \in SUBSET Nat
  OBVIOUS
<1>2. found # {}
  BY DEF Range
<1>3. Min(found) \in found
  BY <1>1, <1>2, MinOfNat
<1>4. list[Min(found)] \in HashEntry
  BY <1>3
<1>5. list[Min(found)].hash # NoHash
  BY <1>4, Constants DEF HashEntry
<1> QED
  BY <1>2, <1>5

LEMMA SaveProgressInv ==
  ASSUME Inv, SaveProgress
  PROVE  Inv'
<1>1. TypeOK /\ ChainInv /\ LastInv
  BY DEF Inv
<1>2. /\ pc = "save" /\ pc' = "tick"
      /\ UNCHANGED <<chain, forks, base, end, got, last, attempt>>
      /\ UNCHANGED <<stored, flushing, emitted, forgotten, faults>>
  BY DEF SaveProgress, tickVars
<1>3. ChainStays
  BY <1>2 DEF ChainStays
<1>4. CASE ~(last.num >= cur)
  <2>1. UNCHANGED <<cur, latest, hashes, modified>>
    BY <1>4 DEF SaveProgress, hashVars
  <2>2. Recorded' = Recorded
    BY <1>2, <2>1 DEF Recorded
  <2>3. TypeOK'
    BY <1>1, <1>2, <2>1 DEF TypeOK, Tip
  <2>4. ChainInv' /\ WalkInv'
    BY <1>1, <1>2, <1>3, <2>1, <2>2, KeepsChain, KeepsWalk DEF ChainInv
  <2> QED
    BY <1>2, <2>3, <2>4, NoBatch DEF Inv
<1>5. CASE last.num >= cur
  <2> DEFINE n == last.num
             new == [num |-> n, hash |-> last.hash]
  <2>1. /\ cur' = n + 1 /\ latest' = n /\ hashes' = WithHash(n, last.hash)
        /\ modified' = TRUE
    BY <1>5 DEF SaveProgress
  <2>2. /\ n \in Nat /\ n >= cur /\ n <= end /\ end <= Tip /\ cur >= 1 /\ Tip <= MaxBlock
        /\ cur \in Nat /\ end \in Nat /\ Tip \in Nat /\ Closed(n, last.hash)
    BY <1>1, <1>2, <1>5, ChainTyped DEF LastInv, Closed
  <2>3. n \in 1..Tip /\ n \in Blocks /\ last.hash \in Versions
    BY <2>2, Constants DEF Blocks, Closed
  <2>4. /\ hashes' \in Seq(HashEntry) /\ Len(hashes') <= MaxBlockHashSize
        /\ new \in Range(hashes') /\ Range(hashes') \subseteq Range(hashes) \cup {new}
    BY <1>1, <2>1, <2>3, WithHashKeeps
  <2>5. TypeOK'
    <3>1. cur' \in 1..(MaxBlock + 1) /\ latest' \in 0..(MaxBlock + 1)
      BY <2>1, <2>2, Constants
    <3> QED
      BY <1>1, <1>2, <2>1, <2>4, <3>1 DEF TypeOK, Tip
  <2>6. Tip' = Tip /\ chain' = chain /\ base' = base
    BY <1>2 DEF Tip
  <2>7. Recorded' \subseteq Recorded \cup {new}
    BY <1>2, <2>4 DEF Recorded
  <2> HIDE DEF n
  <2>8. ChainInv'
    <3>1. last.hash <= chain[n]
      BY <2>2 DEF Closed
    <3>2. \A e \in Recorded' : e.num <= Tip /\ e.hash <= chain[e.num]
      BY <1>1, <2>2, <2>7, <3>1 DEF ChainInv
    <3>3. cur' <= Tip + 1 /\ latest' <= Tip + 1
      BY <2>1, <2>2
    <3> QED
      BY <1>1, <1>2, <2>6, <3>2, <3>3 DEF ChainInv
  <2>9. WalkInv'
    <3> SUFFICES ASSUME ~forgotten' PROVE WalkInv'
      BY DEF WalkInv
    <3>1. ~forgotten /\ cur' - 1 = n
      BY <1>2, <2>1, <2>2
    <3>2. DeepDone(n, n) /\ (last.hash = chain[n] => Complete(n))
      BY <2>2, <3>1 DEF Closed
    <3>3. DeepDone(cur - 1, cur - 1)'
      BY <1>3, <2>6, <3>1, <3>2, StillPublished DEF DeepDone
    <3>4. ASSUME NEW e \in Noted(cur - 1)', e.hash = chain'[cur' - 1]
          PROVE  Complete(cur - 1)'
      <4>1. e.num = n /\ e.hash = chain[n] /\ (e \in Recorded \/ e = new)
        BY <2>6, <2>7, <3>1, <3>4 DEF Noted
      <4>2. last.hash = chain[n]
        <5>1. CASE e \in Recorded
          <6>1. e.hash <= last.hash /\ last.hash <= chain[n]
            BY <2>2, <4>1, <5>1 DEF Closed, Noted
          <6>2. last.hash \in Nat /\ chain[n] \in Nat
            BY <1>1, <2>3, ChainTyped, Constants DEF Versions
          <6> QED
            BY <4>1, <6>1, <6>2
        <5>2. CASE e = new
          BY <4>1, <5>2
        <5> QED
          BY <4>1, <5>1, <5>2
      <4> QED
        BY <1>3, <2>6, <3>1, <3>2, <4>2, StillPublished DEF Complete
    <3>5. StoredHash(cur - 1)' # NoHash
      <4>1. \E e \in Range(hashes') : e.num = n
        BY <2>4
      <4>2. /\ {i \in DOMAIN hashes' : hashes'[i].num = n} # {}
            /\ hashes'[Min({i \in DOMAIN hashes' : hashes'[i].num = n})].hash # NoHash
        BY <2>2, <2>4, <4>1, EntryFound
      <4> QED
        BY <3>1, <4>2 DEF StoredHash
    <3> QED
      BY <3>3, <3>4, <3>5 DEF WalkInv
  <2> QED
    BY <1>2, <2>5, <2>8, <2>9, NoBatch DEF Inv
<1> QED
  BY <1>4, <1>5

-----------------------------------------------------------------------------
(* Flush, stop, crash and start *)

LEMMA FlushInv ==
  ASSUME Inv, FlushWrite \/ FlushReset
  PROVE  Inv'
<1>1. TypeOK /\ ChainInv
  BY DEF Inv
<1>2. /\ UNCHANGED <<chain, forks, pc, hashes, end, got, last, attempt>>
      /\ UNCHANGED <<cur, latest, base, emitted, forgotten, faults>>
      /\ stored' \in {stored, hashes}
      /\ modified' \in {modified, FALSE} /\ flushing' \in BOOLEAN
  BY DEF FlushWrite, FlushReset, hashVars, tickVars, walkVars
<1>3. ChainStays /\ Recorded' \subseteq Recorded
  BY <1>2 DEF ChainStays, Recorded
<1>4. TypeOK'
  BY <1>1, <1>2 DEF TypeOK, Tip
<1>5. ChainInv' /\ WalkInv'
  BY <1>1, <1>2, <1>3, KeepsChain, KeepsWalk DEF ChainInv
<1>6. GotInv' /\ LastInv'
  BY <1>2, <1>3, KeepsGot, KeepsLast
<1> QED
  BY <1>4, <1>5, <1>6 DEF Inv

LEMMA HaltInv ==
  ASSUME Inv, Crash \/ Stop
  PROVE  Inv'
<1>1. TypeOK /\ ChainInv /\ WalkInv
  BY DEF Inv
<1>2. /\ pc' = "off" /\ faults < MaxFaults /\ faults' = faults + 1
      /\ hashes' = <<>> /\ modified' = FALSE /\ flushing' = FALSE
      /\ end' = 0 /\ got' = NoResults /\ last' = NoSuccess /\ attempt' = 0
      /\ UNCHANGED <<chain, forks, cur, base, emitted, forgotten>>
      /\ latest' \in {latest, cur} /\ stored' \in {stored, hashes}
  BY DEF Crash, Stop, Halt
<1>3. ChainStays /\ Recorded' \subseteq Recorded
  BY <1>2 DEF ChainStays, Recorded, Range
<1>4. TypeOK'
  <2>1. DOMAIN got' = {} /\ last' \in [num : 0..MaxBlock, hash : MaybeHash]
    BY <1>2, Constants DEF NoResults, NoSuccess, MaybeHash
  <2>2. /\ <<>> \in Seq(HashEntry) /\ Len(<<>>) <= MaxBlockHashSize
        /\ 0 \in 0..MaxBlock /\ 0 \in 0..(MaxAttempts - 1) /\ faults' \in 0..MaxFaults
        /\ cur \in 0..(MaxBlock + 1)
    BY <1>1, <1>2, ChainTyped, Constants DEF TypeOK
  <2> QED
    BY <1>1, <1>2, <2>1, <2>2 DEF TypeOK, Tip
<1>5. ChainInv'
  BY <1>1, <1>2, <1>3, KeepsChain DEF ChainInv
<1>6. WalkInv'
  <2> SUFFICES ASSUME ~forgotten PROVE WalkInv'
    BY <1>2 DEF WalkInv
  <2>1. Tip' = Tip /\ chain' = chain /\ cur' = cur /\ base' = base
    BY <1>2 DEF Tip
  <2>2. DeepDone(cur - 1, cur - 1)'
    BY <1>1, <1>3, <2>1, StillPublished DEF WalkInv, DeepDone
  <2>3. ASSUME NEW e \in Noted(cur - 1)', e.hash = chain'[cur' - 1] PROVE Complete(cur - 1)'
    <3>1. e \in Noted(cur - 1) /\ e.hash = chain[cur - 1]
      BY <1>3, <2>1, <2>3 DEF Noted
    <3> QED
      BY <1>1, <1>3, <2>1, <3>1, StillPublished DEF WalkInv, Complete
  <2> QED
    BY <1>2, <2>2, <2>3 DEF WalkInv
<1> QED
  BY <1>2, <1>4, <1>5, <1>6, NoBatch DEF Inv

\* No block lies between a start and the block before it.
LEMMA EmptyRange ==
  ASSUME NEW n \in Nat
  PROVE  n..(n - 1) = {}
OBVIOUS

LEMMA StartInv ==
  ASSUME Inv, Start
  PROVE  Inv'
<1>1. TypeOK /\ ChainInv /\ WalkInv
  BY DEF Inv
<1>2. /\ pc = "off" /\ pc' = "tick" /\ hashes' = stored
      /\ cur' \in {IF Tip > StartOffset THEN Tip - StartOffset ELSE Tip,
                   IF latest > 0 THEN latest ELSE 1}
      /\ base' = IF cur' = cur /\ StoredHash(cur - 1)' # NoHash THEN base ELSE cur'
      /\ UNCHANGED <<chain, forks, modified, end, got, last, attempt>>
      /\ UNCHANGED <<latest, stored, flushing, emitted, forgotten, faults>>
  BY DEF Start, tickVars
<1>3. ChainStays /\ Recorded' \subseteq Recorded
  BY <1>2 DEF ChainStays, Recorded
<1>4. cur' \in 1..(Tip + 1)
  BY <1>1, <1>2, ChainTyped, Constants DEF ChainInv
<1>5. cur' \in 1..(MaxBlock + 1) /\ base' \in {base, cur'} /\ cur' \in Nat /\ cur' <= Tip + 1
  <2>1. Tip \in Nat /\ Tip <= MaxBlock /\ MaxBlock \in Nat
    BY <1>1, ChainTyped, Constants
  <2>2. cur' \in 1..(MaxBlock + 1) /\ cur' \in Nat /\ cur' <= Tip + 1
    BY <1>4, <2>1
  <2>3. base' \in {base, cur'}
    BY <1>2
  <2> QED
    BY <2>2, <2>3
<1>6. TypeOK'
  <2>1. {cur', base'} \subseteq 1..(MaxBlock + 1)
    BY <1>1, <1>5 DEF TypeOK
  <2> QED
    BY <1>1, <1>2, <2>1 DEF TypeOK, Tip
<1>7. ChainInv'
  BY <1>1, <1>2, <1>3, <1>5, KeepsChain DEF ChainInv
<1>8. WalkInv'
  <2>1. CASE base' = cur'
    <3>1. \A b \in base'..(cur' - 1) : FALSE
      <4>1. cur' \in Nat
        BY <1>5
      <4>2. \A b \in cur'..(cur' - 1) : FALSE
        BY <4>1, EmptyRange
      <4> QED
        BY <2>1, <4>2
    <3> QED
      BY <3>1 DEF WalkInv, DeepDone, Complete
  <2>2. CASE cur' = cur /\ base' = base /\ StoredHash(cur - 1)' # NoHash
    <3> SUFFICES ASSUME ~forgotten PROVE WalkInv'
      BY <1>2 DEF WalkInv
    <3>1. Tip' = Tip /\ chain' = chain
      BY <1>2 DEF Tip
    <3>2. DeepDone(cur - 1, cur - 1)'
      BY <1>1, <1>3, <2>2, StillPublished DEF WalkInv, DeepDone
    <3>3. ASSUME NEW e \in Noted(cur - 1)', e.hash = chain'[cur' - 1]
          PROVE  Complete(cur - 1)'
      <4>1. e \in Noted(cur - 1) /\ e.hash = chain[cur - 1]
        BY <1>3, <2>2, <3>1, <3>3 DEF Noted
      <4> QED
        BY <1>1, <1>3, <2>2, <4>1, StillPublished DEF WalkInv, Complete
    <3> QED
      BY <2>2, <3>2, <3>3 DEF WalkInv
  <2> QED
    BY <1>2, <2>1, <2>2
<1> QED
  BY <1>2, <1>6, <1>7, <1>8, NoBatch DEF Inv

-----------------------------------------------------------------------------
(* The theorems *)

LEMMA InitInv ==
  ASSUME Init
  PROVE  Inv
<1>1. chain = <<0>> /\ Tip = 1 /\ <<0>> \in Seq(Versions)
  BY Constants DEF Init, Tip, Versions
<1>2. Recorded = {}
  BY DEF Init, Recorded, Range
<1>3. TypeOK
  <2>1. DOMAIN got = {} /\ last \in [num : 0..MaxBlock, hash : MaybeHash]
    BY Constants DEF Init, NoResults, NoSuccess, MaybeHash
  <2>2. /\ <<>> \in Seq(HashEntry) /\ Len(<<>>) <= MaxBlockHashSize /\ 1 \in Blocks
        /\ 0 \in Versions /\ 0 \in 0..MaxFaults /\ 0 \in 0..(MaxAttempts - 1)
        /\ 0 \in 0..MaxBlock /\ 0 \in 0..(MaxBlock + 1) /\ 1 \in 1..(MaxBlock + 1)
    BY Constants DEF Blocks, Versions
  <2> QED
    BY <1>1, <2>1, <2>2 DEF Init, TypeOK
<1>4. ChainInv
  BY <1>1, <1>2 DEF Init, ChainInv
<1>5. WalkInv
  BY DEF Init, WalkInv, DeepDone, Complete
<1>6. GotInv /\ LastInv
  BY DEF Init, GotInv, LastInv
<1> QED
  BY <1>3, <1>4, <1>5, <1>6 DEF Inv

LEMMA NextInv ==
  ASSUME Inv, [Next]_vars
  PROVE  Inv'
<1>1. CASE ChainStep
  BY <1>1, ChainStepInv
<1>2. CASE TickStep
  BY <1>2, SkipAheadInv, BeginBatchInv, ProcessBatchInv, RecoverBlockInv, SaveProgressInv
     DEF TickStep
<1>3. CASE RecoverFails
  BY <1>3, RecoverFailsInv
<1>4. CASE \E b \in cur..end : GetBlock(b) \/ GetBlockFails(b)
  BY <1>4, GetBlockInv
<1>5. CASE FlushWrite \/ FlushReset
  BY <1>5, FlushInv
<1>6. CASE Crash \/ Stop
  BY <1>6, HaltInv
<1>7. CASE Start
  BY <1>7, StartInv
<1>8. CASE UNCHANGED vars
  BY <1>8 DEF vars, Inv, TypeOK, ChainInv, WalkInv, GotInv, LastInv, Tip, Recorded, Noted,
     DeepDone, Complete, Current, Detected, StoredHash, Published, ParentOf
<1> QED
  BY <1>1, <1>2, <1>3, <1>4, <1>5, <1>6, <1>7, <1>8 DEF Next, ChainStep

\* A block the walk went past and that is no longer the chain's is one the next parent
\* check brings the worker back to: the whole invariant, at every step.
THEOREM Invariance == Spec => []Inv
<1>1. Init => Inv
  BY InitInv
<1>2. Inv /\ [Next]_vars => Inv'
  BY NextInv
<1> QED
  BY <1>1, <1>2, PTL DEF Spec

\* The worker, its stored hashes and the chain keep their types whatever forks, faults and
\* restarts come.
THEOREM TypeCorrect == Spec => []TypeOK
<1>1. Inv => TypeOK
  BY DEF Inv
<1> QED
  BY Invariance, <1>1, PTL

LEMMA InvNoticesForks ==
  ASSUME Inv
  PROVE  NoForkMissed
<1>1. TypeOK /\ ChainInv /\ WalkInv
  BY DEF Inv
<1> SUFFICES ASSUME ~forgotten, NEW b \in Passed, ~Published(b) PROVE Pending
  BY DEF NoForkMissed
<1>2. pc # "off" /\ b \in base..(cur - 1)
  BY DEF Passed
<1>3. cur \in Nat /\ base \in Nat /\ base >= 1 /\ cur - 1 <= Tip /\ Tip \in Nat
  BY <1>1, ChainTyped DEF ChainInv
<1>4. cur - 1 \in 1..Tip /\ cur - 1 \in Nat
  BY <1>2, <1>3
<1>5. StoredHash(cur - 1) # NoHash
  BY <1>1, <1>2 DEF WalkInv
<1>6. StoredHash(cur - 1) # chain[cur - 1]
  <2>1. PICK e \in Noted(cur - 1) : e.hash = StoredHash(cur - 1)
    BY <1>1, <1>4, <1>5, RecordedTyped
  <2> QED
    BY <1>1, <1>2, <2>1 DEF WalkInv, Complete
<1> QED
  BY <1>4, <1>5, <1>6 DEF Pending

\* However a fork falls between the answers of a batch, the recovery of single blocks, the
\* rollback, the flush and a restart: processReorgCheckedBatch and getBlockHash notice it
\* with the next block.
THEOREM ForksNoticed == Spec => []NoForkMissed
<1>1. Inv => NoForkMissed
  BY InvNoticesForks
<1> QED
  BY Invariance, <1>1, PTL
=============================================================================
