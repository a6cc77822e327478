---------------------------- MODULE Indexers_proofs ----------------------------
(***************************************************************************)
(* Theorems about Indexers, for every set of nodes, length of the chain,   *)
(* batch size, number of attempts, buffer and number of faults.            *)
(***************************************************************************)
EXTENDS Indexers, Extrema, FiniteSetTheorems

(***************************************************************************)
(* The inductive invariant on EVM: each stage of GetBlocks leaves every    *)
(* transaction of its blocks on its way to the emitter, or with a cause    *)
(* noted against it that hides its kind.                                   *)
(***************************************************************************)

Explained(tx) == tx \in emitted \/ \E why \in Hides(tx[2]) : <<tx, why>> \in met
Troubled(tx) == \E why \in Hides(tx[2]) : <<tx, why>> \in call.trouble

\* A call asks for the rest of the batch, or in the recovery for one block, from the first
\* block that is not accepted yet; what lies before it is explained.
LastAsked == IF tick.attempt = 0 THEN tick.end ELSE tick.expected

TickInv ==
  call.stage # "none" =>
    /\ currentBlock <= tick.expected /\ tick.expected <= tick.end
    /\ call.nums = tick.expected..LastAsked
    /\ \A tx \in In(currentBlock..(tick.expected - 1)) : Explained(tx)

\* The raw blocks are there: what is not looked for is noted, and the logs, once they have
\* come, name a token's transaction or are noted as missing.
FetchInv ==
  call.stage \in {"fetch", "traces", "built"} =>
    \A tx \in In(call.nums) :
      /\ call.traceActive /\ tx[2] = "safeToken" => <<tx, "unlogged">> \in call.trouble
      /\ ~call.traceActive /\ tx[2] = "internal" => <<tx, "untraced">> \in call.trouble
      /\ ~call.traceActive /\ "logs" \notin call.todo /\ tx[2] \in {"token", "safeToken"} =>
           tx \in call.logs \/ <<tx, "logs">> \in call.trouble

\* The receipts are there, and at the end the traces; a hollow one is noted.
ReceiptInv ==
  /\ call.stage \in {"traces", "built"} =>
       \A tx \in In(call.nums) :
         call.blocks[tx[1]] = "real" => tx \in call.receipts \/ Troubled(tx)
  /\ call.stage = "built" /\ call.traceActive =>
       \A tx \in call.receipts :
         tx[2] = "internal" => tx \in call.traces \/ Troubled(tx)
  /\ call.stage \in {"raw", "fetch", "traces"} => call.hollow = {}
  /\ call.stage = "built" => \A tx \in call.hollow : <<tx, "hollow">> \in call.trouble

EvmInv == LossHasCause /\ TickInv /\ FetchInv /\ ReceiptInv

(***************************************************************************)
(* The inductive invariant on Sui: the subscription is never ahead of its  *)
(* node, so what is buffered is not newer than what came last; and no      *)
(* checkpoint is answered without its contents.                            *)
(***************************************************************************)

StreamInv ==
  /\ streamer = NoNode => ~stream.open /\ stream.last = 0
  /\ streamer # NoNode => stream.last <= height[streamer]
  /\ \A e \in stream.streamBuffer : e[1] <= stream.last /\ e[2] = "full"
  /\ Sui!BufferIsBounded

ResultsInv ==
  /\ \A b \in DOMAIN results : results[b] # "empty"
  /\ results # Sui!NoResults =>
       \E hi \in currentBlock..Top : DOMAIN results = currentBlock..hi

SuiInv == StreamInv /\ ResultsInv /\ Sui!NoTransferMissed

\* Only one of the two chains moves.
Inv ==
  /\ TypesOK /\ chain \in {"evm", "sui"}
  /\ chain = "evm" => EvmInv /\ stream.streamBuffer = {}
  /\ chain = "sui" => SuiInv

-----------------------------------------------------------------------------
(* EVM: constants, transactions, calls *)

LEMMA EvmConstants ==
  /\ Top \in Nat \ {0} /\ Attempts \in Nat \ {0} /\ Batch \in Nat \ {0}
  /\ MaxFaults \in Nat /\ Parallel \in BOOLEAN /\ DebugTrace \in BOOLEAN
BY EvmFetchAssumption

LEMMA TxsTyped ==
  /\ \A tx \in Txs : tx[1] \in Blocks /\ tx[2] \in Kinds
  /\ \A bs : In(bs) \subseteq Txs /\ \A tx \in In(bs) : tx[1] \in bs
BY DEF Txs, In

\* The fields of a call.
LEMMA CallTyped ==
  ASSUME TypeOK
  PROVE  /\ call.stage \in {"none", "raw", "fetch", "receipts", "traces", "built"}
         /\ call.nums \subseteq Blocks /\ call.parallel \in BOOLEAN
         /\ call.todo \subseteq {"missing", "logs"}
         /\ call.blocks \in [Blocks -> {"real", "empty", "none"}]
         /\ call.traceActive \in BOOLEAN
         /\ call.logs \subseteq Txs /\ call.receipts \subseteq Txs /\ call.traces \subseteq Txs
         /\ call.hollow \subseteq Txs
         /\ call.trouble \subseteq Txs \X Troubles
BY DEF TypeOK, Calls

\* A call that is put together from the right parts.
LEMMA IsCall ==
  ASSUME NEW stage \in {"none", "raw", "fetch", "receipts", "traces", "built"},
         NEW nums \in SUBSET Blocks, NEW par \in BOOLEAN,
         NEW todo \in SUBSET {"missing", "logs"},
         NEW blocks \in [Blocks -> {"real", "empty", "none"}], NEW active \in BOOLEAN,
         NEW logs \in SUBSET Txs, NEW receipts \in SUBSET Txs, NEW traces \in SUBSET Txs,
         NEW hollow \in SUBSET Txs, NEW trouble \in SUBSET (Txs \X Troubles)
  PROVE  [stage |-> stage, nums |-> nums, parallel |-> par, todo |-> todo,
          blocks |-> blocks, traceActive |-> active, logs |-> logs, receipts |-> receipts,
          traces |-> traces, hollow |-> hollow, trouble |-> trouble] \in Calls
BY DEF Calls

LEMMA AskingTyped ==
  ASSUME NEW nums \in SUBSET Blocks, NEW par \in BOOLEAN
  PROVE  /\ Asking(nums, par) \in Calls
         /\ Asking(nums, par).stage = "raw" /\ Asking(nums, par).nums = nums
         /\ Asking(nums, par).hollow = {}
         /\ NoCall \in Calls /\ NoCall.stage = "none"
<1>1. [b \in Blocks |-> "none"] \in [Blocks -> {"real", "empty", "none"}]
  OBVIOUS
<1>2. \A bs \in SUBSET Blocks, p \in BOOLEAN : Asking(bs, p) \in Calls
  BY <1>1, IsCall DEF Asking
<1>3. /\ Asking(nums, par).stage = "raw" /\ Asking(nums, par).nums = nums
      /\ Asking(nums, par).hollow = {}
  BY DEF Asking
<1>4. NoCall \in Calls /\ NoCall.stage = "none"
  <2>1. Asking({}, FALSE) \in Calls
    BY <1>2
  <2> QED
    BY <2>1 DEF NoCall, Calls
<1> QED
  BY <1>2, <1>3, <1>4

-----------------------------------------------------------------------------
(* EVM: the stages of a call *)

\* Nothing is accepted and nothing new is asked for.
LEMMA KeepsTick ==
  ASSUME EvmInv, UNCHANGED <<currentBlock, tick, emitted, met>>,
         call'.nums = call.nums, call.stage # "none"
  PROVE  LossHasCause' /\ TickInv'
<1>1. \A tx : Explained(tx)' <=> Explained(tx)
  BY DEF Explained
<1>2. LastAsked' = LastAsked
  BY DEF LastAsked
<1>3. LossHasCause'
  BY DEF EvmInv, LossHasCause
<1> QED
  BY <1>1, <1>2, <1>3 DEF EvmInv, TickInv

\* The raw blocks have come.
LEMMA ProcessInv ==
  ASSUME TypeOK, EvmInv, call.stage = "raw", NEW par \in BOOLEAN,
         NEW f \in [call.nums -> {"real", "empty", "none"}], Process(f, par),
         UNCHANGED <<height, tracing, currentBlock, tick, emitted, met>>,
         faults' \in 0..MaxFaults
  PROVE  TypeOK' /\ EvmInv'
<1> DEFINE active == DebugTrace /\ tracing
           blocks == [b \in Blocks |-> IF b \in call.nums THEN f[b] ELSE "none"]
           untraced == {<<tx, "untraced">> : tx \in {t \in In(call.nums) : t[2] = "internal"}}
           unlogged == {<<tx, "unlogged">> : tx \in {t \in In(call.nums) : t[2] = "safeToken"}}
           todo == {q \in {"missing", "logs"} :
                      IF q = "logs" THEN ~active ELSE \E b \in call.nums : f[b] = "none"}
           trouble == IF active THEN unlogged ELSE untraced
<1>1. call' = [call EXCEPT !.stage = "fetch", !.parallel = par, !.blocks = blocks,
                 !.traceActive = active, !.todo = todo, !.trouble = trouble]
  BY DEF Process
<1>2. active \in BOOLEAN
  BY EvmConstants DEF TypeOK
<1>3. blocks \in [Blocks -> {"real", "empty", "none"}]
  OBVIOUS
<1>4. trouble \in SUBSET (Txs \X Troubles)
  <2>1. \A tx \in In(call.nums) :
          <<tx, "untraced">> \in Txs \X Troubles /\ <<tx, "unlogged">> \in Txs \X Troubles
    BY TxsTyped DEF Troubles
  <2> QED
    BY <2>1
<1>5. todo \in SUBSET {"missing", "logs"} /\ ("logs" \notin todo => active)
  OBVIOUS
<1>6. \A tx \in In(call.nums) :
        /\ active /\ tx[2] = "safeToken" => <<tx, "unlogged">> \in trouble
        /\ ~active /\ tx[2] = "internal" => <<tx, "untraced">> \in trouble
  OBVIOUS
<1> HIDE DEF active, blocks, untraced, unlogged, todo, trouble
<1>7. /\ call'.stage = "fetch" /\ call'.nums = call.nums /\ call'.todo = todo
      /\ call'.traceActive = active /\ call'.trouble = trouble /\ call'.hollow = call.hollow
      /\ call' \in Calls
  BY <1>1, <1>2, <1>3, <1>4, <1>5 DEF TypeOK, Calls
<1>8. TypeOK'
  BY <1>7 DEF TypeOK
<1>9. LossHasCause' /\ TickInv'
  BY <1>7, KeepsTick
<1>10. FetchInv'
  BY <1>5, <1>6, <1>7 DEF FetchInv
<1>11. ReceiptInv'
  BY <1>7 DEF EvmInv, ReceiptInv
<1> QED
  BY <1>8, <1>9, <1>10, <1>11 DEF EvmInv

LEMMA FaultsTyped ==
  ASSUME TypeOK, NEW failed \in BOOLEAN, Fails(failed)
  PROVE  faults' \in 0..MaxFaults
BY EvmConstants DEF TypeOK, Fails

LEMMA RawInv ==
  ASSUME TypeOK, EvmInv, GetRawBlocks \/ FallbackIndividual
  PROVE  TypeOK' /\ EvmInv'
<1>1. CASE GetRawBlocks
  <2>1. PICK failed \in BOOLEAN, f \in [call.nums -> {"real", "empty", "none"}] :
          Fails(failed) /\ Process(f, call.parallel)
    BY <1>1 DEF GetRawBlocks
  <2>2. faults' \in 0..MaxFaults
    BY <2>1, FaultsTyped
  <2> QED
    BY <1>1, <2>1, <2>2, CallTyped, ProcessInv DEF GetRawBlocks
<1>2. CASE FallbackIndividual
  <2>1. PICK f \in [call.nums -> {"real", "empty", "none"}] : Process(f, FALSE)
    BY <1>2 DEF FallbackIndividual
  <2>2. faults' \in 0..MaxFaults
    BY <1>2, FaultsTyped DEF FallbackIndividual
  <2> QED
    BY <1>2, <2>1, <2>2, ProcessInv DEF FallbackIndividual
<1> QED
  BY <1>1, <1>2

\* The second request for the blocks changes nothing about the logs.
LEMMA FetchMissingInv ==
  ASSUME TypeOK, EvmInv, FetchMissingBlocks
  PROVE  TypeOK' /\ EvmInv'
<1>1. PICK failed \in BOOLEAN, f \in [Blocks -> {"real", "empty", "none"}] :
        /\ Fails(failed)
        /\ call' = [call EXCEPT !.blocks = f, !.todo = @ \ {"missing"}]
  BY DEF FetchMissingBlocks
<1>2. /\ call.stage = "fetch"
      /\ UNCHANGED <<height, tracing, currentBlock, tick, emitted, met>>
  BY DEF FetchMissingBlocks
<1>3. /\ call'.stage = "fetch" /\ call'.nums = call.nums
      /\ call'.todo = call.todo \ {"missing"} /\ call'.traceActive = call.traceActive
      /\ call'.trouble = call.trouble /\ call'.logs = call.logs
      /\ call'.hollow = call.hollow /\ call' \in Calls
  BY <1>1, <1>2 DEF TypeOK, Calls
<1>4. TypeOK'
  BY <1>1, <1>2, <1>3, FaultsTyped DEF TypeOK
<1>5. LossHasCause' /\ TickInv'
  BY <1>2, <1>3, KeepsTick
<1>6. FetchInv'
  BY <1>2, <1>3 DEF EvmInv, FetchInv
<1>7. ReceiptInv'
  BY <1>2, <1>3 DEF EvmInv, ReceiptInv
<1> QED
  BY <1>4, <1>5, <1>6, <1>7 DEF EvmInv

\* The logs have come, or what they would have shown is noted.
LEMMA LogsInv ==
  ASSUME TypeOK, EvmInv, QueryERC20Transfers
  PROVE  TypeOK' /\ EvmInv'
<1>1. PICK failed \in BOOLEAN, n \in Nodes :
        LET heard == IF failed THEN {} ELSE {b \in call.nums : b <= height[n]}
        IN  /\ Fails(failed)
            /\ call' = [call EXCEPT
                 !.logs = TokenTxs(heard), !.todo = @ \ {"logs"},
                 !.trouble = @ \cup {<<tx, "logs">> : tx \in TokenTxs(call.nums \ heard)}]
  BY DEF QueryERC20Transfers
<1> DEFINE heard == IF failed THEN {} ELSE {b \in call.nums : b <= height[n]}
           missed == {<<tx, "logs">> : tx \in TokenTxs(call.nums \ heard)}
<1>2. /\ call.stage = "fetch"
      /\ UNCHANGED <<height, tracing, currentBlock, tick, emitted, met>>
  BY DEF QueryERC20Transfers
<1>3. TokenTxs(heard) \subseteq Txs /\ missed \subseteq Txs \X Troubles
  <2>1. \A bs : TokenTxs(bs) \subseteq Txs
    BY TxsTyped DEF TokenTxs
  <2>2. \A tx \in TokenTxs(call.nums \ heard) : <<tx, "logs">> \in Txs \X Troubles
    BY <2>1 DEF Troubles
  <2> QED
    BY <2>1, <2>2
<1>4. \A tx \in In(call.nums) :
        tx[2] \in {"token", "safeToken"} => tx \in TokenTxs(heard) \/ <<tx, "logs">> \in missed
  <2>1. ASSUME NEW tx \in In(call.nums), tx[2] \in {"token", "safeToken"}, tx[1] \notin heard
        PROVE  tx \in TokenTxs(call.nums \ heard)
    BY <2>1 DEF In, TokenTxs
  <2>2. ASSUME NEW tx \in In(call.nums), tx[2] \in {"token", "safeToken"}, tx[1] \in heard
        PROVE  tx \in TokenTxs(heard)
    BY <2>2 DEF In, TokenTxs
  <2> QED
    BY <2>1, <2>2
<1> HIDE DEF heard, missed
<1>5. /\ Fails(failed)
      /\ call' = [call EXCEPT !.logs = TokenTxs(heard), !.todo = @ \ {"logs"},
                    !.trouble = @ \cup missed]
  BY <1>1 DEF heard, missed
<1>6. /\ call'.stage = "fetch" /\ call'.nums = call.nums
      /\ call'.traceActive = call.traceActive
      /\ call'.trouble = call.trouble \cup missed /\ call'.logs = TokenTxs(heard)
      /\ call'.hollow = call.hollow /\ call' \in Calls
  BY <1>2, <1>3, <1>5 DEF TypeOK, Calls
<1>7. TypeOK'
  BY <1>2, <1>5, <1>6, FaultsTyped DEF TypeOK
<1>8. LossHasCause' /\ TickInv'
  BY <1>2, <1>6, KeepsTick
<1>9. FetchInv'
  BY <1>2, <1>4, <1>6 DEF EvmInv, FetchInv
<1>10. ReceiptInv'
  BY <1>2, <1>6 DEF EvmInv, ReceiptInv
<1> QED
  BY <1>7, <1>8, <1>9, <1>10 DEF EvmInv


\* A receipt has come for each transaction of a block at hand that was extracted or
\* named by a log, or it is noted; the others were noted before.
LEMMA ReceiptsInv ==
  ASSUME TypeOK, EvmInv, FetchAllReceipts
  PROVE  TypeOK' /\ EvmInv'
<1>1. PICK failed \in BOOLEAN, got \in SUBSET ReceiptTxs :
        /\ Fails(failed)
        /\ call' = [call EXCEPT
             !.stage = IF call.traceActive THEN "traces" ELSE "built", !.receipts = got,
             !.trouble = @ \cup {<<tx, "receipt">> : tx \in ReceiptTxs \ got}]
  BY DEF FetchAllReceipts
<1> DEFINE lost == {<<tx, "receipt">> : tx \in ReceiptTxs \ got}
           stage == IF call.traceActive THEN "traces" ELSE "built"
<1>2. /\ call.stage = "fetch" /\ call.todo = {}
      /\ UNCHANGED <<height, tracing, currentBlock, tick, emitted, met>>
  BY DEF FetchAllReceipts
<1>3. ReceiptTxs \subseteq Txs /\ lost \subseteq Txs \X Troubles
  <2>1. ReceiptTxs \subseteq Txs
    BY TxsTyped DEF ReceiptTxs, AtHand
  <2>2. \A tx \in ReceiptTxs \ got : <<tx, "receipt">> \in Txs \X Troubles
    BY <2>1 DEF Troubles
  <2> QED
    BY <2>1, <2>2
<1>4. \A tx \in ReceiptTxs : tx \in got \/ <<tx, "receipt">> \in lost
  OBVIOUS
<1>5. stage \in {"traces", "built"} /\ (stage = "built" => ~call.traceActive)
  OBVIOUS
<1> HIDE DEF lost, stage
<1>6. /\ Fails(failed)
      /\ call' = [call EXCEPT !.stage = stage, !.receipts = got, !.trouble = @ \cup lost]
  BY <1>1 DEF lost, stage
<1>7. /\ call'.stage = stage /\ call'.nums = call.nums /\ call'.blocks = call.blocks
      /\ call'.traceActive = call.traceActive /\ call'.todo = call.todo
      /\ call'.trouble = call.trouble \cup lost /\ call'.logs = call.logs
      /\ call'.receipts = got /\ call'.hollow = call.hollow /\ call' \in Calls
  BY <1>3, <1>5, <1>6 DEF TypeOK, Calls
<1>8. TypeOK'
  BY <1>2, <1>6, <1>7, FaultsTyped DEF TypeOK
<1>9. LossHasCause' /\ TickInv'
  BY <1>2, <1>7, KeepsTick
<1>10. FetchInv'
  BY <1>2, <1>7 DEF EvmInv, FetchInv
<1>11. ASSUME NEW tx \in In(call.nums), call.blocks[tx[1]] = "real"
       PROVE  tx \in got \/ \E why \in Hides(tx[2]) : <<tx, why>> \in call.trouble \cup lost
  <2>1. tx[1] \in call.nums /\ tx[2] \in Kinds /\ tx \in Txs
    BY TxsTyped
  <2>2. tx \in AtHand
    BY <1>11, <2>1 DEF AtHand, In
  <2>3. CASE tx \in ReceiptTxs
    <3>1. "receipt" \in Hides(tx[2])
      BY DEF Hides
    <3> QED
      BY <1>4, <2>3, <3>1
  <2>4. CASE tx \notin ReceiptTxs
    <3>1. tx[2] \notin Extracted /\ tx \notin call.logs
      BY <2>2, <2>4 DEF ReceiptTxs
    <3>2. CASE call.traceActive
      <4>1. tx[2] = "safeToken"
        BY <2>1, <3>1, <3>2 DEF Extracted, Kinds
      <4>2. <<tx, "unlogged">> \in call.trouble /\ "unlogged" \in Hides("safeToken")
        BY <1>2, <3>2, <4>1 DEF EvmInv, FetchInv, Hides
      <4> QED
        BY <4>1, <4>2
    <3>3. CASE ~call.traceActive
      <4>1. tx[2] \in {"token", "safeToken", "internal"}
        BY <2>1, <3>1 DEF Extracted, Kinds
      <4>2. CASE tx[2] = "internal"
        <5>1. <<tx, "untraced">> \in call.trouble /\ "untraced" \in Hides("internal")
          BY <1>2, <3>3, <4>2 DEF EvmInv, FetchInv, Hides
        <5> QED
          BY <4>2, <5>1
      <4>3. CASE tx[2] \in {"token", "safeToken"}
        <5>1. <<tx, "logs">> \in call.trouble
          BY <1>2, <3>1, <3>3, <4>3 DEF EvmInv, FetchInv
        <5>2. "logs" \in Hides("token") /\ "logs" \in Hides("safeToken")
          BY DEF Hides
        <5> QED
          BY <4>3, <5>1, <5>2
      <4> QED
        BY <4>1, <4>2, <4>3
    <3> QED
      BY <3>2, <3>3
  <2> QED
    BY <2>3, <2>4
<1>12. ReceiptInv'
  <2>1. \A tx \in In(call'.nums) :
          call'.blocks[tx[1]] = "real" => tx \in call'.receipts \/ Troubled(tx)'
    BY <1>7, <1>11 DEF Troubled
  <2>2. ~(call'.stage = "built" /\ call'.traceActive)
    BY <1>5, <1>7
  <2>3. call'.hollow = {}
    BY <1>2, <1>7 DEF EvmInv, ReceiptInv
  <2> QED
    BY <2>1, <2>2, <2>3 DEF ReceiptInv
<1> QED
  BY <1>8, <1>9, <1>10, <1>12 DEF EvmInv

\* The traces have come or are noted.
LEMMA TracesInv ==
  ASSUME TypeOK, EvmInv, FetchTraces
  PROVE  TypeOK' /\ EvmInv'
<1> DEFINE candidates == {tx \in call.receipts : tx[2] # "native"}
<1>1. PICK got \in SUBSET candidates, hollow \in SUBSET candidates :
        /\ TraceWithProviderAwareness(got, hollow, candidates)
        /\ call' = [call EXCEPT !.stage = "built", !.traces = got, !.hollow = hollow,
                      !.trouble = @ \cup {<<tx, "trace">> : tx \in candidates \ got}
                                    \cup {<<tx, "hollow">> : tx \in hollow}]
  BY DEF FetchTraces
<1> DEFINE lost == {<<tx, "trace">> : tx \in candidates \ got}
           empty == {<<tx, "hollow">> : tx \in hollow}
<1>2. /\ call.stage = "traces"
      /\ UNCHANGED <<height, tracing, currentBlock, tick, emitted, met>>
  BY DEF FetchTraces
<1>3. candidates \subseteq Txs /\ lost \cup empty \subseteq Txs \X Troubles
  <2>1. candidates \subseteq Txs
    BY CallTyped
  <2>2. \A tx \in candidates :
          <<tx, "trace">> \in Txs \X Troubles /\ <<tx, "hollow">> \in Txs \X Troubles
    BY <2>1 DEF Troubles
  <2> QED
    BY <2>1, <2>2
<1>4. /\ \A tx \in call.receipts : tx[2] = "internal" => tx \in got \/ <<tx, "trace">> \in lost
      /\ \A tx \in hollow : <<tx, "hollow">> \in empty
  OBVIOUS
<1>5. faults' \in 0..MaxFaults
  <2>1. \E failed \in BOOLEAN : Fails(failed)
    BY <1>1 DEF TraceWithProviderAwareness
  <2> QED
    BY <2>1, FaultsTyped
<1> HIDE DEF lost, empty, candidates
<1>6. call' = [call EXCEPT !.stage = "built", !.traces = got, !.hollow = hollow,
                 !.trouble = @ \cup lost \cup empty]
  BY <1>1 DEF lost, empty
<1>7. /\ call'.stage = "built" /\ call'.nums = call.nums /\ call'.blocks = call.blocks
      /\ call'.traceActive = call.traceActive /\ call'.todo = call.todo
      /\ call'.trouble = call.trouble \cup lost \cup empty /\ call'.logs = call.logs
      /\ call'.receipts = call.receipts /\ call'.traces = got /\ call'.hollow = hollow
      /\ call' \in Calls
  BY <1>3, <1>6 DEF TypeOK, Calls
<1>8. TypeOK'
  BY <1>2, <1>5, <1>7 DEF TypeOK
<1>9. LossHasCause' /\ TickInv'
  BY <1>2, <1>7, KeepsTick
<1>10. FetchInv'
  BY <1>2, <1>7 DEF EvmInv, FetchInv
<1>11. ReceiptInv'
  <2>1. \A tx : Troubled(tx) => Troubled(tx)'
    BY <1>7 DEF Troubled
  <2>2. \A tx \in call.receipts : tx[2] = "internal" => tx \in got \/ Troubled(tx)'
    <3>1. "trace" \in Hides("internal")
      BY DEF Hides
    <3> QED
      BY <1>4, <1>7, <3>1 DEF Troubled
  <2>3. \A tx \in call'.hollow : <<tx, "hollow">> \in call'.trouble
    BY <1>4, <1>7
  <2> QED
    BY <1>2, <1>7, <2>1, <2>2, <2>3 DEF EvmInv, ReceiptInv
<1> QED
  BY <1>8, <1>9, <1>10, <1>11 DEF EvmInv

-----------------------------------------------------------------------------
(* EVM: a tick *)

LEMMA StartTickInv ==
  ASSUME TypeOK, EvmInv, NEW n \in Nodes, StartTick(n)
  PROVE  TypeOK' /\ EvmInv'
<1>1. /\ ~NothingNew(height[n])
      /\ tick' = [end |-> BatchEnd(height[n]), expected |-> currentBlock,
                  linked |-> FALSE, attempt |-> 0]
      /\ call' = Asking(currentBlock..BatchEnd(height[n]), Parallel)
      /\ UNCHANGED <<height, tracing, currentBlock, emitted, met, faults>>
  BY DEF StartTick
<1>2. currentBlock \in Nat /\ currentBlock >= 1 /\ height[n] \in Nat /\ height[n] <= Top
  BY EvmConstants DEF TypeOK
<1>3. BatchEnd(height[n]) \in Blocks /\ currentBlock <= BatchEnd(height[n])
  <2>1. currentBlock <= height[n]
    BY <1>1, <1>2 DEF NothingNew
  <2> QED
    BY <1>2, <2>1, EvmConstants DEF BatchEnd, Blocks
<1>4. currentBlock \in Blocks /\ currentBlock..BatchEnd(height[n]) \subseteq Blocks
  BY <1>2, <1>3, EvmConstants DEF Blocks
<1>5. /\ call' \in Calls /\ call'.stage = "raw"
      /\ call'.nums = currentBlock..BatchEnd(height[n]) /\ call'.hollow = {}
  <2> DEFINE asked == currentBlock..BatchEnd(height[n])
  <2>1. asked \in SUBSET Blocks /\ Parallel \in BOOLEAN
    BY <1>4, EvmConstants
  <2> HIDE DEF asked
  <2>2. /\ Asking(asked, Parallel) \in Calls /\ Asking(asked, Parallel).stage = "raw"
        /\ Asking(asked, Parallel).nums = asked /\ Asking(asked, Parallel).hollow = {}
    BY <2>1, AskingTyped
  <2>3. call' = Asking(asked, Parallel)
    BY <1>1 DEF asked
  <2> QED
    BY <2>2, <2>3 DEF asked
<1>6. tick' \in Ticks
  BY <1>1, <1>3, <1>4, EvmConstants DEF Ticks
<1>7. TypeOK'
  BY <1>1, <1>5, <1>6 DEF TypeOK
<1>8. LossHasCause'
  BY <1>1 DEF EvmInv, LossHasCause
<1>9. TickInv'
  <2>1. tick'.expected = currentBlock /\ LastAsked' = BatchEnd(height[n])
        /\ tick'.end = BatchEnd(height[n])
    BY <1>1 DEF LastAsked
  <2>2. \A tx \in In(currentBlock..(currentBlock - 1)) : FALSE
    BY <1>2, TxsTyped
  <2>3. currentBlock'..(tick'.expected - 1) = currentBlock..(currentBlock - 1)
    BY <1>1, <2>1
  <2>4. currentBlock' <= tick'.expected /\ tick'.expected <= tick'.end
    BY <1>1, <1>2, <1>3, <2>1
  <2>5. call'.nums = tick'.expected..LastAsked'
    BY <1>5, <2>1
  <2> QED
    BY <2>2, <2>3, <2>4, <2>5 DEF TickInv
<1>10. FetchInv' /\ ReceiptInv'
  BY <1>5 DEF FetchInv, ReceiptInv
<1> QED
  BY <1>7, <1>8, <1>9, <1>10 DEF EvmInv


\* Accepted is the part of the call up to the first block that cannot be accepted.
LEMMA AcceptedSegment ==
  ASSUME NEW lo \in Nat, NEW hi \in Nat, lo <= hi + 1, call.nums = lo..hi,
         tick.expected = lo
  PROVE  /\ FirstLeft \in lo..(hi + 1) /\ Accepted = lo..(FirstLeft - 1)
         /\ \A b \in Accepted : Acceptable(b)
<1> DEFINE bad == {b \in lo..(hi + 1) : b = hi + 1 \/ ~Acceptable(b)}
<1>1. bad \in SUBSET Nat /\ hi + 1 \in bad
  OBVIOUS
<1>2. PICK x \in bad : \A m \in bad : x <= m
  BY <1>1, SmallestNat
<1>3. x \in Nat /\ x >= lo /\ x <= hi + 1 /\ (x = hi + 1 \/ ~Acceptable(x))
  OBVIOUS
<1>4. \A b \in lo..(x - 1) : Acceptable(b)
  <2>1. ASSUME NEW b \in lo..(x - 1) PROVE Acceptable(b)
    <3>1. b \in lo..(hi + 1) /\ b # hi + 1 /\ ~(x <= b)
      BY <1>3
    <3>2. b \notin bad
      BY <1>2, <3>1
    <3> QED
      BY <3>1, <3>2
  <2> QED
    BY <2>1
<1> HIDE DEF bad
<1>5. Accepted = {b \in lo..hi : \A c \in lo..b : Acceptable(c)}
  BY DEF Accepted
<1>6. lo..(x - 1) \subseteq Accepted
  <2>1. ASSUME NEW b \in lo..(x - 1) PROVE b \in lo..hi /\ \A c \in lo..b : Acceptable(c)
    <3>1. b \in lo..hi
      BY <1>3
    <3>2. \A c \in lo..b : c \in lo..(x - 1)
      BY <1>3
    <3> QED
      BY <1>4, <3>1, <3>2
  <2> QED
    BY <1>5, <2>1
<1>7. Accepted \subseteq lo..(x - 1)
  <2>1. ASSUME NEW b \in Accepted PROVE b \in lo..(x - 1)
    <3>1. b \in lo..hi /\ \A c \in lo..b : Acceptable(c)
      BY <1>5
    <3>2. CASE b >= x
      <4>1. x \in lo..b /\ x # hi + 1
        BY <1>3, <3>1, <3>2
      <4> QED
        BY <1>3, <3>1, <4>1
    <3>3. CASE ~(b >= x)
      BY <1>3, <3>1, <3>3
    <3> QED
      BY <3>2, <3>3
  <2> QED
    BY <2>1
<1>8. Accepted = lo..(x - 1)
  BY <1>6, <1>7
<1>9. Cardinality(Accepted) = x - lo
  <2>1. Cardinality(lo..(x - 1)) = IF lo > x - 1 THEN 0 ELSE (x - 1) - lo + 1
    BY <1>3, FS_Interval
  <2> QED
    BY <1>3, <1>8, <2>1
<1>10. FirstLeft = x
  BY <1>3, <1>9 DEF FirstLeft
<1> QED
  BY <1>3, <1>4, <1>8, <1>10

\* What is accepted is explained.
LEMMA EmitExplains ==
  ASSUME TypeOK, EvmInv, call.stage = "built", Emit,
         \A b \in Accepted : Acceptable(b), Accepted \subseteq call.nums,
         NEW tx \in In(Accepted)
  PROVE  Explained(tx)'
<1>1. tx[1] \in Accepted /\ tx \in Txs /\ tx[2] \in Kinds /\ tx \in In(call.nums)
  BY TxsTyped DEF In
<1>2. /\ emitted' = emitted \cup Transfers(Accepted)
      /\ \A t \in call.trouble : t[1][1] \in Accepted => t \in met'
      /\ \A t \in In({b \in Accepted : call.blocks[b] = "empty"}) : <<t, "empty">> \in met'
  BY DEF Emit
<1>3. Troubled(tx) => Explained(tx)'
  <2>1. \A why : <<tx, why>> \in call.trouble => <<tx, why>> \in met'
    BY <1>1, <1>2
  <2> QED
    BY <2>1 DEF Troubled, Explained
<1>4. CASE call.blocks[tx[1]] = "empty"
  <2>1. tx \in In({b \in Accepted : call.blocks[b] = "empty"})
    BY <1>1, <1>4 DEF In
  <2>2. <<tx, "empty">> \in met' /\ "empty" \in Hides(tx[2])
    BY <1>2, <2>1 DEF Hides
  <2> QED
    BY <2>2 DEF Explained
<1>5. CASE call.blocks[tx[1]] = "real"
  <2>1. CASE tx \notin call.receipts
    BY <1>1, <1>3, <1>5, <2>1 DEF EvmInv, ReceiptInv
  <2>2. CASE tx \in call.receipts
    <3>0. CASE tx \in call.hollow /\ tx[2] \in {"safe", "internal"}
      <4>1. <<tx, "hollow">> \in call.trouble /\ "hollow" \in Hides(tx[2])
        BY <3>0 DEF EvmInv, ReceiptInv, Hides
      <4> QED
        BY <1>3, <4>1 DEF Troubled
    <3>1. CASE tx[2] # "internal" /\ ~(tx \in call.hollow /\ tx[2] = "safe")
      <4>1. ExtractTransfers(tx) \/ ExtractInternalTransfers(tx) \/ ExtractSafeTransfers(tx)
        BY <1>1, <3>1 DEF Kinds, ExtractTransfers, ExtractInternalTransfers, ExtractSafeTransfers
      <4> QED
        BY <1>1, <1>2, <2>2, <4>1 DEF Transfers, Explained
    <3>2. CASE tx[2] = "internal" /\ tx \notin call.hollow /\ call.traceActive
      <4>1. CASE tx \in call.traces
        <5>1. ExtractInternalTransfers(tx)
          BY <3>2, <4>1 DEF ExtractInternalTransfers
        <5> QED
          BY <1>1, <1>2, <2>2, <5>1 DEF Transfers, Explained
      <4>2. CASE tx \notin call.traces
        BY <1>3, <2>2, <3>2, <4>2 DEF EvmInv, ReceiptInv
      <4> QED
        BY <4>1, <4>2
    <3>3. CASE tx[2] = "internal" /\ ~call.traceActive
      <4>1. <<tx, "untraced">> \in call.trouble /\ "untraced" \in Hides("internal")
        BY <1>1, <3>3 DEF EvmInv, FetchInv, Hides
      <4> QED
        BY <1>3, <3>3, <4>1 DEF Troubled
    <3> QED
      BY <3>0, <3>1, <3>2, <3>3
  <2> QED
    BY <2>1, <2>2
<1> QED
  BY <1>1, <1>4, <1>5 DEF Acceptable

LEMMA TakeResultsInv ==
  ASSUME TypeOK, EvmInv, TakeResults
  PROVE  TypeOK' /\ EvmInv'
<1>1. call.stage = "built" /\ Emit /\ UNCHANGED <<height, tracing, faults>>
  BY DEF TakeResults
<1>2. /\ currentBlock \in Nat /\ currentBlock >= 1 /\ tick.expected \in Nat
      /\ tick.expected >= 1 /\ tick.end \in Nat /\ tick.end <= Top
      /\ tick.attempt \in 0..Attempts /\ tick.linked \in BOOLEAN /\ tick \in Ticks
  BY EvmConstants DEF TypeOK, Ticks, Blocks
<1>3. /\ currentBlock <= tick.expected /\ tick.expected <= tick.end
      /\ call.nums = tick.expected..LastAsked
      /\ \A tx \in In(currentBlock..(tick.expected - 1)) : Explained(tx)
  BY <1>1 DEF EvmInv, TickInv
<1>4. /\ LastAsked \in Nat /\ tick.expected <= LastAsked + 1 /\ LastAsked <= tick.end
      /\ tick.attempt # 0 => LastAsked = tick.expected
  BY <1>2, <1>3 DEF LastAsked
<1>5. /\ FirstLeft \in tick.expected..(LastAsked + 1)
      /\ Accepted = tick.expected..(FirstLeft - 1)
      /\ \A b \in Accepted : Acceptable(b)
  BY <1>2, <1>3, <1>4, AcceptedSegment
<1>6. FirstLeft \in Nat /\ FirstLeft >= tick.expected /\ FirstLeft <= tick.end + 1
  BY <1>2, <1>4, <1>5
<1>7. Accepted \subseteq call.nums
  BY <1>2, <1>3, <1>4, <1>5, <1>6
<1>8. /\ emitted' \subseteq Txs /\ emitted \subseteq emitted'
      /\ met' \subseteq Txs \X Troubles /\ met \subseteq met'
  <2>1. Transfers(Accepted) \subseteq Txs
    BY CallTyped DEF Transfers
  <2>2. \A bs : \A tx \in In(bs) : <<tx, "empty">> \in Txs \X Troubles
    BY TxsTyped DEF Troubles
  <2>3. call.trouble \subseteq Txs \X Troubles
    BY CallTyped
  <2> QED
    BY <1>1, <2>1, <2>2, <2>3 DEF Emit, TypeOK
<1>9. \A tx : Explained(tx) => Explained(tx)'
  BY <1>8 DEF Explained
<1>10. \A tx \in In(1..(FirstLeft - 1)) : Explained(tx)'
  <2>1. ASSUME NEW tx \in In(1..(FirstLeft - 1)) PROVE Explained(tx)'
    <3>1. tx \in Txs /\ tx[1] \in 1..(FirstLeft - 1) /\ tx[1] \in Nat
      BY <1>6, TxsTyped
    <3>2. CASE tx[1] < currentBlock
      <4>1. tx \in In(1..(currentBlock - 1))
        BY <1>2, <3>1, <3>2 DEF In
      <4> QED
        BY <1>9, <4>1 DEF EvmInv, LossHasCause, Explained
    <3>3. CASE tx[1] >= currentBlock /\ tx[1] < tick.expected
      <4>1. tx \in In(currentBlock..(tick.expected - 1))
        BY <1>2, <3>1, <3>3 DEF In
      <4> QED
        BY <1>3, <1>9, <4>1
    <3>4. CASE tx[1] >= tick.expected
      <4>1. tx \in In(Accepted)
        BY <1>2, <1>5, <1>6, <3>1, <3>4 DEF In
      <4> QED
        BY <1>1, <1>5, <1>7, <4>1, EmitExplains
    <3> QED
      BY <1>2, <3>1, <3>2, <3>3, <3>4
  <2> QED
    BY <2>1
<1>11. ASSUME FirstLeft <= tick.end \/ FirstLeft > tick.end, EndTick(FirstLeft)
       PROVE  TypeOK' /\ EvmInv'
  <2>1. currentBlock' = FirstLeft /\ tick' = NoTick /\ call' = NoCall
    BY <1>11 DEF EndTick
  <2>2. call' \in Calls /\ call'.stage = "none"
    BY <2>1, AskingTyped
  <2>3. tick' \in Ticks /\ currentBlock' \in 1..(Top + 1)
    BY <1>2, <1>6, <2>1, EvmConstants DEF NoTick, Ticks, Blocks
  <2>4. TypeOK'
    BY <1>1, <1>8, <2>2, <2>3 DEF TypeOK
  <2>5. LossHasCause'
    BY <1>10, <2>1 DEF LossHasCause, Explained
  <2> QED
    BY <2>2, <2>4, <2>5 DEF EvmInv, TickInv, FetchInv, ReceiptInv
<1>12. ASSUME FirstLeft <= tick.end, NEW attempt \in 1..Attempts, Recover(FirstLeft, attempt)
       PROVE  TypeOK' /\ EvmInv'
  <2>1. /\ tick' = [tick EXCEPT !.expected = FirstLeft, !.linked = LinkedAfter,
                      !.attempt = attempt]
        /\ call' = Asking({FirstLeft}, FALSE) /\ currentBlock' = currentBlock
    BY <1>12 DEF Recover
  <2>2. FirstLeft \in Blocks /\ {FirstLeft} \subseteq Blocks
    BY <1>2, <1>6, <1>12, EvmConstants DEF Blocks
  <2>3. call' \in Calls /\ call'.stage = "raw" /\ call'.nums = {FirstLeft} /\ call'.hollow = {}
    BY <2>1, <2>2, AskingTyped
  <2>4. LinkedAfter \in BOOLEAN
    BY <1>2 DEF LinkedAfter
  <2>5. /\ tick' \in Ticks /\ tick'.expected = FirstLeft /\ tick'.attempt = attempt
        /\ tick'.end = tick.end
    <3>1. attempt \in 0..Attempts
      BY EvmConstants
    <3> QED
      BY <1>2, <2>1, <2>2, <2>4, <3>1 DEF Ticks
  <2>6. TypeOK'
    BY <1>1, <1>8, <2>1, <2>3, <2>5 DEF TypeOK
  <2>7. \A tx \in In(1..(currentBlock - 1)) : Explained(tx)'
    BY <1>9 DEF EvmInv, LossHasCause, Explained
  <2>8. LossHasCause'
    BY <2>1, <2>7 DEF LossHasCause, Explained
  <2>9. TickInv'
    <3>1. LastAsked' = FirstLeft
      BY <1>12, <2>5, EvmConstants DEF LastAsked
    <3>2. call'.nums = FirstLeft..FirstLeft
      BY <1>6, <2>3
    <3>3. \A tx \in In(currentBlock..(FirstLeft - 1)) : Explained(tx)'
      <4>1. In(currentBlock..(FirstLeft - 1)) \subseteq In(1..(FirstLeft - 1))
        BY <1>2, <1>6 DEF In
      <4> QED
        BY <1>10, <4>1
    <3>4. currentBlock <= FirstLeft
      BY <1>2, <1>3, <1>6
    <3> QED
      BY <1>12, <2>1, <2>5, <3>1, <3>2, <3>3, <3>4 DEF TickInv
  <2> QED
    BY <2>3, <2>6, <2>8, <2>9 DEF EvmInv, FetchInv, ReceiptInv
<1>13. 1 \in 1..Attempts /\ \A a \in 1..(Attempts - 1) : a + 1 \in 1..Attempts
  BY EvmConstants
<1>14. Accepted = {} => FirstLeft <= tick.end
  <2>1. Accepted = {} => ~(tick.expected \in tick.expected..(FirstLeft - 1))
    BY <1>5
  <2> QED
    BY <1>2, <1>3, <1>6, <2>1
<1>15. FirstLeft <= tick.end \/ FirstLeft > tick.end
  BY <1>2, <1>6
<1>16. \/ EndTick(FirstLeft)
       \/ FirstLeft <= tick.end /\ \E attempt \in 1..Attempts : Recover(FirstLeft, attempt)
  <2>1. CASE FirstLeft > tick.end /\ EndTick(FirstLeft)
    BY <2>1
  <2>2. CASE FirstLeft <= tick.end /\ Recover(FirstLeft, 1)
    BY <1>13, <2>2
  <2>3. CASE /\ Accepted = {} /\ tick.attempt \in 1..(Attempts - 1)
             /\ Recover(FirstLeft, tick.attempt + 1)
    BY <1>13, <1>14, <2>3
  <2>4. CASE EndTick(FirstLeft)
    BY <2>4
  <2> QED
    BY <2>1, <2>2, <2>3, <2>4 DEF TakeResults
<1> QED
  BY <1>11, <1>12, <1>15, <1>16


\* The whole of the EVM worker's step.
LEMMA EvmStep ==
  ASSUME TypeOK, EvmInv, Next
  PROVE  TypeOK' /\ EvmInv'
<1>1. CASE \E n \in Nodes : StartTick(n)
  BY <1>1, StartTickInv
<1>2. CASE Fetch
  BY <1>2, RawInv, FetchMissingInv, LogsInv, ReceiptsInv, TracesInv DEF Fetch
<1>3. CASE TakeResults
  BY <1>3, TakeResultsInv
<1>4. ASSUME UNCHANGED <<currentBlock, tick, call, emitted, met>> PROVE EvmInv'
  BY <1>4 DEF EvmInv, LossHasCause, TickInv, FetchInv, ReceiptInv, Explained, Troubled, LastAsked
<1>5. ASSUME NEW n \in Nodes, Sync(n) PROVE TypeOK' /\ EvmInv'
  <2>1. height[n] < Top /\ height' = [height EXCEPT ![n] = @ + 1]
        /\ UNCHANGED <<tracing, currentBlock, tick, call, emitted, met, faults>>
    BY <1>5 DEF Sync
  <2>2. height' \in [Nodes -> 0..Top]
    BY <2>1, EvmConstants DEF TypeOK
  <2>3. TypeOK'
    BY <2>1, <2>2 DEF TypeOK
  <2> QED
    BY <1>4, <2>1, <2>3
<1>6. CASE \E n \in Nodes : WaitForBlocks(n)
  BY <1>4, <1>6 DEF WaitForBlocks, vars, TypeOK
<1>7. CASE TracersChange
  <2>1. TypeOK'
    BY <1>7 DEF TracersChange, TypeOK
  <2> QED
    BY <1>4, <1>7, <2>1 DEF TracersChange
<1> QED
  BY <1>1, <1>2, <1>3, <1>5, <1>6, <1>7 DEF Next, Work

-----------------------------------------------------------------------------
(* Sui: the subscription and its buffer *)

LEMMA SuiTyped ==
  ASSUME Sui!TypeOK
  PROVE  /\ height \in [Nodes -> 0..Top] /\ streamer \in Nodes \cup {NoNode}
         /\ NoNode \notin Nodes
         /\ stream.open \in BOOLEAN /\ stream.last \in 0..Top /\ stream.last \in Nat
         /\ stream.streamHeight \in 0..Top /\ stream.streamDisconnected \in BOOLEAN
         /\ stream.streamBuffer \subseteq (1..Top) \X {"full", "empty"}
         /\ \A e \in stream.streamBuffer : e[1] \in 1..Top /\ e[1] \in Nat
         /\ IsFiniteSet(stream.streamBuffer)
         /\ currentBlock \in Nat /\ currentBlock >= 1 /\ currentBlock <= Top + 1
<1>1. stream \in Sui!Streams /\ Sui!Checkpoints = 1..Top
  BY DEF Sui!TypeOK, Sui!Checkpoints
<1>2. /\ stream.open \in BOOLEAN /\ stream.last \in 0..Top
      /\ stream.streamHeight \in 0..Top /\ stream.streamDisconnected \in BOOLEAN
      /\ stream.streamBuffer \subseteq (1..Top) \X {"full", "empty"}
  BY <1>1 DEF Sui!Streams
<1>3. IsFiniteSet(stream.streamBuffer)
  <2>1. IsFiniteSet(1..Top)
    BY EvmConstants, FS_Interval
  <2>2. IsFiniteSet({"full", "empty"})
    <3>1. IsFiniteSet({"full"})
      BY FS_Singleton
    <3>2. {"full", "empty"} = {"full"} \cup {"empty"}
      OBVIOUS
    <3> QED
      BY <3>1, <3>2, FS_AddElement
  <2>3. IsFiniteSet((1..Top) \X {"full", "empty"})
    BY <2>1, <2>2, FS_Product
  <2> QED
    BY <1>2, <2>3, FS_Subset
<1> QED
  BY <1>2, <1>3, EvmConstants, IndexersAssumption DEF Sui!TypeOK

\* The last BufferSize + 1 checkpoints fill the buffer.
LEMMA RecentBounded ==
  ASSUME NEW seq \in Nat, NEW S, IsFiniteSet(S), BufferSize \in Nat, seq >= BufferSize,
         \A e \in S : /\ e = <<e[1], e[2]>> /\ e[1] \in Nat /\ e[2] = "full"
                      /\ e[1] <= seq /\ e[1] >= seq - BufferSize
  PROVE  Cardinality(S) <= BufferSize + 1
<1> DEFINE recent == (seq - BufferSize)..seq
           entries == recent \X {"full"}
<1>1. IsFiniteSet(recent) /\ Cardinality(recent) = BufferSize + 1
  <2>1. seq - BufferSize \in Int /\ seq \in Int
    OBVIOUS
  <2>2. IsFiniteSet(recent)
        /\ Cardinality(recent) = IF seq - BufferSize > seq THEN 0 ELSE seq - (seq - BufferSize) + 1
    BY <2>1, FS_Interval
  <2> QED
    BY <2>2
<1>2. IsFiniteSet(entries) /\ Cardinality(entries) = BufferSize + 1
  <2>1. IsFiniteSet({"full"}) /\ Cardinality({"full"}) = 1
    BY FS_Singleton
  <2>2. IsFiniteSet(entries)
        /\ Cardinality(entries) = Cardinality(recent) * Cardinality({"full"})
    BY <1>1, <2>1, FS_Product
  <2> QED
    BY <1>1, <2>1, <2>2
<1>3. S \subseteq entries
  <2>1. ASSUME NEW e \in S PROVE e \in entries
    <3>1. e = <<e[1], "full">> /\ e[1] \in recent
      OBVIOUS
    <3> QED
      BY <3>1
  <2> QED
    BY <2>1
<1>4. Cardinality(S) <= Cardinality(entries) /\ Cardinality(S) \in Nat /\ Cardinality(entries) \in Nat
  BY <1>2, <1>3, FS_Subset, FS_CardinalityType
<1> QED
  BY <1>2, <1>4


\* The worker's side stays, the subscription may change.
LEMMA KeepsResults ==
  ASSUME SuiInv, UNCHANGED <<currentBlock, results, emittedCheckpoints>>
  PROVE  ResultsInv' /\ Sui!NoTransferMissed'
BY DEF SuiInv, ResultsInv, Sui!NoTransferMissed, Sui!NoResults

\* And the other way round.
LEMMA KeepsStream ==
  ASSUME SuiInv, UNCHANGED <<height, streamer, stream>>
  PROVE  StreamInv'
BY DEF SuiInv, StreamInv, Sui!BufferIsBounded

LEMMA SuiSyncInv ==
  ASSUME Sui!TypeOK, SuiInv, NEW n \in Nodes, Sui!Sync(n)
  PROVE  Sui!TypeOK' /\ SuiInv'
<1>1. /\ height[n] < Top /\ height' = [height EXCEPT ![n] = @ + 1]
      /\ UNCHANGED <<streamer, stream, currentBlock, results, emittedCheckpoints, faults>>
  BY DEF Sui!Sync, Sui!streamVars
<1>2. height' \in [Nodes -> 0..Top] /\ \A m \in Nodes : height[m] <= height'[m]
  BY <1>1, SuiTyped, EvmConstants
<1>3. Sui!TypeOK'
  BY <1>1, <1>2 DEF Sui!TypeOK
<1>4. StreamInv'
  <2>1. ASSUME streamer # NoNode PROVE stream.last <= height'[streamer]
    <3>1. stream.last <= height[streamer] /\ streamer \in Nodes
      BY <2>1, SuiTyped DEF SuiInv, StreamInv
    <3> QED
      BY <1>2, <3>1, SuiTyped, EvmConstants
  <2> QED
    BY <1>1, <2>1 DEF SuiInv, StreamInv, Sui!BufferIsBounded
<1> QED
  BY <1>1, <1>3, <1>4, KeepsResults DEF SuiInv

LEMMA StartStreamingInv ==
  ASSUME Sui!TypeOK, SuiInv, NEW n \in Nodes, Sui!StartStreaming(n)
  PROVE  Sui!TypeOK' /\ SuiInv'
<1>1. /\ streamer = NoNode /\ streamer' = n
      /\ UNCHANGED <<height, stream, currentBlock, results, emittedCheckpoints, faults>>
  BY DEF Sui!StartStreaming
<1>2. Sui!TypeOK'
  BY <1>1 DEF Sui!TypeOK
<1>3. StreamInv'
  <2>1. stream.last = 0 /\ height[n] \in Nat
    BY <1>1, SuiTyped, EvmConstants DEF SuiInv, StreamInv
  <2>2. stream.last <= height[n] /\ n # NoNode
    BY <2>1, SuiTyped
  <2> QED
    BY <1>1, <2>2 DEF SuiInv, StreamInv, Sui!BufferIsBounded
<1> QED
  BY <1>1, <1>2, <1>3, KeepsResults DEF SuiInv

LEMMA SubscribeInv ==
  ASSUME Sui!TypeOK, SuiInv, Sui!Subscribe
  PROVE  Sui!TypeOK' /\ SuiInv'
<1>1. /\ streamer # NoNode
      /\ stream' = [stream EXCEPT !.open = TRUE, !.last = height[streamer]]
      /\ UNCHANGED <<height, streamer, currentBlock, results, emittedCheckpoints, faults>>
  BY DEF Sui!Subscribe, Sui!besideStream
<1>2. streamer \in Nodes /\ height[streamer] \in 0..Top /\ height[streamer] \in Nat
      /\ stream.last <= height[streamer]
  BY <1>1, SuiTyped, EvmConstants DEF SuiInv, StreamInv
<1>3. /\ stream' \in Sui!Streams /\ stream'.last = height[streamer]
      /\ stream'.streamBuffer = stream.streamBuffer
  BY <1>1, <1>2 DEF Sui!TypeOK, Sui!Streams
<1>4. Sui!TypeOK'
  BY <1>1, <1>3 DEF Sui!TypeOK
<1>5. StreamInv'
  <2>1. ASSUME NEW e \in stream.streamBuffer PROVE e[1] <= height[streamer] /\ e[2] = "full"
    <3>1. e[1] <= stream.last /\ e[2] = "full" /\ e[1] \in Nat /\ stream.last \in Nat
      BY SuiTyped DEF SuiInv, StreamInv
    <3> QED
      BY <1>2, <3>1
  <2>2. Sui!BufferIsBounded'
    BY <1>3 DEF SuiInv, StreamInv, Sui!BufferIsBounded
  <2> QED
    BY <1>1, <1>2, <1>3, <2>1, <2>2 DEF StreamInv
<1> QED
  BY <1>1, <1>4, <1>5, KeepsResults DEF SuiInv

LEMMA StreamBreaksInv ==
  ASSUME Sui!TypeOK, SuiInv, Sui!StreamBreaks
  PROVE  Sui!TypeOK' /\ SuiInv'
<1>1. /\ streamer # NoNode /\ faults' \in 0..MaxFaults
      /\ stream' = [stream EXCEPT !.open = FALSE, !.streamDisconnected = TRUE]
      /\ UNCHANGED <<height, streamer, currentBlock, results, emittedCheckpoints>>
  BY EvmConstants DEF Sui!StreamBreaks, Sui!Fault, Sui!Broken, Sui!besideStream, Sui!TypeOK
<1>2. /\ stream' \in Sui!Streams /\ stream'.last = stream.last
      /\ stream'.streamBuffer = stream.streamBuffer
  BY <1>1 DEF Sui!TypeOK, Sui!Streams
<1>3. Sui!TypeOK'
  BY <1>1, <1>2 DEF Sui!TypeOK
<1>4. StreamInv'
  BY <1>1, <1>2 DEF SuiInv, StreamInv, Sui!BufferIsBounded
<1> QED
  BY <1>1, <1>3, <1>4, KeepsResults DEF SuiInv

\* The instance brings names of its own for the operators of the libraries.
LEMMA SuiLibraries ==
  ASSUME NEW S
  PROVE  /\ Sui!Cardinality(S) = Cardinality(S)
         /\ Sui!Min(S) = Min(S) /\ Sui!Max(S) = Max(S)
BY DEF Cardinality, Min, Max, Sui!Cardinality, Sui!Min, Sui!Max

\* What a message leaves in the buffer: old entries and its own, no more than fit.
LEMMA PrunedBounded ==
  ASSUME Sui!TypeOK, SuiInv, NEW seq \in Nat, seq > stream.last, seq \in 1..Top
  PROVE  LET kept == Sui!Pruned(stream.streamBuffer \cup {<<seq, "full">>}, seq)
         IN  /\ kept \subseteq stream.streamBuffer \cup {<<seq, "full">>}
             /\ Cardinality(kept) <= BufferSize + 1
<1> DEFINE all == stream.streamBuffer \cup {<<seq, "full">>}
           recent == {e \in all : seq >= BufferSize /\ e[1] >= seq - BufferSize}
<1>1. IsFiniteSet(all) /\ BufferSize \in Nat
  BY SuiTyped, FS_AddElement, IndexersAssumption
<1>2. IsFiniteSet(recent) /\ Cardinality(recent) \in Nat
  BY <1>1, FS_Subset, FS_CardinalityType
<1>3. \A e \in all : /\ e = <<e[1], e[2]>> /\ e[1] \in Nat /\ e[2] = "full" /\ e[1] <= seq
  <2>1. ASSUME NEW e \in stream.streamBuffer
        PROVE  e = <<e[1], e[2]>> /\ e[1] \in Nat /\ e[2] = "full" /\ e[1] <= seq
    <3>1. e[1] <= stream.last /\ e[2] = "full" /\ e[1] \in Nat /\ stream.last \in Nat
          /\ e \in (1..Top) \X {"full", "empty"}
      BY SuiTyped DEF SuiInv, StreamInv
    <3> QED
      BY <3>1
  <2> QED
    BY <2>1
<1>4. CASE Cardinality(all) <= BufferSize
  <2>1. Sui!Pruned(all, seq) = all
    BY <1>4, SuiLibraries DEF Sui!Pruned
  <2>2. Cardinality(all) \in Nat
    BY <1>1, FS_CardinalityType
  <2> QED
    BY <1>1, <1>4, <2>1, <2>2
<1>5. CASE ~(Cardinality(all) <= BufferSize)
  <2>1. Sui!Pruned(all, seq) = recent
    BY <1>5, SuiLibraries DEF Sui!Pruned
  <2>2. CASE seq >= BufferSize
    <3>1. \A e \in recent : /\ e = <<e[1], e[2]>> /\ e[1] \in Nat /\ e[2] = "full"
                            /\ e[1] <= seq /\ e[1] >= seq - BufferSize
      BY <1>3
    <3>2. Cardinality(recent) <= BufferSize + 1
      BY <1>1, <1>2, <2>2, <3>1, RecentBounded
    <3> QED
      BY <2>1, <3>2
  <2>3. CASE ~(seq >= BufferSize)
    <3>1. recent = {}
      BY <2>3
    <3>2. Cardinality({}) = 0 /\ {} \subseteq all
      BY FS_EmptySet
    <3>3. Sui!Pruned(all, seq) = {}
      BY <2>1, <3>1
    <3>4. 0 <= BufferSize + 1
      BY <1>1
    <3> QED
      BY <3>2, <3>3, <3>4
  <2> QED
    BY <2>2, <2>3
<1> QED
  BY <1>4, <1>5

LEMMA ReceiveInv ==
  ASSUME Sui!TypeOK, SuiInv, NEW full \in BOOLEAN, Sui!Receive(full)
  PROVE  Sui!TypeOK' /\ SuiInv'
<1> DEFINE seq == stream.last + 1
           all == stream.streamBuffer \cup Sui!Kept(seq, full)
           top == IF seq > stream.streamHeight THEN seq ELSE stream.streamHeight
           kept == IF full THEN Sui!Pruned(all, seq) ELSE all
<1>1. /\ stream.open /\ stream.last < height[streamer]
      /\ stream' = [stream EXCEPT
           !.last = seq, !.streamDisconnected = FALSE, !.streamHeight = top,
           !.streamBuffer = kept]
      /\ UNCHANGED <<height, streamer, currentBlock, results, emittedCheckpoints, faults>>
  BY DEF Sui!Receive, Sui!besideStream
<1>2. streamer \in Nodes /\ streamer # NoNode /\ height[streamer] \in 0..Top
  BY <1>1, SuiTyped DEF SuiInv, StreamInv
<1>3. seq \in Nat /\ seq > stream.last /\ seq \in 1..Top /\ seq \in 0..Top
      /\ seq <= height[streamer] /\ top \in 0..Top
  BY <1>1, <1>2, SuiTyped, EvmConstants
<1>4. kept \subseteq stream.streamBuffer \cup {<<seq, "full">>}
      /\ Cardinality(kept) <= BufferSize + 1
  <2>1. CASE full
    <3>1. all = stream.streamBuffer \cup {<<seq, "full">>}
      BY <2>1 DEF Sui!Kept
    <3> QED
      BY <1>3, <2>1, <3>1, PrunedBounded
  <2>2. CASE ~full
    <3>1. all = stream.streamBuffer
      BY <2>2 DEF Sui!Kept
    <3> QED
      BY <2>2, <3>1, SuiLibraries DEF SuiInv, StreamInv, Sui!BufferIsBounded
  <2> QED
    BY <2>1, <2>2
<1> HIDE DEF kept, top
<1>5. kept \subseteq (1..Top) \X {"full", "empty"}
  BY <1>3, <1>4, SuiTyped
<1>6. /\ stream' \in Sui!Streams /\ stream'.last = seq /\ stream'.streamBuffer = kept
      /\ stream'.open = stream.open
  BY <1>1, <1>3, <1>5 DEF Sui!TypeOK, Sui!Streams, Sui!Checkpoints
<1>7. Sui!TypeOK'
  BY <1>1, <1>6 DEF Sui!TypeOK
<1>8. StreamInv'
  <2>1. ASSUME NEW e \in kept PROVE e[1] <= seq /\ e[2] = "full"
    <3>1. CASE e \in stream.streamBuffer
      <4>1. e[1] <= stream.last /\ e[2] = "full" /\ e[1] \in Nat /\ stream.last \in Nat
        BY <3>1, SuiTyped DEF SuiInv, StreamInv
      <4> QED
        BY <1>3, <4>1
    <3>2. CASE e = <<seq, "full">>
      BY <1>3, <3>2
    <3> QED
      BY <1>4, <3>1, <3>2
  <2>2. Sui!BufferIsBounded'
    BY <1>4, <1>6, SuiLibraries DEF Sui!BufferIsBounded
  <2> QED
    BY <1>1, <1>2, <1>3, <1>6, <2>1, <2>2 DEF StreamInv
<1> QED
  BY <1>1, <1>7, <1>8, KeepsResults DEF SuiInv


-----------------------------------------------------------------------------
(* Sui: a tick *)

LEMMA SuiNames ==
  /\ Sui!Checkpoints = 1..Top /\ DOMAIN Sui!NoResults = {}
  /\ Sui!Stages = {"fetch", "again", "full", "empty", "failed"}
BY DEF Sui!Checkpoints, Sui!NoResults, Sui!Stages

LEMMA HeadTyped ==
  ASSUME Sui!TypeOK, NEW n \in Nodes
  PROVE  Sui!GetLatestCheckpointSequence(n) \in 0..Top
BY SuiTyped DEF Sui!GetLatestCheckpointSequence

LEMMA SuiStartTickInv ==
  ASSUME Sui!TypeOK, SuiInv, NEW n \in Nodes, Sui!StartTick(n)
  PROVE  Sui!TypeOK' /\ SuiInv'
<1> DEFINE latest == Sui!GetLatestCheckpointSequence(n)
           hi == Min({currentBlock + Batch - 1, latest})
<1>1. /\ currentBlock <= latest
      /\ results' = [b \in currentBlock..hi |-> "fetch"]
      /\ UNCHANGED <<height, streamer, stream, currentBlock, emittedCheckpoints, faults>>
  BY SuiLibraries DEF Sui!StartTick, Sui!streamVars
<1>2. latest \in 0..Top
  BY HeadTyped
<1> HIDE DEF latest
<1>3. currentBlock \in Nat /\ currentBlock >= 1 /\ Batch \in Nat /\ Batch >= 1 /\ latest \in Nat
      /\ latest <= Top
  BY <1>2, SuiTyped, EvmConstants
<1>4. {currentBlock + Batch - 1, latest} \in SUBSET Nat
  BY <1>3
<1>5. hi \in {currentBlock + Batch - 1, latest} /\ \A m \in {currentBlock + Batch - 1, latest} : m >= hi
  BY <1>4, MinOfNat
<1> HIDE DEF hi
<1>6. hi \in currentBlock..Top /\ currentBlock..hi \subseteq 1..Top
  BY <1>1, <1>3, <1>5, EvmConstants
<1>7. DOMAIN results' = currentBlock..hi /\ \A b \in DOMAIN results' : results'[b] = "fetch"
  BY <1>1
<1>8. Sui!TypeOK'
  <2>1. \A b \in DOMAIN results' : results'[b] \in Sui!Stages
    BY <1>7, SuiNames
  <2>2. DOMAIN results' \subseteq Sui!Checkpoints
    BY <1>6, <1>7, SuiNames
  <2> QED
    BY <1>1, <2>1, <2>2 DEF Sui!TypeOK
<1>9. ResultsInv'
  BY <1>1, <1>6, <1>7 DEF ResultsInv
<1>10. Sui!NoTransferMissed'
  BY <1>1 DEF SuiInv, Sui!NoTransferMissed
<1> QED
  BY <1>1, <1>8, <1>9, <1>10, KeepsStream DEF SuiInv

\* A checkpoint that is found comes with its contents.
LEMMA FoundFull ==
  ASSUME Sui!TypeOK, SuiInv, NEW n, NEW b, NEW stage \in Sui!Found(n, b)
  PROVE  stage = "full"
BY DEF Sui!Found, SuiInv, StreamInv

\* One answer of a batch.
LEMMA BecomesInv ==
  ASSUME Sui!TypeOK, SuiInv, NEW b \in DOMAIN results,
         NEW stage \in {"fetch", "again", "full", "failed"}, Sui!Becomes(b, stage),
         faults' \in 0..MaxFaults
  PROVE  Sui!TypeOK' /\ SuiInv'
<1>1. /\ results' = [results EXCEPT ![b] = stage]
      /\ UNCHANGED <<height, streamer, stream, currentBlock, emittedCheckpoints>>
  BY DEF Sui!Becomes, Sui!streamVars
<1>2. /\ DOMAIN results' = DOMAIN results
      /\ \A c \in DOMAIN results : results'[c] = IF c = b THEN stage ELSE results[c]
  BY <1>1
<1>3. Sui!TypeOK'
  <2>1. \A c \in DOMAIN results' : results'[c] \in Sui!Stages
    BY <1>2, SuiNames DEF Sui!TypeOK
  <2> QED
    BY <1>1, <1>2, <2>1 DEF Sui!TypeOK
<1>4. ResultsInv'
  <2>1. results # Sui!NoResults
    BY SuiNames
  <2>2. \A c \in DOMAIN results' : results'[c] # "empty"
    BY <1>2 DEF SuiInv, ResultsInv
  <2> QED
    BY <1>1, <1>2, <2>1, <2>2 DEF SuiInv, ResultsInv
<1>5. Sui!NoTransferMissed'
  BY <1>1 DEF SuiInv, Sui!NoTransferMissed
<1> QED
  BY <1>1, <1>3, <1>4, <1>5, KeepsStream DEF SuiInv

LEMMA AnswerInv ==
  ASSUME Sui!TypeOK, SuiInv, NEW b \in DOMAIN results, NEW n \in Nodes,
         Sui!GetBlock(b, n) \/ Sui!GetBlockAgain(b, n) \/ Sui!RequestFails(b)
  PROVE  Sui!TypeOK' /\ SuiInv'
<1>1. faults' \in 0..MaxFaults
  BY EvmConstants DEF Sui!GetBlock, Sui!GetBlockAgain, Sui!RequestFails, Sui!Fault, Sui!TypeOK
<1>2. \E stage \in {"fetch", "again", "full", "failed"} : Sui!Becomes(b, stage)
  <2>1. CASE Sui!GetBlock(b, n)
    BY <2>1, FoundFull DEF Sui!GetBlock
  <2>2. CASE Sui!GetBlockAgain(b, n)
    BY <2>2, FoundFull DEF Sui!GetBlockAgain
  <2>3. CASE Sui!RequestFails(b)
    BY <2>3 DEF Sui!RequestFails
  <2> QED
    BY <2>1, <2>2, <2>3
<1> QED
  BY <1>1, <1>2, BecomesInv

LEMMA BatchFailsInv ==
  ASSUME Sui!TypeOK, SuiInv, Sui!BatchFails
  PROVE  Sui!TypeOK' /\ SuiInv'
<1>1. /\ results' = Sui!NoResults
      /\ UNCHANGED <<height, streamer, stream, currentBlock, emittedCheckpoints, faults>>
  BY DEF Sui!BatchFails, Sui!streamVars
<1>2. DOMAIN results' = {}
  BY <1>1, SuiNames
<1>3. Sui!TypeOK'
  BY <1>1, <1>2 DEF Sui!TypeOK
<1>4. ResultsInv'
  BY <1>1, <1>2 DEF ResultsInv, Sui!NoResults
<1>5. Sui!NoTransferMissed'
  BY <1>1 DEF SuiInv, Sui!NoTransferMissed
<1> QED
  BY <1>1, <1>3, <1>4, <1>5, KeepsStream DEF SuiInv

LEMMA BatchSucceedsInv ==
  ASSUME Sui!TypeOK, SuiInv, Sui!BatchSucceeds
  PROVE  Sui!TypeOK' /\ SuiInv'
<1>1. /\ results # Sui!NoResults /\ results' = Sui!NoResults
      /\ \A b \in DOMAIN results : results[b] \notin {"fetch", "again", "failed"}
      /\ emittedCheckpoints' = emittedCheckpoints \cup {b \in DOMAIN results : results[b] = "full"}
      /\ currentBlock' = Max(DOMAIN results) + 1
      /\ UNCHANGED <<height, streamer, stream, faults>>
  BY SuiLibraries DEF Sui!BatchSucceeds, Sui!Answered, Sui!streamVars
<1>2. PICK hi \in currentBlock..Top : DOMAIN results = currentBlock..hi
  BY <1>1 DEF SuiInv, ResultsInv
<1>3. currentBlock \in Nat /\ currentBlock >= 1 /\ hi \in Nat /\ hi >= currentBlock /\ hi <= Top
  BY <1>2, SuiTyped, EvmConstants
<1>4. Max(DOMAIN results) = hi
  <2>1. DOMAIN results \in SUBSET (0..hi) /\ DOMAIN results # {} /\ hi \in DOMAIN results
    <3>1. currentBlock..hi \subseteq 0..hi /\ hi \in currentBlock..hi
      BY <1>3
    <3> QED
      BY <1>2, <3>1
  <2>2. Max(DOMAIN results) \in DOMAIN results /\ Max(DOMAIN results) >= hi
    BY <1>3, <2>1, MaxOfBounded
  <2> QED
    BY <1>2, <1>3, <2>2
<1>5. currentBlock' = hi + 1
  BY <1>1, <1>4
<1>6. \A b \in currentBlock..hi : results[b] = "full"
  <2>1. ASSUME NEW b \in DOMAIN results PROVE results[b] = "full"
    <3>1. results[b] \in Sui!Stages /\ results[b] # "empty"
      BY DEF SuiInv, ResultsInv, Sui!TypeOK
    <3> QED
      BY <1>1, <3>1, SuiNames
  <2> QED
    BY <1>2, <2>1
<1>7. DOMAIN results' = {}
  BY <1>1, SuiNames
<1>8. Sui!TypeOK'
  <2>1. emittedCheckpoints' \subseteq Sui!Checkpoints
    BY <1>1 DEF Sui!TypeOK
  <2>2. currentBlock' \in 1..(Top + 1)
    BY <1>3, <1>5, EvmConstants
  <2> QED
    BY <1>1, <1>7, <2>1, <2>2 DEF Sui!TypeOK
<1>9. ResultsInv'
  BY <1>1, <1>7 DEF ResultsInv
<1>10. Sui!NoTransferMissed'
  <2>1. ASSUME NEW b \in 1..hi PROVE b \in emittedCheckpoints'
    <3>1. CASE b < currentBlock
      <4>1. b \in 1..(currentBlock - 1)
        BY <1>3, <3>1
      <4> QED
        BY <1>1, <4>1 DEF SuiInv, Sui!NoTransferMissed
    <3>2. CASE ~(b < currentBlock)
      <4>1. b \in currentBlock..hi
        BY <1>3, <3>2
      <4> QED
        BY <1>1, <1>2, <1>6, <4>1
    <3> QED
      BY <3>1, <3>2
  <2>2. currentBlock' - 1 = hi
    BY <1>3, <1>5
  <2> QED
    BY <2>1, <2>2 DEF Sui!NoTransferMissed
<1> QED
  BY <1>1, <1>8, <1>9, <1>10, KeepsStream DEF SuiInv

\* The whole of the Sui worker's step.
LEMMA SuiStep ==
  ASSUME Sui!TypeOK, SuiInv, Sui!Next
  PROVE  Sui!TypeOK' /\ SuiInv'
<1>1. CASE \E b \in DOMAIN results : Sui!RequestFails(b)
  <2>1. \E n : n \in Nodes
    BY EvmFetchAssumption
  <2> QED
    BY <1>1, <2>1, AnswerInv
<1>2. ASSUME NEW n \in Nodes, Sui!WorkOn(n) PROVE Sui!TypeOK' /\ SuiInv'
  BY <1>2, SuiStartTickInv, AnswerInv, BatchFailsInv, BatchSucceedsInv DEF Sui!WorkOn
<1>3. ASSUME NEW n \in Nodes, Sui!WaitForBlocks(n) PROVE Sui!TypeOK' /\ SuiInv'
  <2>1. UNCHANGED <<height, streamer, stream, currentBlock, results, emittedCheckpoints, faults>>
    BY <1>3 DEF Sui!WaitForBlocks, Sui!vars
  <2>2. Sui!TypeOK'
    BY <2>1 DEF Sui!TypeOK
  <2> QED
    BY <2>1, <2>2, KeepsStream, KeepsResults DEF SuiInv
<1>4. CASE Sui!Deliver
  BY <1>4, ReceiveInv DEF Sui!Deliver
<1> QED
  BY <1>1, <1>2, <1>3, <1>4, SuiSyncInv, StartStreamingInv, SubscribeInv, StreamBreaksInv
     DEF Sui!Next

-----------------------------------------------------------------------------
(* The theorems *)

LEMMA StartedInitInv ==
  ASSUME StartedInit
  PROVE  Inv
<1>1. /\ height = [n \in Nodes |-> 0] /\ tracing = TRUE /\ currentBlock = 1
      /\ tick = NoTick /\ call = NoCall /\ emitted = {} /\ met = {} /\ faults = 0
  BY DEF StartedInit, Init
<1>2. /\ streamer = NoNode
      /\ stream = [open |-> FALSE, last |-> 0, streamHeight |-> 0,
                   streamDisconnected |-> FALSE, streamBuffer |-> {}]
      /\ results = Sui!NoResults /\ emittedCheckpoints = {}
  BY DEF StartedInit, Sui!Init
<1>3. call \in Calls /\ call.stage = "none" /\ tick \in Ticks
  BY <1>1, AskingTyped, EvmConstants DEF NoTick, Ticks, Blocks
<1>4. height \in [Nodes -> 0..Top] /\ 1 \in 1..(Top + 1) /\ 0 \in 0..MaxFaults /\ 0 \in 0..Top
  BY <1>1, EvmConstants
<1>5. TypeOK
  BY <1>1, <1>3, <1>4 DEF TypeOK
<1>6. Sui!TypeOK
  BY <1>1, <1>2, <1>4, SuiNames DEF Sui!TypeOK, Sui!Streams
<1>7. \A tx \in In(1..(currentBlock - 1)) : FALSE
  BY <1>1, TxsTyped
<1>8. EvmInv
  BY <1>3, <1>7 DEF EvmInv, LossHasCause, TickInv, FetchInv, ReceiptInv
<1>9. StreamInv
  <2>1. Cardinality({}) = 0 /\ BufferSize \in Nat
    BY FS_EmptySet, IndexersAssumption
  <2>2. Sui!BufferIsBounded
    BY <1>2, <2>1, SuiLibraries DEF Sui!BufferIsBounded
  <2> QED
    BY <1>2, <2>2 DEF StreamInv
<1>10. ResultsInv /\ Sui!NoTransferMissed
  BY <1>1, <1>2, SuiNames DEF ResultsInv, Sui!NoTransferMissed
<1> QED
  BY <1>2, <1>5, <1>6, <1>8, <1>9, <1>10 DEF StartedInit, Inv, TypesOK, SuiInv

LEMMA StartedNextInv ==
  ASSUME Inv, [StartedNext]_allVars
  PROVE  Inv'
<1>1. TypeOK /\ Sui!TypeOK
  BY DEF Inv, TypesOK
<1>2. CASE OnEvm /\ Next
  <2>1. /\ chain = "evm" /\ chain' = "evm"
        /\ UNCHANGED <<streamer, stream, results, emittedCheckpoints>>
    BY <1>2 DEF OnEvm, suiVars
  <2>2. TypeOK' /\ EvmInv'
    BY <1>1, <1>2, <2>1, EvmStep DEF Inv
  <2>3. Sui!TypeOK'
    BY <1>1, <2>1, <2>2 DEF TypeOK, Sui!TypeOK
  <2> QED
    BY <2>1, <2>2, <2>3 DEF Inv, TypesOK
<1>3. CASE OnSui /\ Sui!Next
  <2>1. /\ chain = "sui" /\ chain' = "sui"
        /\ UNCHANGED <<tracing, tick, call, emitted, met>>
    BY <1>3 DEF OnSui, evmVars
  <2>2. Sui!TypeOK' /\ SuiInv'
    BY <1>1, <1>3, <2>1, SuiStep DEF Inv
  <2>3. TypeOK'
    BY <1>1, <2>1, <2>2 DEF TypeOK, Sui!TypeOK
  <2> QED
    BY <2>1, <2>2, <2>3 DEF Inv, TypesOK
<1>4. CASE UNCHANGED allVars
  <2>1. /\ UNCHANGED <<height, tracing, currentBlock, tick, call, emitted, met, faults>>
        /\ UNCHANGED <<streamer, stream, results, emittedCheckpoints, chain>>
    BY <1>4 DEF allVars, vars, suiVars
  <2>2. TypesOK'
    BY <1>1, <2>1 DEF TypesOK, TypeOK, Sui!TypeOK
  <2>3. EvmInv => EvmInv'
    BY <2>1 DEF EvmInv, LossHasCause, TickInv, FetchInv, ReceiptInv, Explained, Troubled, LastAsked
  <2>4. SuiInv => SuiInv'
    BY <2>1, KeepsStream, KeepsResults DEF SuiInv
  <2> QED
    BY <2>1, <2>2, <2>3, <2>4 DEF Inv
<1> QED
  BY <1>2, <1>3, <1>4 DEF StartedNext

LEMMA InvGivesAll ==
  ASSUME Inv
  PROVE  TypesOK /\ LossOnEvmHasCause /\ NoTransferMissed /\ BufferIsBounded
<1>1. TypesOK /\ Sui!TypeOK
  BY DEF Inv, TypesOK
<1>2. LossOnEvmHasCause /\ NoTransferMissed
  BY DEF Inv, EvmInv, SuiInv, LossOnEvmHasCause, NoTransferMissed
<1>3. BufferIsBounded
  <2>1. CASE chain = "evm"
    <3>1. stream.streamBuffer = {} /\ Cardinality({}) = 0 /\ BufferSize \in Nat
      BY <2>1, FS_EmptySet, IndexersAssumption DEF Inv
    <3> QED
      BY <3>1, SuiLibraries DEF BufferIsBounded, Sui!BufferIsBounded
  <2>2. CASE chain = "sui"
    BY <2>2 DEF Inv, SuiInv, StreamInv, BufferIsBounded
  <2> QED
    BY <2>1, <2>2 DEF Inv
<1> QED
  BY <1>1, <1>2, <1>3

\* The invariant of both indexers, whichever the process was started for.
THEOREM Invariance == StartedSpec => []Inv
<1>1. StartedInit => Inv
  BY StartedInitInv
<1>2. Inv /\ [StartedNext]_allVars => Inv'
  BY StartedNextInv
<1> QED
  BY <1>1, <1>2, PTL DEF StartedSpec

\* The requests, their results and the subscription keep their types.
THEOREM TypeCorrect == StartedSpec => []TypesOK
<1>1. Inv => TypesOK
  BY InvGivesAll
<1> QED
  BY <1>1, Invariance, PTL

\* EVM: processBlocksAndReceipts and handleBlockResult lose a transfer only to a request of
\* the very call whose block they accepted that its kind depends on.
THEOREM LossExplained == StartedSpec => []LossOnEvmHasCause
<1>1. Inv => LossOnEvmHasCause
  BY InvGivesAll
<1> QED
  BY <1>1, Invariance, PTL

\* Sui: what GetBlocks puts together from the buffer and from the nodes, some behind, is
\* complete before the cursor moves.
THEOREM NothingMissed == StartedSpec => []NoTransferMissed
<1>1. Inv => NoTransferMissed
  BY InvGivesAll
<1> QED
  BY <1>1, Invariance, PTL

\* Sui: the pruning of the buffer, which wraps round at the start of the chain, keeps it
\* bounded.
THEOREM BufferBounded == StartedSpec => []BufferIsBounded
<1>1. Inv => BufferIsBounded
  BY InvGivesAll
<1> QED
  BY <1>1, Invariance, PTL
=============================================================================
