--------------------------- MODULE Failover_proofs ---------------------------
(***************************************************************************)
(* Proofs about the pool of RPC providers, for any number of providers,    *)
(* callers and attempts.                                                   *)
(*                                                                         *)
(* Paid counts: of a call that is not excused, every attempt it has used   *)
(* up put a faulty provider out of service, and each of them another one,  *)
(* although the other callers move the index, recover and blacklist        *)
(* providers between its reads.  Nothing puts one of them back while a     *)
(* working provider is in service: a stale recovery excuses the call, and  *)
(* a search that still has that provider before it comes to it.            *)
(***************************************************************************)
EXTENDS Failover, TLAPS, FiniteSetTheorems

Out == {p \in Faulty : ~IsAvailable(p)}

Writes(m) == m.pc \in {"scan", "emergency", "rescue"}
Reads(m) == m.pc \in {"gather", "gathering", "collect"}
Rests(m) == ~Writes(m) /\ ~Reads(m)

\* A call that is under way and has no excuse to fail.
Unexcused(c) == c \in InCall /\ c \notin excused

\* Where a call can be, by its mode and by what GetBestProvider was called for.
Placed(m) ==
  /\ m.pc = "idle" => m = Idle(m.last)
  /\ m.mode = "any" => m.why = "attempt" /\ m.pc \notin {"begin", "review"}
  /\ m.mode = "pinned" => m.own \in Providers
  /\ m.pc \in {"recover", "recovering", "check", "request"} => m.using \in Providers
  /\ m.pc = "begin" => m.why = "attempt"
  /\ m.mode = "pinned" => m.pc \in {"begin", "review"} \/ m.pc = "request" \/ m.why # "attempt"
  /\ Reads(m) => m.mode = "any" /\ m.attempt = 1
  /\ Reads(m) \/ m.pc \in {"recover", "recovering", "emergency"} => m.at # NumProviders
  /\ m.pc = "scan" => m.at # 0
  /\ m.pc \in {"begin", "read", "request", "review"} => m.at = 0

\* Whoever searches holds the lock alone.
Exclusive ==
  \A c, d \in Callers : Writes(call[c]) /\ d # c => Rests(call[d])

Shape == TypeOK /\ (\A c \in Callers : Placed(call[c])) /\ Exclusive

\* The attempts of call m are paid for by the faulty providers in out.
Paid(m, out) ==
  /\ m.why # "fallback" /\ m.pc \notin {"emergency", "rescue"}
  /\ m.pc \in {"begin", "read", "recover", "recovering", "check", "search", "scan"} =>
       m.attempt <= Cardinality(out) + 1
  /\ m.pc = "request" => m.attempt <= Cardinality(out \ {m.using}) + 1
  /\ m.pc = "request" /\ m.mode = "pinned" => m.own = m.using
  /\ m.pc = "review" => m.own \in out /\ m.attempt <= Cardinality(out)

AllPaid == \A c \in Callers : Unexcused(c) => Paid(call[c], Out)
GoodInService == (\E c \in Callers : Unexcused(c)) => \E g \in Good : IsAvailable(g)

\* A search either has a working provider in service before it, or whoever is unexcused
\* began after it and waits for the lock.
Fresh(m) == m.pc = "read" /\ m.attempt = 1 /\ m.mode = "any"
Ahead(h) ==
  /\ call[h].pc = "scan"
  /\ \E i \in call[h].at..NumProviders : Nth(i) \in Good /\ IsAvailable(Nth(i))
JustBegun ==
  \A h \in Callers : Writes(call[h]) =>
    Ahead(h) \/ \A c \in Callers : Unexcused(c) => Fresh(call[c])

Few == Cardinality(Faulty) < MaxAttempts
FailedExcused ==
  \A c \in Callers : call[c].last = "failed" /\ call[c].pc = "idle" => c \in excused
Reasons == FailedExcused /\ AllPaid /\ GoodInService /\ JustBegun
Inv == Shape /\ (Few => Reasons)

-----------------------------------------------------------------------------
(* Types *)

ProviderStates ==
  [State : {"healthy", "degraded", "unhealthy", "blacklisted"},
   errors : 0..ErrorThreshold, over : BOOLEAN]

\* The state has its shape after a step that moves one call to m, if that respects
\* the lock.
LEMMA ShapeKept ==
  ASSUME Shape, NEW c \in Callers, NEW m, m \in Calls, Placed(m),
         call' = [call EXCEPT ![c] = m],
         Writes(m) => Writes(call[c]) \/ CanWrite,
         Reads(m) => Reads(call[c]) \/ CanRead,
         provider' \in [Providers -> ProviderStates], currentIndex' \in Providers,
         excused' \subseteq Callers, faults' \in 0..MaxFaults
  PROVE  Shape'
<1>1. /\ call' \in [Callers -> Calls] /\ call'[c] = m
      /\ \A d \in Callers : d # c => call'[d] = call[d]
  BY DEF Shape, TypeOK
<1>2. \A d \in Callers : Placed(call'[d])
  BY <1>1 DEF Shape
<1>3. Exclusive'
  <2>1. /\ CanWrite => \A d \in Callers : Rests(call[d])
        /\ CanRead => \A d \in Callers : ~Writes(call[d])
    BY DEF CanWrite, CanRead, Writing, Reading, Rests, Writes, Reads
  <2> QED
    BY <1>1, <2>1 DEF Shape, Exclusive, Rests
<1> QED
  BY <1>1, <1>2, <1>3 DEF Shape, TypeOK, ProviderStates

LEMMA AttemptFailedType ==
  ASSUME Shape, NEW c \in Callers, call[c].pc # "idle"
  PROVE  /\ AttemptFailed(c) \in Calls /\ Placed(AttemptFailed(c))
         /\ AttemptFailed(c).pc \in {"idle", "read", "begin"}
<1>1. call[c] \in Calls /\ Placed(call[c])
  BY DEF Shape, TypeOK
<1>2. CASE call[c].attempt = MaxAttempts
  BY <1>1, <1>2, FailoverAssumption DEF AttemptFailed, Idle, Calls, Placed, Reads
<1>3. CASE call[c].attempt # MaxAttempts
  <2>1. call[c].attempt + 1 \in 1..MaxAttempts /\ 0 \in 0..NumProviders
    BY <1>1, <1>3, FailoverAssumption DEF Calls
  <2>2. \/ /\ call[c].mode = "any" /\ call[c].why = "attempt"
           /\ AttemptFailed(c) = [call[c] EXCEPT !.attempt = call[c].attempt + 1,
                !.why = "attempt", !.using = NoProvider, !.at = 0, !.pc = "read"]
        \/ /\ call[c].mode = "pinned" /\ call[c].own \in Providers
           /\ AttemptFailed(c) = [call[c] EXCEPT !.attempt = call[c].attempt + 1,
                !.why = "attempt", !.using = NoProvider, !.at = 0, !.pc = "begin"]
    BY <1>1, <1>3 DEF AttemptFailed, Calls, Placed
  <2>3. AttemptFailed(c) \in Calls /\ AttemptFailed(c).pc \in {"read", "begin"}
    BY <1>1, <2>1, <2>2 DEF Calls
  <2>4. Placed(AttemptFailed(c))
    BY <1>1, <2>1, <2>2 DEF Calls, Placed, Reads
  <2> QED
    BY <2>3, <2>4
<1> QED
  BY <1>2, <1>3

\* A provider that is chosen is asked next.
LEMMA AskType ==
  ASSUME Shape, NEW c \in Callers, NEW p \in Providers, NEW own \in Providers \cup {NoProvider},
         call[c].mode = "pinned" => own \in Providers, call[c].pc # "idle",
         NEW m, m = [call[c] EXCEPT !.pc = "request", !.using = p, !.own = own, !.at = 0]
  PROVE  m \in Calls /\ Placed(m) /\ m.pc = "request"
<1>1. call[c] \in Calls /\ Placed(call[c]) /\ 0 \in 0..NumProviders
  BY FailoverAssumption DEF Shape, TypeOK
<1>2. /\ m \in Calls /\ m.pc = "request" /\ m.using = p /\ m.own = own
      /\ m.mode = call[c].mode /\ m.why = call[c].why
  BY <1>1 DEF Calls
<1>3. Placed(m)
  BY <1>1, <1>2 DEF Placed, Reads
<1> QED
  BY <1>2, <1>3

LEMMA GotType ==
  ASSUME Shape, NEW c \in Callers, call[c].pc # "idle", NEW p \in Providers
  PROVE  /\ Got(c, p) \in Calls /\ Placed(Got(c, p))
         /\ Got(c, p).pc \in {"request", "idle", "read", "begin"}
<1>1. call[c] \in Calls /\ Placed(call[c])
  BY DEF Shape, TypeOK
<1> DEFINE m == [call[c] EXCEPT !.pc = "request", !.using = p, !.at = 0]
<1>2. m = [call[c] EXCEPT !.pc = "request", !.using = p, !.own = call[c].own, !.at = 0]
  BY <1>1 DEF Calls
<1>3. /\ call[c].own \in Providers \cup {NoProvider}
      /\ call[c].mode = "pinned" => call[c].own \in Providers
  BY <1>1 DEF Placed, Calls
<1>7. m \in Calls /\ Placed(m) /\ m.pc = "request"
  <2> HIDE DEF m
  <2> DEFINE own == call[c].own
  <2>1. m = [call[c] EXCEPT !.pc = "request", !.using = p, !.own = own, !.at = 0]
    BY <1>2
  <2>2. own \in Providers \cup {NoProvider} /\ (call[c].mode = "pinned" => own \in Providers)
    BY <1>3
  <2> HIDE DEF own
  <2> QED
    BY <2>1, <2>2, AskType
<1>4. CASE call[c].why = "attempt"
  BY <1>4, <1>7 DEF Got
<1>5. CASE call[c].why = "switch"
  <2> DEFINE n == Got(c, p)
  <2>1. n = [call[c] EXCEPT !.pc = "request", !.using = p, !.own = p, !.at = 0]
    BY <1>5 DEF Got
  <2> HIDE DEF n
  <2>2. n \in Calls /\ Placed(n) /\ n.pc = "request"
    BY <2>1, AskType
  <2> QED
    BY <2>2 DEF n
<1>6. CASE call[c].why = "fallback"
  BY <1>6, <1>7, AttemptFailedType DEF Got
<1> QED
  BY <1>1, <1>4, <1>5, <1>6 DEF Calls

LEMMA GotNoneType ==
  ASSUME Shape, NEW c \in Callers, call[c].pc # "idle"
  PROVE  /\ GotNone(c) \in Calls /\ Placed(GotNone(c))
         /\ GotNone(c).pc \in {"request", "idle", "read", "begin"}
<1>1. call[c] \in Calls /\ Placed(call[c])
  BY DEF Shape, TypeOK
<1>2. CASE call[c].why = "switch"
  <2> DEFINE own == call[c].own
             n == GotNone(c)
  <2>1. own \in Providers
    BY <1>1, <1>2 DEF Placed, Calls
  <2>2. n = [call[c] EXCEPT !.pc = "request", !.using = own, !.own = own, !.at = 0]
    BY <1>1, <1>2 DEF GotNone, Calls
  <2> HIDE DEF own, n
  <2>3. n \in Calls /\ Placed(n) /\ n.pc = "request"
    BY <2>1, <2>2, AskType
  <2> QED
    BY <2>3 DEF n
<1>3. CASE call[c].why # "switch"
  BY <1>3, AttemptFailedType DEF GotNone
<1> QED
  BY <1>2, <1>3

LEMMA AfterErrorType ==
  ASSUME Shape, NEW c \in Callers, call[c].pc = "request"
  PROVE  /\ AfterError(c) \in Calls /\ Placed(AfterError(c))
         /\ AfterError(c).pc \in {"review", "idle", "read", "begin"}
<1>1. call[c] \in Calls /\ Placed(call[c])
  BY DEF Shape, TypeOK
<1>2. CASE call[c].mode = "pinned" /\ call[c].why # "fallback"
  <2> DEFINE m == [call[c] EXCEPT !.pc = "review", !.using = NoProvider]
  <2>1. m \in Calls /\ m.pc = "review" /\ m.mode = "pinned" /\ m.own = call[c].own
    BY <1>1, <1>2 DEF Calls
  <2>2. Placed(m)
    BY <1>1, <1>2, <2>1 DEF Placed, Reads
  <2>3. AfterError(c) = m
    BY <1>2 DEF AfterError
  <2> QED
    BY <2>1, <2>2, <2>3
<1>3. CASE ~(call[c].mode = "pinned" /\ call[c].why # "fallback")
  BY <1>3, AttemptFailedType DEF AfterError
<1> QED
  BY <1>2, <1>3

LEMMA ProviderTypes ==
  ASSUME TypeOK, NEW p \in Providers
  PROVE  /\ Recovered \in ProviderStates /\ Blacklist(p) \in ProviderStates
         /\ Success(p) \in ProviderStates /\ Fail(p) \in ProviderStates
         /\ [provider[p] EXCEPT !.over = TRUE] \in ProviderStates
         /\ \A s \in ProviderStates :
              [provider EXCEPT ![p] = s] \in [Providers -> ProviderStates]
<1>1. provider \in [Providers -> ProviderStates] /\ provider[p] \in ProviderStates
  BY DEF TypeOK, ProviderStates
<1>2. ErrorThreshold \in Nat /\ ErrorThreshold >= 1
  BY FailoverAssumption
<1>3. Recovered \in ProviderStates
  BY <1>2 DEF Recovered, ProviderStates
<1>4. Success(p) \in ProviderStates
  BY <1>2 DEF Success, ProviderStates
<1>5. Fail(p) \in ProviderStates
  BY <1>1, <1>2 DEF Fail, ProviderStates
<1>6. Blacklist(p) \in ProviderStates /\ [provider[p] EXCEPT !.over = TRUE] \in ProviderStates
  BY <1>1 DEF Blacklist, ProviderStates
<1> QED
  BY <1>1, <1>3, <1>4, <1>5, <1>6

\* Every provider is among those that come after the current one.
LEMMA NthReaches ==
  ASSUME TypeOK
  PROVE  /\ \A i \in 0..NumProviders : Nth(i) \in Providers
         /\ \A p \in Providers : \E i \in 1..NumProviders : Nth(i) = p
<1>1. NumProviders \in Nat \ {0} /\ currentIndex \in 0..(NumProviders - 1)
  BY FailoverAssumption DEF TypeOK, Providers
<1>2. \A i \in 0..NumProviders : Nth(i) \in Providers
  BY <1>1 DEF Providers, Nth
<1>3. \A p \in Providers : \E i \in 1..NumProviders : Nth(i) = p
  <2>1. SUFFICES ASSUME NEW p \in 0..(NumProviders - 1)
                 PROVE  \E i \in 1..NumProviders : (currentIndex + i) % NumProviders = p
    BY DEF Providers, Nth
  <2>2. CASE p > currentIndex
    <3>1. p - currentIndex \in 1..NumProviders /\ currentIndex + (p - currentIndex) = p
      BY <1>1, <2>2
    <3>2. p % NumProviders = p
      BY <1>1
    <3> QED
      BY <3>1, <3>2
  <2>3. CASE p <= currentIndex
    <3>1. /\ p - currentIndex + NumProviders \in 1..NumProviders
          /\ currentIndex + (p - currentIndex + NumProviders) = p + NumProviders
      BY <1>1, <2>3
    <3>2. (p + NumProviders) % NumProviders = p
      BY <1>1
    <3> QED
      BY <3>1, <3>2
  <2> QED
    BY <1>1, <2>2, <2>3
<1> QED
  BY <1>2, <1>3

LEMMA FaultType ==
  ASSUME TypeOK, Fault \/ NoFault
  PROVE  excused' \subseteq Callers /\ faults' \in 0..MaxFaults
BY FailoverAssumption DEF TypeOK, Fault, NoFault, InCall

\* What becomes of a call that moves on to another place with its fields.
LEMMA BeginShape ==
  ASSUME Shape, NEW c \in Callers, ExecuteWithRetry(c) \/ GetAvailableProviders(c)
  PROVE  Shape'
<1>1. /\ provider' \in [Providers -> ProviderStates] /\ currentIndex' \in Providers
      /\ excused' \subseteq Callers /\ faults' \in 0..MaxFaults
  BY DEF ExecuteWithRetry, GetAvailableProviders, Begun, Shape, TypeOK, ProviderStates
<1>2. /\ call[c] = Idle(call[c].last) /\ call[c] \in Calls /\ 0 # NumProviders
      /\ call \in [Callers -> Calls]
  BY FailoverAssumption DEF Shape, TypeOK, Placed, ExecuteWithRetry, GetAvailableProviders
<1>3. PICK pc \in {"read", "gather"} :
        /\ call' = [call EXCEPT ![c].pc = pc, ![c].last = "none"]
        /\ pc = "gather" => CanRead
  BY DEF ExecuteWithRetry, GetAvailableProviders
<1> DEFINE m == [call[c] EXCEPT !.pc = pc, !.last = "none"]
<1>4. /\ m \in Calls /\ m.pc = pc /\ m.mode = "any" /\ m.why = "attempt" /\ m.at = 0
      /\ m.attempt = 1
  <2>1. /\ call[c].mode = "any" /\ call[c].why = "attempt" /\ call[c].at = 0
        /\ call[c].attempt = 1
    BY <1>2 DEF Idle
  <2> QED
    BY <1>2, <2>1 DEF Calls
<1>5. Placed(m)
  BY <1>2, <1>3, <1>4 DEF Placed, Reads
<1>6. call' = [call EXCEPT ![c] = m]
  BY <1>2, <1>3
<1> HIDE DEF m
<1> QED
  BY <1>1, <1>3, <1>4, <1>5, <1>6, ShapeKept DEF Writes, Reads

\* In the loops: the next provider, or what comes after the loop.
LEMMA DealtType ==
  ASSUME Shape, NEW c \in Callers,
         call[c].pc \in {"gather", "gathering", "recover", "recovering"}
  PROVE  /\ Dealt(c) \in Calls /\ Placed(Dealt(c))
         /\ Dealt(c).mode = call[c].mode /\ Dealt(c).why = call[c].why
         /\ Dealt(c).attempt = call[c].attempt
         /\ Reading(c) => Dealt(c).pc = "collect"
         /\ ~Reading(c) => Dealt(c).pc \in {"recover", "check"}
<1>1. /\ call[c] \in Calls /\ Placed(call[c])
      /\ NumProviders \in Nat \ {0} /\ call[c].at \in 0..(NumProviders - 1)
      /\ 0 \in 0..NumProviders /\ call[c].at + 1 \in 0..NumProviders
  <2>1. call[c] \in Calls /\ Placed(call[c]) /\ NumProviders \in Nat \ {0}
    BY FailoverAssumption DEF Shape, TypeOK
  <2>2. call[c].at \in 0..NumProviders
    BY <2>1 DEF Calls
  <2>3. call[c].at # NumProviders
    BY <2>1 DEF Placed, Reads
  <2> QED
    BY <2>1, <2>2, <2>3
<1>2. CASE Reading(c)
  <2> DEFINE m == [call[c] EXCEPT !.pc = "collect"]
  <2>1. /\ m \in Calls /\ m.pc = "collect" /\ m.mode = call[c].mode /\ m.why = call[c].why
        /\ m.attempt = call[c].attempt /\ m.at = call[c].at /\ m.own = call[c].own
    BY <1>1 DEF Calls
  <2>2. Placed(m)
    BY <1>1, <1>2, <2>1 DEF Placed, Reads, Reading
  <2>3. Dealt(c) = m
    BY <1>2 DEF Dealt
  <2> QED
    BY <1>2, <2>1, <2>2, <2>3
<1>3. CASE ~Reading(c) /\ call[c].at = NumProviders - 1
  <2> DEFINE m == [call[c] EXCEPT !.pc = "check", !.at = 0]
  <2>1. /\ m \in Calls /\ m.pc = "check" /\ m.mode = call[c].mode /\ m.why = call[c].why
        /\ m.attempt = call[c].attempt /\ m.own = call[c].own /\ m.using = call[c].using
    BY <1>1 DEF Calls
  <2>2. Placed(m)
    BY <1>1, <1>3, <2>1 DEF Placed, Reads, Reading
  <2>3. Dealt(c) = m
    BY <1>3 DEF Dealt
  <2> QED
    BY <1>3, <2>1, <2>2, <2>3
<1>4. CASE ~Reading(c) /\ call[c].at # NumProviders - 1
  <2> DEFINE m == [call[c] EXCEPT !.pc = "recover", !.at = call[c].at + 1]
  <2>1. /\ m \in Calls /\ m.pc = "recover" /\ m.mode = call[c].mode /\ m.why = call[c].why
        /\ m.attempt = call[c].attempt /\ m.own = call[c].own /\ m.using = call[c].using
        /\ m.at = call[c].at + 1
    BY <1>1 DEF Calls
  <2>4. m.at # NumProviders
    BY <1>1, <1>4, <2>1
  <2>2. Placed(m)
    BY <1>1, <1>4, <2>1, <2>4 DEF Placed, Reads, Reading
  <2>3. Dealt(c) = m
    BY <1>4 DEF Dealt
  <2> QED
    BY <1>4, <2>1, <2>2, <2>3
<1> QED
  BY <1>2, <1>3, <1>4

-----------------------------------------------------------------------------
(* What a step makes of the caller's call: m, which respects the lock. *)

Moves(c, m) ==
  /\ m \in Calls /\ Placed(m) /\ call' = [call EXCEPT ![c] = m]
  /\ Writes(m) => Writes(call[c]) \/ CanWrite
  /\ Reads(m) => Reads(call[c]) \/ CanRead

LEMMA LoopMoves ==
  ASSUME Shape, NEW c \in Callers, CheckExpired(c) \/ RecoverExpired(c)
  PROVE  \E m : /\ Moves(c, m) /\ m.mode = call[c].mode /\ m.why = call[c].why
                /\ m.attempt = call[c].attempt
                /\ Reading(c) => Reads(m)
                /\ ~Reading(c) => m.pc \in {"recover", "recovering", "check"}
<1>1. /\ call[c] \in Calls /\ Placed(call[c])
      /\ call[c].pc \in {"gather", "gathering", "recover", "recovering"}
  BY DEF Shape, TypeOK, CheckExpired, RecoverExpired
<1>2. CASE call' = [call EXCEPT ![c] = Dealt(c)]
  <2> DEFINE m == Dealt(c)
  <2>1. /\ m \in Calls /\ Placed(m) /\ m.mode = call[c].mode /\ m.why = call[c].why
        /\ m.attempt = call[c].attempt
        /\ Reading(c) => m.pc = "collect"
        /\ ~Reading(c) => m.pc \in {"recover", "check"}
    BY <1>1, DealtType
  <2>2. call' = [call EXCEPT ![c] = m]
    BY <1>2
  <2> HIDE DEF m
  <2> QED
    BY <2>1, <2>2 DEF Moves, Writes, Reads, Reading
<1>3. CASE CheckExpired(c) /\ IsExpiredBlacklist(call[c].at)
  <2> DEFINE pc == IF Reading(c) THEN "gathering" ELSE "recovering"
             m == [call[c] EXCEPT !.pc = pc]
  <2>1. /\ m \in Calls /\ m.pc = pc /\ m.mode = call[c].mode /\ m.why = call[c].why
        /\ m.attempt = call[c].attempt /\ m.own = call[c].own /\ m.at = call[c].at
        /\ m.using = call[c].using
    BY <1>1 DEF Calls
  <2>2. call' = [call EXCEPT ![c] = m]
    BY <1>3 DEF CheckExpired
  <2>3. Placed(m)
    BY <1>1, <2>1 DEF Placed, Reads, Reading
  <2> HIDE DEF m
  <2> QED
    BY <2>1, <2>2, <2>3 DEF Moves, Writes, Reads, Reading
<1> QED
  BY <1>2, <1>3 DEF CheckExpired, RecoverExpired

LEMMA CollectMoves ==
  ASSUME Shape, NEW c \in Callers, CollectAvailable(c)
  PROVE  \E m : /\ Moves(c, m) /\ m.attempt = 1 /\ m.why = "attempt"
                /\ \/ m.pc = "begin" /\ Begun(c)
                   \/ m.pc = "gather" /\ UNCHANGED excused
                   \/ m.pc = "idle" /\ m.last = "none" /\ UNCHANGED excused
<1>1. /\ call \in [Callers -> Calls] /\ call[c] \in Calls /\ Placed(call[c])
      /\ call[c].pc = "collect"
  BY DEF Shape, TypeOK, CollectAvailable
<1>2. /\ call[c].mode = "any" /\ call[c].attempt = 1 /\ call[c].why = "attempt"
      /\ NumProviders \in Nat \ {0} /\ call[c].at \in 0..(NumProviders - 1)
      /\ 0 \in 0..NumProviders /\ call[c].at + 1 \in 0..NumProviders
      /\ call[c].at \in Providers
  <2>1. call[c].mode = "any" /\ call[c].attempt = 1 /\ call[c].at # NumProviders
    BY <1>1 DEF Placed, Reads
  <2>2. call[c].at \in 0..NumProviders /\ NumProviders \in Nat \ {0}
    BY <1>1, FailoverAssumption DEF Calls
  <2> QED
    BY <1>1, <2>1, <2>2 DEF Placed, Providers
<1>3. PICK own \in Providers \cup {NoProvider} :
        \/ /\ call[c].at < NumProviders - 1
           /\ call' = [call EXCEPT ![c].pc = "gather", ![c].at = @ + 1, ![c].own = own]
           /\ UNCHANGED excused
        \/ /\ own = NoProvider /\ call' = [call EXCEPT ![c] = Idle("none")]
           /\ UNCHANGED excused
        \/ /\ own \in Providers /\ Begun(c)
           /\ call' = [call EXCEPT ![c].pc = "begin", ![c].mode = "pinned", ![c].at = 0,
                         ![c].own = own]
  <2>1. call[c].own \in Providers \cup {NoProvider}
    BY <1>1 DEF Calls
  <2> QED
    BY <1>2, <2>1 DEF CollectAvailable
<1>4. CASE /\ call[c].at < NumProviders - 1
           /\ call' = [call EXCEPT ![c].pc = "gather", ![c].at = @ + 1, ![c].own = own]
           /\ UNCHANGED excused
  <2> DEFINE m == [call[c] EXCEPT !.pc = "gather", !.at = call[c].at + 1, !.own = own]
  <2>1. /\ m \in Calls /\ m.pc = "gather" /\ m.mode = "any" /\ m.why = "attempt"
        /\ m.attempt = 1 /\ m.at = call[c].at + 1
    BY <1>1, <1>2 DEF Calls
  <2>2. m.at # NumProviders
    BY <1>2, <1>4, <2>1
  <2>3. Placed(m)
    BY <2>1, <2>2 DEF Placed, Reads
  <2>4. call' = [call EXCEPT ![c] = m]
    BY <1>1, <1>4
  <2> HIDE DEF m
  <2> QED
    BY <1>1, <1>4, <2>1, <2>3, <2>4 DEF Moves, Writes, Reads
<1>5. CASE call' = [call EXCEPT ![c] = Idle("none")] /\ UNCHANGED excused
  <2> DEFINE m == Idle("none")
  <2>1. /\ m \in Calls /\ Placed(m) /\ m.pc = "idle" /\ m.last = "none" /\ m.attempt = 1
        /\ m.why = "attempt"
    BY <1>2, FailoverAssumption DEF Idle, Calls, Placed, Reads
  <2>2. call' = [call EXCEPT ![c] = m] /\ UNCHANGED excused
    BY <1>5
  <2> HIDE DEF m
  <2> QED
    BY <2>1, <2>2 DEF Moves, Writes, Reads
<1>6. CASE /\ own \in Providers /\ Begun(c)
           /\ call' = [call EXCEPT ![c].pc = "begin", ![c].mode = "pinned", ![c].at = 0,
                         ![c].own = own]
  <2> DEFINE m == [call[c] EXCEPT !.pc = "begin", !.mode = "pinned", !.at = 0, !.own = own]
  <2>1. /\ m \in Calls /\ m.pc = "begin" /\ m.mode = "pinned" /\ m.why = "attempt"
        /\ m.attempt = 1 /\ m.own = own
    BY <1>1, <1>2 DEF Calls
  <2>2. Placed(m)
    BY <1>6, <2>1 DEF Placed, Reads
  <2>3. call' = [call EXCEPT ![c] = m]
    BY <1>1, <1>6
  <2> HIDE DEF m
  <2> QED
    BY <1>6, <2>1, <2>2, <2>3 DEF Moves, Writes, Reads
<1> QED
  BY <1>3, <1>4, <1>5, <1>6

LEMMA SearchMoves ==
  ASSUME Shape, NEW c \in Callers, Search(c)
  PROVE  \E m : /\ Moves(c, m) /\ m.pc = "scan" /\ m.at = 1 /\ m.why = call[c].why
                /\ m.attempt = call[c].attempt
<1> DEFINE m == [call[c] EXCEPT !.pc = "scan", !.at = 1]
<1>1. /\ call \in [Callers -> Calls] /\ call[c] \in Calls /\ Placed(call[c])
      /\ call[c].pc = "search" /\ CanWrite /\ 1 \in 0..NumProviders
  BY FailoverAssumption DEF Shape, TypeOK, Search
<1>2. /\ m \in Calls /\ m.pc = "scan" /\ m.at = 1 /\ m.mode = call[c].mode
      /\ m.why = call[c].why /\ m.attempt = call[c].attempt /\ m.own = call[c].own
  BY <1>1 DEF Calls
<1>3. Placed(m)
  BY <1>1, <1>2 DEF Placed, Reads
<1>4. call' = [call EXCEPT ![c] = m]
  BY <1>1 DEF Search
<1> HIDE DEF m
<1> QED
  BY <1>1, <1>2, <1>3, <1>4 DEF Moves, Reads

\* One pass of the search: it takes the provider, or goes on with the next one, or finds
\* that there is none.
LEMMA ScanMoves ==
  ASSUME Shape, NEW c \in Callers, FindNextAvailableProvider(c)
  PROVE  /\ Nth(call[c].at) \in Providers
         /\ \/ /\ IsAvailable(Nth(call[c].at)) /\ currentIndex' = Nth(call[c].at)
               /\ Moves(c, Got(c, Nth(call[c].at)))
               /\ Got(c, Nth(call[c].at)).pc \in {"request", "idle", "read", "begin"}
            \/ /\ ~IsAvailable(Nth(call[c].at)) /\ UNCHANGED currentIndex
               /\ \E m : /\ Moves(c, m) /\ m.why = call[c].why /\ m.attempt = call[c].attempt
                         /\ \/ m.pc = "scan" /\ m.at = call[c].at + 1
                            \/ m.pc = "emergency" /\ call[c].at = NumProviders
<1>1. /\ call \in [Callers -> Calls] /\ call[c] \in Calls /\ Placed(call[c]) /\ TypeOK
      /\ call[c].pc = "scan" /\ NumProviders \in Nat \ {0} /\ 0 \in 0..NumProviders
  BY FailoverAssumption DEF Shape, TypeOK, FindNextAvailableProvider
<1>2. call[c].at \in 1..NumProviders
  BY <1>1 DEF Calls, Placed
<1>3. Nth(call[c].at) \in Providers
  BY <1>1, <1>2, NthReaches
<1>4. CASE IsAvailable(Nth(call[c].at))
  <2> DEFINE m == Got(c, Nth(call[c].at))
  <2>1. m \in Calls /\ Placed(m) /\ m.pc \in {"request", "idle", "read", "begin"}
    BY <1>1, <1>3, GotType
  <2>2. call' = [call EXCEPT ![c] = m] /\ currentIndex' = Nth(call[c].at)
    BY <1>4 DEF FindNextAvailableProvider
  <2>3. Moves(c, m)
    BY <2>1, <2>2 DEF Moves, Writes, Reads
  <2> QED
    BY <1>3, <1>4, <2>1, <2>2, <2>3
<1>5. CASE ~IsAvailable(Nth(call[c].at)) /\ call[c].at < NumProviders
  <2> DEFINE m == [call[c] EXCEPT !.at = call[c].at + 1]
  <2>1. call[c].at + 1 \in 0..NumProviders /\ call[c].at + 1 # 0
    BY <1>1, <1>2, <1>5
  <2>2. /\ m \in Calls /\ m.pc = "scan" /\ m.at = call[c].at + 1 /\ m.mode = call[c].mode
        /\ m.why = call[c].why /\ m.attempt = call[c].attempt /\ m.own = call[c].own
    BY <1>1, <2>1 DEF Calls
  <2>3. Placed(m)
    BY <1>1, <2>1, <2>2 DEF Placed, Reads
  <2>4. call' = [call EXCEPT ![c] = m] /\ UNCHANGED currentIndex
    BY <1>1, <1>5 DEF FindNextAvailableProvider
  <2> HIDE DEF m
  <2>5. Moves(c, m)
    BY <1>1, <2>2, <2>3, <2>4 DEF Moves, Writes, Reads
  <2> QED
    BY <1>3, <1>5, <2>2, <2>4, <2>5
<1>6. CASE ~IsAvailable(Nth(call[c].at)) /\ ~(call[c].at < NumProviders)
  <2> DEFINE m == [call[c] EXCEPT !.pc = "emergency", !.at = 0]
  <2>1. call[c].at = NumProviders /\ 0 # NumProviders
    BY <1>1, <1>2, <1>6
  <2>2. /\ m \in Calls /\ m.pc = "emergency" /\ m.at = 0 /\ m.mode = call[c].mode
        /\ m.why = call[c].why /\ m.attempt = call[c].attempt /\ m.own = call[c].own
    BY <1>1 DEF Calls
  <2>3. Placed(m)
    BY <1>1, <2>1, <2>2 DEF Placed, Reads
  <2>4. call' = [call EXCEPT ![c] = m] /\ UNCHANGED currentIndex
    BY <1>1, <1>6 DEF FindNextAvailableProvider
  <2> HIDE DEF m
  <2>5. Moves(c, m)
    BY <1>1, <2>2, <2>3, <2>4 DEF Moves, Writes, Reads
  <2> QED
    BY <1>3, <1>6, <2>1, <2>2, <2>4, <2>5
<1> QED
  BY <1>4, <1>5, <1>6

LEMMA EmergencyMoves ==
  ASSUME Shape, NEW c \in Callers, CollectBlacklisted(c) \/ EmergencyRecovery(c)
  PROVE  /\ \E m : /\ Moves(c, m)
                   /\ CollectBlacklisted(c) => m.pc \in {"emergency", "rescue"}
                   /\ EmergencyRecovery(c) => m.pc \in {"request", "idle", "read", "begin"}
         /\ provider' \in [Providers -> ProviderStates] /\ currentIndex' \in Providers
         /\ \A p \in Providers : IsAvailable(p) => IsAvailable(p)'
<1>1. /\ call \in [Callers -> Calls] /\ call[c] \in Calls /\ Placed(call[c]) /\ TypeOK
      /\ 0 \in Providers /\ NumProviders \in Nat \ {0}
  BY FailoverAssumption DEF Shape, TypeOK, Providers
<1>2. CASE CollectBlacklisted(c)
  <2>1. call[c].pc = "emergency" /\ UNCHANGED <<provider, currentIndex>>
    BY <1>2 DEF CollectBlacklisted
  <2>2. call[c].at \in 0..(NumProviders - 1) /\ call[c].at \in Providers
    <3>1. call[c].at # NumProviders /\ call[c].at \in 0..NumProviders
      BY <1>1, <2>1 DEF Placed, Calls
    <3> QED
      BY <1>1, <3>1 DEF Providers
  <2> DEFINE at == (call[c].at + 1) % NumProviders
             pc == IF call[c].at < NumProviders - 1 THEN "emergency" ELSE "rescue"
  <2>3. at \in 0..NumProviders /\ at # NumProviders
    BY <1>1, <2>2
  <2> HIDE DEF at
  <2>4. PICK first \in Providers \cup {NoProvider} :
          call' = [call EXCEPT ![c].using = first, ![c].at = at, ![c].pc = pc]
    <3>1. call[c].using \in Providers \cup {NoProvider}
      BY <1>1 DEF Calls
    <3> QED
      BY <1>1, <1>2, <2>2, <3>1 DEF CollectBlacklisted, at
  <2> DEFINE m == [call[c] EXCEPT !.using = first, !.at = at, !.pc = pc]
  <2>5. /\ m \in Calls /\ m.pc = pc /\ m.at = at /\ m.mode = call[c].mode
        /\ m.why = call[c].why /\ m.own = call[c].own
    BY <1>1, <2>3 DEF Calls
  <2>6. Placed(m)
    BY <1>1, <2>1, <2>3, <2>5 DEF Placed, Reads
  <2>7. call' = [call EXCEPT ![c] = m]
    BY <1>1, <2>4
  <2> HIDE DEF m
  <2>8. Moves(c, m)
    BY <2>1, <2>5, <2>6, <2>7 DEF Moves, Writes, Reads
  <2>9. m.pc \in {"emergency", "rescue"} /\ ~EmergencyRecovery(c)
    BY <2>1, <2>5 DEF EmergencyRecovery
  <2> QED
    BY <1>1, <2>1, <2>8, <2>9 DEF TypeOK, ProviderStates, IsAvailable
<1>3. CASE EmergencyRecovery(c)
  <2>1. call[c].pc = "rescue" /\ call[c].using \in Providers \cup {NoProvider}
        /\ ~CollectBlacklisted(c)
    BY <1>1, <1>3 DEF EmergencyRecovery, CollectBlacklisted, Calls
  <2>2. CASE call[c].using = NoProvider
    <3> DEFINE m == GotNone(c)
    <3>1. m \in Calls /\ Placed(m) /\ m.pc \in {"request", "idle", "read", "begin"}
      BY <2>1, GotNoneType
    <3>2. call' = [call EXCEPT ![c] = m] /\ UNCHANGED <<provider, currentIndex>>
      BY <1>3, <2>2 DEF EmergencyRecovery
    <3> HIDE DEF m
    <3>3. Moves(c, m)
      BY <3>1, <3>2 DEF Moves, Writes, Reads
    <3> QED
      BY <1>1, <2>1, <3>1, <3>2, <3>3 DEF TypeOK, ProviderStates, IsAvailable
  <2>3. CASE call[c].using # NoProvider
    <3> DEFINE m == Got(c, call[c].using)
    <3>1. m \in Calls /\ Placed(m) /\ m.pc \in {"request", "idle", "read", "begin"}
      BY <2>1, <2>3, GotType
    <3>2. /\ call' = [call EXCEPT ![c] = m] /\ currentIndex' = 0
          /\ provider' = [provider EXCEPT ![call[c].using] = Recovered]
      BY <1>3, <2>3 DEF EmergencyRecovery
    <3> HIDE DEF m
    <3>3. Moves(c, m)
      BY <3>1, <3>2 DEF Moves, Writes, Reads
    <3>4. provider' \in [Providers -> ProviderStates]
      BY <1>1, <2>1, <2>3, <3>2, ProviderTypes
    <3>5. \A p \in Providers : IsAvailable(p) => IsAvailable(p)'
      BY <1>1, <3>2 DEF TypeOK, IsAvailable, Recovered
    <3> QED
      BY <1>1, <2>1, <3>1, <3>2, <3>3, <3>4, <3>5
  <2> QED
    BY <2>2, <2>3
<1> QED
  BY <1>2, <1>3


LEMMA ReadMoves ==
  ASSUME Shape, NEW c \in Callers, ReadCurrent(c)
  PROVE  \E m : /\ Moves(c, m) /\ m.pc = "recover" /\ m.why = call[c].why
                /\ m.attempt = call[c].attempt
<1> DEFINE m == [call[c] EXCEPT !.pc = "recover", !.using = currentIndex]
<1>1. /\ call \in [Callers -> Calls] /\ call[c] \in Calls /\ Placed(call[c])
      /\ call[c].pc = "read" /\ CanRead /\ currentIndex \in Providers
  BY DEF Shape, TypeOK, ReadCurrent
<1>2. /\ m \in Calls /\ m.pc = "recover" /\ m.using = currentIndex /\ m.mode = call[c].mode
      /\ m.why = call[c].why /\ m.attempt = call[c].attempt /\ m.own = call[c].own
      /\ m.at = call[c].at
  BY <1>1 DEF Calls
<1>3. call[c].at # NumProviders
  BY <1>1, FailoverAssumption DEF Placed
<1>4. Placed(m)
  BY <1>1, <1>2, <1>3 DEF Placed, Reads
<1>5. call' = [call EXCEPT ![c] = m]
  BY <1>1 DEF ReadCurrent
<1> HIDE DEF m
<1> QED
  BY <1>1, <1>2, <1>4, <1>5 DEF Moves, Writes, Reads

LEMMA CheckMoves ==
  ASSUME Shape, NEW c \in Callers, CheckCurrent(c)
  PROVE  \/ /\ call[c].using \in Providers /\ IsAvailable(call[c].using)
            /\ Moves(c, Got(c, call[c].using))
            /\ Got(c, call[c].using).pc \in {"request", "idle", "read", "begin"}
         \/ \E m : /\ Moves(c, m) /\ m.pc = "search" /\ m.why = call[c].why
                   /\ m.attempt = call[c].attempt
<1>1. /\ call \in [Callers -> Calls] /\ call[c] \in Calls /\ Placed(call[c])
      /\ call[c].pc = "check"
  BY DEF Shape, TypeOK, CheckCurrent
<1>2. call[c].using \in Providers
  BY <1>1 DEF Placed
<1>3. CASE IsAvailable(call[c].using)
  <2> DEFINE m == Got(c, call[c].using)
  <2>1. m \in Calls /\ Placed(m) /\ m.pc \in {"request", "idle", "read", "begin"}
    BY <1>1, <1>2, GotType
  <2>2. call' = [call EXCEPT ![c] = m]
    BY <1>3 DEF CheckCurrent
  <2>3. Moves(c, m)
    BY <2>1, <2>2 DEF Moves, Writes, Reads
  <2> QED
    BY <1>2, <1>3, <2>1, <2>3
<1>4. CASE ~IsAvailable(call[c].using)
  <2> DEFINE m == [call[c] EXCEPT !.pc = "search", !.using = NoProvider]
  <2>1. /\ m \in Calls /\ m.pc = "search" /\ m.mode = call[c].mode
        /\ m.why = call[c].why /\ m.attempt = call[c].attempt /\ m.own = call[c].own
    BY <1>1 DEF Calls
  <2>2. Placed(m)
    BY <1>1, <2>1 DEF Placed, Reads
  <2>3. call' = [call EXCEPT ![c] = m]
    BY <1>1, <1>4 DEF CheckCurrent
  <2> HIDE DEF m
  <2> QED
    BY <2>1, <2>2, <2>3 DEF Moves, Writes, Reads
<1> QED
  BY <1>3, <1>4

LEMMA AttemptMoves ==
  ASSUME Shape, NEW c \in Callers, BeginAttempt(c)
  PROVE  /\ call[c].own \in Providers
         /\ \E m : /\ Moves(c, m) /\ m.mode = "pinned" /\ m.own = call[c].own
                   /\ m.attempt = call[c].attempt
                   /\ \/ m.pc = "read" /\ m.why = "switch"
                      \/ /\ m.pc = "request" /\ m.why = call[c].why /\ m.using = call[c].own
                         /\ provider[call[c].own].State # "blacklisted"
<1>1. /\ call \in [Callers -> Calls] /\ call[c] \in Calls /\ Placed(call[c])
      /\ call[c].pc = "begin"
  BY DEF Shape, TypeOK, BeginAttempt
<1>2. call[c].mode = "pinned" /\ call[c].own \in Providers /\ call[c].why = "attempt"
  BY <1>1 DEF Placed, Calls
<1>3. CASE provider[call[c].own].State = "blacklisted"
  <2> DEFINE m == [call[c] EXCEPT !.pc = "read", !.why = "switch"]
  <2>1. /\ m \in Calls /\ m.pc = "read" /\ m.why = "switch" /\ m.mode = "pinned"
        /\ m.own = call[c].own /\ m.attempt = call[c].attempt
    BY <1>1, <1>2 DEF Calls
  <2>2. Placed(m)
    BY <1>1, <1>2, <2>1 DEF Placed, Reads
  <2>3. call' = [call EXCEPT ![c] = m]
    BY <1>3 DEF BeginAttempt
  <2> HIDE DEF m
  <2> QED
    BY <1>2, <2>1, <2>2, <2>3 DEF Moves, Writes, Reads
<1>4. CASE provider[call[c].own].State # "blacklisted"
  <2> DEFINE own == call[c].own
             m == [call[c] EXCEPT !.pc = "request", !.using = own]
  <2>1. /\ m \in Calls /\ m.pc = "request" /\ m.why = call[c].why /\ m.mode = "pinned"
        /\ m.own = call[c].own /\ m.attempt = call[c].attempt /\ m.using = call[c].own
    BY <1>1, <1>2 DEF Calls
  <2>2. Placed(m)
    BY <1>1, <1>2, <2>1 DEF Placed, Reads
  <2>3. call' = [call EXCEPT ![c] = m]
    BY <1>4 DEF BeginAttempt
  <2> HIDE DEF m, own
  <2> QED
    BY <1>2, <1>4, <2>1, <2>2, <2>3 DEF Moves, Writes, Reads
<1> QED
  BY <1>3, <1>4

LEMMA ReviewMoves ==
  ASSUME Shape, NEW c \in Callers, Review(c)
  PROVE  \/ /\ provider[call[c].own].State = "blacklisted"
            /\ Moves(c, AttemptFailed(c))
            /\ AttemptFailed(c).pc \in {"idle", "read", "begin"}
         \/ /\ provider[call[c].own].State # "blacklisted"
            /\ \E m : Moves(c, m) /\ m.pc = "read"
<1>1. /\ call \in [Callers -> Calls] /\ call[c] \in Calls /\ Placed(call[c])
      /\ call[c].pc = "review"
  BY DEF Shape, TypeOK, Review
<1>2. call[c].mode = "pinned" /\ call[c].own \in Providers
  BY <1>1 DEF Placed, Calls
<1>3. CASE provider[call[c].own].State = "blacklisted"
  <2> DEFINE m == AttemptFailed(c)
  <2>1. m \in Calls /\ Placed(m) /\ m.pc \in {"idle", "read", "begin"}
    BY <1>1, AttemptFailedType
  <2>2. call' = [call EXCEPT ![c] = m]
    BY <1>3 DEF Review
  <2>3. Moves(c, m)
    BY <2>1, <2>2 DEF Moves, Writes, Reads
  <2> QED
    BY <1>3, <2>1, <2>3
<1>4. CASE provider[call[c].own].State # "blacklisted"
  <2> DEFINE m == [call[c] EXCEPT !.pc = "read", !.why = "fallback"]
  <2>1. /\ m \in Calls /\ m.pc = "read" /\ m.why = "fallback" /\ m.mode = "pinned"
        /\ m.own = call[c].own
    BY <1>1, <1>2 DEF Calls
  <2>2. Placed(m)
    BY <1>1, <1>2, <2>1 DEF Placed, Reads
  <2>3. call' = [call EXCEPT ![c] = m]
    BY <1>4 DEF Review
  <2> HIDE DEF m
  <2> QED
    BY <1>4, <2>1, <2>2, <2>3 DEF Moves, Writes, Reads
<1> QED
  BY <1>3, <1>4

LEMMA ChooseShape ==
  ASSUME Shape, NEW c \in Callers, Choose(c)
  PROVE  Shape'
<1>1. call[c] \in Calls /\ Placed(call[c]) /\ TypeOK
  BY DEF Shape, TypeOK
<1>2. faults' \in 0..MaxFaults /\ excused' \subseteq Callers
  BY <1>1 DEF Choose, ReadCurrent, CheckExpired, RecoverExpired, CheckCurrent, Search,
              FindNextAvailableProvider, CollectBlacklisted, EmergencyRecovery, CollectAvailable,
              BeginAttempt, Review, Begun, InCall, TypeOK
<1>3. \E m : Moves(c, m)
  BY LoopMoves, CollectMoves, SearchMoves, ScanMoves, EmergencyMoves, ReadMoves, CheckMoves,
     AttemptMoves, ReviewMoves DEF Choose
<1>4. provider' \in [Providers -> ProviderStates] /\ currentIndex' \in Providers
  <2>1. CASE CollectBlacklisted(c) \/ EmergencyRecovery(c)
    BY <2>1, EmergencyMoves
  <2>2. CASE RecoverExpired(c)
    <3>1. call[c].at \in Providers
      <4>1. call[c].at \in 0..NumProviders /\ call[c].at # NumProviders
        BY <1>1, <2>2 DEF RecoverExpired, Placed, Reads, Calls
      <4> QED
        BY <4>1, FailoverAssumption DEF Providers
    <3> QED
      BY <1>1, <2>2, <3>1, ProviderTypes DEF RecoverExpired, TypeOK
  <2>3. CASE FindNextAvailableProvider(c)
    BY <1>1, <2>3, ScanMoves DEF FindNextAvailableProvider, TypeOK, ProviderStates
  <2> QED
    BY <1>1, <2>1, <2>2, <2>3 DEF Choose, ReadCurrent, CheckExpired, CheckCurrent, Search,
       CollectAvailable, BeginAttempt, Review, TypeOK, ProviderStates
<1>5. PICK m : Moves(c, m)
  BY <1>3
<1> QED
  BY <1>2, <1>4, <1>5, ShapeKept DEF Moves

LEMMA AnswerShape ==
  ASSUME Shape, NEW c \in Callers, Answer(c)
  PROVE  Shape'
<1>1. call[c] \in Calls /\ Placed(call[c]) /\ TypeOK /\ call[c].using \in Providers
  BY DEF Shape, TypeOK, Answer, Succeeds, FailsMarked, FailsGeneric, Placed
<1>2. excused' \subseteq Callers /\ faults' \in 0..MaxFaults
  <2>1. Fault \/ NoFault
    BY DEF Answer, Succeeds, FailsMarked, FailsGeneric
  <2> QED
    BY <1>1, <2>1, FaultType
<1>3. provider' \in [Providers -> ProviderStates] /\ currentIndex' \in Providers
  <2>1. PICK s \in ProviderStates : provider' = [provider EXCEPT ![call[c].using] = s]
    BY <1>1, ProviderTypes DEF Answer, Succeeds, FailsMarked, FailsGeneric
  <2> QED
    BY <1>1, <2>1, ProviderTypes DEF Answer, Succeeds, FailsMarked, FailsGeneric, TypeOK
<1>4. PICK m : /\ m \in Calls /\ Placed(m) /\ call' = [call EXCEPT ![c] = m]
               /\ m.pc \in {"review", "idle", "read", "begin"}
  <2>1. Idle("ok") \in Calls /\ Placed(Idle("ok")) /\ Idle("ok").pc = "idle"
    BY FailoverAssumption DEF Idle, Calls, Placed, Reads
  <2>2. call[c].pc = "request"
    BY DEF Answer, Succeeds, FailsMarked, FailsGeneric
  <2> QED
    BY <2>1, <2>2, AfterErrorType DEF Answer, Succeeds, FailsMarked, FailsGeneric
<1>5. ~Writes(m) /\ ~Reads(m)
  BY <1>4 DEF Writes, Reads
<1> QED
  BY <1>2, <1>3, <1>4, <1>5, ShapeKept

LEMMA ShapeInvariant == Spec => []Shape
<1>1. Init => Shape
  <2> SUFFICES ASSUME Init PROVE Shape
    OBVIOUS
  <2>1. 0 \in Providers /\ MaxFaults \in Nat /\ ErrorThreshold \in Nat
    BY FailoverAssumption DEF Providers
  <2>2. Idle("none") \in Calls /\ Placed(Idle("none")) /\ Idle("none").pc = "idle"
    BY FailoverAssumption DEF Idle, Calls, Placed, Reads
  <2> QED
    BY <2>1, <2>2 DEF Init, Shape, TypeOK, Exclusive, Writes
<1>2. Shape /\ [Next]_vars => Shape'
  <2> SUFFICES ASSUME Shape, [Next]_vars PROVE Shape'
    OBVIOUS
  <2>1. CASE \E p \in Providers : CooldownEnds(p)
    <3>1. PICK p \in Providers : CooldownEnds(p)
      BY <2>1
    <3>2. provider' \in [Providers -> ProviderStates]
      BY <3>1, ProviderTypes DEF CooldownEnds, Shape, TypeOK, ProviderStates
    <3>3. excused' \subseteq Callers /\ faults' \in 0..MaxFaults
      BY <3>1, FaultType DEF CooldownEnds, Shape
    <3>4. call' = call /\ currentIndex' = currentIndex
      BY <3>1 DEF CooldownEnds
    <3> QED
      BY <3>2, <3>3, <3>4 DEF Shape, TypeOK, ProviderStates, Exclusive
  <2>2. CASE UNCHANGED vars
    BY <2>2 DEF vars, Shape, TypeOK, Exclusive
  <2> QED
    BY <2>1, <2>2, BeginShape, ChooseShape, AnswerShape DEF Next
<1> QED
  BY <1>1, <1>2, PTL DEF Spec

\* Every reachable state has the types of the module: in particular currentIndex
\* is always the index of a provider, whoever moves it.
THEOREM TypeCorrect == Spec => []TypeOK
BY ShapeInvariant, PTL DEF Shape

-----------------------------------------------------------------------------
(* Attempts are paid for *)

LEMMA OutSize ==
  /\ IsFiniteSet(Faulty) /\ Cardinality(Faulty) \in Nat
  /\ \A S \in SUBSET Faulty :
       IsFiniteSet(S) /\ Cardinality(S) \in Nat /\ Cardinality(S) <= Cardinality(Faulty)
<1>1. NumProviders - 1 \in Int /\ 0 \in Int
  BY FailoverAssumption
<1>2. IsFiniteSet(Providers)
  BY <1>1, FS_Interval DEF Providers
<1>3. IsFiniteSet(Faulty)
  BY <1>2, FS_Subset, FailoverAssumption
<1>4. \A S \in SUBSET Faulty : IsFiniteSet(S) /\ Cardinality(S) <= Cardinality(Faulty)
  BY <1>3, FS_Subset
<1> QED
  BY <1>3, <1>4, FS_CardinalityType

\* More providers out of service pay for as much.
LEMMA PaidGrows ==
  ASSUME NEW m \in Calls, NEW B \in SUBSET Faulty, NEW A \in SUBSET B, Paid(m, A)
  PROVE  Paid(m, B)
<1>1. A \in SUBSET Faulty /\ A \ {m.using} \in SUBSET Faulty /\ B \ {m.using} \in SUBSET Faulty
  OBVIOUS
<1>2. /\ Cardinality(A) \in Nat /\ Cardinality(B) \in Nat
      /\ Cardinality(A \ {m.using}) \in Nat /\ Cardinality(B \ {m.using}) \in Nat
  BY <1>1, OutSize
<1>3. Cardinality(A) <= Cardinality(B)
  BY OutSize, FS_Subset
<1>4. Cardinality(A \ {m.using}) <= Cardinality(B \ {m.using})
  <2>1. IsFiniteSet(B \ {m.using}) /\ A \ {m.using} \in SUBSET (B \ {m.using})
    BY <1>1, OutSize
  <2> QED
    BY <2>1, FS_Subset
<1>5. m.attempt \in Nat
  BY FailoverAssumption DEF Calls
<1> QED
  BY <1>2, <1>3, <1>4, <1>5 DEF Paid

LEMMA UnexcusedIs ==
  \A c \in Callers :
    /\ Unexcused(c) <=> call[c].pc # "idle" /\ ~Reads(call[c]) /\ c \notin excused
    /\ Unexcused(c)' <=> call'[c].pc # "idle" /\ ~Reads(call'[c]) /\ c \notin excused'
BY DEF Unexcused, InCall, Reading, Reads

\* A step that moves one call, excuses nobody and takes no provider back.
LEMMA QuietStep ==
  ASSUME Shape, Reasons, NEW c \in Callers, NEW m, Moves(c, m), excused' = excused,
         Out \subseteq Out', \A g \in Good : IsAvailable(g) => IsAvailable(g)',
         currentIndex' = currentIndex \/ Writes(call[c]),
         call[c].pc = "read" => CanRead,
         m.pc = "idle" /\ m.last = "failed" => c \in excused,
         c \notin excused /\ m.pc # "idle" /\ ~Reads(m) => Unexcused(c) /\ Paid(m, Out'),
         Writes(m) => \/ Ahead(c)'
                      \/ \A d \in Callers : Unexcused(d) => d # c /\ Fresh(call[d])
  PROVE  Reasons'
<1>1. /\ call'[c] = m /\ \A d \in Callers : d # c => call'[d] = call[d]
      /\ \A d \in Callers : call[d] \in Calls
  BY DEF Shape, TypeOK, Moves
<1>2. \A d \in Callers : Unexcused(d)' => Unexcused(d)
  BY <1>1, UnexcusedIs
<1>3. FailedExcused'
  BY <1>1 DEF Reasons, FailedExcused
<1>4. AllPaid'
  <2> SUFFICES ASSUME NEW d \in Callers, Unexcused(d)' PROVE Paid(call'[d], Out')
    BY DEF AllPaid
  <2>1. CASE d = c
    BY <1>1, <2>1, UnexcusedIs
  <2>2. CASE d # c
    <3>1. Paid(call[d], Out) /\ call'[d] = call[d]
      BY <1>1, <1>2, <2>2 DEF Reasons, AllPaid
    <3>2. Out' \in SUBSET Faulty /\ Out \in SUBSET Out'
      BY DEF Out
    <3> QED
      BY <1>1, <3>1, <3>2, PaidGrows
  <2> QED
    BY <2>1, <2>2
<1>5. GoodInService'
  BY <1>2 DEF Reasons, GoodInService
<1>6. JustBegun'
  <2> SUFFICES ASSUME NEW h \in Callers, Writes(call'[h]),
                      NEW d \in Callers, Unexcused(d)', ~Fresh(call'[d])
               PROVE  Ahead(h)'
    BY DEF JustBegun
  <2>1. CASE h = c
    BY <1>1, <1>2, <2>1
  <2>2. CASE h # c
    <3>1. call'[h] = call[h] /\ Writes(call[h]) /\ Unexcused(d)
      BY <1>1, <1>2, <2>2
    <3>2. call[c].pc # "read" /\ ~Writes(call[c])
      BY <2>2, <3>1 DEF CanRead, Writing, Writes, Shape, Exclusive, Rests
    <3>3. Ahead(h) \/ Fresh(call[d])
      BY <3>1 DEF Reasons, JustBegun
    <3>4. ~Fresh(call[d])
      BY <1>1, <3>2 DEF Fresh
    <3> QED
      BY <3>1, <3>2, <3>3, <3>4 DEF Ahead, Nth
  <2> QED
    BY <2>1, <2>2
<1> QED
  BY <1>3, <1>4, <1>5, <1>6 DEF Reasons

\* Nobody is left without an excuse.
LEMMA AllExcused ==
  ASSUME Reasons, excused' = excused \cup InCall,
         \A d \in Callers : call'[d] = call[d] \/ d \in InCall \/ Reads(call'[d])
  PROVE  Reasons'
<1>1. \A d \in Callers : ~Unexcused(d)'
  BY UnexcusedIs DEF InCall, Reading, Reads
<1>2. FailedExcused'
  BY DEF Reasons, FailedExcused, Reads
<1> QED
  BY <1>1, <1>2 DEF Reasons, AllPaid, GoodInService, JustBegun

\* A call begins: with a working provider in service or with an excuse.
LEMMA BegunStep ==
  ASSUME Shape, Reasons, NEW c \in Callers, NEW m, Moves(c, m), Begun(c),
         UNCHANGED <<provider, currentIndex>>, m.attempt = 1, m.why = "attempt",
         \/ m.pc = "read" /\ m.mode = "any"
         \/ m.pc = "begin" /\ Reads(call[c])
  PROVE  Reasons'
<1>1. /\ call'[c] = m /\ \A d \in Callers : d # c => call'[d] = call[d]
  BY DEF Shape, TypeOK, Moves
<1>2. /\ \A d \in Callers : d # c => (d \in excused' <=> d \in excused)
      /\ c \notin excused' => \E g \in Good : IsAvailable(g)
  BY DEF Begun
<1>3. \A d \in Callers : d # c => (Unexcused(d)' <=> Unexcused(d))
  BY <1>1, <1>2, UnexcusedIs
<1>4. Out' = Out /\ \A p \in Providers : IsAvailable(p)' <=> IsAvailable(p)
  BY DEF Out, IsAvailable
<1>5. FailedExcused'
  BY <1>1, <1>2 DEF Reasons, FailedExcused
<1>6. AllPaid'
  <2>1. Cardinality(Out) \in Nat
    BY OutSize DEF Out
  <2>2. Paid(m, Out)
    BY <2>1 DEF Paid
  <2> QED
    BY <1>1, <1>3, <1>4, <2>2 DEF Reasons, AllPaid
<1>7. GoodInService'
  BY <1>2, <1>3, <1>4, UnexcusedIs DEF Reasons, GoodInService, Good
<1>8. JustBegun'
  <2> SUFFICES ASSUME NEW h \in Callers, Writes(call'[h]),
                      NEW d \in Callers, Unexcused(d)', ~Fresh(call'[d])
               PROVE  Ahead(h)'
    BY DEF JustBegun
  <2>1. h # c /\ call'[h] = call[h]
    BY <1>1 DEF Writes
  <2>2. d # c /\ call'[d] = call[d] /\ Unexcused(d)
    BY <1>1, <1>3, <2>1 DEF Shape, Exclusive, Rests, Fresh
  <2> QED
    BY <1>4, <2>1, <2>2 DEF Reasons, JustBegun, Ahead, Nth, IsAvailable
<1> QED
  BY <1>5, <1>6, <1>7, <1>8 DEF Reasons

LEMMA BeginReasons ==
  ASSUME Shape, Reasons, NEW c \in Callers, ExecuteWithRetry(c) \/ GetAvailableProviders(c)
  PROVE  Reasons'
<1>1. /\ call \in [Callers -> Calls] /\ call[c] \in Calls /\ call[c] = Idle(call[c].last)
  BY DEF Shape, TypeOK, Placed, ExecuteWithRetry, GetAvailableProviders
<1>2. /\ call[c].pc = "idle" /\ call[c].mode = "any" /\ call[c].why = "attempt"
      /\ call[c].attempt = 1 /\ call[c].at = 0 /\ 0 # NumProviders
  BY <1>1, FailoverAssumption DEF Idle
<1>3. PICK pc \in {"read", "gather"} :
        /\ call' = [call EXCEPT ![c].pc = pc, ![c].last = "none"]
        /\ pc = "gather" => CanRead /\ excused' = excused
        /\ pc = "read" => Begun(c)
  BY DEF ExecuteWithRetry, GetAvailableProviders
<1> DEFINE m == [call[c] EXCEPT !.pc = pc, !.last = "none"]
<1>4. /\ m \in Calls /\ m.pc = pc /\ m.mode = "any" /\ m.why = "attempt" /\ m.at = 0
      /\ m.attempt = 1
  BY <1>1, <1>2 DEF Calls
<1>5. call' = [call EXCEPT ![c] = m] /\ UNCHANGED <<provider, currentIndex>>
  BY <1>1, <1>3 DEF ExecuteWithRetry, GetAvailableProviders
<1>6. Placed(m)
  BY <1>2, <1>3, <1>4 DEF Placed, Reads
<1> HIDE DEF m
<1>7. Moves(c, m)
  BY <1>3, <1>4, <1>5, <1>6 DEF Moves, Writes, Reads
<1>8. CASE pc = "read"
  BY <1>3, <1>4, <1>5, <1>7, <1>8, BegunStep
<1>9. CASE pc = "gather"
  BY <1>2, <1>3, <1>4, <1>5, <1>7, <1>9, QuietStep DEF Out, IsAvailable, Reads, Writes
<1> QED
  BY <1>8, <1>9

\* A provider in service that is chosen costs nothing yet.
LEMMA GotPaid ==
  ASSUME Shape, Reasons, NEW c \in Callers, Unexcused(c), call[c].pc \in {"check", "scan"},
         NEW p \in Providers, IsAvailable(p)
  PROVE  Got(c, p).pc = "request" /\ Paid(Got(c, p), Out)
<1>1. call[c] \in Calls /\ Placed(call[c]) /\ Paid(call[c], Out)
  BY DEF Shape, TypeOK, Reasons, AllPaid
<1>2. Out \ {p} = Out
  BY DEF Out
<1>3. CASE call[c].why = "attempt"
  <2> DEFINE m == Got(c, p)
  <2>1. m = [call[c] EXCEPT !.pc = "request", !.using = p, !.at = 0] /\ call[c].mode = "any"
    BY <1>1, <1>3 DEF Got, Placed, Calls
  <2>2. /\ m.pc = "request" /\ m.using = p /\ m.why = "attempt" /\ m.mode = "any"
        /\ m.attempt = call[c].attempt
    BY <1>1, <1>3, <2>1 DEF Calls
  <2> HIDE DEF m
  <2>3. m.pc = "request" /\ Paid(m, Out)
    BY <1>1, <1>2, <2>2 DEF Paid
  <2> QED
    BY <2>3 DEF m
<1>4. CASE call[c].why = "switch"
  <2> DEFINE m == Got(c, p)
  <2>1. m = [call[c] EXCEPT !.pc = "request", !.using = p, !.own = p, !.at = 0]
    BY <1>4 DEF Got
  <2>2. /\ m.pc = "request" /\ m.using = p /\ m.why = "switch" /\ m.own = p
        /\ m.attempt = call[c].attempt
    BY <1>1, <1>4, <2>1 DEF Calls
  <2> HIDE DEF m
  <2>3. m.pc = "request" /\ Paid(m, Out)
    BY <1>1, <1>2, <2>2 DEF Paid
  <2> QED
    BY <2>3 DEF m
<1> QED
  BY <1>1, <1>3, <1>4 DEF Paid, Calls

\* An attempt that ends with one more provider out of service is paid for, and
\* the last one would take more faulty providers than there are.
LEMMA FailedPaid ==
  ASSUME Shape, Few, NEW c \in Callers, call[c].pc # "idle", call[c].why # "fallback",
         NEW out \in SUBSET Faulty, call[c].attempt <= Cardinality(out)
  PROVE  AttemptFailed(c).pc \in {"read", "begin"} /\ Paid(AttemptFailed(c), out)
<1>1. call[c] \in Calls /\ Placed(call[c])
  BY DEF Shape, TypeOK
<1>2. call[c].attempt \in Nat /\ MaxAttempts \in Nat
  BY <1>1, FailoverAssumption DEF Calls
<1>3. Cardinality(out) \in Nat /\ Cardinality(out) <= Cardinality(Faulty) /\ Cardinality(Faulty) \in Nat
  BY OutSize
<1>4. call[c].attempt # MaxAttempts
  BY <1>2, <1>3 DEF Few
<1>5. \E pc \in {"read", "begin"} :
        AttemptFailed(c) = [call[c] EXCEPT !.attempt = call[c].attempt + 1,
             !.why = "attempt", !.using = NoProvider, !.at = 0, !.pc = pc]
  BY <1>4 DEF AttemptFailed
<1>6. /\ AttemptFailed(c).pc \in {"read", "begin"} /\ AttemptFailed(c).why = "attempt"
      /\ AttemptFailed(c).attempt = call[c].attempt + 1
  BY <1>1, <1>5 DEF Calls
<1> QED
  BY <1>2, <1>3, <1>6 DEF Paid

\* The steps to a provider, those of the two loops with a recovery in them apart.
LEMMA ChooseReasons ==
  ASSUME Few, Shape, Reasons, NEW c \in Callers,
         \/ CheckExpired(c) \/ ReadCurrent(c) \/ CheckCurrent(c) \/ Search(c)
         \/ CollectAvailable(c) \/ BeginAttempt(c) \/ Review(c)
  PROVE  Reasons'
<1>1. call[c] \in Calls /\ Placed(call[c]) /\ TypeOK /\ UNCHANGED <<provider, currentIndex>>
  BY DEF Shape, TypeOK, CheckExpired, ReadCurrent, CheckCurrent, Search, CollectAvailable,
         BeginAttempt, Review
<1>2. Out' = Out /\ \A p \in Providers : IsAvailable(p)' <=> IsAvailable(p)
  BY <1>1 DEF Out, IsAvailable
<1>3. c \notin excused /\ call[c].pc # "idle" /\ ~Reads(call[c]) => Unexcused(c) /\ Paid(call[c], Out)
  BY UnexcusedIs DEF Reasons, AllPaid
<1>4. \A m : /\ Moves(c, m) /\ excused' = excused /\ ~Writes(m)
             /\ call[c].pc = "read" => CanRead
             /\ m.pc = "idle" /\ m.last = "failed" => c \in excused
             /\ c \notin excused /\ m.pc # "idle" /\ ~Reads(m) => Unexcused(c) /\ Paid(m, Out)
             => Reasons'
  BY <1>1, <1>2, QuietStep DEF Good
<1>5. CASE CheckExpired(c)
  <2>1. PICK m : /\ Moves(c, m) /\ m.mode = call[c].mode /\ m.why = call[c].why
                 /\ m.attempt = call[c].attempt
                 /\ Reading(c) => Reads(m)
                 /\ ~Reading(c) => m.pc \in {"recover", "recovering", "check"}
    BY <1>5, LoopMoves
  <2>2. call[c].pc \in {"gather", "recover"} /\ excused' = excused
    BY <1>5 DEF CheckExpired
  <2>3. ~Writes(m) /\ m.pc # "idle"
    BY <2>1, <2>2 DEF Writes, Reads, Reading
  <2>4. c \notin excused /\ ~Reads(m) => Unexcused(c) /\ Paid(m, Out)
    BY <1>3, <2>1, <2>2 DEF Paid, Reading, Reads
  <2> QED
    BY <1>4, <2>1, <2>2, <2>3, <2>4
<1>6. CASE ReadCurrent(c)
  <2>1. PICK m : /\ Moves(c, m) /\ m.pc = "recover" /\ m.why = call[c].why
                 /\ m.attempt = call[c].attempt
    BY <1>6, ReadMoves
  <2>2. call[c].pc = "read" /\ CanRead /\ excused' = excused
    BY <1>6 DEF ReadCurrent
  <2>3. c \notin excused => Unexcused(c) /\ Paid(m, Out)
    BY <1>3, <2>1, <2>2 DEF Paid, Reads
  <2> QED
    BY <1>4, <2>1, <2>2, <2>3 DEF Writes
<1>7. CASE CheckCurrent(c)
  <2>1. call[c].pc = "check" /\ excused' = excused
    BY <1>7 DEF CheckCurrent
  <2>2. CASE /\ call[c].using \in Providers /\ IsAvailable(call[c].using)
             /\ Moves(c, Got(c, call[c].using))
             /\ Got(c, call[c].using).pc \in {"request", "idle", "read", "begin"}
    <3> DEFINE m == Got(c, call[c].using)
    <3>1. c \notin excused => Unexcused(c) /\ m.pc = "request" /\ Paid(m, Out)
      BY <1>3, <2>1, <2>2, GotPaid DEF Reads
    <3>2. Moves(c, m) /\ ~Writes(m)
      BY <2>2 DEF Writes
    <3> HIDE DEF m
    <3> QED
      BY <1>4, <2>1, <3>1, <3>2
  <2>3. CASE \E m : /\ Moves(c, m) /\ m.pc = "search" /\ m.why = call[c].why
                    /\ m.attempt = call[c].attempt
    <3>1. PICK m : /\ Moves(c, m) /\ m.pc = "search" /\ m.why = call[c].why
                   /\ m.attempt = call[c].attempt
      BY <2>3
    <3>2. c \notin excused => Unexcused(c) /\ Paid(m, Out)
      BY <1>3, <2>1, <3>1 DEF Paid, Reads
    <3> QED
      BY <1>4, <2>1, <3>1, <3>2 DEF Writes
  <2> QED
    BY <1>7, <2>2, <2>3, CheckMoves
<1>8. CASE Search(c)
  <2>1. PICK m : /\ Moves(c, m) /\ m.pc = "scan" /\ m.at = 1 /\ m.why = call[c].why
                 /\ m.attempt = call[c].attempt
    BY <1>8, SearchMoves
  <2>2. call[c].pc = "search" /\ excused' = excused
    BY <1>8 DEF Search
  <2>3. c \notin excused => Unexcused(c) /\ Paid(m, Out)
    BY <1>3, <2>1, <2>2 DEF Paid, Reads
  <2>4. CASE \A d \in Callers : ~Unexcused(d)
    BY <1>1, <1>2, <2>1, <2>2, <2>3, <2>4, QuietStep DEF Good
  <2>5. CASE \E d \in Callers : Unexcused(d)
    <3>1. PICK g \in Good : IsAvailable(g)
      BY <2>5 DEF Reasons, GoodInService
    <3>2. PICK i \in 1..NumProviders : Nth(i) = g
      BY <1>1, <3>1, NthReaches DEF Good
    <3>3. call'[c] = m
      BY <1>1, <2>1 DEF Moves, TypeOK
    <3>4. Ahead(c)'
      BY <1>1, <2>1, <3>1, <3>2, <3>3 DEF Ahead, Nth, IsAvailable
    <3> QED
      BY <1>1, <1>2, <2>1, <2>2, <2>3, <3>4, QuietStep DEF Good
  <2> QED
    BY <2>4, <2>5
<1>9. CASE CollectAvailable(c)
  <2>1. PICK m : /\ Moves(c, m) /\ m.attempt = 1 /\ m.why = "attempt"
                 /\ \/ m.pc = "begin" /\ Begun(c)
                    \/ m.pc = "gather" /\ UNCHANGED excused
                    \/ m.pc = "idle" /\ m.last = "none" /\ UNCHANGED excused
    BY <1>9, CollectMoves
  <2>2. Reads(call[c]) /\ call[c].pc # "read"
    BY <1>9 DEF CollectAvailable, Reads
  <2>3. CASE m.pc = "begin" /\ Begun(c)
    BY <1>1, <2>1, <2>2, <2>3, BegunStep
  <2>4. CASE m.pc # "begin"
    BY <1>4, <2>1, <2>2, <2>4 DEF Writes, Reads
  <2> QED
    BY <2>1, <2>3, <2>4
<1>10. CASE BeginAttempt(c)
  <2>1. PICK m : /\ Moves(c, m) /\ m.mode = "pinned" /\ m.own = call[c].own
                 /\ m.attempt = call[c].attempt
                 /\ \/ m.pc = "read" /\ m.why = "switch"
                    \/ /\ m.pc = "request" /\ m.why = call[c].why /\ m.using = call[c].own
                       /\ provider[call[c].own].State # "blacklisted"
    BY <1>10, AttemptMoves
  <2>2. call[c].pc = "begin" /\ call[c].why = "attempt" /\ excused' = excused
    BY <1>1, <1>10 DEF BeginAttempt, Placed
  <2>3. m.pc = "request" => Out \ {m.using} = Out
    BY <2>1 DEF Out, IsAvailable
  <2>4. c \notin excused => Unexcused(c) /\ Paid(m, Out)
    BY <1>3, <2>1, <2>2, <2>3 DEF Paid, Reads
  <2> QED
    BY <1>4, <2>1, <2>2, <2>4 DEF Writes
<1>11. CASE Review(c)
  <2>1. call[c].pc = "review" /\ excused' = excused
    BY <1>11 DEF Review
  <2>2. c \notin excused => /\ call[c].own \in Out /\ call[c].attempt <= Cardinality(Out)
                            /\ call[c].why # "fallback" /\ Unexcused(c)
    BY <1>3, <2>1 DEF Paid, Reads
  <2>3. CASE /\ Moves(c, AttemptFailed(c))
             /\ AttemptFailed(c).pc \in {"idle", "read", "begin"}
    <3> DEFINE m == AttemptFailed(c)
    <3>1. c \notin excused => Unexcused(c) /\ m.pc # "idle" /\ Paid(m, Out)
      <4>1. Out \in SUBSET Faulty
        BY DEF Out
      <4> QED
        BY <2>1, <2>2, <4>1, FailedPaid
    <3>2. Moves(c, m) /\ ~Writes(m)
      BY <2>3 DEF Writes
    <3> HIDE DEF m
    <3> QED
      BY <1>4, <2>1, <3>1, <3>2
  <2>4. CASE /\ provider[call[c].own].State # "blacklisted"
             /\ \E m : Moves(c, m) /\ m.pc = "read"
    <3>1. c \in excused
      BY <2>2, <2>4 DEF Out, IsAvailable
    <3> QED
      BY <1>4, <2>1, <2>4, <3>1 DEF Writes
  <2> QED
    BY <1>11, <2>3, <2>4, ReviewMoves
<1> QED
  BY <1>5, <1>6, <1>7, <1>8, <1>9, <1>10, <1>11

\* The search takes the first provider it finds in service.  It gives up only when the
\* working one is behind it, and then it began before whoever has no excuse.
LEMMA SearchReasons ==
  ASSUME Shape, Reasons, NEW c \in Callers, FindNextAvailableProvider(c)
  PROVE  Reasons'
<1>1. /\ call \in [Callers -> Calls] /\ call[c] \in Calls /\ call[c].pc = "scan"
      /\ excused' = excused /\ provider' = provider /\ Writes(call[c])
  BY DEF Shape, TypeOK, FindNextAvailableProvider, Writes
<1>2. Out' = Out /\ \A p \in Providers : IsAvailable(p)' <=> IsAvailable(p)
  BY <1>1 DEF Out, IsAvailable
<1>3. c \notin excused => Unexcused(c) /\ Paid(call[c], Out)
  BY <1>1, UnexcusedIs DEF Reasons, AllPaid, Reads
<1>4. CASE /\ Nth(call[c].at) \in Providers /\ IsAvailable(Nth(call[c].at))
           /\ Moves(c, Got(c, Nth(call[c].at)))
           /\ Got(c, Nth(call[c].at)).pc \in {"request", "idle", "read", "begin"}
  <2> DEFINE m == Got(c, Nth(call[c].at))
  <2>1. c \notin excused => Unexcused(c) /\ m.pc = "request" /\ Paid(m, Out)
    BY <1>1, <1>3, <1>4, GotPaid
  <2>2. Moves(c, m) /\ ~Writes(m)
    BY <1>4 DEF Writes
  <2> HIDE DEF m
  <2> QED
    BY <1>1, <1>2, <2>1, <2>2, QuietStep DEF Good
<1>5. CASE /\ ~IsAvailable(Nth(call[c].at)) /\ UNCHANGED currentIndex
           /\ \E m : /\ Moves(c, m) /\ m.why = call[c].why /\ m.attempt = call[c].attempt
                     /\ \/ m.pc = "scan" /\ m.at = call[c].at + 1
                        \/ m.pc = "emergency" /\ call[c].at = NumProviders
  <2>1. PICK m : /\ Moves(c, m) /\ m.why = call[c].why /\ m.attempt = call[c].attempt
                 /\ \/ m.pc = "scan" /\ m.at = call[c].at + 1
                    \/ m.pc = "emergency" /\ call[c].at = NumProviders
    BY <1>5
  <2>2. call'[c] = m /\ call[c].at \in Nat /\ NumProviders \in Nat
    BY <1>1, <2>1, FailoverAssumption DEF Moves, Calls
  <2>3. CASE Ahead(c)
    <3>1. PICK i \in call[c].at..NumProviders : Nth(i) \in Good /\ IsAvailable(Nth(i))
      BY <2>3 DEF Ahead
    <3>2. i # call[c].at
      BY <1>5, <3>1
    <3>3. m.pc = "scan" /\ i \in m.at..NumProviders
      BY <2>1, <2>2, <3>1, <3>2
    <3>4. Ahead(c)'
      BY <1>1, <1>5, <2>2, <3>1, <3>3 DEF Ahead, Nth, IsAvailable
    <3>5. c \notin excused => Unexcused(c) /\ Paid(m, Out)
      BY <1>1, <1>3, <2>1, <3>3 DEF Paid
    <3> QED
      BY <1>1, <1>2, <2>1, <3>3, <3>4, <3>5, QuietStep DEF Good
  <2>4. CASE ~Ahead(c)
    <3>1. \A d \in Callers : Unexcused(d) => d # c /\ Fresh(call[d])
      BY <1>1, <2>4 DEF Reasons, JustBegun, Fresh
    <3> QED
      BY <1>1, <1>2, <1>3, <2>1, <3>1, QuietStep DEF Good
  <2> QED
    BY <2>3, <2>4
<1> QED
  BY <1>4, <1>5, ScanMoves

\* Whoever recovers a provider in an emergency has an excuse; those without one have
\* used no attempt.
LEMMA EmergencyReasons ==
  ASSUME Shape, Reasons, NEW c \in Callers, CollectBlacklisted(c) \/ EmergencyRecovery(c)
  PROVE  Reasons'
<1>1. /\ call \in [Callers -> Calls] /\ call[c].pc \in {"emergency", "rescue"}
      /\ excused' = excused /\ Writes(call[c]) /\ \A d \in Callers : call[d] \in Calls
  BY DEF Shape, TypeOK, CollectBlacklisted, EmergencyRecovery, Writes
<1>2. \A d \in Callers : Unexcused(d) => d # c /\ Fresh(call[d])
  BY <1>1 DEF Reasons, JustBegun, Ahead, Fresh
<1>3. c \in excused
  BY <1>1, <1>2, UnexcusedIs DEF Reads
<1>4. PICK m : /\ Moves(c, m)
               /\ CollectBlacklisted(c) => m.pc \in {"emergency", "rescue"}
               /\ EmergencyRecovery(c) => m.pc \in {"request", "idle", "read", "begin"}
  BY EmergencyMoves
<1>5. /\ call'[c] = m /\ \A d \in Callers : d # c => call'[d] = call[d]
  BY <1>1, <1>4 DEF Moves
<1>6. \A p \in Providers : IsAvailable(p) => IsAvailable(p)'
  BY EmergencyMoves
<1>7. CASE CollectBlacklisted(c)
  <2>1. Out' = Out /\ c \in excused /\ UNCHANGED currentIndex
    BY <1>3, <1>7 DEF CollectBlacklisted, Out, IsAvailable
  <2> QED
    BY <1>1, <1>2, <1>3, <1>4, <1>6, <2>1, QuietStep DEF Good
<1>8. CASE EmergencyRecovery(c)
  <2>1. \A d \in Callers : Unexcused(d)' =>
          Unexcused(d) /\ call'[d] = call[d] /\ Fresh(call[d])
    BY <1>1, <1>2, <1>3, <1>5, UnexcusedIs
  <2>2. FailedExcused'
    BY <1>1, <1>3, <1>5 DEF Reasons, FailedExcused
  <2>3. AllPaid'
    <3> SUFFICES ASSUME NEW d \in Callers, Unexcused(d)' PROVE Paid(call'[d], Out')
      BY DEF AllPaid
    <3>1. Paid(call[d], Out) /\ call'[d] = call[d] /\ call[d].pc = "read" /\ call[d].attempt = 1
      BY <2>1 DEF Reasons, AllPaid, Fresh
    <3>2. Cardinality(Out') \in Nat
      <4>1. Out' \in SUBSET Faulty
        BY DEF Out
      <4> QED
        BY <4>1, OutSize
    <3> QED
      BY <3>1, <3>2 DEF Paid
  <2>4. GoodInService'
    BY <1>6, <2>1 DEF Reasons, GoodInService, Good
  <2>5. JustBegun'
    BY <2>1 DEF JustBegun
  <2> QED
    BY <2>2, <2>3, <2>4, <2>5 DEF Reasons
<1> QED
  BY <1>7, <1>8

\* A provider whose cooldown is over was in service already.  One that was blacklisted
\* since it was looked at excuses everyone, unless it is a working one.
LEMMA RecoverReasons ==
  ASSUME Shape, Reasons, NEW c \in Callers, RecoverExpired(c)
  PROVE  Reasons'
<1>1. /\ call \in [Callers -> Calls] /\ call[c] \in Calls /\ Placed(call[c])
      /\ call[c].pc \in {"gathering", "recovering"} /\ UNCHANGED currentIndex
      /\ provider' = [provider EXCEPT ![call[c].at] = Recovered]
      /\ provider \in [Providers -> ProviderStates]
  BY DEF Shape, TypeOK, RecoverExpired, ProviderStates
<1>2. PICK m : /\ Moves(c, m) /\ m.mode = call[c].mode /\ m.why = call[c].why
               /\ m.attempt = call[c].attempt
               /\ Reading(c) => Reads(m)
               /\ ~Reading(c) => m.pc \in {"recover", "recovering", "check"}
  BY LoopMoves
<1>3. call'[c] = m /\ \A d \in Callers : d # c => call'[d] = call[d]
  BY <1>1, <1>2 DEF Moves
<1>4. CASE excused' = excused \cup InCall
  <2>1. c \in InCall \/ Reads(m)
    BY <1>1, <1>2 DEF InCall
  <2> QED
    BY <1>3, <1>4, <2>1, AllExcused
<1>5. CASE (IsAvailable(call[c].at) \/ call[c].at \in Good) /\ excused' = excused
  <2>1. \A p \in Providers :
          /\ p # call[c].at => provider'[p] = provider[p]
          /\ p = call[c].at => IsAvailable(p)'
    BY <1>1 DEF IsAvailable, Recovered
  <2>2. \A p \in Providers : IsAvailable(p) => IsAvailable(p)'
    BY <2>1 DEF IsAvailable
  <2>3. Out \subseteq Out'
    BY <1>5, <2>1, FailoverAssumption DEF Out, Good, IsAvailable
  <2>4. Out' = Out
    BY <2>2, <2>3, FailoverAssumption DEF Out
  <2>5. c \notin excused /\ ~Reads(m) => Unexcused(c) /\ Paid(m, Out)
    <3> SUFFICES ASSUME c \notin excused, ~Reads(m) PROVE Unexcused(c) /\ Paid(m, Out)
      OBVIOUS
    <3>1. ~Reading(c) /\ call[c].pc = "recovering"
      BY <1>1, <1>2 DEF Reading
    <3>2. Unexcused(c) /\ Paid(call[c], Out)
      BY <3>1, UnexcusedIs DEF Reasons, AllPaid, Reads
    <3> QED
      BY <1>2, <3>1, <3>2 DEF Paid
  <2>6. ~Writes(m) /\ m.pc # "idle" /\ call[c].pc # "read"
    BY <1>1, <1>2 DEF Writes, Reads
  <2> QED
    BY <1>1, <1>2, <1>5, <2>2, <2>4, <2>5, <2>6, QuietStep DEF Good
<1> QED
  BY <1>4, <1>5 DEF RecoverExpired

LEMMA AnswerReasons ==
  ASSUME Few, Shape, Reasons, NEW c \in Callers, Answer(c)
  PROVE  Reasons'
<1>1. /\ call[c] \in Calls /\ Placed(call[c]) /\ TypeOK /\ call[c].pc = "request"
      /\ call[c].using \in Providers /\ currentIndex' = currentIndex
      /\ c \in InCall /\ ~Reads(call[c])
  BY DEF Shape, TypeOK, Placed, Answer, Succeeds, FailsMarked, FailsGeneric, InCall, Reading, Reads
<1>2. \A d \in Callers : call'[d] = call[d] \/ d = c
  BY <1>1 DEF Answer, Succeeds, FailsMarked, FailsGeneric, TypeOK
<1>3. CASE Fault
  <2>1. excused' = excused \cup InCall
    BY <1>3 DEF Fault
  <2> QED
    BY <1>1, <1>2, <2>1, AllExcused
<1>4. c \notin excused => Unexcused(c) /\ Paid(call[c], Out)
  BY <1>1, UnexcusedIs DEF Reasons, AllPaid
<1>5. CASE Succeeds(c) /\ ~Fault
  <2>1. call[c].using \notin Faulty /\ excused' = excused
    BY <1>5 DEF Succeeds, NoFault
  <2>2. \A p \in Providers : p # call[c].using => provider'[p] = provider[p]
    BY <1>1, <1>5 DEF Succeeds, TypeOK
  <2>3. provider'[call[c].using].State = "healthy"
    BY <1>1, <1>5 DEF Succeeds, Success, TypeOK
  <2>4. Out' = Out
    BY <2>1, <2>2, FailoverAssumption DEF Out, IsAvailable
  <2>5. \A g \in Good : IsAvailable(g) => IsAvailable(g)'
    BY <2>2, <2>3 DEF Good, IsAvailable
  <2> DEFINE m == Idle("ok")
  <2>6. m \in Calls /\ Placed(m) /\ m.pc = "idle" /\ m.last = "ok"
    BY FailoverAssumption DEF Idle, Calls, Placed, Reads
  <2>7. call' = [call EXCEPT ![c] = m]
    BY <1>5 DEF Succeeds
  <2> HIDE DEF m
  <2>8. Moves(c, m) /\ ~Writes(m)
    BY <2>6, <2>7 DEF Moves, Writes, Reads
  <2> QED
    BY <1>1, <2>1, <2>4, <2>5, <2>6, <2>8, QuietStep
<1>6. CASE FailsMarked(c) /\ ~Fault
  <2>1. call[c].using \in Faulty /\ excused' = excused
    BY <1>1, <1>6 DEF FailsMarked, NoFault, Good
  <2>2. \A p \in Providers : p # call[c].using => provider'[p] = provider[p]
    BY <1>1, <1>6 DEF FailsMarked, TypeOK
  <2>3. /\ provider'[call[c].using].State = "blacklisted"
        /\ provider'[call[c].using].over = FALSE
    BY <1>1, <1>6 DEF FailsMarked, Blacklist, TypeOK
  <2>4. Out' = Out \cup {call[c].using}
    BY <2>1, <2>2, <2>3, FailoverAssumption DEF Out, IsAvailable
  <2>5. \A g \in Good : IsAvailable(g) => IsAvailable(g)'
    BY <2>1, <2>2 DEF Good, IsAvailable
  <2> DEFINE m == AfterError(c)
  <2>6. m \in Calls /\ Placed(m) /\ m.pc \in {"review", "idle", "read", "begin"}
    BY <1>1, AfterErrorType
  <2>7. call' = [call EXCEPT ![c] = m]
    BY <1>6 DEF FailsMarked
  <2>8. Moves(c, m) /\ ~Writes(m)
    BY <2>6, <2>7 DEF Moves, Writes, Reads
  <2>9. c \notin excused => Unexcused(c) /\ m.pc # "idle" /\ Paid(m, Out')
    <3> SUFFICES ASSUME c \notin excused
                 PROVE  AfterError(c).pc # "idle" /\ Paid(AfterError(c), Out')
      BY <1>4
    <3>1. Out' \in SUBSET Faulty /\ Out \ {call[c].using} \in SUBSET Faulty
      BY DEF Out
    <3>2. call[c].attempt <= Cardinality(Out')
      <4>1. Out' = (Out \ {call[c].using}) \cup {call[c].using}
        BY <2>4
      <4>2. Cardinality(Out') = Cardinality(Out \ {call[c].using}) + 1
        BY <3>1, <4>1, OutSize, FS_AddElement
      <4> QED
        BY <1>1, <1>4, <4>2 DEF Paid
    <3>3. call[c].why # "fallback"
      BY <1>4 DEF Paid
    <3>4. CASE call[c].mode = "pinned"
      <4>1. AfterError(c) = [call[c] EXCEPT !.pc = "review", !.using = NoProvider]
        BY <3>3, <3>4 DEF AfterError
      <4>2. call[c].own \in Out'
        BY <1>1, <1>4, <2>4, <3>4 DEF Paid
      <4>3. /\ AfterError(c).pc = "review" /\ AfterError(c).own = call[c].own
            /\ AfterError(c).attempt = call[c].attempt /\ AfterError(c).why # "fallback"
        BY <1>1, <3>3, <4>1 DEF Calls
      <4> QED
        BY <3>2, <4>2, <4>3 DEF Paid
    <3>5. CASE call[c].mode # "pinned"
      <4>1. AfterError(c) = AttemptFailed(c)
        BY <3>5 DEF AfterError
      <4> QED
        BY <1>1, <3>1, <3>2, <3>3, <4>1, FailedPaid
    <3> QED
      BY <3>4, <3>5
  <2> HIDE DEF m
  <2> QED
    BY <1>1, <2>1, <2>4, <2>5, <2>8, <2>9, QuietStep
<1> QED
  BY <1>3, <1>5, <1>6 DEF Answer, FailsGeneric

LEMMA CooldownReasons ==
  ASSUME Shape, Reasons, NEW p \in Providers, CooldownEnds(p)
  PROVE  Reasons'
<1>1. CASE Fault
  BY <1>1, AllExcused DEF CooldownEnds, Fault
<1>2. CASE ~Fault
  <2>1. p \notin Faulty /\ excused' = excused /\ call' = call /\ currentIndex' = currentIndex
    BY <1>2 DEF CooldownEnds, NoFault
  <2>2. \A q \in Providers : q # p => provider'[q] = provider[q]
    BY DEF CooldownEnds, Shape, TypeOK
  <2>3. Out' = Out
    BY <2>1, <2>2, FailoverAssumption DEF Out, IsAvailable
  <2>4. provider'[p].over = TRUE
    BY DEF CooldownEnds, Shape, TypeOK
  <2>5. \A g \in Good : IsAvailable(g) => IsAvailable(g)'
    BY <2>2, <2>4 DEF Good, IsAvailable
  <2>6. \A c \in Callers : /\ Unexcused(c)' <=> Unexcused(c)
                           /\ Ahead(c) => Ahead(c)'
    BY <2>1, <2>5, UnexcusedIs DEF Ahead, Nth
  <2> QED
    BY <2>1, <2>3, <2>5, <2>6 DEF Reasons, FailedExcused, AllPaid, GoodInService, JustBegun
<1> QED
  BY <1>1, <1>2

LEMMA ReasonsInvariant ==
  ASSUME Few
  PROVE  Spec => []Reasons
<1>1. Init => Reasons
  BY UnexcusedIs DEF Init, Reasons, FailedExcused, AllPaid, GoodInService, JustBegun, Idle, Writes
<1>2. Shape /\ Reasons /\ [Next]_vars => Reasons'
  <2> SUFFICES ASSUME Shape, Reasons, [Next]_vars PROVE Reasons'
    OBVIOUS
  <2>1. CASE UNCHANGED vars
    <3>1. \A c \in Callers : (Unexcused(c)' <=> Unexcused(c)) /\ (Ahead(c)' <=> Ahead(c))
      BY <2>1, UnexcusedIs DEF vars, Ahead, Nth, IsAvailable
    <3> QED
      BY <2>1, <3>1 DEF vars, Reasons, FailedExcused, AllPaid, GoodInService, JustBegun, Out,
                        IsAvailable
  <2>2. ASSUME NEW c \in Callers, Choose(c) PROVE Reasons'
    BY <2>2, ChooseReasons, SearchReasons, EmergencyReasons, RecoverReasons DEF Choose
  <2> QED
    BY <2>1, <2>2, BeginReasons, AnswerReasons, CooldownReasons DEF Next
<1> QED
  BY <1>1, <1>2, ShapeInvariant, PTL DEF Spec

\* A call that began with a working provider in service, and of which nothing but
\* the faulty providers failed, never runs out of attempts, for every number of
\* providers, callers and attempts with fewer faulty providers than attempts.
THEOREM FailuresHaveReasons == Spec => []FailsForAReason
<1>1. CASE Few
  <2>1. Reasons => FailsForAReason
    BY DEF Reasons, FailedExcused, FailsForAReason
  <2> QED
    BY <1>1, <2>1, ReasonsInvariant, PTL
<1>2. CASE ~Few
  <2>1. FailsForAReason
    BY <1>2 DEF Few, FailsForAReason
  <2> QED
    BY <2>1, PTL
<1> QED
  BY <1>1, <1>2
=============================================================================
