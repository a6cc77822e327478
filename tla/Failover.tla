------------------------------- MODULE Failover -------------------------------
(***************************************************************************)
(* The pool of RPC providers of one chain, shared by the goroutines that   *)
(* fetch its blocks.  A call is tried MaxAttempts times, each time on the  *)
(* provider that is current if it is in service, else on the next one that *)
(* is; an error of the kinds analyzeError knows takes the provider out of  *)
(* service until its cooldown has passed, any other is only counted.       *)
(*                                                                         *)
(* Some providers are Faulty: every request to them ends in an error that  *)
(* blacklists them.  What else happens, MaxFaults times in all, is an      *)
(* error of one of the others, an error of no known kind, a success of a   *)
(* faulty provider, or the end of a faulty provider's cooldown.            *)
(***************************************************************************)
EXTENDS Integers, FiniteSets

CONSTANTS
  NumProviders,
  Faulty,
  Callers,
  MaxAttempts,       \* retry.DefaultMaxAttempts
  ErrorThreshold,
  MaxFaults          \* bound, see above

Providers == 0..(NumProviders - 1)
Good == Providers \ Faulty
NoProvider == -1

ASSUME FailoverAssumption ==
  /\ {NumProviders, MaxAttempts, ErrorThreshold} \subseteq Nat \ {0}
  /\ Faulty \subseteq Providers /\ Good # {}
  /\ MaxFaults \in Nat

VARIABLES
  provider,      \* State, ConsecutiveErrors, and whether BlacklistedUntil has passed
  currentIndex,
  call,          \* each caller's call: where it is, see Calls
  excused,       \* callers in whose call something other than faulty providers failing happened
  faults

vars == <<provider, currentIndex, call, excused, faults>>

(* A call's mode is "any" (ExecuteWithRetry) or "pinned" (ExecuteWithRetryProvider), *)
(* and then `own` is its provider.  `using` is the provider the step at hand is about, *)
(* or the current one as it was read.  `why` is what GetBestProvider was called for.   *)
(* `at` is where a loop over the providers is: "gather", "gathering" and "collect" are *)
(* that of GetAvailableProviders, "recover" and "recovering" that of                   *)
(* recoverExpiredBlacklists, "scan" the search and "emergency" what follows it.        *)
Calls ==
  [pc : {"idle", "gather", "gathering", "collect", "begin", "read", "recover", "recovering",
         "check", "search", "scan", "emergency", "rescue", "request", "review"},
   mode : {"any", "pinned"}, why : {"attempt", "switch", "fallback"},
   attempt : 1..MaxAttempts, at : 0..NumProviders,
   own : Providers \cup {NoProvider}, using : Providers \cup {NoProvider},
   last : {"none", "ok", "failed"}]

TypeOK ==
  /\ provider \in [Providers ->
       [State : {"healthy", "degraded", "unhealthy", "blacklisted"},
        errors : 0..ErrorThreshold, over : BOOLEAN]]
  /\ currentIndex \in Providers
  /\ call \in [Callers -> Calls]
  /\ excused \subseteq Callers
  /\ faults \in 0..MaxFaults

Idle(last) == [pc |-> "idle", mode |-> "any", why |-> "attempt", attempt |-> 1, at |-> 0,
               own |-> NoProvider, using |-> NoProvider, last |-> last]

Init ==
  /\ provider = [p \in Providers |-> [State |-> "healthy", errors |-> 0, over |-> FALSE]]
  /\ currentIndex = 0
  /\ call = [c \in Callers |-> Idle("none")]
  /\ excused = {}
  /\ faults = 0

-----------------------------------------------------------------------------
(* Provider.                                                               *)

IsAvailable(p) == provider[p].State # "blacklisted" \/ provider[p].over
IsExpiredBlacklist(p) == provider[p].State = "blacklisted" /\ provider[p].over

Recovered == [State |-> "degraded", errors |-> 0, over |-> FALSE]

Blacklist(p) == [provider[p] EXCEPT !.State = "blacklisted", !.over = FALSE]

Success(p) == [State |-> "healthy", errors |-> 0, over |-> FALSE]

\* The count is capped at the threshold, past which it means nothing new.
Fail(p) ==
  LET n == IF provider[p].errors < ErrorThreshold THEN provider[p].errors + 1 ELSE ErrorThreshold IN
  IF n >= ErrorThreshold THEN [State |-> "unhealthy", errors |-> n, over |-> FALSE]
  ELSE IF n >= 2 THEN [State |-> "degraded", errors |-> n, over |-> FALSE]
  ELSE [provider[p] EXCEPT !.errors = n]

-----------------------------------------------------------------------------
(* One call.                                                               *)

\* f.mu is held by whoever searches, to the end of the emergency recovery, and shared by
\* those in GetAvailableProviders.
Writing(c) == call[c].pc \in {"scan", "emergency", "rescue"}
Reading(c) == call[c].pc \in {"gather", "gathering", "collect"}
CanRead == \A c \in Callers : ~Writing(c)
CanWrite == \A c \in Callers : ~Writing(c) /\ ~Reading(c)

InCall == {c \in Callers : call[c].pc # "idle" /\ ~Reading(c)}

\* What the attempt fails to, as retry.Constant does: the next one or the end.
AttemptFailed(c) ==
  IF call[c].attempt = MaxAttempts THEN Idle("failed")
  ELSE [call[c] EXCEPT !.attempt = @ + 1, !.why = "attempt", !.using = NoProvider, !.at = 0,
                       !.pc = IF call[c].mode = "any" THEN "read" ELSE "begin"]

\* GetBestProvider returns p: what its caller does with it.
Got(c, p) ==
  CASE call[c].why = "attempt" -> [call[c] EXCEPT !.pc = "request", !.using = p, !.at = 0]
    [] call[c].why = "switch" ->
         [call[c] EXCEPT !.pc = "request", !.using = p, !.own = p, !.at = 0]
    [] call[c].why = "fallback" ->
         IF p = call[c].own THEN AttemptFailed(c)
         ELSE [call[c] EXCEPT !.pc = "request", !.using = p, !.at = 0]

\* GetBestProvider returns an error.
GotNone(c) ==
  IF call[c].why = "switch"
  THEN [call[c] EXCEPT !.pc = "request", !.using = call[c].own, !.at = 0]
  ELSE AttemptFailed(c)

Begun(c) == excused' = IF \E p \in Good : IsAvailable(p) THEN excused \ {c} ELSE excused \cup {c}

\* ExecuteWithRetry
ExecuteWithRetry(c) ==
  /\ call[c].pc = "idle"
  /\ call' = [call EXCEPT ![c].pc = "read", ![c].last = "none"]
  /\ Begun(c)
  /\ UNCHANGED <<provider, currentIndex, faults>>

\* GetAvailableProviders, and then ExecuteWithRetryProvider with one of them.
GetAvailableProviders(c) ==
  /\ call[c].pc = "idle" /\ CanRead
  /\ call' = [call EXCEPT ![c].pc = "gather", ![c].last = "none"]
  /\ UNCHANGED <<provider, currentIndex, excused, faults>>

\* In the loops over the providers: is the blacklisting of this one expired?  The
\* answer is of the past when the next step is made.
Dealt(c) ==
  IF Reading(c) THEN [call[c] EXCEPT !.pc = "collect"]
  ELSE IF call[c].at = NumProviders - 1 THEN [call[c] EXCEPT !.pc = "check", !.at = 0]
  ELSE [call[c] EXCEPT !.pc = "recover", !.at = @ + 1]

CheckExpired(c) ==
  /\ call[c].pc \in {"gather", "recover"}
  /\ call' = [call EXCEPT ![c] =
       IF ~IsExpiredBlacklist(@.at) THEN Dealt(c)
       ELSE [@ EXCEPT !.pc = IF Reading(c) THEN "gathering" ELSE "recovering"]]
  /\ UNCHANGED <<provider, currentIndex, excused, faults>>

\* A faulty provider that was blacklisted anew since is in service again, which
\* excuses whoever comes to it.
RecoverExpired(c) ==
  /\ call[c].pc \in {"gathering", "recovering"}
  /\ provider' = [provider EXCEPT ![call[c].at] = Recovered]
  /\ call' = [call EXCEPT ![c] = Dealt(c)]
  /\ excused' = IF IsAvailable(call[c].at) \/ call[c].at \in Good THEN excused
                ELSE excused \cup InCall
  /\ UNCHANGED <<currentIndex, faults>>

\* The provider, if it is available, joins those of which the caller takes one.  After
\* the last the call begins, or there is none.
CollectAvailable(c) ==
  /\ call[c].pc = "collect"
  /\ \E own \in IF IsAvailable(call[c].at) THEN {call[c].at} \cup ({call[c].own} \ {NoProvider})
                 ELSE {call[c].own} :
       IF call[c].at < NumProviders - 1
       THEN /\ call' = [call EXCEPT ![c].pc = "gather", ![c].at = @ + 1, ![c].own = own]
            /\ UNCHANGED excused
       ELSE IF own = NoProvider
       THEN call' = [call EXCEPT ![c] = Idle("none")] /\ UNCHANGED excused
       ELSE /\ call' = [call EXCEPT ![c].pc = "begin", ![c].mode = "pinned", ![c].at = 0,
                                    ![c].own = own]
            /\ Begun(c)
  /\ UNCHANGED <<provider, currentIndex, faults>>

\* An attempt on the caller's own provider, unless that is blacklisted by now.
BeginAttempt(c) ==
  /\ call[c].pc = "begin"
  /\ call' = [call EXCEPT ![c] =
       IF provider[@.own].State = "blacklisted"
       THEN [@ EXCEPT !.pc = "read", !.why = "switch"]
       ELSE [@ EXCEPT !.pc = "request", !.using = call[c].own]]
  /\ UNCHANGED <<provider, currentIndex, excused, faults>>

\* GetBestProvider copies the index and lets go of the lock.
ReadCurrent(c) ==
  /\ call[c].pc = "read" /\ CanRead
  /\ call' = [call EXCEPT ![c].pc = "recover", ![c].using = currentIndex]
  /\ UNCHANGED <<provider, currentIndex, excused, faults>>

CheckCurrent(c) ==
  /\ call[c].pc = "check"
  /\ IF IsAvailable(call[c].using)
     THEN call' = [call EXCEPT ![c] = Got(c, call[c].using)]
     ELSE call' = [call EXCEPT ![c].pc = "search", ![c].using = NoProvider]
  /\ UNCHANGED <<provider, currentIndex, excused, faults>>

\* findNextAvailableProvider: from the index as it is now, not as it was read.
Search(c) ==
  /\ call[c].pc = "search" /\ CanWrite
  /\ call' = [call EXCEPT ![c].pc = "scan", ![c].at = 1]
  /\ UNCHANGED <<provider, currentIndex, excused, faults>>

\* The i-th provider after the current one.
Nth(i) == (currentIndex + i) % NumProviders

\* Mutant: the search takes the first provider, available or not.
FindNextFromStart(c) ==
  /\ call[c].pc = "scan"
  /\ currentIndex' = 0
  /\ call' = [call EXCEPT ![c] = Got(c, 0)]
  /\ UNCHANGED <<provider, excused, faults>>

\* Mutant: the search stops before it has been all the way round.
FindNextHalfway(c) ==
  /\ call[c].pc = "scan"
  /\ IF IsAvailable(Nth(1))
     THEN currentIndex' = Nth(1) /\ call' = [call EXCEPT ![c] = Got(c, Nth(1))]
     ELSE /\ call' = [call EXCEPT ![c].pc = "emergency", ![c].at = 0]
          /\ UNCHANGED currentIndex
  /\ UNCHANGED <<provider, excused, faults>>

\* One pass of its loop.
FindNextAvailableProvider(c) ==
  /\ call[c].pc = "scan"
  /\ LET next == Nth(call[c].at) IN
     IF IsAvailable(next)
     THEN currentIndex' = next /\ call' = [call EXCEPT ![c] = Got(c, next)]
     ELSE /\ call' = IF call[c].at < NumProviders THEN [call EXCEPT ![c].at = @ + 1]
                     ELSE [call EXCEPT ![c].pc = "emergency", ![c].at = 0]
          /\ UNCHANGED currentIndex
  /\ UNCHANGED <<provider, excused, faults>>

\* performEmergencyRecoveryLocked reads the providers' states one by one and takes the
\* blacklisted one whose cooldown ends first: which that is is not known here.
CollectBlacklisted(c) ==
  /\ call[c].pc = "emergency"
  /\ \E first \in IF provider[call[c].at].State = "blacklisted"
                   THEN {call[c].at} \cup ({call[c].using} \ {NoProvider}) ELSE {call[c].using} :
       call' = [call EXCEPT ![c].using = first, ![c].at = (@ + 1) % NumProviders,
                  ![c].pc = IF call[c].at < NumProviders - 1 THEN "emergency" ELSE "rescue"]
  /\ UNCHANGED <<provider, currentIndex, excused, faults>>

\* Mutant: the index is set back to what it is before any provider is added.
EmergencyRecoveryResets(c) ==
  /\ call[c].pc = "rescue" /\ call[c].using # NoProvider
  /\ provider' = [provider EXCEPT ![call[c].using] = Recovered]
  /\ call' = [call EXCEPT ![c] = Got(c, call[c].using)]
  /\ currentIndex' = -1
  /\ UNCHANGED <<excused, faults>>

\* None may have been blacklisted by the time it was read.
EmergencyRecovery(c) ==
  /\ call[c].pc = "rescue"
  /\ IF call[c].using = NoProvider
     THEN call' = [call EXCEPT ![c] = GotNone(c)] /\ UNCHANGED <<provider, currentIndex>>
     ELSE /\ provider' = [provider EXCEPT ![call[c].using] = Recovered]
          /\ currentIndex' = 0
          /\ call' = [call EXCEPT ![c] = Got(c, call[c].using)]
  /\ UNCHANGED <<excused, faults>>

Fault ==
  /\ faults < MaxFaults /\ faults' = faults + 1
  /\ excused' = excused \cup InCall

NoFault == UNCHANGED <<excused, faults>>

\* executeCore, the request answered.
Succeeds(c) ==
  /\ call[c].pc = "request"
  /\ provider' = [provider EXCEPT ![call[c].using] = Success(call[c].using)]
  /\ call' = [call EXCEPT ![c] = Idle("ok")]
  /\ IF call[c].using \in Faulty THEN Fault ELSE NoFault
  /\ UNCHANGED currentIndex

\* After an error ExecuteWithRetryProvider looks for another provider, once.
AfterError(c) ==
  IF call[c].mode = "pinned" /\ call[c].why # "fallback"
  THEN [call[c] EXCEPT !.pc = "review", !.using = NoProvider] ELSE AttemptFailed(c)

\* handleUnhealthyProvider
FailsMarked(c) ==
  /\ call[c].pc = "request"
  /\ provider' = [provider EXCEPT ![call[c].using] = Blacklist(call[c].using)]
  /\ call' = [call EXCEPT ![c] = AfterError(c)]
  /\ IF call[c].using \in Good THEN Fault ELSE NoFault
  /\ UNCHANGED currentIndex

\* handleProviderFailure
FailsGeneric(c) ==
  /\ call[c].pc = "request"
  /\ provider' = [provider EXCEPT ![call[c].using] = Fail(call[c].using)]
  /\ call' = [call EXCEPT ![c] = AfterError(c)]
  /\ Fault
  /\ UNCHANGED currentIndex

\* The attempt is over if the provider is blacklisted by now.
Review(c) ==
  /\ call[c].pc = "review"
  /\ call' = [call EXCEPT ![c] =
       IF provider[@.own].State = "blacklisted" THEN AttemptFailed(c)
       ELSE [@ EXCEPT !.pc = "read", !.why = "fallback"]]
  /\ UNCHANGED <<provider, currentIndex, excused, faults>>

CooldownEnds(p) ==
  /\ provider[p].State = "blacklisted" /\ ~provider[p].over
  /\ provider' = [provider EXCEPT ![p].over = TRUE]
  /\ IF p \in Faulty THEN Fault ELSE NoFault
  /\ UNCHANGED <<currentIndex, call>>

-----------------------------------------------------------------------------
Choose(c) ==
  \/ ReadCurrent(c) \/ CheckExpired(c) \/ RecoverExpired(c) \/ CheckCurrent(c)
  \/ Search(c) \/ FindNextAvailableProvider(c)
  \/ CollectBlacklisted(c) \/ EmergencyRecovery(c)
  \/ CollectAvailable(c) \/ BeginAttempt(c) \/ Review(c)

Answer(c) == Succeeds(c) \/ FailsMarked(c) \/ FailsGeneric(c)

Next ==
  \/ \E c \in Callers : \/ ExecuteWithRetry(c) \/ GetAvailableProviders(c)
                        \/ Choose(c) \/ Answer(c)
  \/ \E p \in Providers : CooldownEnds(p)

Spec == Init /\ [][Next]_vars

\* Goroutines run, a request is answered or runs into its timeout, whoever waits for
\* the lock gets it in the end (sync.RWMutex keeps new readers back while one waits to
\* write), and a provider that works is not kept out for ever.
Fairness ==
  /\ \A c \in Callers :
       /\ WF_vars(ExecuteWithRetry(c)) /\ WF_vars(Choose(c)) /\ WF_vars(Answer(c))
       /\ SF_vars(Search(c)) /\ SF_vars(ReadCurrent(c))
  /\ \A p \in Good : WF_vars(CooldownEnds(p))

FairSpec == Spec /\ Fairness

-----------------------------------------------------------------------------

\* With fewer faulty providers than attempts, a call that began with a working
\* provider in service comes to it: however the other callers move the shared
\* index between its reads, no attempt goes to a provider it has taken out of
\* service, unless something put one back (a late success, an uncounted error, a
\* cooldown, a recovery decided on a check that was out of date) or the working
\* provider failed itself.
FailsForAReason ==
  Cardinality(Faulty) < MaxAttempts =>
    \A c \in Callers : call[c].last = "failed" /\ call[c].pc = "idle" => c \in excused

\* Once the faults are over, every caller's calls succeed again and again: no order
\* of blacklisting, recovery and moves of the index keeps the pool from settling on
\* a provider that works.
SettlesOnGood ==
  \A c \in Callers : []<>(call[c].pc = "idle" /\ call[c].last = "ok")
=============================================================================
