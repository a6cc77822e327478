------------------------------- MODULE Intake -------------------------------
(***************************************************************************)
(* From a transfer event on NATS JetStream to a row in deposits and a      *)
(* message in b2b-order-queue: the dispatcher (indexer/internal/b2b) with  *)
(* its retry loop, and the webhook handler (backend/internal/webhook),     *)
(* whose requests run concurrently and whose lookup, insert and publish    *)
(* are three separate calls.                                               *)
(***************************************************************************)
EXTENDS Ledger

CONSTANTS
  Reqs,           \* webhook requests the backend serves at a time
  NoReq, NoTx,    \* "no request", "no transfer"
  MaxAttempts,    \* deliveries of one event before it is Nak'ed (5 in the code)
  StreamCapacity  \* events that fit in the stream's MaxBytes

ASSUME IntakeAssumption ==
  /\ NoReq \notin Reqs
  /\ NoTx \notin Txs
  /\ MaxAttempts \in Nat \ {0}
  /\ StreamCapacity \in Nat \ {0}

VARIABLES
  stream,   \* the event of each transfer in JetStream
  disp,     \* the dispatcher loop
  req,      \* the webhook requests being served
  expired   \* orders whose expires_at has passed

intakeVars == <<stream, disp, req, expired>>

EventStates == {"none", "queued", "acked", "evicted"}

DispIdle == [pc |-> "idle", tx |-> NoTx, n |-> 0, slot |-> NoReq]

Dispatchers ==
  {DispIdle} \cup
  [pc : {"post", "wait"}, tx : Txs, n : 1..MaxAttempts, slot : Reqs \cup {NoReq}]

ReqIdle == [pc |-> "idle", tx |-> NoTx]

Requests ==
  {ReqIdle} \cup [pc : {"exists", "insert", "publish", "ok", "fail"}, tx : Txs]

IntakeTypeOK ==
  /\ stream \in [Txs -> EventStates]
  /\ disp \in Dispatchers
  /\ req \in [Reqs -> Requests]
  /\ expired \in SUBSET Orders

IntakeInit ==
  /\ stream = [t \in Txs |-> "none"]
  /\ disp = DispIdle
  /\ req = [r \in Reqs |-> ReqIdle]
  /\ expired = {}

-----------------------------------------------------------------------------
(* The event stream *)

QueuedEvents == {t \in Txs : stream[t] = "queued"}

\* The indexer publishes the event of a transfer it saw.  Nats-Msg-Id is built
\* from transaction, parties and direction, so an event enters the stream once.  A full stream
\* (MaxBytes, discard old) evicts an event nobody has acknowledged; the age
\* order that decides which one is abstracted to a choice.
EmitTransaction(t) ==
  /\ coin[t] # "unpaid"
  /\ stream[t] = "none"
  /\ \/ /\ Cardinality(QueuedEvents) < StreamCapacity
        /\ stream' = [stream EXCEPT ![t] = "queued"]
     \/ /\ Cardinality(QueuedEvents) >= StreamCapacity
        /\ \E old \in QueuedEvents :
             stream' = [stream EXCEPT ![t] = "queued", ![old] = "evicted"]
  /\ UNCHANGED <<ledgerVars, disp, req, expired>>

\* Ack of an event that was evicted meanwhile has no effect.
Acked(t) == [stream EXCEPT ![t] = IF @ = "queued" THEN "acked" ELSE @]

-----------------------------------------------------------------------------
(* The dispatcher: Fetch(1), processMessage, dispatchWithRetry *)

\* FindByAddress finds no business, or an inactive one: the event is acked.
SkipMessage(t) ==
  /\ disp.pc = "idle"
  /\ stream[t] = "queued"
  /\ t \notin Registered
  /\ stream' = Acked(t)
  /\ UNCHANGED <<ledgerVars, disp, req, expired>>

ProcessMessage(t) ==
  /\ disp.pc = "idle"
  /\ stream[t] = "queued"
  /\ t \in Registered
  /\ disp' = [pc |-> "post", tx |-> t, n |-> 1, slot |-> NoReq]
  /\ UNCHANGED <<ledgerVars, stream, req, expired>>

PostWebhook(r) ==
  /\ disp.pc = "post"
  /\ req[r].pc = "idle"
  /\ req' = [req EXCEPT ![r] = [pc |-> "exists", tx |-> disp.tx]]
  /\ disp' = [disp EXCEPT !.pc = "wait", !.slot = r]
  /\ UNCHANGED <<ledgerVars, stream, expired>>

\* After a failed attempt: the next one, or Nak (the event stays queued).
NextAttempt ==
  IF disp.n < MaxAttempts
  THEN [disp EXCEPT !.pc = "post", !.n = @ + 1, !.slot = NoReq]
  ELSE DispIdle

\* Mutant: any answer is taken for a delivery.
WebhookAnswered(r) ==
  /\ disp.pc = "wait" /\ disp.slot = r
  /\ req[r].pc \in {"ok", "fail"}
  /\ req' = [req EXCEPT ![r] = ReqIdle]
  /\ stream' = Acked(disp.tx)
  /\ disp' = DispIdle
  /\ UNCHANGED <<ledgerVars, expired>>

WebhookAccepted(r) ==
  /\ disp.pc = "wait" /\ disp.slot = r
  /\ req[r].pc = "ok"
  /\ req' = [req EXCEPT ![r] = ReqIdle]
  /\ stream' = Acked(disp.tx)
  /\ disp' = DispIdle
  /\ UNCHANGED <<ledgerVars, expired>>

\* Mutant: an event that was refused is forgotten by the stream.
WebhookRefusedTerminates(r) ==
  /\ disp.pc = "wait" /\ disp.slot = r
  /\ req[r].pc = "fail"
  /\ req' = [req EXCEPT ![r] = ReqIdle]
  /\ stream' = Acked(disp.tx)
  /\ disp' = DispIdle
  /\ UNCHANGED <<ledgerVars, expired>>

WebhookRefused(r) ==
  /\ disp.pc = "wait" /\ disp.slot = r
  /\ req[r].pc = "fail"
  /\ req' = [req EXCEPT ![r] = ReqIdle]
  /\ disp' = NextAttempt
  /\ UNCHANGED <<ledgerVars, stream, expired>>

\* The http.Client gives up after 15 s; the handler goes on with a cancelled
\* request context and nobody reads its answer.
ClientTimeout(r) ==
  /\ disp.pc = "wait" /\ disp.slot = r
  /\ req[r].pc \notin {"ok", "fail"}
  /\ Fault
  /\ disp' = NextAttempt
  /\ UNCHANGED <<coin, deposit, linked, mainQ, conn, stream, req, expired>>

\* The dispatcher process dies; JetStream redelivers what it had not acked.
DispatcherRestart ==
  /\ disp.pc # "idle"
  /\ Fault
  /\ disp' = DispIdle
  /\ UNCHANGED <<coin, deposit, linked, mainQ, conn, stream, req, expired>>

-----------------------------------------------------------------------------
(* The webhook handler: Receive *)

Serving(r, pc) == req[r].pc = pc
Goto(r, pc) == req' = [req EXCEPT ![r].pc = pc]

\* The client has hung up, so r.Context() is cancelled.
Cancelled(r) == disp.slot # r

\* A query fails: the database is in trouble, or the context was cancelled.
QueryFails(r) == IF Cancelled(r) THEN UNCHANGED faults ELSE Fault

\* depositExists answers: known hash 200, unsupported network 400.
DepositExists(r) ==
  /\ Serving(r, "exists")
  /\ \/ Known(req[r].tx) /\ Goto(r, "ok")
     \/ /\ ~Known(req[r].tx)
        /\ Goto(r, IF ChainOf[req[r].tx] \in Chains THEN "insert" ELSE "fail")
  /\ UNCHANGED <<ledgerVars, stream, disp, expired>>

\* depositExists or insertDeposit returns a database error: 500.
DbError(r) ==
  /\ Serving(r, "exists") \/ Serving(r, "insert")
  /\ QueryFails(r)
  /\ Goto(r, "fail")
  /\ UNCHANGED <<coin, deposit, linked, mainQ, conn, stream, disp, expired>>

\* The row the INSERT adds.  The order is linked only while it is live: its
\* status is always 'pending', so expires_at > NOW() decides.
InsertRow(t) ==
  /\ deposit' = [deposit EXCEPT ![t] = "pending_order_validation"]
  /\ linked' = IF OrderOf[t] \in Orders \ expired THEN linked \cup {t} ELSE linked

InsertDeposit(r) ==
  /\ Serving(r, "insert")
  /\ ~Known(req[r].tx)
  /\ InsertRow(req[r].tx)
  /\ Goto(r, "publish")
  /\ UNCHANGED <<coin, mainQ, conn, faults, stream, disp, expired>>

\* Mutant: a conflicting insert is taken for a success and published again.
InsertConflictPublishes(r) ==
  /\ Serving(r, "insert")
  /\ Known(req[r].tx)
  /\ Goto(r, "publish")
  /\ UNCHANGED <<ledgerVars, stream, disp, expired>>

\* ON CONFLICT DO NOTHING returned no row, which reads as ErrMerchantNotFound.
InsertConflict(r) ==
  /\ Serving(r, "insert")
  /\ Known(req[r].tx)
  /\ Goto(r, "fail")
  /\ UNCHANGED <<ledgerVars, stream, disp, expired>>

\* The INSERT committed but the caller sees an error (connection lost, or the
\* context cancelled while the statement ran).
InsertReplyLost(r) ==
  /\ Serving(r, "insert")
  /\ ~Known(req[r].tx)
  /\ QueryFails(r)
  /\ InsertRow(req[r].tx)
  /\ Goto(r, "fail")
  /\ UNCHANGED <<coin, mainQ, conn, stream, disp, expired>>

\* PublishB2BOrder on a live connection, on a broken one, and NoopPublisher's.
PublishB2BOrder(r) ==
  /\ Serving(r, "publish")
  /\ \/ conn = "up" /\ mainQ' = Put(mainQ, req[r].tx) /\ Goto(r, "ok")
     \/ conn = "closed" /\ UNCHANGED mainQ /\ Goto(r, "fail")
     \/ conn = "noop" /\ UNCHANGED mainQ /\ Goto(r, "ok")
  /\ UNCHANGED <<coin, deposit, linked, conn, faults, stream, disp, expired>>

\* The broker does not store the message: the publish returns an error, or,
\* as there are no publisher confirms, nil.
PublishFails(r) ==
  /\ Serving(r, "publish")
  /\ conn = "up"
  /\ Fault
  /\ \E answer \in {"ok", "fail"} : Goto(r, answer)
  /\ UNCHANGED <<coin, deposit, linked, mainQ, conn, stream, disp, expired>>

\* A request whose client hung up ends.
RequestEnds(r) ==
  /\ Serving(r, "ok") \/ Serving(r, "fail")
  /\ Cancelled(r)
  /\ req' = [req EXCEPT ![r] = ReqIdle]
  /\ UNCHANGED <<ledgerVars, stream, disp, expired>>

\* An hour passes since CreatePendingOrder.
ExpireOrder(o) ==
  /\ o \notin expired
  /\ expired' = expired \cup {o}
  /\ UNCHANGED <<ledgerVars, stream, disp, req>>

-----------------------------------------------------------------------------
ReceiveStep(r) ==
  \/ DepositExists(r) \/ InsertDeposit(r) \/ InsertConflict(r)
  \/ PublishB2BOrder(r) \/ RequestEnds(r)

DispatcherStep ==
  \/ \E t \in Txs : SkipMessage(t) \/ ProcessMessage(t)
  \/ \E r \in Reqs : PostWebhook(r) \/ WebhookAccepted(r) \/ WebhookRefused(r)

IntakeFault ==
  \/ DispatcherRestart
  \/ \E r \in Reqs :
       ClientTimeout(r) \/ DbError(r) \/ InsertReplyLost(r) \/ PublishFails(r)

IntakeNext ==
  \/ DispatcherStep
  \/ IntakeFault
  \/ \E r \in Reqs : ReceiveStep(r)
  \/ \E t \in Txs : EmitTransaction(t)
  \/ \E o \in Orders : ExpireOrder(o)
=============================================================================
