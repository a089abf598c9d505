---------------------------- MODULE AuditWriter ----------------------------
(***************************************************************************)
(* The audit writer of the worker (internal/audit/writer.go), the RabbitMQ *)
(* queue it consumes and the audit_events table it fills.                  *)
(*                                                                         *)
(* Messages are numbered in the order they are published.  The broker      *)
(* keeps the queue in that order, and gives a message it takes back its    *)
(* old place: `ready` is a set and the smallest number is its head.        *)
(*                                                                         *)
(* Interruptions names what may interrupt the worker, MaxInterruptions     *)
(* bounds how often:                                                       *)
(*   "crash"       the process dies (its container is restarted);          *)
(*   "stop"        it gets SIGTERM and runs Writer.Stop;                   *)
(*   "connection"  the AMQP connection is lost;                            *)
(*   "unknown"     Postgres commits, and the answer is an error.           *)
(***************************************************************************)
EXTENDS Integers, Sequences

CONSTANTS
    Messages,          \* the messages the publisher sends: 1..n
    Malformed,         \* those that do not decode to a valid event
    Unstorable,        \* valid events that Postgres will always reject
    Prefetch,          \* the Qos of the channel
    Interruptions,     \* the kinds of interruption considered
    MaxInterruptions   \* bound on their number

ASSUME WriterAssumption ==
    /\ Messages \subseteq Nat \ {0}
    /\ Malformed \subseteq Messages
    /\ Unstorable \subseteq Messages
    /\ Prefetch \in Nat \ {0}
    /\ Interruptions \subseteq {"crash", "stop", "connection", "unknown"}
    /\ MaxInterruptions \in Nat

VARIABLES
    published,  \* the messages the publisher has sent
    routed,     \* those the exchange put in the queue; the others are gone
    bound,      \* the persist queue exists and is bound (it is durable)
    ready,      \* the messages in the queue
    inbox,      \* the messages delivered and not yet received by the loop
    current,    \* the message handleDelivery has, or 0
    verdict,    \* what it will do: "none" yet, "ack" or "requeue"
    worker,     \* "down", "consuming", "stopping", "deaf" (no connection)
    rows,       \* the ids in audit_events
    dlq,        \* the dead-letter queue
    count       \* interruptions so far

bvars == <<published, routed, bound, ready, dlq>>
wvars == <<inbox, current, verdict, worker>>
vars == <<bvars, wvars, rows, count>>

Elements(s) == {s[i] : i \in DOMAIN s}

InHand == IF current = 0 THEN {} ELSE {current}

\* The worker holds an AMQP channel: its acknowledgements reach the broker,
\* and what is delivered to it is the broker's until acknowledged.
Linked == worker \in {"consuming", "stopping"}

Unacked == IF Linked THEN Elements(inbox) \cup InHand ELSE {}

Init ==
    /\ published = {}
    /\ routed = {}
    /\ bound = FALSE
    /\ ready = {}
    /\ inbox = <<>>
    /\ current = 0
    /\ verdict = "none"
    /\ worker = "down"
    /\ rows = {}
    /\ dlq = {}
    /\ count = 0

-----------------------------------------------------------------------------
(* The broker.                                                             *)

\* The proxy's publisher sends its next message.  The exchange is declared
\* by the proxy, the queue by the worker: until a worker has run, an event
\* matches no queue and, not being mandatory, is dropped.
Publish(m) ==
    /\ m \notin published
    /\ \A n \in Messages : n < m => n \in published
    /\ published' = published \cup {m}
    /\ IF bound
       THEN routed' = routed \cup {m} /\ ready' = ready \cup {m}
       ELSE UNCHANGED <<routed, ready>>
    /\ UNCHANGED <<bound, dlq, wvars, rows, count>>

\* The broker delivers the head of the queue, up to Prefetch at a time.
Deliver(m) ==
    /\ Linked
    /\ m \in ready
    /\ \A n \in ready : m <= n
    /\ Len(inbox) + (IF current = 0 THEN 0 ELSE 1) < Prefetch
    /\ ready' = ready \ {m}
    /\ inbox' = Append(inbox, m)
    /\ UNCHANGED <<published, routed, bound, dlq, current, verdict, worker,
                   rows, count>>

-----------------------------------------------------------------------------
(* The writer.                                                             *)

\* NewWriter declares the topology, Start begins to consume.
Start ==
    /\ worker = "down"
    /\ worker' = "consuming"
    /\ bound' = TRUE
    /\ UNCHANGED <<published, routed, ready, dlq, inbox, current, verdict,
                   rows, count>>

\* consumeLoop receives a delivery.  Once Stop has cancelled the context the
\* select may still take this branch.
Receive ==
    /\ Linked
    /\ current = 0
    /\ inbox # <<>>
    /\ current' = Head(inbox)
    /\ inbox' = Tail(inbox)
    /\ UNCHANGED <<bvars, verdict, worker, rows, count>>

Handles(m) == current = m /\ m # 0 /\ verdict = "none"

\* Mutants of Reject: a valid event is rejected too; a malformed one is put
\* back.
RejectAny(m) ==
    /\ Handles(m)
    /\ dlq' = IF Linked THEN dlq \cup {m} ELSE dlq
    /\ current' = 0
    /\ UNCHANGED <<published, routed, bound, ready, inbox, verdict, worker,
                   rows, count>>

RejectRequeues(m) ==
    /\ Handles(m)
    /\ m \in Malformed
    /\ verdict' = "requeue"
    /\ UNCHANGED <<bvars, inbox, current, worker, rows, count>>

\* A message that does not decode, or fails Validate: Nack without requeue,
\* which dead-letters it if the channel still stands.
Reject(m) ==
    /\ Handles(m)
    /\ m \in Malformed
    /\ dlq' = IF Linked THEN dlq \cup {m} ELSE dlq
    /\ current' = 0
    /\ UNCHANGED <<published, routed, bound, ready, inbox, verdict, worker,
                   rows, count>>

Valid(m) == Handles(m) /\ m \notin Malformed

\* persist: the row is inserted and returned.
InsertStores(m) ==
    /\ Valid(m)
    /\ worker # "stopping"
    /\ m \notin rows \cup Unstorable
    /\ rows' = rows \cup {m}
    /\ verdict' = "ack"
    /\ UNCHANGED <<bvars, inbox, current, worker, count>>

\* persist: the id is there already.  ON CONFLICT DO NOTHING returns no row,
\* which the ":one" query reports as pgx.ErrNoRows: an error like any other.
InsertConflicts(m) ==
    /\ Valid(m)
    /\ m \in rows
    /\ verdict' = "requeue"
    /\ UNCHANGED <<bvars, inbox, current, worker, rows, count>>

\* Mutant of InsertFails: the failure leaves a verdict nobody acts on.
InsertFailsUnknown(m) ==
    /\ Valid(m)
    /\ verdict' = "failed"
    /\ UNCHANGED <<bvars, inbox, current, worker, rows, count>>

\* persist: Postgres is away, rejects the row, or the context is cancelled.
InsertFails(m) ==
    /\ Valid(m)
    /\ verdict' = "requeue"
    /\ UNCHANGED <<bvars, inbox, current, worker, rows, count>>

\* persist: Postgres commits, and its answer is lost or the context is
\* cancelled before it arrives.
InsertUnknown(m) ==
    /\ Valid(m)
    /\ m \notin rows \cup Unstorable
    /\ "unknown" \in Interruptions /\ count < MaxInterruptions
    /\ rows' = rows \cup {m}
    /\ verdict' = "requeue"
    /\ count' = count + 1
    /\ UNCHANGED <<bvars, inbox, current, worker>>

\* Mutants of Settle: a Nack without requeue; no return after the Nack, so the
\* message is handled again.
SettleForgets ==
    /\ verdict # "none"
    /\ current' = 0
    /\ verdict' = "none"
    /\ UNCHANGED <<published, routed, bound, ready, dlq, inbox, worker, rows,
                   count>>
SettleGoesOn ==
    /\ verdict # "none"
    /\ ready' = IF Linked /\ verdict = "requeue" THEN ready \cup {current}
                ELSE ready
    /\ current' = IF verdict = "requeue" THEN current ELSE 0
    /\ verdict' = "none"
    /\ UNCHANGED <<published, routed, bound, dlq, inbox, worker, rows, count>>

\* Ack or Nack with requeue; without a channel it fails and is ignored.
Settle ==
    /\ verdict # "none"
    /\ ready' = IF Linked /\ verdict = "requeue" THEN ready \cup {current}
                ELSE ready
    /\ current' = 0
    /\ verdict' = "none"
    /\ UNCHANGED <<published, routed, bound, dlq, inbox, worker, rows, count>>

-----------------------------------------------------------------------------
(* Interruptions.  The broker takes back what was not acknowledged.        *)

Interrupt(kind) ==
    /\ kind \in Interruptions
    /\ count < MaxInterruptions
    /\ count' = count + 1

\* Mutant of Crash: the queue's binding is gone with its consumer.
CrashUnbinds ==
    /\ Interrupt("crash")
    /\ worker # "down"
    /\ worker' = "down"
    /\ bound' = FALSE
    /\ ready' = ready \cup Unacked
    /\ inbox' = <<>>
    /\ current' = 0
    /\ verdict' = "none"
    /\ UNCHANGED <<published, routed, dlq, rows>>

Crash ==
    /\ Interrupt("crash")
    /\ worker # "down"
    /\ worker' = "down"
    /\ ready' = ready \cup Unacked
    /\ inbox' = <<>>
    /\ current' = 0
    /\ verdict' = "none"
    /\ UNCHANGED <<published, routed, bound, dlq, rows>>

\* The deliveries channel closes and consumeLoop returns once the current
\* delivery is handled; nothing reconnects, and the process stays up.
ConnectionLost ==
    /\ Interrupt("connection")
    /\ Linked
    /\ worker' = "deaf"
    /\ ready' = ready \cup Unacked
    /\ inbox' = <<>>
    /\ UNCHANGED <<published, routed, bound, dlq, current, verdict, rows>>

\* SIGTERM: Stop cancels the context ...
StopBegins ==
    /\ Interrupt("stop")
    /\ worker = "consuming"
    /\ worker' = "stopping"
    /\ UNCHANGED <<bvars, inbox, current, verdict, rows>>

\* ... waits for the loop, closes the channel, and the process ends.
StopEnds ==
    /\ worker = "stopping"
    /\ current = 0
    /\ worker' = "down"
    /\ ready' = ready \cup Unacked
    /\ inbox' = <<>>
    /\ UNCHANGED <<published, routed, bound, dlq, current, verdict, rows, count>>

\* SIGTERM of a worker whose loop has ended already; it follows a lost
\* connection and is not counted again.
StopDeaf ==
    /\ "stop" \in Interruptions
    /\ worker = "deaf"
    /\ current = 0
    /\ worker' = "down"
    /\ UNCHANGED <<bvars, inbox, current, verdict, rows, count>>

Persist(m) ==
    \/ InsertStores(m)
    \/ InsertConflicts(m)
    \/ InsertFails(m)
    \/ InsertUnknown(m)

Next ==
    \/ \E m \in Messages :
          Publish(m) \/ Deliver(m) \/ Reject(m) \/ Persist(m)
    \/ Start \/ Receive \/ Settle
    \/ Crash \/ ConnectionLost \/ StopBegins \/ StopEnds \/ StopDeaf

Spec == Init /\ [][Next]_vars

\* The publisher sends what it has; the broker delivers; the loop runs; the
\* container is restarted; an insert that Postgres can make is not refused
\* for ever.  Nothing brings a deaf worker back.
Fairness ==
    /\ \A m \in Messages :
          /\ SF_vars(Deliver(m))
          /\ WF_vars(Reject(m))
          /\ WF_vars(Persist(m))
          /\ SF_vars(InsertStores(m))
    /\ WF_vars(Start)
    /\ WF_vars(Receive)
    /\ WF_vars(Settle)
    /\ SF_vars(StopEnds)

FairSpec == Spec /\ Fairness

-----------------------------------------------------------------------------
(* Properties.                                                             *)

\* The type invariant of the queue, the writer and the table.
TypeOK ==
    /\ published \subseteq Messages
    /\ routed \subseteq published
    /\ bound \in BOOLEAN
    /\ ready \subseteq Messages
    /\ inbox \in Seq(Messages)
    /\ current \in Messages \cup {0}
    /\ verdict \in {"none", "ack", "requeue"}
    /\ worker \in {"down", "consuming", "stopping", "deaf"}
    /\ rows \subseteq Messages
    /\ dlq \subseteq Messages
    /\ count \in Nat

InBroker == ready \cup Unacked

\* What the broker has routed is with the broker, in the table or in the
\* dead-letter queue: an acknowledgement never precedes the row, whatever
\* interrupts the worker.
NothingLost == routed = InBroker \cup rows \cup dlq

\* A message is in one place at the broker: the queue, or once among the
\* unacknowledged; a requeue never doubles it.
OnePlace ==
    /\ Len(inbox) + (IF current = 0 THEN 0 ELSE 1) <= Prefetch
    /\ ready \cap Unacked = {}
    /\ \A i, j \in DOMAIN inbox : inbox[i] = inbox[j] => i = j
    /\ Linked => current \notin Elements(inbox)

\* An acknowledgement is decided only for a stored event; what waits for an
\* acknowledgement and what is dead-lettered is never both.
AckedIsStored == verdict = "ack" => current \in rows

\* The writer implements the audit trail: its queue and deliveries are the
\* outstanding events.
Trail == INSTANCE AuditTrail WITH
            outstanding <- routed \ (rows \cup dlq),
            stored <- rows,
            dead <- dlq

ImplementsTrail == Trail!TSpec

\* A routed event that Postgres accepts, or that is malformed, leaves the
\* broker for its place, the table or the dead-letter queue (ImplementsTrail
\* says which), as long as the messages that can only be requeued are fewer
\* than the prefetch window holds and the worker has not gone deaf: a lost
\* connection is not made again.
EventuallySettled ==
    \A m \in Messages \ Unstorable :
        (m \in routed) ~> (m \in rows \cup dlq \/ worker = "deaf")

\* What writer.go:221 means by idempotent insertion: a redelivered event
\* whose row is there leaves the queue.
DuplicateSettled ==
    \A m \in Messages :
        (m \in rows /\ m \in ready) ~> (m \notin InBroker)
=============================================================================
