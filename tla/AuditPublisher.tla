--------------------------- MODULE AuditPublisher ---------------------------
(***************************************************************************)
(* The proxy's asynchronous audit publisher (RabbitMQPublisher of          *)
(* internal/audit/publisher.go): Publish puts an event in a bounded        *)
(* channel or drops it, one worker goroutine writes the events to the AMQP *)
(* channel, and Close stops the worker after it has drained the buffer.    *)
(*                                                                         *)
(* An event is published once, by the request it describes, so an event of *)
(* Events stands for its Publish call too.  A send that returns nil wrote  *)
(* the event to the connection: without publisher confirms the publisher   *)
(* learns nothing more.                                                    *)
(***************************************************************************)
EXTENDS Integers, Sequences, FiniteSets

CONSTANTS
    Events,    \* the audit events, each with its Publish call
    Capacity,  \* the size of the buffer
    NoEvent    \* the worker holds no event

ASSUME PublisherAssumption ==
    /\ Capacity \in Nat \ {0}
    /\ NoEvent \notin Events

VARIABLES
    call,     \* per event, how far its Publish call is
    queue,    \* the buffer
    worker,   \* the worker: "select", "drain" or "stopped"
    holding,  \* the event the worker is sending, or NoEvent
    isDone,   \* Close has been called (isDone, and the closed channel)
    closing,  \* Close: "no", "waiting" for the worker, or "returned"
    wire,     \* the events sent, in order
    lost,     \* the events whose send failed: logged, never retried
    order,    \* history: the events Publish accepted, in order
    early     \* history: the events accepted when Close was called

vars == <<call, queue, worker, holding, isDone, closing, wire, lost, order,
          early>>

Elements(s) == {s[i] : i \in DOMAIN s}

Accepted == {e \in Events : call[e] = "accepted"}

Init ==
    /\ call = [e \in Events |-> "new"]
    /\ queue = <<>>
    /\ worker = "select"
    /\ holding = NoEvent
    /\ isDone = FALSE
    /\ closing = "no"
    /\ wire = <<>>
    /\ lost = {}
    /\ order = <<>>
    /\ early = {}

-----------------------------------------------------------------------------
(* Publish.                                                                *)

\* Under the mutex: a closed publisher refuses the event.
CheckOpen(e) ==
    /\ call[e] = "new"
    /\ call' = [call EXCEPT ![e] = IF isDone THEN "refused" ELSE "checked"]
    /\ UNCHANGED <<queue, worker, holding, isDone, closing, wire, lost, order,
                   early>>

\* The mutex is released before the channel is tried: Close may have run.
Enqueue(e) ==
    /\ call[e] = "checked"
    /\ Len(queue) < Capacity
    /\ call' = [call EXCEPT ![e] = "accepted"]
    /\ queue' = Append(queue, e)
    /\ order' = Append(order, e)
    /\ UNCHANGED <<worker, holding, isDone, closing, wire, lost, early>>

\* The select takes its default branch: the buffer is full.
Drop(e) ==
    /\ call[e] = "checked"
    /\ Len(queue) = Capacity
    /\ call' = [call EXCEPT ![e] = "dropped"]
    /\ UNCHANGED <<queue, worker, holding, isDone, closing, wire, lost, order,
                   early>>

-----------------------------------------------------------------------------
(* The worker.                                                             *)

\* It takes the oldest event, in its select or while draining; with the
\* publisher closed and events left, its select may take either branch.
Take ==
    /\ worker \in {"select", "drain"}
    /\ holding = NoEvent
    /\ queue # <<>>
    /\ holding' = Head(queue)
    /\ queue' = Tail(queue)
    /\ UNCHANGED <<call, worker, isDone, closing, wire, lost, order, early>>

\* The AMQP library took the event.
Send ==
    /\ holding # NoEvent
    /\ wire' = Append(wire, holding)
    /\ holding' = NoEvent
    /\ UNCHANGED <<call, queue, worker, isDone, closing, lost, order, early>>

\* Mutants of SendFails: the event is forgotten before it is recorded; it is
\* put back at the end of the buffer.
SendFailsCleared ==
    /\ holding # NoEvent
    /\ holding' = NoEvent
    /\ lost' = lost \cup {holding'}
    /\ UNCHANGED <<call, queue, worker, isDone, closing, wire, order, early>>

SendFailsRequeues ==
    /\ holding # NoEvent
    /\ queue' = Append(queue, holding)
    /\ holding' = NoEvent
    /\ UNCHANGED <<call, worker, isDone, closing, wire, lost, order, early>>

\* The send failed; the error is logged and the event forgotten.
SendFails ==
    /\ holding # NoEvent
    /\ lost' = lost \cup {holding}
    /\ holding' = NoEvent
    /\ UNCHANGED <<call, queue, worker, isDone, closing, wire, order, early>>

\* Mutants of SeeClosed: the worker returns without draining; it looks at the
\* closed channel only when there is an event.
SeeClosedStops ==
    /\ worker = "select"
    /\ holding = NoEvent
    /\ isDone
    /\ worker' = "stopped"
    /\ UNCHANGED <<call, queue, holding, isDone, closing, wire, lost, order, early>>

SeeClosedLate ==
    /\ worker = "select"
    /\ holding = NoEvent
    /\ isDone
    /\ queue # <<>>
    /\ worker' = "drain"
    /\ UNCHANGED <<call, queue, holding, isDone, closing, wire, lost, order, early>>

\* The select sees the closed channel.
SeeClosed ==
    /\ worker = "select"
    /\ holding = NoEvent
    /\ isDone
    /\ worker' = "drain"
    /\ UNCHANGED <<call, queue, holding, isDone, closing, wire, lost, order, early>>

\* The buffer is empty: the worker returns.
Stop ==
    /\ worker = "drain"
    /\ holding = NoEvent
    /\ queue = <<>>
    /\ worker' = "stopped"
    /\ UNCHANGED <<call, queue, holding, isDone, closing, wire, lost, order, early>>

Work == Take \/ Send \/ SendFails \/ SeeClosed \/ Stop

-----------------------------------------------------------------------------
(* Close.  A second call finds isDone set and returns nil at once.         *)

CloseBegins ==
    /\ ~isDone
    /\ isDone' = TRUE
    /\ closing' = "waiting"
    /\ early' = Accepted
    /\ UNCHANGED <<call, queue, worker, holding, wire, lost, order>>

\* wg.Wait() returns, and the AMQP channel and connection are closed.
CloseReturns ==
    /\ closing = "waiting"
    /\ worker = "stopped"
    /\ closing' = "returned"
    /\ UNCHANGED <<call, queue, worker, holding, isDone, wire, lost, order, early>>

Publish(e) == CheckOpen(e) \/ Enqueue(e) \/ Drop(e)

Next ==
    \/ \E e \in Events : Publish(e)
    \/ Work
    \/ CloseBegins
    \/ CloseReturns

Spec == Init /\ [][Next]_vars

\* The Go scheduler runs the worker and the closer, and a send ends: the
\* library accepts the event, or the connection it writes to fails.
Fairness == WF_vars(Work) /\ WF_vars(CloseReturns)

FairSpec == Spec /\ Fairness

-----------------------------------------------------------------------------
(* Properties.                                                             *)

\* The type invariant of the publisher.
TypeOK ==
    /\ call \in [Events -> {"new", "checked", "accepted", "dropped", "refused"}]
    /\ queue \in Seq(Events)
    /\ worker \in {"select", "drain", "stopped"}
    /\ holding \in Events \cup {NoEvent}
    /\ isDone \in BOOLEAN
    /\ closing \in {"no", "waiting", "returned"}
    /\ wire \in Seq(Events)
    /\ lost \subseteq Events
    /\ order \in Seq(Events)
    /\ early \subseteq Events

\* x is somewhere before y in the sequence s.
Before(s, x, y) == \E i, j \in DOMAIN s : i < j /\ s[i] = x /\ s[j] = y

\* The accepted events on their way: the sent ones, the one in hand, then the
\* buffer.
Onward ==
    wire \o (IF holding = NoEvent THEN <<>> ELSE <<holding>>) \o queue

\* The accepted events, but for the lost ones, are the sent ones, then the one
\* in hand, then the buffer, in the order of acceptance; each was accepted
\* once.  The worker neither reorders, repeats nor forgets an event, nor sends
\* one that was dropped.
Conserved ==
    /\ Elements(Onward) = Accepted \ lost
    /\ \A x, y \in Events : Before(Onward, x, y) => Before(order, x, y)
    /\ Elements(order) = Accepted
    /\ \A x \in Events : ~Before(order, x, x)

\* Whatever Publish accepted before Close was called has left the buffer when
\* Close returns: only the events of calls that overlapped it can stay.
EarlyFlushed == closing = "returned" => Elements(queue) \cap early = {}

\* Close returns: the worker drains a buffer that only the Publish calls
\* already past the check can refill.
CloseCompletes == (closing = "waiting") ~> (closing = "returned")
=============================================================================
