--------------------------- MODULE AuditPipeline ---------------------------
(***************************************************************************)
(* The way of an audit event from the handler that decided to the row in   *)
(* audit_events: the proxy process (ProxyShutdown, with its publisher),    *)
(* its AMQP connection, the broker, and the writer of the worker process   *)
(* (AuditWriter).                                                          *)
(*                                                                         *)
(* The publisher takes a send for done when the bytes are written: there   *)
(* are no publisher confirms.  AuditWriter numbers the messages in the     *)
(* order the broker gets them: message k is the event arrived[k].  Every   *)
(* event is well-formed, but not every one can be stored: PostgreSQL's     *)
(* text and jsonb have no NUL character, and the agent's tool name or      *)
(* arguments, or a server's result, may.  Refused has the places, in the   *)
(* order of arrival, of such events.                                       *)
(***************************************************************************)
EXTENDS ProxyShutdown

CONSTANTS
    Refused,           \* the messages PostgreSQL will always reject
    Prefetch,          \* as in AuditWriter
    Interruptions,
    MaxInterruptions

ASSUME PipelineAssumption ==
    /\ IsFiniteSet(Events)
    /\ Refused \subseteq 1 .. Cardinality(Events)
    /\ Prefetch \in Nat \ {0}
    /\ Interruptions \subseteq {"crash", "stop", "connection", "unknown"}
    /\ MaxInterruptions \in Nat

VARIABLES
    link,      \* the publisher's connection: "up" or "lost"
    transit,   \* the events written to it that the broker does not have
    vanished,  \* the events that were lost with it
    arrived,   \* the events the broker got, in order
    \* the writer's:
    published, routed, bound, ready, inbox, current, verdict, writer, rows,
    dlq, count

lvars == <<link, transit, vanished, arrived>>
writerVars == <<published, routed, bound, ready, inbox, current, verdict,
                writer, rows, dlq, count>>
pipelineVars == <<pvars, lvars, writerVars>>

W == INSTANCE AuditWriter WITH
        Messages <- 1 .. Cardinality(Events),
        Malformed <- {},
        Unstorable <- Refused,
        worker <- writer

PipelineInit ==
    /\ SInit
    /\ link = "up"
    /\ transit = <<>>
    /\ vanished = {}
    /\ arrived = <<>>
    /\ W!Init

-----------------------------------------------------------------------------
(* The proxy.                                                              *)

Serve ==
    /\ \/ \E e \in Events :
             Accept(e) \/ HandlerPublishes(e) \/ HandlerReturns(e)
       \/ Signal
    /\ UNCHANGED <<lvars, writerVars>>

EndShutdown ==
    /\ ShutdownReturns \/ ShutdownTimesOut
    /\ UNCHANGED <<lvars, writerVars>>

\* The process dies otherwise: killed, or by a panic outside a handler.
Kill ==
    /\ Alive
    /\ closing # "returned"
    /\ server' = "killed"
    /\ UNCHANGED <<vars, handler, lvars, writerVars>>

\* What the publisher's worker sends is written to the connection.  Without
\* it every send fails: nothing makes another.
Dispatch ==
    /\ WorkerRuns
    /\ IF wire' = wire
       THEN UNCHANGED transit
       ELSE link = "up" /\ transit' = Append(transit, holding)
    /\ UNCHANGED <<link, vanished, arrived, writerVars>>

\* Mutant of Exit: the connection is dropped without closing the channel.
ExitAtOnce ==
    /\ DeferredClose
    /\ UNCHANGED <<lvars, writerVars>>

\* ch.Close waits for the broker's answer, which comes after all that was
\* written before.
Exit ==
    /\ DeferredClose
    /\ closing' = "returned" => transit = <<>>
    /\ UNCHANGED <<lvars, writerVars>>

-----------------------------------------------------------------------------
(* The connection.                                                         *)

Arrive ==
    /\ transit # <<>>
    /\ W!Publish(Len(arrived) + 1)
    /\ arrived' = Append(arrived, Head(transit))
    /\ transit' = Tail(transit)
    /\ UNCHANGED <<pvars, link, vanished>>

LoseLink ==
    /\ link = "up"
    /\ closing # "returned"
    /\ link' = "lost"
    /\ vanished' = Elements(transit)
    /\ transit' = <<>>
    /\ UNCHANGED <<pvars, arrived, writerVars>>

-----------------------------------------------------------------------------

Write ==
    /\ \/ \E m \in 1 .. Cardinality(Events) : W!Deliver(m) \/ W!Persist(m)
       \/ W!Start \/ W!Receive \/ W!Settle
       \/ W!Crash \/ W!ConnectionLost
       \/ W!StopBegins \/ W!StopEnds \/ W!StopDeaf
    /\ UNCHANGED <<pvars, lvars>>

PipelineNext ==
    \/ Serve \/ EndShutdown \/ Kill \/ Dispatch \/ Exit
    \/ Arrive \/ LoseLink
    \/ Write

PipelineSpec == PipelineInit /\ [][PipelineNext]_pipelineVars

\* As ProxyShutdown's and AuditWriter's; and what is written to a connection
\* arrives or is lost with it.
PipelineFairness ==
    /\ WF_pipelineVars(Dispatch)
    /\ WF_pipelineVars(Exit)
    /\ WF_pipelineVars(EndShutdown)
    /\ WF_pipelineVars(Arrive)
    /\ W!Fairness

FairPipelineSpec == PipelineSpec /\ PipelineFairness

-----------------------------------------------------------------------------
(* Properties.                                                             *)

\* The type invariant of the pipeline.
PipelineTypeOK ==
    /\ STypeOK
    /\ W!TypeOK
    /\ link \in {"up", "lost"}
    /\ transit \in Seq(Events)
    /\ vanished \subseteq Events
    /\ arrived \in Seq(Events)
    /\ published = 1 .. Len(arrived)

\* The message of an event, once the broker has it.
MessagesOf(e) == {k \in DOMAIN arrived : arrived[k] = e}

\* The broker had no queue for the event.
Unrouted(e) == \E k \in MessagesOf(e) : k \notin routed

Recorded(e) == \E k \in MessagesOf(e) : k \in rows

\* When main has returned, an accepted event is in audit_events or on the way
\* there with the broker; unless its send failed, which is logged, or it was
\* lost in silence: with the connection, or for want of a queue.
GracefulExitDelivers ==
    closing = "returned" =>
        \A e \in Accepted :
            \/ e \in lost \cup vanished
            \/ Unrouted(e)
            \/ \E k \in MessagesOf(e) : k \in W!InBroker \cup rows

\* Only events from before the first worker find no queue: from then on none
\* is turned away, whether a worker runs or not (the queue is durable).
NoGaps == \A k \in routed : \A j \in published : j > k => j \in routed

\* An accepted event becomes a row; unless its send failed, it was lost with
\* the connection, no worker had run yet, the proxy died with it in memory,
\* the worker has lost its own connection, or PostgreSQL rejects it.  That an
\* event is rejected, and so delivered again and again, does not keep others
\* from the table, as long as such events do not fill the prefetch window.
EventuallyRecorded ==
    \A e \in Events :
        (call[e] = "accepted") ~>
            \/ Recorded(e)
            \/ e \in lost \cup vanished
            \/ Unrouted(e)
            \/ server = "killed"
            \/ writer = "deaf"
            \/ MessagesOf(e) \cap Refused # {}
=============================================================================
