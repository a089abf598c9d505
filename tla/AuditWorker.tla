---------------------------- MODULE AuditWorker ----------------------------
(***************************************************************************)
(* The worker process (cmd/worker/main.go): it starts the audit writer and *)
(* then the alert consumer, each with an AMQP connection of its own, and   *)
(* on SIGTERM stops the one and then the other.  The two share the         *)
(* process's fate, nothing else.                                           *)
(***************************************************************************)
EXTENDS AuditWriter, AlertConsumer

workerVars == <<vars, alertVars>>

WorkerInit == Init /\ AlertInit

\* The exchange routes an event to each queue whose binding it matches.
PublishEvent(m) == Publish(m) /\ RouteAlert(m)

\* A new process, when the old one has gone.
StartWriter ==
    /\ alerter = "down"
    /\ Start
    /\ UNCHANGED alertVars

\* Mutant of StartAlerter: the alert consumer is started without the writer.
StartAlerterFirst ==
    /\ StartAlerts
    /\ UNCHANGED vars

\* main starts the alert consumer once the writer consumes.  (If it cannot,
\* it exits: a crash.)
StartAlerter ==
    /\ worker \in {"consuming", "deaf"}
    /\ StartAlerts
    /\ UNCHANGED vars

\* The process dies, also between the two Stop calls.
CrashWorker ==
    /\ CrashAlerts
    /\ \/ Crash /\ UNCHANGED alertCount
       \/ /\ worker = "down" /\ alerter # "down"
          /\ InterruptAlerts
          /\ UNCHANGED vars

\* One of the two connections is lost.
LoseConnection ==
    \/ ConnectionLost /\ UNCHANGED alertVars
    \/ LoseAlertConnection /\ UNCHANGED vars

\* The signal handler is installed after both have been started.
StopWriter ==
    \/ /\ alerter # "down"
       /\ StopBegins \/ StopDeaf
       /\ UNCHANGED alertVars
    \/ StopEnds /\ UNCHANGED alertVars

\* writer.Stop has returned.
StopAlerter ==
    /\ worker = "down"
    /\ StopAlertsBegins \/ StopAlertsEnds
    /\ UNCHANGED vars

Write == Receive \/ Settle \/ \E m \in Messages : Reject(m) \/ Persist(m)

Loop == ReceiveAlert \/ HandleAlert \/ AckAlert

WorkerNext ==
    \/ \E m \in Messages :
          PublishEvent(m) \/ (Deliver(m) /\ UNCHANGED alertVars)
    \/ Write /\ UNCHANGED alertVars
    \/ Loop /\ UNCHANGED vars
    \/ StartWriter \/ StartAlerter
    \/ CrashWorker \/ LoseConnection
    \/ StopWriter \/ StopAlerter

WorkerSpec == WorkerInit /\ [][WorkerNext]_workerVars

\* As AuditWriter's, and for main and the loop of the alert consumer.
WorkerFairness ==
    /\ \A m \in Messages : SF_workerVars(Deliver(m) /\ UNCHANGED alertVars)
    /\ \A m \in Messages \ (Malformed \cup Unstorable) :
          SF_workerVars(InsertStores(m) /\ UNCHANGED alertVars)
    /\ WF_workerVars(Write /\ UNCHANGED alertVars)
    /\ WF_workerVars(StartWriter)
    /\ WF_workerVars(StartAlerter)
    /\ WF_workerVars(Loop /\ UNCHANGED vars)
    /\ SF_workerVars(StopWriter /\ worker = "stopping")
    /\ SF_workerVars(StopAlerter)

FairWorkerSpec == WorkerSpec /\ WorkerFairness

-----------------------------------------------------------------------------
(* Properties.                                                             *)

\* The type invariant of the process.
WorkerTypeOK == TypeOK /\ AlertTypeOK

\* Whoever follows up an alert finds its event: it is in audit_events, or
\* with the writer or its queue, or, malformed, in the dead-letter queue.
AlertIsTrailed == raised \subseteq InBroker \cup rows \cup dlq

\* A blocked event that reached the alert queue is alerted, unless the alert
\* consumer has lost its connection, which it never makes again.
EventuallyAlerted ==
    \A m \in Blocked \ Garbled :
        (m \in alertable) ~> (m \in raised \/ alerter = "deaf")
=============================================================================
