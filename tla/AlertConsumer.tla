--------------------------- MODULE AlertConsumer ---------------------------
(***************************************************************************)
(* The alert consumer of the worker (internal/audit/alerting.go) and its   *)
(* queue, bound to the routing keys of the denied and the rate-limited     *)
(* events.                                                                 *)
(*                                                                         *)
(* The channel has no Qos, so whether a message is still in the queue or   *)
(* already delivered makes no difference: `alerts` has the messages the    *)
(* broker holds for the consumer until they are acknowledged, and the loop *)
(* receives the oldest first.                                              *)
(***************************************************************************)
EXTENDS Naturals

CONSTANTS
    Blocked,  \* the messages of denied and rate-limited events
    Garbled,  \* the messages that are no JSON of an event
    MaxAlertInterruptions   \* bound on the interruptions of the consumer alone

ASSUME AlertAssumption ==
    /\ Blocked \subseteq Nat \ {0}
    /\ Garbled \subseteq Nat \ {0}
    /\ MaxAlertInterruptions \in Nat

VARIABLES
    alertBound,  \* the queue exists and is bound (it is durable)
    alertable,   \* history: the messages routed to the queue
    alerts,      \* those not acknowledged
    alerter,     \* "down", "consuming", "stopping" or "deaf"
    alerting,    \* the message the loop has, or 0
    handled,     \* the loop has unmarshalled it and raised its alert
    raised,      \* history: the messages an alert was raised for
    alertCount   \* interruptions of the consumer alone, so far

alertVars == <<alertBound, alertable, alerts, alerter, alerting, handled, raised,
               alertCount>>

AlertInit ==
    /\ alertBound = FALSE
    /\ alertable = {}
    /\ alerts = {}
    /\ alerter = "down"
    /\ alerting = 0
    /\ handled = FALSE
    /\ raised = {}
    /\ alertCount = 0

AlertLinked == alerter \in {"consuming", "stopping"}

\* The exchange routes a message.
RouteAlert(m) ==
    /\ IF alertBound /\ m \in Blocked
       THEN alertable' = alertable \cup {m} /\ alerts' = alerts \cup {m}
       ELSE UNCHANGED <<alertable, alerts>>
    /\ UNCHANGED <<alertBound, alerter, alerting, handled, raised, alertCount>>

\* NewAlertConsumer and Start.
StartAlerts ==
    /\ alerter = "down"
    /\ alerter' = "consuming"
    /\ alertBound' = TRUE
    /\ UNCHANGED <<alertable, alerts, alerting, handled, raised, alertCount>>

\* Once Stop has cancelled the context, the select may still take a message.
ReceiveAlert ==
    /\ AlertLinked
    /\ alerting = 0
    /\ \E m \in alerts :
          /\ \A n \in alerts : m <= n
          /\ alerting' = m
    /\ UNCHANGED <<alertBound, alertable, alerts, alerter, handled, raised, alertCount>>

\* Mutant of HandleAlert: a message is unmarshalled, and no alert raised.
HandleAlertSilently ==
    /\ alerting # 0
    /\ ~handled
    /\ handled' = TRUE
    /\ UNCHANGED <<alertBound, alertable, alerts, alerter, alerting, raised, alertCount>>

\* What Alert returns is ignored, and a message that does not unmarshal too.
HandleAlert ==
    /\ alerting # 0
    /\ ~handled
    /\ handled' = TRUE
    /\ raised' = raised \cup ({alerting} \ Garbled)
    /\ UNCHANGED <<alertBound, alertable, alerts, alerter, alerting, alertCount>>

\* Mutant of AckAlert: the message is acknowledged before it is handled.
AckAlertFirst ==
    /\ alerting # 0
    /\ alerts' = alerts \ {alerting}
    /\ IF handled THEN alerting' = 0 ELSE UNCHANGED alerting
    /\ handled' = FALSE
    /\ UNCHANGED <<alertBound, alertable, alerter, raised, alertCount>>

\* The acknowledgement fails, unnoticed, without a channel.
AckAlert ==
    /\ handled
    /\ alerts' = IF AlertLinked THEN alerts \ {alerting} ELSE alerts
    /\ alerting' = 0
    /\ handled' = FALSE
    /\ UNCHANGED <<alertBound, alertable, alerter, raised, alertCount>>

InterruptAlerts ==
    /\ alertCount < MaxAlertInterruptions
    /\ alertCount' = alertCount + 1

\* The process dies.  (Whoever calls says which interruption it counts as.)
CrashAlerts ==
    /\ alerter' = "down"
    /\ alerting' = 0
    /\ handled' = FALSE
    /\ UNCHANGED <<alertBound, alertable, alerts, raised>>

\* The loop returns once its message is handled; nothing reconnects.
LoseAlertConnection ==
    /\ AlertLinked
    /\ InterruptAlerts
    /\ alerter' = "deaf"
    /\ UNCHANGED <<alertBound, alertable, alerts, alerting, handled, raised>>

\* Stop cancels the context ...
StopAlertsBegins ==
    /\ alerter = "consuming"
    /\ alerter' = "stopping"
    /\ UNCHANGED <<alertBound, alertable, alerts, alerting, handled, raised, alertCount>>

\* ... waits for the loop, and closes the channel.
StopAlertsEnds ==
    /\ alerter \in {"stopping", "deaf"}
    /\ alerting = 0
    /\ alerter' = "down"
    /\ UNCHANGED <<alertBound, alertable, alerts, alerting, handled, raised, alertCount>>

-----------------------------------------------------------------------------
(* Properties.                                                             *)

\* The type invariant of the alert queue and its consumer: only blocked
\* events are alerted.
AlertTypeOK ==
    /\ alertBound \in BOOLEAN
    /\ alertable \subseteq Blocked
    /\ alerts \subseteq alertable
    /\ alerter \in {"down", "consuming", "stopping", "deaf"}
    /\ alerting \in alertable \cup {0}
    /\ handled \in BOOLEAN
    /\ handled => alerting # 0
    /\ raised \subseteq alertable \ Garbled
    /\ alertCount \in 0 .. MaxAlertInterruptions

\* A blocked event that reached the alert queue is with the broker until its
\* alert has been raised, whatever interrupts the worker: it is acknowledged
\* after Alert, never before.  Only what does not unmarshal goes without.
NoAlertLost == alertable \subseteq alerts \cup raised \cup Garbled
=============================================================================
