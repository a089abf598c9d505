----------------------------- MODULE AuditTrail -----------------------------
(***************************************************************************)
(* What the audit pipeline promises behind the broker, with no queue, no   *)
(* worker and no failure in sight: an event the broker has routed is       *)
(* outstanding until it is stored in the audit trail, or set aside in the  *)
(* dead-letter queue because it is malformed; it is never forgotten, never *)
(* stored twice, and what is stored or set aside stays.                    *)
(***************************************************************************)
CONSTANTS
    Messages,  \* the messages the publisher may send
    Malformed  \* those that do not decode to a valid event


VARIABLES
    outstanding,  \* routed, and neither stored nor set aside
    stored,       \* rows of audit_events
    dead          \* messages in the dead-letter queue

tvars == <<outstanding, stored, dead>>

TInit ==
    /\ outstanding = {}
    /\ stored = {}
    /\ dead = {}

Route(m) ==
    /\ m \notin outstanding \cup stored \cup dead
    /\ outstanding' = outstanding \cup {m}
    /\ UNCHANGED <<stored, dead>>

Store(m) ==
    /\ m \in outstanding \ Malformed
    /\ outstanding' = outstanding \ {m}
    /\ stored' = stored \cup {m}
    /\ UNCHANGED dead

SetAside(m) ==
    /\ m \in outstanding \cap Malformed
    /\ outstanding' = outstanding \ {m}
    /\ dead' = dead \cup {m}
    /\ UNCHANGED stored

TNext == \E m \in Messages : Route(m) \/ Store(m) \/ SetAside(m)

TSpec == TInit /\ [][TNext]_tvars
=============================================================================
