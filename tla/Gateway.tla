------------------------------ MODULE Gateway ------------------------------
(***************************************************************************)
(* What the gateway promises of a tool call, with no tables, no tokens and *)
(* no look-ups in sight.  A call that is refused is never dispatched; one  *)
(* that is dispatched was entitled to it; a downstream server runs a call  *)
(* once at most, and only after its dispatch; and the event that records   *)
(* the end of a call says "denied" or "rate_limited" only of calls that    *)
(* were not dispatched, "allowed" only of one that was and is no longer on *)
(* its way.                                                                *)
(***************************************************************************)
CONSTANTS
    Calls,   \* the tool calls
    Silence  \* no event records the end of the call

VARIABLES
    phase,     \* per call: "open", "dispatched" or "closed"
    entitled,  \* the calls that may be dispatched
    pending,   \* dispatched, and neither run nor lost
    executed,  \* the calls a downstream server has run
    verdict    \* per call: the outcome of its event, or Silence

gvars == <<phase, entitled, pending, executed, verdict>>

GInit ==
    /\ phase = [c \in Calls |-> "open"]
    /\ entitled = {}
    /\ pending = {}
    /\ executed = {}
    /\ verdict = [c \in Calls |-> Silence]

Entitle(c) ==
    /\ phase[c] = "open"
    /\ entitled' = entitled \cup {c}
    /\ UNCHANGED <<phase, pending, executed, verdict>>

\* The call ends, with an event or without one.
Close(c, outcomes) ==
    /\ phase' = [phase EXCEPT ![c] = "closed"]
    /\ \E o \in outcomes : verdict' = [verdict EXCEPT ![c] = o]
    /\ UNCHANGED <<entitled, pending, executed>>

\* A call is refused, with an event or in silence; once it is entitled, only
\* a failure can stop it, and that is recorded.
RefuseCall(c) ==
    /\ phase[c] = "open"
    /\ IF c \in entitled
       THEN Close(c, {"error"})
       ELSE Close(c, {"denied", "rate_limited", Silence})

Dispatch(c) ==
    /\ phase[c] = "open"
    /\ c \in entitled
    /\ phase' = [phase EXCEPT ![c] = "dispatched"]
    /\ pending' = pending \cup {c}
    /\ UNCHANGED <<entitled, executed, verdict>>

Execute(c) ==
    /\ c \in pending
    /\ pending' = pending \ {c}
    /\ executed' = executed \cup {c}
    /\ UNCHANGED <<phase, entitled, verdict>>

Lose(c) ==
    /\ c \in pending
    /\ pending' = pending \ {c}
    /\ UNCHANGED <<phase, entitled, executed, verdict>>

\* The answer of a call that is not on its way any more, or the end of the
\* wait for it.
Conclude(c) ==
    /\ phase[c] = "dispatched"
    /\ \/ c \notin pending /\ Close(c, {"allowed"})
       \/ Close(c, {"error"})

\* The gateway dies: the calls it has are not concluded by anyone.
Abandon ==
    /\ \E dying \in SUBSET {c \in Calls : phase[c] # "closed"} :
          phase' = [c \in Calls |-> IF c \in dying THEN "closed" ELSE phase[c]]
    /\ UNCHANGED <<entitled, pending, executed, verdict>>

GNext ==
    \/ \E c \in Calls :
          \/ Entitle(c) \/ RefuseCall(c) \/ Dispatch(c)
          \/ Execute(c) \/ Lose(c) \/ Conclude(c)
    \/ Abandon

GSpec == GInit /\ [][GNext]_gvars

\* Whoever reads that a call was denied or rate limited may conclude that no
\* downstream server has run it or will.
StoppedNeverRuns ==
    \A c \in executed \cup pending : verdict[c] \notin {"denied", "rate_limited"}
=============================================================================
