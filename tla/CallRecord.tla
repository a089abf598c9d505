----------------------------- MODULE CallRecord -----------------------------
(***************************************************************************)
(* From a call to the row an administrator reads: the events of ToolCall   *)
(* are stored by the worker, some time later and among the rows of other   *)
(* calls, in the table of AuditLog.  Queues and failures between the two   *)
(* are AuditPublisher's and AuditWriter's.                                 *)
(***************************************************************************)
EXTENDS ToolCall, AuditLog

CONSTANT OtherRows   \* the rows of events of other calls

ASSUME RowAssumption ==
    /\ \A row \in Rows \cup OtherRows : row # NoRow /\ row.stamp \in Int
    /\ Calls \subseteq Entries

vars == <<call, logVars>>

Init == CallInit /\ LogInit

\* The row of a call's event.
StoreCall(c) ==
    /\ At(c, "ended")
    /\ \E row \in Rows :
          /\ row.outcome = call[c].event.outcome
          /\ InsertRow(c, row)
    /\ UNCHANGED call

\* The row of any other event.
StoreOther(e) ==
    /\ e \notin Calls
    /\ \E row \in OtherRows : InsertRow(e, row)
    /\ UNCHANGED call

Next ==
    \/ CallNext /\ UNCHANGED logVars
    \/ LogNext /\ UNCHANGED call
    \/ \E c \in Calls : StoreCall(c)
    \/ \E e \in Entries : StoreOther(e)

Spec == Init /\ [][Next]_vars

-----------------------------------------------------------------------------

\* The type invariant of the calls, the table and the reader.
TypeOK ==
    /\ \A c \in Calls :
          /\ call[c].step \in {"new", "refused", "parsed", "permitted", "sent", "ended"}
          /\ call[c].fields \in FieldLists
          /\ call[c].result \in Results \cup {NoResult}
          /\ call[c].event.outcome \in {"none", "allowed", "denied", "rate_limited", "error"}
          /\ At(c, "ended") <=> call[c].event.outcome # "none"
    /\ \A e \in Stored : rows[e] \in Rows \cup OtherRows
    /\ walk.step \in {"resting", "reading", "done", "failed"}
    /\ walk.offset \in Nat
    /\ walk.due \subseteq Entries
    /\ walk.repeated \subseteq walk.seen

\* "Sensitive fields are stripped before audit events are published to
\* RabbitMQ - they never touch Postgres" (README.md:91): no row keeps a value
\* under a field that its call's policy lists.
SensitiveNeverStored ==
    \A c \in Calls \cap Stored :
        LET event == call[c].event
            texts == {event.summary.items[i].text : i \in DOMAIN event.summary.items}
        IN  \A doc \in {event.params} \cup texts : Leaks(doc, call[c].fields) = {}
=============================================================================
