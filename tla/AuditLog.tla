------------------------------ MODULE AuditLog ------------------------------
(***************************************************************************)
(* The audit_events table as the admin API shows it: ListAuditEvents       *)
(* (internal/handlers/audit_events.go) answers one page of one filter, and *)
(* a reader asks for page after page while the worker inserts rows.  Rows  *)
(* are inserted in any order of their occurred_at, and stay.               *)
(*                                                                         *)
(* Every page is a query of its own.  Rows of one occurred_at come in any  *)
(* order, which need not be the same for two queries.                      *)
(***************************************************************************)
EXTENDS Integers, FiniteSets, SequencesExt

CONSTANTS
    Entries,       \* the events that may be stored
    Rows,          \* what a row may hold
    Queries,       \* the filters readers use
    DefaultLimit,  \* 50
    MaxLimit,      \* 200
    Bits,          \* the width of limit and offset: 32
    Asked,         \* the limits readers ask for
    NoRow,         \* the event is not stored
    Absent            \* a filter that is not given, or no limit

ASSUME LogAssumption ==
    /\ DefaultLimit \in 1 .. MaxLimit
    /\ MaxLimit \in Nat
    /\ Bits \in Nat \ {0, 1}
    /\ MaxLimit < 2 ^ (Bits - 1)
    /\ Asked \subseteq Nat \cup {Absent}
    /\ IsFiniteSet(Entries)

\* What the provers are to know of powers.
ASSUME PowerAssumption == 2 ^ Bits = 2 * 2 ^ (Bits - 1)

VARIABLES
    rows,  \* the table: per event its row, or NoRow
    walk   \* a reader's walk through the pages

logVars == <<rows, walk>>

Resting == [step |-> "resting", query |-> [user |-> Absent, server |-> Absent, outcome |-> Absent],
            limit |-> Absent, offset |-> 0, due |-> {}, seen |-> {}, repeated |-> {}]

LogInit ==
    /\ rows = [e \in Entries |-> NoRow]
    /\ walk = Resting

Stored == {e \in Entries : rows[e] # NoRow}

\* The worker inserts a row.
InsertRow(e, row) ==
    /\ rows[e] = NoRow
    /\ rows' = [rows EXCEPT ![e] = row]
    /\ UNCHANGED walk

-----------------------------------------------------------------------------
(* The handler.                                                            *)

\* Only the first filter given is used.
Selected(query) ==
    {e \in Stored :
        IF query.user # Absent THEN rows[e].user = query.user
        ELSE IF query.server # Absent THEN rows[e].server = query.server
        ELSE query.outcome = Absent \/ rows[e].outcome = query.outcome}

\* Mutant of Listings: the query has no ORDER BY.
ListingsUnordered(S) == SetToSeqs(S)

\* The orders ORDER BY occurred_at DESC allows.
Listings(S) ==
    {s \in SetToSeqs(S) :
        \A i, j \in DOMAIN s : i < j => rows[s[i]].stamp >= rows[s[j]].stamp}

\* The conversion of an int to int32.
Int32(n) == ((n + 2 ^ (Bits - 1)) % 2 ^ Bits) - 2 ^ (Bits - 1)

\* A limit that is missing is the default, one that is too large the maximum.
Limit(asked) ==
    LET n == Int32(IF asked = Absent THEN DefaultLimit ELSE asked)
    IN  IF n > MaxLimit THEN MaxLimit ELSE n

\* Mutant of Offset: it is cut like the limit.
OffsetCut(n) == Limit(n)

Offset(n) == Int32(n)

-----------------------------------------------------------------------------
(* The reader asks for pages until one is empty, and counts what it got.   *)

Begin(query, asked) ==
    /\ walk.step # "reading"
    /\ walk' = [Resting EXCEPT !.step = "reading", !.query = query, !.limit = asked]
    /\ UNCHANGED rows

Receives(page, matching) ==
    LET got == {page[i] : i \in DOMAIN page}
    IN  walk' = [walk EXCEPT
            !.step = IF page = <<>> THEN "done" ELSE @,
            !.offset = @ + Len(page),
            !.due = IF walk.offset = 0 THEN matching ELSE @,
            !.seen = @ \cup got,
            !.repeated = @ \cup (walk.seen \cap got)]

ReadPage ==
    /\ walk.step = "reading"
    /\ walk.offset <= Cardinality(Entries)
    /\ LET limit == Limit(walk.limit)
           offset == Offset(walk.offset)
           matching == Selected(walk.query)
       IN  IF limit < 0 \/ offset < 0   \* PostgreSQL refuses them
           THEN walk' = [walk EXCEPT !.step = "failed"]
           ELSE \E s \in Listings(matching) :
                   Receives(SubSeq(s, offset + 1,
                                   IF offset + limit < Len(s) THEN offset + limit
                                   ELSE Len(s)),
                            matching)
    /\ UNCHANGED rows

ReadFails ==
    /\ walk.step = "reading"
    /\ walk' = [walk EXCEPT !.step = "failed"]
    /\ UNCHANGED rows

LogNext ==
    \/ \E query \in Queries, asked \in Asked : Begin(query, asked)
    \/ ReadPage
    \/ ReadFails

-----------------------------------------------------------------------------
(* Properties.                                                             *)

\* Two matching rows of the same occurred_at.
Tied(e) ==
    \E f \in Selected(walk.query) : f # e /\ rows[f].stamp = rows[e].stamp

\* A reader who has walked to an empty page has seen every row that matched
\* when it began, whatever was inserted on the way, late or not: insertions
\* only push rows to later pages.  (Rows that share an occurred_at may be
\* missed, and a limit of 0, which is accepted, ends the walk at once.)
WalkComplete ==
    walk.step = "done" /\ Limit(walk.limit) # 0 =>
        \A e \in walk.due : e \in walk.seen \/ Tied(e)

\* A row is shown twice only when a row that occurred no earlier has been
\* inserted during the walk, or shares its occurred_at.
RepeatsExplained ==
    \A e \in walk.repeated :
        \/ Tied(e)
        \/ \E f \in Selected(walk.query) \ walk.due : rows[f].stamp > rows[e].stamp
=============================================================================
