---------------------------- MODULE MCCallRecord ----------------------------
(***************************************************************************)
(* A small instance of CallRecord: one call, whose parameters and results  *)
(* hold a field at the top, inside an object, in an array or in plain      *)
(* text, two other events, and pages of one row or two.                    *)
(***************************************************************************)
EXTENDS CallRecord

CONSTANTS c1, o1, o2, u1, u2, s1

MCCalls == {c1}
MCEntries == {c1, o1, o2}

MCInputs ==
    [server : {TRUE}, name : BOOLEAN, arguments : {{<<"ssn">>, <<"note">>}},
     wide : {{<<"note">>}}]
        \cup [server : BOOLEAN, name : {TRUE},
              arguments : {{<<"person", "ssn">>}}, wide : {{}}]

MCFieldLists == {{}, {"ssn"}, {"arguments"}}

Text(doc) == [type |-> "text", text |-> doc, data |-> FALSE]
Image == [type |-> "image", text |-> Document("text", {}, {}), data |-> TRUE]

Result(items) == [form |-> "tool", items |-> items, more |-> FALSE]

MCResults ==
    {[Result(<<>>) EXCEPT !.more = TRUE],
     Result(<<Text(Document("object", {<<"ssn">>, <<"note">>}, {<<"note">>})), Image>>),
     Result(<<Text(Document("object", {<<"person", "ssn">>}, {}))>>),
     Result(<<Text(Document("array", {<<"0", "ssn">>}, {}))>>),
     [Result(<<Text(Document("array", {<<"0", "ssn">>}, {}))>>) EXCEPT !.form = "other"]}

MCRegistrations ==
    {[auth |-> "api_key", secret |-> "none"],
     [auth |-> "api_key", secret |-> "resolves"],
     [auth |-> "api_key", secret |-> "unresolvable"],
     [auth |-> "oauth2", secret |-> "resolves"]}

Row(stamp, user, outcome) ==
    [stamp |-> stamp, user |-> user, server |-> s1, outcome |-> outcome]

MCRows ==
    {Row(2, u1, outcome) : outcome \in {"allowed", "denied", "rate_limited", "error"}}

\* Rows below the call's in a listing, beside it and above it.
MCOtherRows == {Row(1, u2, "denied"), Row(2, u1, "denied"), Row(3, u1, "allowed")}

MCQueries ==
    {[user |-> Absent, server |-> Absent, outcome |-> Absent],
     [user |-> u1, server |-> Absent, outcome |-> "denied"],
     [user |-> Absent, server |-> s1, outcome |-> "allowed"]}

\* One row by default, none, 3 cut to the maximum of two, and, with limits of
\* four bits, 9 negative.
MCAsked == {Absent, 0, 3, 9}

Symmetry == Permutations({o1, o2})
=============================================================================
