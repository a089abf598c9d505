------------------------------ MODULE ToolCall ------------------------------
(***************************************************************************)
(* What one tools/call carries through the proxy: the parameters the agent *)
(* sends, what of them the downstream server receives and with which       *)
(* credential, and what of the parameters and of the result is shown to    *)
(* the agent and published in the audit event (cmd/proxy/main.go,          *)
(* internal/mcp/redact.go and forwarder.go, internal/auth/resolver.go).    *)
(* Proxy has the look-ups and failures in between; here a step is decided, *)
(* and what it does to the data is spelled out.                            *)
(*                                                                         *)
(* A JSON document is known by the paths of the values it still has, each  *)
(* a sequence of keys (an index of an array is a key like any other), by   *)
(* the top-level keys whose value is now "[REDACTED]", and by which of its *)
(* numbers no float64 holds as they are written (`wide`) and which have    *)
(* been decoded and encoded as a float64 (`rounded`): 9007199254740993     *)
(* comes out as 9007199254740992.                                          *)
(***************************************************************************)
EXTENDS Naturals, Sequences

CONSTANTS
    Calls,          \* the tools/call requests
    Inputs,         \* the parameters agents may send
    FieldLists,     \* the redact_fields of the policies, as sets
    Results,        \* the results downstream servers may give
    Registrations   \* auth_type and auth_secret_ref of the servers

\* The default deny redacts nothing; the tables admit two auth types.
ASSUME CallAssumption ==
    /\ {} \in FieldLists
    /\ \A registration \in Registrations :
          /\ registration.auth \in {"api_key", "oauth2"}
          /\ registration.secret \in {"none", "resolves", "unresolvable"}

\* The numbers of the arguments are among their values.
ASSUME InputAssumption ==
    \A input \in Inputs : input.wide \subseteq input.arguments

\* A result has the members named here, its items have theirs.
ASSUME ResultAssumption ==
    \A result \in Results :
        /\ DOMAIN result = {"form", "items", "more"}
        /\ \A i \in DOMAIN result.items :
              /\ DOMAIN result.items[i] = {"type", "text", "data"}
              /\ DOMAIN result.items[i].text =
                    {"shape", "kept", "redacted", "wide", "rounded"}

VARIABLE call   \* per call: how far it is, and the data it carries

Document(shape, paths, wide) ==
    [shape |-> shape, kept |-> paths, redacted |-> {}, wide |-> wide, rounded |-> {}]

Nothing == Document("none", {}, {})

NoResult == [form |-> "none", items |-> <<>>, more |-> FALSE]

NoEvent == [outcome |-> "none", params |-> Nothing, summary |-> NoResult]

Unsent == [params |-> Nothing, header |-> "none"]

Fresh == [step |-> "new", params |-> Nothing,
          fields |-> {}, registration |-> [auth |-> "none", secret |-> "none"],
          sent |-> Unsent, result |-> NoResult, shown |-> NoResult,
          event |-> NoEvent]

CallInit == call = [c \in Calls |-> Fresh]

-----------------------------------------------------------------------------
(* Redaction.                                                              *)

\* A document is decoded into a map[string]any and encoded again: every number
\* becomes a float64.
Decoded(doc) == [doc EXCEPT !.rounded = @ \cup doc.wide, !.wide = {}]

\* The listed keys at the top lose their values.
RedactJSON(doc, fields) ==
    LET Stay(paths) == {p \in paths : p[1] \notin fields}
    IN  [Decoded(doc) EXCEPT
            !.kept = Stay(@),
            !.rounded = Stay(@),
            !.redacted = {p[1] : p \in doc.kept \ Stay(doc.kept)}]

\* Mutant of RedactJSONBytes: an object that has none of the fields at its top
\* is the only one redacted.
RedactJSONInverted(doc, fields) ==
    IF doc.shape = "object" /\ ~\E p \in doc.kept : p[1] \in fields
    THEN RedactJSON(doc, fields)
    ELSE doc

\* Only what decodes to an object has fields, and without a field to look for
\* nothing is decoded.  (A text with a number beyond the range of a float64
\* does not decode: its shape is "text".)
RedactJSONBytes(doc, fields) ==
    IF doc.shape = "object" /\ fields # {} THEN RedactJSON(doc, fields) ELSE doc

\* A ContentItem has a type and a text: other members, such as the data of an
\* image, are gone once it has been decoded and encoded again.
RedactItem(item, fields) ==
    [item EXCEPT !.text = IF item.type = "text"
                          THEN RedactJSONBytes(@, fields) ELSE @,
                 !.data = FALSE]

\* The same holds for the members of a ToolResult beside its content.
RedactFields(result, fields) ==
    [result EXCEPT !.items = [i \in DOMAIN @ |-> RedactItem(@[i], fields)],
                   !.more = FALSE]

\* Step 8 of the handler: a result that is no ToolResult is not redacted.
ShownResult(result, fields) ==
    IF result.form = "tool" /\ fields # {}
    THEN RedactFields(result, fields)
    ELSE result

-----------------------------------------------------------------------------
(* Credentials.                                                            *)

\* The header a secret goes in; an auth_type the forwarder does not know gets
\* none, and the call is sent all the same.
Header(registration) ==
    IF registration.secret = "resolves" /\ registration.auth = "api_key"
    THEN "X-Api-Key"
    ELSE "none"

-----------------------------------------------------------------------------
(* The steps.                                                              *)

At(c, step) == call[c].step = step

Becomes(c, new) == call' = [call EXCEPT ![c] = new]

\* The call ends with an event, and the agent is shown a result or an error.
Ends(c, outcome, fields, result, summary, shown) ==
    Becomes(c, [call[c] EXCEPT
        !.step = "ended",
        !.fields = fields,
        !.result = result,
        !.shown = shown,
        !.event = [outcome |-> outcome,
                   params |-> RedactJSONBytes(call[c].params, fields),
                   summary |-> summary]])

\* parseToolCall: the name and the arguments are kept, decoded and encoded
\* again; the server and every other member are not.
CleanParams(input) ==
    LET Below(paths) == {<<"arguments">> \o p : p \in paths}
    IN  Decoded(Document("object", {<<"name">>} \cup Below(input.arguments),
                         Below(input.wide)))

\* A request that does not decode is refused like one that names no server or
\* no tool.
Submit(c, input) ==
    /\ At(c, "new")
    /\ IF input.server /\ input.name
       THEN Becomes(c, [Fresh EXCEPT !.step = "parsed",
                                     !.params = CleanParams(input)])
       ELSE Becomes(c, [Fresh EXCEPT !.step = "refused"])

\* The default deny lists no field, a rule those of its row.
DenyCall(c, fields) ==
    /\ At(c, "parsed")
    /\ Ends(c, "denied", fields, NoResult, NoResult, NoResult)

\* Mutant of LimitCall: the limiter's denial is not published.
LimitCallUnpublished(c, fields) ==
    /\ At(c, "parsed")
    /\ Becomes(c, [call[c] EXCEPT !.step = "ended", !.fields = fields])

LimitCall(c, fields) ==
    /\ At(c, "parsed")
    /\ Ends(c, "rate_limited", fields, NoResult, NoResult, NoResult)

PermitCall(c, fields) ==
    /\ At(c, "parsed")
    /\ Becomes(c, [call[c] EXCEPT !.step = "permitted", !.fields = fields])

\* Mutant of SendCall: an unresolved secret is not an error.
SendUnresolved(c, registration) ==
    /\ At(c, "permitted")
    /\ Becomes(c, [call[c] EXCEPT
           !.step = "sent",
           !.registration = registration,
           !.sent = [params |-> call[c].params, header |-> Header(registration)]])

\* Mutant of SendCall: what is redacted for the trail is redacted in the call.
SendRedacted(c, registration) ==
    /\ At(c, "permitted")
    /\ registration.secret # "unresolvable"
    /\ Becomes(c, [call[c] EXCEPT
           !.step = "sent",
           !.registration = registration,
           !.sent = [params |-> RedactJSONBytes(call[c].params, call[c].fields),
                     header |-> Header(registration)]])

\* The server's secret, if it names one, must resolve.
SendCall(c, registration) ==
    /\ At(c, "permitted")
    /\ registration.secret # "unresolvable"
    /\ Becomes(c, [call[c] EXCEPT
           !.step = "sent",
           !.registration = registration,
           !.sent = [params |-> call[c].params, header |-> Header(registration)]])

\* Resolve fails: an environment variable that is empty, another scheme.
ResolveFails(c, registration) ==
    /\ At(c, "permitted")
    /\ registration.secret = "unresolvable"
    /\ Ends(c, "error", call[c].fields, NoResult, NoResult, NoResult)

\* No answer, or one whose status is not 2xx: its body is part of the error,
\* whose text is the event's summary.
FailCall(c, body) ==
    /\ At(c, "sent")
    /\ Ends(c, "error", call[c].fields, body, body, NoResult)

\* Mutant of AnswerCall: the event is built before the redaction.
AnswerPublishedRaw(c, result) ==
    /\ At(c, "sent")
    /\ Ends(c, "allowed", call[c].fields, result, result,
            ShownResult(result, call[c].fields))

\* A JSON-RPC error is an answer without a result.
AnswerCall(c, result) ==
    /\ At(c, "sent")
    /\ LET shown == ShownResult(result, call[c].fields)
       IN  Ends(c, "allowed", call[c].fields, result, shown, shown)

CallNext ==
    \E c \in Calls :
        \/ \E input \in Inputs : Submit(c, input)
        \/ \E fields \in FieldLists :
              DenyCall(c, fields) \/ LimitCall(c, fields) \/ PermitCall(c, fields)
        \/ \E registration \in Registrations :
              SendCall(c, registration) \/ ResolveFails(c, registration)
        \/ \E result \in Results \cup {NoResult} :
              FailCall(c, result) \/ AnswerCall(c, result)

-----------------------------------------------------------------------------
(* Properties.                                                             *)

Ended == {c \in Calls : At(c, "ended")}

\* The paths of a document on which a listed field lies.
Leaks(doc, fields) ==
    {p \in doc.kept : \E i \in DOMAIN p : p[i] \in fields}

\* The JSON objects that are redacted in a result of the given form.
Objects(result) ==
    IF result.form = "tool"
    THEN {item.text : item \in {i \in {result.items[k] : k \in DOMAIN result.items} :
                                   i.type = "text" /\ i.text.shape = "object"}}
    ELSE {}

\* The audit event of an answered call holds of the result exactly what the
\* agent was shown, so nothing that redaction withheld; the agent of a call
\* that was stopped or failed is shown nothing of a result (main.go:281-327).
StoredIsShown ==
    \A c \in Ended :
        /\ call[c].event.outcome = "allowed" =>
              call[c].event.summary = call[c].shown
        /\ call[c].event.outcome # "allowed" => call[c].shown = NoResult

\* A listed field at the top level of the audited parameters, or of an object
\* in the result, never gets out, whichever way the call ended: a listed
\* field that survives lies deeper, in an array or in plain text.
TopLevelStripped ==
    \A c \in Ended :
        \A doc \in {call[c].event.params} \cup Objects(call[c].shown) :
            \A p \in Leaks(doc, call[c].fields) : p[1] \notin call[c].fields

\* A call whose server has a secret that could not be resolved is never sent
\* without it (main.go:281-298, forwarder.go:61-77): a call goes bare only to a
\* server that names no secret, or of an auth_type that has no header.
SentWithCredential ==
    \A c \in {d \in Calls : call[d].sent # Unsent} :
        call[c].sent.header = "none" =>
            \/ call[c].registration.secret = "none"
            \/ call[c].registration.auth = "oauth2"

\* What the trail says a downstream server was asked is what it was asked,
\* however the call ended: the same parameters, down to the numbers that were
\* rounded on the way, but for listed fields, each of which it shows as
\* "[REDACTED]" and the server got (main.go:260-326).
AuditedIsSent ==
    \A c \in {d \in Ended : call[d].sent # Unsent} :
        LET sent == call[c].sent.params
            audited == call[c].event.params
            Shows(paths) == {p \in paths : p[1] \notin audited.redacted}
        IN  /\ audited.redacted \subseteq call[c].fields \cap {p[1] : p \in sent.kept}
            /\ audited.kept = Shows(sent.kept)
            /\ audited.wide = Shows(sent.wide)
            /\ audited.rounded = Shows(sent.rounded)
=============================================================================
