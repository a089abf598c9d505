------------------------------- MODULE Proxy -------------------------------
(***************************************************************************)
(* The life of a tools/call request in the proxy (cmd/proxy/main.go,       *)
(* makeProxyHandler), while the admin API changes the tables it looks      *)
(* things up in (AdminStore) and tokens come and go.  Every look-up is a   *)
(* step of its own, so administration falls between any two of them, and   *)
(* any step may fail, because the store behind it does or because the      *)
(* client has gone and the request's context is cancelled.                 *)
(*                                                                         *)
(* Three components are present through what they promise, which modules   *)
(* of their own show: a permitting decision of the policy engine was in    *)
(* the table at some time (PolicyCache, PermitConfirmed), the limiter      *)
(* admits, denies or fails (RateLimiter), and a token stands for the user  *)
(* it was issued to until it is gone (TokenStore).  The audit publisher is *)
(* the log of the events handed to it; what it does with them is           *)
(* AuditPublisher's.  The downstream server may run a call it has received *)
(* at any later time, also when the proxy has given up on it.              *)
(***************************************************************************)
EXTENDS AdminStore, Sequences

CONSTANTS
    Requests,  \* the tools/call requests
    Tokens,    \* the proxy tokens
    Stranger,  \* a token's user id that names no user
    Nobody     \* no user, role or server yet

VARIABLES
    holder,     \* per token: the user id it was issued for, or Nobody
    live,       \* the tokens Validate finds
    permitted,  \* history: the triples some row has ever allowed
    req,        \* per request: where its handler is, and what it has found
    wire,       \* the requests sent to a downstream server and not run yet
    ran,        \* history: the requests a downstream server has run
    log,        \* history: the events published, by request
    admitted,   \* history: the requests the limiter has admitted
    barred      \* history: what stood against a request at its arrival

proxyVars ==
    <<holder, live, permitted, req, wire, ran, log, admitted, barred>>
vars == <<adminVars, proxyVars>>

Outcomes == {"allowed", "denied", "rate_limited", "error"}

\* A stranger is no user, and absence is told from everything found.
ASSUME StrangerAssumption ==
    /\ Stranger \notin UserIds \cup {Nobody}
    /\ Nobody \notin UserIds \cup ServerIds \cup RoleIds \cup Outcomes

Steps == {"idle", "authenticate", "resolve user", "resolve server",
          "evaluate", "limit", "forward", "await", "finished", "crashed"}

Answers == {"none", "result", "unauthorized", "invalid params", "inactive",
            "forbidden", "rate limited", "unavailable", "upstream error",
            "internal error"}

Idle == [step |-> "idle", token |-> Nobody, name |-> Nobody, tool |-> Nobody,
         user |-> Nobody, role |-> Nobody, server |-> Nobody,
         answer |-> "none"]

Init ==
    /\ AdminInit
    /\ holder = [t \in Tokens |-> Nobody]
    /\ live = {}
    /\ permitted = {}
    /\ req = [r \in Requests |-> Idle]
    /\ wire = {}
    /\ ran = {}
    /\ log = [r \in Requests |-> <<>>]
    /\ admitted = {}
    /\ barred = [r \in Requests |-> [caller |-> FALSE, servers |-> {}]]

-----------------------------------------------------------------------------
(* Administration.                                                         *)

\* The triples the policies allow.
AllowedTriples(table) ==
    {<<table[p].role, table[p].server, table[p].tool>> :
        p \in {i \in RowsOf(table) : table[i].allowed}}

Administer ==
    /\ AdminNext
    /\ permitted' = permitted \cup AllowedTriples(policies')
    /\ UNCHANGED <<holder, live, req, wire, ran, log, admitted, barred>>

\* IssueToken takes any user id, also one that is no user's; those of users
\* are random, so none is known before its row is there.
Issue(t, u) ==
    /\ u \in RowsOf(users) \cup {Stranger}
    /\ holder[t] = Nobody
    /\ holder' = [holder EXCEPT ![t] = u]
    /\ live' = live \cup {t}
    /\ UNCHANGED <<adminVars, permitted, req, wire, ran, log, admitted, barred>>

\* A token is revoked or expires.  (That a restart of Redis may bring a revoked
\* token back is in TokenStore.)
Withdraw(t) ==
    /\ t \in live
    /\ live' = live \ {t}
    /\ UNCHANGED <<adminVars, holder, permitted, req, wire, ran, log, admitted, barred>>

-----------------------------------------------------------------------------
(* The handler.                                                            *)

At(r, step) == req[r].step = step

\* The request moves on, with what it has found, and nothing else changes.
Advance(r, new) ==
    /\ req' = [req EXCEPT ![r] = new]
    /\ UNCHANGED <<adminVars, holder, live, permitted, wire, ran, log, admitted, barred>>

Finished(r, answer) ==
    [req[r] EXCEPT !.step = "finished", !.answer = answer]

\* A refusal that publishes nothing.
Refuse(r, answer) == Advance(r, Finished(r, answer))

\* The handler publishes an event and answers.
PublishAndAnswer(r, outcome, answer) ==
    /\ log' = [log EXCEPT ![r] = Append(@,
                   [user |-> req[r].user, server |-> req[r].server,
                    outcome |-> outcome])]
    /\ req' = [req EXCEPT ![r] = Finished(r, answer)]
    /\ UNCHANGED <<adminVars, holder, live, permitted, wire, ran, admitted, barred>>

ActiveUsers == {u \in RowsOf(users) : users[u].active}

\* What stands against a request with token t when it arrives: that its
\* caller is nobody who may call, and the servers that have been turned off.
BarredNow(t) ==
    [caller |-> t \notin live \/ holder[t] \notin ActiveUsers,
     servers |-> {s \in RowsOf(servers) : ~servers[s].active}]

\* A request comes in, its body and its bearer token well formed, for a tool
\* of the server of a name.  (One that is not is answered with an error.)
\* Tokens are random: none is presented before it was issued.
Arrive(r, t, n, tool) ==
    /\ At(r, "idle")
    /\ holder[t] # Nobody
    /\ req' = [req EXCEPT ![r] = [Idle EXCEPT !.step = "authenticate",
                                      !.token = t, !.name = n, !.tool = tool]]
    /\ barred' = [barred EXCEPT ![r] = BarredNow(t)]
    /\ UNCHANGED <<adminVars, holder, live, permitted, wire, ran, log, admitted>>

Authenticate(r) ==
    /\ At(r, "authenticate")
    /\ IF req[r].token \in live
       THEN Advance(r, [req[r] EXCEPT !.step = "resolve user",
                                      !.user = holder[req[r].token]])
       ELSE Refuse(r, "unauthorized")

\* Mutant of ResolveUser: is_active is not looked at.
ResolveAnyUser(r) ==
    /\ At(r, "resolve user")
    /\ IF req[r].user \in RowsOf(users)
       THEN Advance(r, [req[r] EXCEPT !.step = "resolve server",
                                      !.role = users[req[r].user].role])
       ELSE Refuse(r, "unauthorized")

ResolveUser(r) ==
    /\ At(r, "resolve user")
    /\ IF req[r].user \in ActiveUsers
       THEN Advance(r, [req[r] EXCEPT !.step = "resolve server",
                                      !.role = users[req[r].user].role])
       ELSE Refuse(r, "unauthorized")

\* parseToolCall and the server of the name.  A server that is there but off is
\* refused before the policy is asked, and nothing is published.
ResolveServer(r) ==
    /\ At(r, "resolve server")
    /\ \/ \E s \in RowsOf(servers) :
              /\ servers[s].name = req[r].name
              /\ IF servers[s].active
                 THEN Advance(r, [req[r] EXCEPT !.step = "evaluate",
                                                !.server = s])
                 ELSE Refuse(r, "inactive")
       \/ /\ \A s \in RowsOf(servers) : servers[s].name # req[r].name
          /\ Refuse(r, "invalid params")

\* Mutant of LookupFails: the failure is published before its server is known.
LookupFailsPublishes(r) ==
    /\ req[r].step \in {"authenticate", "resolve user", "resolve server"}
    /\ PublishAndAnswer(r, "error", "internal error")

\* A look-up fails; the user id of a token that is no UUID ends here too.
LookupFails(r) ==
    /\ req[r].step \in {"authenticate", "resolve user", "resolve server"}
    /\ Refuse(r, "internal error")

Permit(r) ==
    /\ At(r, "evaluate")
    /\ <<req[r].role, req[r].server, req[r].tool>> \in permitted
    /\ Advance(r, [req[r] EXCEPT !.step = "limit"])

\* A denial: the rule's, the default, or the engine failing closed.
DenyByPolicy(r) ==
    /\ At(r, "evaluate")
    /\ PublishAndAnswer(r, "denied", "forbidden")

Admit(r) ==
    /\ At(r, "limit")
    /\ req' = [req EXCEPT ![r].step = "forward"]
    /\ admitted' = admitted \cup {r}
    /\ UNCHANGED <<adminVars, holder, live, permitted, wire, ran, log, barred>>

DenyByLimit(r) ==
    /\ At(r, "limit")
    /\ PublishAndAnswer(r, "rate_limited", "rate limited")

\* The limiter fails: the request is refused, and nothing published.
LimiterFails(r) ==
    /\ At(r, "limit")
    /\ Refuse(r, "unavailable")

\* Mutant of Forward: a call whose answer does not come is sent again.
ForwardRetries(r) ==
    /\ req[r].step \in {"forward", "await"}
    /\ wire' = wire \cup {r}
    /\ req' = [req EXCEPT ![r].step = "await"]
    /\ UNCHANGED <<adminVars, holder, live, permitted, ran, log, admitted, barred>>

\* The forwarder has sent the call to the downstream server.
Forward(r) ==
    /\ At(r, "forward")
    /\ wire' = wire \cup {r}
    /\ req' = [req EXCEPT ![r].step = "await"]
    /\ UNCHANGED <<adminVars, holder, live, permitted, ran, log, admitted, barred>>

\* Mutant of ForwardFails: only a call that was answered is published.
ForwardFailsSilently(r) ==
    /\ req[r].step \in {"forward", "await"}
    /\ Refuse(r, "upstream error")

\* The call could not be sent, or no good answer came: no secret, no
\* connection, 30 seconds, a status that is not 2xx, a body that is no answer.
ForwardFails(r) ==
    /\ req[r].step \in {"forward", "await"}
    /\ PublishAndAnswer(r, "error", "upstream error")

\* The downstream server's answer arrives.  It has run the call, or it has
\* turned it down with a JSON-RPC error, which is an answer like any other.
DownstreamAnswers(r) ==
    /\ At(r, "await")
    /\ r \notin wire
    /\ PublishAndAnswer(r, "allowed", "result")

-----------------------------------------------------------------------------
(* The downstream server, and the end of the proxy.                        *)

DownstreamRuns(r) ==
    /\ r \in wire
    /\ wire' = wire \ {r}
    /\ ran' = ran \cup {r}
    /\ UNCHANGED <<adminVars, holder, live, permitted, req, log, admitted, barred>>

\* The call never reaches the downstream server, or is turned down by it.
CallNotRun(r) ==
    /\ r \in wire
    /\ wire' = wire \ {r}
    /\ UNCHANGED <<adminVars, holder, live, permitted, req, ran, log, admitted, barred>>

\* The proxy dies under its requests; what it has sent is on its way.
Crash ==
    /\ \E r \in Requests : ~At(r, "idle") /\ ~At(r, "finished")
    /\ req' = [r \in Requests |->
                  IF req[r].step \in {"idle", "finished"}
                  THEN req[r]
                  ELSE [req[r] EXCEPT !.step = "crashed"]]
    /\ UNCHANGED <<adminVars, holder, live, permitted, wire, ran, log, admitted, barred>>

-----------------------------------------------------------------------------

Handler(r) ==
    \/ \E t \in Tokens, n \in ServerNames, tool \in Tools : Arrive(r, t, n, tool)
    \/ Authenticate(r)
    \/ ResolveUser(r)
    \/ ResolveServer(r)
    \/ LookupFails(r)
    \/ Permit(r)
    \/ DenyByPolicy(r)
    \/ Admit(r)
    \/ DenyByLimit(r)
    \/ LimiterFails(r)
    \/ Forward(r)
    \/ ForwardFails(r)
    \/ DownstreamAnswers(r)

Downstream(r) == DownstreamRuns(r) \/ CallNotRun(r)

Next ==
    \/ Administer
    \/ \E t \in Tokens : Withdraw(t) \/ \E u \in UserIds \cup {Stranger} : Issue(t, u)
    \/ \E r \in Requests : Handler(r) \/ Downstream(r)
    \/ Crash

Spec == Init /\ [][Next]_vars

-----------------------------------------------------------------------------
(* Properties.                                                             *)

Events == [user : UserIds, server : ServerIds, outcome : Outcomes]

Handling == [step : Steps, token : Tokens \cup {Nobody},
             name : ServerNames \cup {Nobody}, tool : Tools \cup {Nobody},
             user : UserIds \cup {Stranger, Nobody},
             role : RoleIds \cup {Nobody}, server : ServerIds \cup {Nobody},
             answer : Answers]

\* The type invariant of the proxy.
TypeOK ==
    /\ AdminTypeOK
    /\ holder \in [Tokens -> UserIds \cup {Stranger, Nobody}]
    /\ live \subseteq Tokens
    /\ permitted \subseteq RoleIds \X ServerIds \X Tools
    /\ req \in [Requests -> Handling]
    /\ wire \subseteq Requests
    /\ ran \subseteq Requests
    /\ log \in [Requests -> Seq(Events)]
    /\ admitted \subseteq Requests
    /\ barred \in [Requests -> [caller : BOOLEAN, servers : SUBSET ServerIds]]

\* "No tool call can be executed by the proxy without positive authorization"
\* (CHANGELOG.md:188): what a downstream server runs, however late, is a call
\* whose token was live and whose user was active when it arrived, to a
\* server that was on, under a rule that has allowed the user's role that
\* tool, and admitted by the limiter; whatever fails on the way, and whatever
\* administration happens between the look-ups.
Authorised ==
    \A r \in ran :
        /\ ~barred[r].caller
        /\ req[r].server \notin barred[r].servers
        /\ <<req[r].role, req[r].server, req[r].tool>> \in permitted
        /\ r \in admitted

\* The outcome an event must have for each answer of a decided request.
Told == [a \in {"result", "forbidden", "rate limited", "upstream error"} |->
            CASE a = "result" -> "allowed"
              [] a = "forbidden" -> "denied"
              [] a = "rate limited" -> "rate_limited"
              [] a = "upstream error" -> "error"]

\* The answers a request gets without an event: who calls is not known, the
\* server of the name does not exist or is off (main.go:205), or a look-up or
\* the limiter (main.go:241) failed.
Silent == {"unauthorized", "invalid params", "inactive", "internal error", "unavailable"}

\* A request that got as far as a decision of policy or limiter has exactly one
\* event, of its caller and its server, which says what the agent was told,
\* whether the downstream server's answer came, failed or came too late.  A
\* request with one of the silent answers has none, and was never sent: so it
\* is with two refusals of requests whose server was found, for a server that
\* is off and for a limiter that failed, although "the proxy publishes
\* every decision" (event.go:2).
Accounted ==
    \A r \in Requests : At(r, "finished") =>
        IF req[r].answer \in Silent
        THEN log[r] = <<>> /\ r \notin wire \cup ran
        ELSE log[r] = <<[user |-> holder[req[r].token], server |-> req[r].server,
                         outcome |-> Told[req[r].answer]]>>

\* The rows that an event's foreign keys name are there at any later time,
\* whatever administration has happened meanwhile (migration 5).  Other reasons
\* for which PostgreSQL may refuse the worker's INSERT are AuditWriter's.
EventReferences ==
    \A r \in Requests : \A i \in DOMAIN log[r] :
        /\ log[r][i].user \in RowsOf(users)
        /\ log[r][i].server \in RowsOf(servers)

\* The proxy, with the tables, the tokens and the limiter it asks, implements
\* the abstract gateway: a request is entitled once the limiter has admitted
\* what the policy permits, dispatched while its answer is awaited, and closed
\* when it is answered or its process has died.
Gate == INSTANCE Gateway WITH
            Calls <- Requests,
            Silence <- Nobody,
            phase <- [r \in Requests |->
                         CASE At(r, "await") -> "dispatched"
                           [] req[r].step \in {"finished", "crashed"} -> "closed"
                           [] OTHER -> "open"],
            entitled <- admitted,
            pending <- wire,
            executed <- ran,
            verdict <- [r \in Requests |->
                           IF log[r] = <<>> THEN Nobody ELSE log[r][1].outcome]

ImplementsGateway == Gate!GSpec
=============================================================================
