---------------------------- MODULE ProxyProofs ----------------------------
(***************************************************************************)
(* The request handler of the proxy for any tables, tokens and requests:   *)
(* no call runs without authorization, every decision of policy or limiter *)
(* has its event, every event's user and server stay in their tables, and  *)
(* the proxy implements the abstract gateway.                              *)
(***************************************************************************)
EXTENDS Proxy, AdminStoreProofs

\* A token that was issued stands for a user with a row, or for a stranger.
HoldersReal ==
    \A t \in Tokens : holder[t] \in {Nobody, Stranger} \cup RowsOf(users)

\* The steps of a request whose server has been found.
Located == {"evaluate", "limit", "forward", "await"}

\* What stood against a request at its arrival still stands against it: its
\* token was issued and is never issued again, and what was turned off never
\* comes back.
Begun(r) ==
    ~At(r, "idle") =>
        /\ req[r].token \in Tokens
        /\ req[r].tool \in Tools
        /\ holder[req[r].token] # Nobody
        /\ barred[r].caller => \/ req[r].token \notin live
                               \/ holder[req[r].token] \notin ActiveUsers
        /\ \A s \in barred[r].servers : s \in RowsOf(servers) /\ ~servers[s].active

\* What the handler has found, at each of its steps.  The limiter's admission
\* keeps what was found true of a call whose handler has ended.
FoundUser(r) ==
    /\ At(r, "resolve user") =>
          /\ req[r].user = holder[req[r].token]
          /\ barred[r].caller => req[r].user \notin ActiveUsers
    /\ req[r].step \in {"resolve server"} \cup Located \/ r \in admitted =>
          /\ req[r].user = holder[req[r].token]
          /\ req[r].user \in RowsOf(users)
          /\ ~barred[r].caller

FoundServer(r) ==
    /\ req[r].step \in {"authenticate", "resolve user", "resolve server"} =>
          req[r].server = Nobody
    /\ req[r].step \in Located \/ r \in admitted =>
          /\ req[r].server \in RowsOf(servers)
          /\ req[r].server \notin barred[r].servers

FoundPermit(r) ==
    req[r].step \in {"limit", "forward", "await"} \/ r \in admitted =>
        <<req[r].role, req[r].server, req[r].tool>> \in permitted

\* A request is admitted before it is sent, and sent before it is run.
Sent(r) ==
    /\ req[r].step \in {"forward", "await"} => r \in admitted
    /\ r \in admitted => req[r].step \in {"forward", "await", "finished", "crashed"}
    /\ r \in wire \cup ran =>
          r \in admitted /\ req[r].step \in {"await", "finished", "crashed"}

\* The event of a request is written with its answer; it refers to rows, and
\* says "denied" or "rate_limited" only of a request that was not admitted.
Ledger(r) ==
    IF At(r, "finished")
    THEN \/ log[r] = <<>> /\ req[r].answer \in Silent /\ r \notin admitted
         \/ /\ log[r] = <<[user |-> holder[req[r].token],
                           server |-> req[r].server,
                           outcome |-> Told[req[r].answer]]>>
            /\ holder[req[r].token] \in RowsOf(users)
            /\ req[r].server \in RowsOf(servers)
            /\ req[r].answer \in DOMAIN Told
            /\ r \in admitted => req[r].answer \in {"result", "upstream error"}
    ELSE log[r] = <<>>

\* The inductive invariant: of one request, and of the proxy.
RequestInv(r) ==
    /\ Begun(r)
    /\ FoundUser(r)
    /\ FoundServer(r)
    /\ FoundPermit(r)
    /\ Sent(r)
    /\ Ledger(r)

ProxyInv ==
    /\ TypeOK
    /\ AdminInv
    /\ HoldersReal
    /\ \A r \in Requests : RequestInv(r)

-----------------------------------------------------------------------------
(* What a request keeps while others move.                                 *)

\* What every step keeps of the surroundings of a request: users and servers
\* stay, and none is turned on again; permissions of the past stay; a token
\* keeps its holder, and is not issued again.
Drift ==
    /\ OffStays
    /\ permitted \subseteq permitted'
    /\ \A t \in Tokens : holder[t] # Nobody =>
          /\ holder'[t] = holder[t]
          /\ t \notin live => t \notin live'

\* A request whose own variables a step leaves alone, but for its call, which
\* may be run or lost.
Untouched(r) ==
    /\ req'[r] = req[r]
    /\ log'[r] = log[r]
    /\ barred'[r] = barred[r]
    /\ r \in (wire \cup ran)' => r \in wire \cup ran
    /\ r \in admitted' <=> r \in admitted

\* Nobody who could not call becomes an active user while tables drift.
LEMMA DriftActive ==
    ASSUME Drift, AdminTypeOK, AdminTypeOK',
           NEW u \in RowsOf(users) \cup {Stranger}, u \notin ActiveUsers
    PROVE  u \notin ActiveUsers'
<1>1. CASE u = Stranger
  <2>1. RowsOf(users)' \subseteq UserIds
    BY DEF RowsOf, AdminTypeOK
  <2>2. QED
    BY <1>1, <2>1, StrangerAssumption DEF ActiveUsers
<1>2. CASE u \in RowsOf(users)
  BY <1>2 DEF Drift, OffStays, ActiveUsers
<1>3. QED
  BY <1>1, <1>2

\* A request that a step leaves alone keeps its facts.
LEMMA Frame ==
    ASSUME ProxyInv, AdminTypeOK', Drift, NEW r \in Requests, Untouched(r)
    PROVE  RequestInv(r)'
<1>1. RequestInv(r) /\ TypeOK /\ HoldersReal /\ AdminTypeOK
  BY DEF ProxyInv, AdminInv
<1>2. RowsOf(users) \subseteq RowsOf(users)' /\ RowsOf(servers) \subseteq RowsOf(servers)'
  BY DEF Drift, OffStays
<1>3. ~At(r, "idle") => /\ req[r].token \in Tokens
                        /\ holder[req[r].token] # Nobody
                        /\ holder'[req[r].token] = holder[req[r].token]
                        /\ holder[req[r].token] \in RowsOf(users) \cup {Stranger}
  BY <1>1 DEF RequestInv, Begun, Drift, HoldersReal
<1>4. Begun(r)'
  <2> SUFFICES ASSUME ~At(r, "idle") PROVE Begun(r)'
    BY DEF Begun, At, Untouched
  <2>1. holder[req[r].token] \notin ActiveUsers
            => holder[req[r].token] \notin ActiveUsers'
    BY <1>1, <1>3, DriftActive
  <2>2. \A s \in barred[r].servers : s \in RowsOf(servers)' /\ ~servers'[s].active
    BY <1>1 DEF RequestInv, Begun, Drift, OffStays
  <2>3. QED
    BY <1>1, <1>3, <2>1, <2>2 DEF RequestInv, Begun, Untouched, Drift, At
<1>5. FoundUser(r)'
  <2>1. ASSUME At(r, "resolve user"), barred[r].caller
        PROVE  req[r].user \notin ActiveUsers'
    BY <1>1, <1>3, <2>1, DriftActive DEF RequestInv, FoundUser, At
  <2>2. req[r].step \in {"resolve server"} \cup Located \/ r \in admitted
            => ~At(r, "idle")
    BY <1>1 DEF RequestInv, Sent, At, Located
  <2>3. QED
    BY <1>1, <1>2, <1>3, <2>1, <2>2 DEF RequestInv, FoundUser, Untouched, At
<1>6. FoundServer(r)'
  BY <1>1, <1>2 DEF RequestInv, FoundServer, Untouched
<1>7. FoundPermit(r)'
  BY <1>1 DEF RequestInv, FoundPermit, Untouched, Drift
<1>8. Sent(r)'
  BY <1>1 DEF RequestInv, Sent, Untouched
<1>9. Ledger(r)'
  BY <1>1, <1>2, <1>3 DEF RequestInv, Ledger, Untouched, At
<1>10. QED
  BY <1>4, <1>5, <1>6, <1>7, <1>8, <1>9 DEF RequestInv

-----------------------------------------------------------------------------
(* The steps of a handler.                                                 *)

\* A step of one request leaves the tables and the tokens alone.
Steady == UNCHANGED <<adminVars, holder, live, permitted>>

\* Then the invariants of the tables and tokens hold on.
LEMMA SteadyKeeps ==
    ASSUME ProxyInv, Steady
    PROVE  Drift /\ AdminInv' /\ AdminTypeOK' /\ HoldersReal'
<1>1. UNCHANGED <<RowsOf(users), RowsOf(servers), RowsOf(roles), RowsOf(policies)>>
  BY DEF Steady, adminVars, RowsOf
<1>2. Drift
  BY <1>1 DEF Steady, adminVars, Drift, OffStays
<1>3. AdminTypeOK' /\ References' /\ RulesUnique'
  BY <1>1 DEF ProxyInv, AdminInv, Steady, adminVars, AdminTypeOK, References,
     RulesUnique
<1>4. HoldersReal'
  BY <1>1 DEF ProxyInv, HoldersReal, Steady
<1>5. QED
  BY <1>2, <1>3, <1>4 DEF AdminInv

\* It is enough to look at the request that moves.
LEMMA OneMoves ==
    ASSUME ProxyInv, Steady, NEW r \in Requests, TypeOK', RequestInv(r)',
           \A q \in Requests \ {r} : Untouched(q)
    PROVE  ProxyInv'
<1>1. Drift /\ AdminInv' /\ AdminTypeOK' /\ HoldersReal'
  BY SteadyKeeps
<1>2. \A q \in Requests \ {r} : RequestInv(q)'
  BY <1>1, Frame
<1>3. QED
  BY <1>1, <1>2 DEF ProxyInv

\* A request that only moves on.
LEMMA AdvanceKeeps ==
    ASSUME ProxyInv, NEW r \in Requests, NEW new \in Handling,
           Advance(r, new), RequestInv(r)'
    PROVE  ProxyInv'
<1>1. Steady
  BY DEF Advance, Steady
<1>2. TypeOK'
  BY <1>1, SteadyKeeps DEF ProxyInv, TypeOK, Advance
<1>3. \A q \in Requests \ {r} : Untouched(q)
  BY DEF ProxyInv, TypeOK, Advance, Untouched
<1>4. QED
  BY <1>1, <1>2, <1>3, OneMoves

\* What a request is after a step that only moves it on.
LEMMA Advanced ==
    ASSUME ProxyInv, NEW r \in Requests, NEW new, Advance(r, new)
    PROVE  /\ req'[r] = new
           /\ log'[r] = log[r]
           /\ barred'[r] = barred[r]
           /\ ActiveUsers' = ActiveUsers
           /\ RowsOf(users)' = RowsOf(users)
           /\ RowsOf(servers)' = RowsOf(servers)
           /\ users' = users /\ servers' = servers
           /\ holder' = holder /\ live' = live /\ permitted' = permitted
           /\ wire' = wire /\ ran' = ran /\ admitted' = admitted
<1>1. req'[r] = new
  BY DEF ProxyInv, TypeOK, Advance
<1>2. UNCHANGED <<users, servers>>
  BY DEF Advance, adminVars
<1>3. UNCHANGED <<ActiveUsers, RowsOf(users), RowsOf(servers)>>
  BY <1>2 DEF ActiveUsers, RowsOf
<1>4. QED
  BY <1>1, <1>2, <1>3 DEF Advance

\* A request that moves on with the same token and tool is still as barred as
\* it was.
LEMMA StillBegun ==
    ASSUME ProxyInv, NEW r \in Requests, NEW new, Advance(r, new),
           ~At(r, "idle"), new.token = req[r].token, new.tool = req[r].tool
    PROVE  Begun(r)'
<1>1. /\ req'[r] = new
      /\ barred'[r] = barred[r]
      /\ ActiveUsers' = ActiveUsers
      /\ RowsOf(servers)' = RowsOf(servers)
      /\ servers' = servers
      /\ holder' = holder /\ live' = live
  BY Advanced
<1>2. Begun(r)
  BY DEF ProxyInv, RequestInv
<1>3. QED
  BY <1>1, <1>2 DEF Begun, At

\* A request that is answered is finished, and is otherwise what it was.
LEMMA FinishedRequest ==
    ASSUME ProxyInv, NEW r \in Requests, NEW answer \in Answers
    PROVE  LET new == Finished(r, answer)
           IN  /\ new \in Handling
               /\ new.step = "finished" /\ new.answer = answer
               /\ new.token = req[r].token /\ new.tool = req[r].tool
               /\ new.user = req[r].user /\ new.role = req[r].role
               /\ new.server = req[r].server
<1>1. req[r] \in Handling
  BY DEF ProxyInv, TypeOK
<1> DEFINE old == req[r]
<1> HIDE DEF old
<1>2. old \in Handling
  BY <1>1 DEF old
<1>3. "finished" \in Steps
  BY DEF Steps
<1>4. ASSUME NEW step \in Steps
      PROVE  [old EXCEPT !.step = step, !.answer = answer] \in Handling
  BY ONLY <1>2, <1>4, answer \in Answers DEF Handling
<1>5. LET new == [old EXCEPT !.step = "finished", !.answer = answer]
      IN  /\ new.step = "finished" /\ new.answer = answer
          /\ new.token = old.token /\ new.tool = old.tool
          /\ new.user = old.user /\ new.role = old.role
          /\ new.server = old.server
  BY ONLY <1>2 DEF Handling
<1>6. QED
  BY <1>3, <1>4, <1>5 DEF old, Finished

\* A refusal without an event, of a request that was not admitted.
LEMMA RefuseKeeps ==
    ASSUME ProxyInv, NEW r \in Requests, NEW answer \in Silent,
           ~At(r, "idle"), ~At(r, "finished"), r \notin admitted,
           Refuse(r, answer)
    PROVE  ProxyInv'
<1> DEFINE new == Finished(r, answer)
<1>0. answer \in Answers
  BY DEF Silent, Answers
<1>1. new \in Handling /\ new.step = "finished" /\ new.answer = answer
      /\ new.token = req[r].token /\ new.tool = req[r].tool
      /\ new.server = req[r].server
  BY <1>0, FinishedRequest
<1>2. Advance(r, new)
  BY DEF Refuse
<1>3. RequestInv(r)
  BY DEF ProxyInv
<1> HIDE DEF new
<1>4. RequestInv(r)'
  <2>0. /\ req'[r] = new /\ log'[r] = log[r]
        /\ wire' = wire /\ ran' = ran /\ admitted' = admitted
    BY <1>2, Advanced
  <2>1. Begun(r)'
    BY <1>1, <1>2, StillBegun
  <2>2. FoundUser(r)' /\ FoundServer(r)' /\ FoundPermit(r)'
    BY <1>1, <2>0 DEF FoundUser, FoundServer, FoundPermit, Located, At
  <2>3. Sent(r)'
    BY <1>1, <1>3, <2>0 DEF RequestInv, Sent
  <2>4. Ledger(r)'
    BY <1>1, <1>3, <2>0 DEF RequestInv, Ledger, At
  <2>5. QED
    BY <2>1, <2>2, <2>3, <2>4 DEF RequestInv
<1>5. QED
  BY <1>1, <1>2, <1>4, AdvanceKeeps

\* The first event of a request is its only one.
LEMMA FirstEvent ==
    ASSUME NEW S, NEW e \in S
    PROVE  <<e>> \in Seq(S) /\ Append(<<>>, e) = <<e>>
<1>1. <<e>> \in Seq(S)
  OBVIOUS
<1>2. Append(<<>>, e) = <<e>>
  <2>1. Len(<<>>) = 0 /\ <<>> \in Seq(S)
    OBVIOUS
  <2>2. Append(<<>>, e) = [i \in 1 .. 1 |-> e]
    BY <2>1
  <2>3. QED
    BY <2>2
<1>3. QED
  BY <1>1, <1>2

\* A request that is answered with an event of its caller and its server.
LEMMA PublishKeeps ==
    ASSUME ProxyInv, NEW r \in Requests, NEW outcome, NEW answer \in DOMAIN Told,
           req[r].step \in Located, outcome = Told[answer],
           r \in admitted => answer \in {"result", "upstream error"},
           PublishAndAnswer(r, outcome, answer)
    PROVE  ProxyInv'
<1> DEFINE new == Finished(r, answer)
           event == [user |-> req[r].user, server |-> req[r].server,
                     outcome |-> outcome]
<1>1. answer \in Answers /\ outcome \in Outcomes
  BY DEF Told, Answers, Outcomes
<1>2. /\ new \in Handling /\ new.step = "finished" /\ new.answer = answer
      /\ new.token = req[r].token /\ new.tool = req[r].tool
      /\ new.user = req[r].user /\ new.role = req[r].role
      /\ new.server = req[r].server
  BY <1>1, FinishedRequest
<1>3. RequestInv(r) /\ TypeOK /\ AdminTypeOK
  BY DEF ProxyInv, TypeOK
<1>4. /\ ~At(r, "idle") /\ log[r] = <<>>
      /\ req[r].user = holder[req[r].token] /\ req[r].user \in RowsOf(users)
      /\ req[r].server \in RowsOf(servers)
  BY <1>3 DEF RequestInv, FoundUser, FoundServer, Ledger, At, Located
<1>5. event \in Events
  BY <1>1, <1>3, <1>4, RowsTyped DEF Events
<1>6. Steady /\ wire' = wire /\ ran' = ran /\ admitted' = admitted /\ barred' = barred
  BY DEF PublishAndAnswer, Steady
<1>7. log' = [log EXCEPT ![r] = Append(@, event)] /\ req' = [req EXCEPT ![r] = new]
  BY DEF PublishAndAnswer
<1> HIDE DEF new, event
<1>8. log'[r] = <<event>> /\ <<event>> \in Seq(Events)
  <2>1. Append(<<>>, event) = <<event>>
    BY <1>5, FirstEvent
  <2>2. <<event>> \in Seq(Events)
    BY <1>5, FirstEvent
  <2>3. log'[r] = Append(log[r], event)
    BY <1>3, <1>7 DEF TypeOK
  <2>4. QED
    BY <1>4, <2>1, <2>2, <2>3
<1>9. req'[r] = new
  BY <1>3, <1>7 DEF TypeOK
<1>10. TypeOK'
  <2>1. log' \in [Requests -> Seq(Events)]
    BY <1>3, <1>7, <1>8 DEF TypeOK
  <2>2. req' \in [Requests -> Handling]
    BY <1>2, <1>3, <1>7 DEF TypeOK
  <2>3. QED
    BY <1>3, <1>6, <2>1, <2>2, SteadyKeeps DEF TypeOK, Steady
<1>11. UNCHANGED <<RowsOf(users), RowsOf(servers), ActiveUsers, servers, holder, live, permitted>>
  BY <1>6 DEF Steady, adminVars, RowsOf, ActiveUsers
<1>12. RequestInv(r)'
  <2>1. Begun(r)'
    BY <1>2, <1>3, <1>4, <1>6, <1>9, <1>11 DEF RequestInv, Begun, At
  <2>2. FoundUser(r)' /\ FoundServer(r)' /\ FoundPermit(r)'
    BY <1>2, <1>3, <1>6, <1>9, <1>11
       DEF RequestInv, FoundUser, FoundServer, FoundPermit, Located, At
  <2>3. Sent(r)'
    BY <1>2, <1>3, <1>6, <1>9 DEF RequestInv, Sent, Located
  <2>4. Ledger(r)'
    BY <1>2, <1>4, <1>6, <1>8, <1>9, <1>11 DEF Ledger, At, event
  <2>5. QED
    BY <2>1, <2>2, <2>3, <2>4 DEF RequestInv
<1>13. \A q \in Requests \ {r} : Untouched(q)
  BY <1>3, <1>6, <1>7 DEF TypeOK, Untouched
<1>14. QED
  BY <1>6, <1>10, <1>12, <1>13, OneMoves

\* A request that goes on to another step of its look-ups.
LEMMA MoveKeeps ==
    ASSUME ProxyInv, NEW r \in Requests, NEW new \in Handling, Advance(r, new),
           ~At(r, "idle"), ~At(r, "finished"), r \notin admitted,
           new.step \notin {"idle", "finished", "forward", "await"},
           new.token = req[r].token, new.tool = req[r].tool,
           FoundUser(r)', FoundServer(r)', FoundPermit(r)'
    PROVE  ProxyInv'
<1>1. /\ req'[r] = new /\ log'[r] = log[r]
      /\ wire' = wire /\ ran' = ran /\ admitted' = admitted
  BY Advanced
<1>2. RequestInv(r)
  BY DEF ProxyInv
<1>3. Begun(r)'
  BY StillBegun
<1>4. Sent(r)'
  BY <1>1, <1>2 DEF RequestInv, Sent
<1>5. Ledger(r)'
  BY <1>1, <1>2 DEF RequestInv, Ledger, At
<1>6. QED
  BY <1>3, <1>4, <1>5, AdvanceKeeps DEF RequestInv

\* Before the limiter no request is admitted.
LEMMA NotYetAdmitted ==
    ASSUME ProxyInv, NEW r \in Requests,
           req[r].step \in {"idle", "authenticate", "resolve user",
                            "resolve server", "evaluate", "limit"}
    PROVE  r \notin admitted
  BY DEF ProxyInv, RequestInv, Sent

\* A new request: what stands against it now is what stood at its arrival.
LEMMA ArriveKeeps ==
    ASSUME ProxyInv, NEW r \in Requests, NEW t \in Tokens,
           NEW n \in ServerNames, NEW tool \in Tools, Arrive(r, t, n, tool)
    PROVE  ProxyInv'
<1> DEFINE new == [Idle EXCEPT !.step = "authenticate", !.token = t,
                               !.name = n, !.tool = tool]
<1>1. /\ new \in Handling /\ new.step = "authenticate" /\ new.token = t
      /\ new.tool = tool /\ new.server = Nobody
  BY DEF Idle, Handling, Steps, Answers
<1>2. RequestInv(r) /\ TypeOK /\ r \notin admitted /\ log[r] = <<>>
  BY NotYetAdmitted DEF ProxyInv, RequestInv, Ledger, Arrive, At
<1>3. /\ Steady /\ holder[t] # Nobody /\ log' = log /\ wire' = wire
      /\ ran' = ran /\ admitted' = admitted
      /\ req' = [req EXCEPT ![r] = new]
      /\ barred' = [barred EXCEPT ![r] = BarredNow(t)]
  BY DEF Arrive, Steady
<1>4. BarredNow(t) \in [caller : BOOLEAN, servers : SUBSET ServerIds]
  BY <1>2, RowsTyped DEF BarredNow, TypeOK
<1> HIDE DEF new
<1>5. req'[r] = new /\ barred'[r] = BarredNow(t)
  BY <1>2, <1>3 DEF TypeOK
<1>6. TypeOK'
  <2>1. req' \in [Requests -> Handling]
    BY <1>1, <1>2, <1>3 DEF TypeOK
  <2>2. barred' \in [Requests -> [caller : BOOLEAN, servers : SUBSET ServerIds]]
    BY <1>2, <1>3, <1>4 DEF TypeOK
  <2>3. QED
    BY <1>2, <1>3, <2>1, <2>2, SteadyKeeps DEF TypeOK, Steady
<1>7. UNCHANGED <<RowsOf(users), RowsOf(servers), ActiveUsers, users, servers, holder, live, permitted>>
  BY <1>3 DEF Steady, adminVars, RowsOf, ActiveUsers
<1>8. Begun(r)'
  <2>1. BarredNow(t).caller => t \notin live \/ holder[t] \notin ActiveUsers
    BY DEF BarredNow
  <2>2. \A s \in BarredNow(t).servers : s \in RowsOf(servers) /\ ~servers[s].active
    BY DEF BarredNow
  <2>3. QED
    BY <1>1, <1>3, <1>5, <1>7, <2>1, <2>2 DEF Begun
<1>9. FoundUser(r)' /\ FoundServer(r)' /\ FoundPermit(r)'
  BY <1>1, <1>2, <1>3, <1>5 DEF FoundUser, FoundServer, FoundPermit, Located, At
<1>10. Sent(r)' /\ Ledger(r)'
  BY <1>1, <1>2, <1>3, <1>5 DEF RequestInv, Sent, Ledger, At
<1>11. \A q \in Requests \ {r} : Untouched(q)
  BY <1>2, <1>3 DEF TypeOK, Untouched
<1>12. QED
  BY <1>3, <1>6, <1>8, <1>9, <1>10, <1>11, OneMoves DEF RequestInv

\* The look-ups: each finds what the next one needs, or refuses.
LEMMA LookupsKeep ==
    ASSUME ProxyInv, NEW r \in Requests,
           \/ Authenticate(r) \/ ResolveUser(r) \/ ResolveServer(r)
           \/ LookupFails(r) \/ Permit(r)
    PROVE  ProxyInv'
<1>1. RequestInv(r) /\ TypeOK /\ AdminTypeOK /\ req[r] \in Handling
  BY DEF ProxyInv, TypeOK
<1>2. r \notin admitted /\ ~At(r, "idle") /\ ~At(r, "finished")
  BY NotYetAdmitted DEF Authenticate, ResolveUser, ResolveServer, LookupFails,
     Permit, At
<1>3. ASSUME NEW answer \in Silent, Refuse(r, answer)
      PROVE  ProxyInv'
  BY <1>2, <1>3, RefuseKeeps
<1>4. CASE Authenticate(r)
  <2> DEFINE new == [req[r] EXCEPT !.step = "resolve user",
                                   !.user = holder[req[r].token]]
  <2>1. CASE req[r].token \in live
    <3>1. Advance(r, new)
      BY <1>4, <2>1 DEF Authenticate
    <3>2. /\ req[r].token \in Tokens /\ req[r].server = Nobody
          /\ barred[r].caller => holder[req[r].token] \notin ActiveUsers
      BY <1>1, <1>2, <1>4, <2>1
         DEF RequestInv, Begun, FoundServer, Authenticate, At
    <3>3. /\ new \in Handling /\ new.step = "resolve user"
          /\ new.user = holder[req[r].token] /\ new.token = req[r].token
          /\ new.tool = req[r].tool /\ new.server = Nobody
      <4>1. holder[req[r].token] \in UserIds \cup {Stranger, Nobody}
        BY <1>1, <3>2 DEF TypeOK
      <4> DEFINE old == req[r]
                 u == holder[req[r].token]
      <4> HIDE DEF old, u
      <4>2. old \in Handling /\ u \in UserIds \cup {Stranger, Nobody}
        BY <1>1, <4>1 DEF old, u
      <4>3. "resolve user" \in Steps
        BY DEF Steps
      <4>4. [old EXCEPT !.step = "resolve user", !.user = u] \in Handling
        BY ONLY <4>2, <4>3 DEF Handling
      <4>5. QED
        BY <1>1, <3>2, <4>4 DEF Handling, old, u
    <3> HIDE DEF new
    <3>4. FoundUser(r)' /\ FoundServer(r)' /\ FoundPermit(r)'
      <4>1. /\ req'[r] = new /\ barred'[r] = barred[r]
            /\ ActiveUsers' = ActiveUsers /\ holder' = holder
            /\ admitted' = admitted
        BY <3>1, Advanced
      <4>2. QED
        BY <1>2, <3>2, <3>3, <4>1
           DEF FoundUser, FoundServer, FoundPermit, Located, At
    <3>5. QED
      BY <1>2, <3>1, <3>3, <3>4, MoveKeeps
  <2>2. CASE req[r].token \notin live
    BY <1>3, <1>4, <2>2 DEF Authenticate, Silent
  <2>3. QED
    BY <2>1, <2>2
<1>5. CASE ResolveUser(r)
  <2> DEFINE new == [req[r] EXCEPT !.step = "resolve server",
                                   !.role = users[req[r].user].role]
  <2>1. CASE req[r].user \in ActiveUsers
    <3>1. Advance(r, new)
      BY <1>5, <2>1 DEF ResolveUser
    <3>2. /\ req[r].server = Nobody /\ ~barred[r].caller
          /\ req[r].user = holder[req[r].token]
          /\ req[r].user \in RowsOf(users)
      BY <1>1, <1>5, <2>1
         DEF RequestInv, FoundUser, FoundServer, ResolveUser, At, ActiveUsers
    <3>3. users[req[r].user].role \in RoleIds
      BY <1>1, <3>2, RowsTyped DEF UserRows
    <3>4. /\ new \in Handling /\ new.step = "resolve server"
          /\ new.user = req[r].user /\ new.token = req[r].token
          /\ new.tool = req[r].tool /\ new.server = Nobody
      <4> DEFINE old == req[r]
                 role == users[req[r].user].role
      <4> HIDE DEF old, role
      <4>1. old \in Handling /\ role \in RoleIds \cup {Nobody}
        BY <1>1, <3>3 DEF old, role
      <4>2. "resolve server" \in Steps
        BY DEF Steps
      <4>3. [old EXCEPT !.step = "resolve server", !.role = role] \in Handling
        BY ONLY <4>1, <4>2 DEF Handling
      <4>4. QED
        BY <1>1, <3>2, <4>3 DEF Handling, old, role
    <3> HIDE DEF new
    <3>5. FoundUser(r)' /\ FoundServer(r)' /\ FoundPermit(r)'
      <4>1. /\ req'[r] = new /\ barred'[r] = barred[r]
            /\ RowsOf(users)' = RowsOf(users) /\ holder' = holder
            /\ admitted' = admitted
        BY <3>1, Advanced
      <4>2. QED
        BY <1>2, <3>2, <3>4, <4>1
           DEF FoundUser, FoundServer, FoundPermit, Located, At
    <3>6. QED
      BY <1>2, <3>1, <3>4, <3>5, MoveKeeps
  <2>2. CASE req[r].user \notin ActiveUsers
    BY <1>3, <1>5, <2>2 DEF ResolveUser, Silent
  <2>3. QED
    BY <2>1, <2>2
<1>6. CASE ResolveServer(r)
  <2>1. ASSUME NEW s \in RowsOf(servers), servers[s].active,
               Advance(r, [req[r] EXCEPT !.step = "evaluate", !.server = s])
        PROVE  ProxyInv'
    <3> DEFINE new == [req[r] EXCEPT !.step = "evaluate", !.server = s]
    <3>1. Advance(r, new)
      BY <2>1
    <3>2. /\ ~barred[r].caller /\ s \notin barred[r].servers
          /\ req[r].user = holder[req[r].token]
          /\ req[r].user \in RowsOf(users)
      BY <1>1, <1>2, <1>6, <2>1 DEF RequestInv, Begun, FoundUser, ResolveServer, At
    <3>3. /\ new \in Handling /\ new.step = "evaluate"
          /\ new.user = req[r].user /\ new.token = req[r].token
          /\ new.tool = req[r].tool /\ new.server = s
      BY <1>1, RowsTyped DEF Handling, Steps
    <3> HIDE DEF new
    <3>4. FoundUser(r)' /\ FoundServer(r)' /\ FoundPermit(r)'
      <4>1. /\ req'[r] = new /\ barred'[r] = barred[r]
            /\ RowsOf(users)' = RowsOf(users)
            /\ RowsOf(servers)' = RowsOf(servers) /\ holder' = holder
            /\ admitted' = admitted
        BY <3>1, Advanced
      <4>2. QED
        BY <1>2, <3>2, <3>3, <4>1
           DEF FoundUser, FoundServer, FoundPermit, Located, At
    <3>5. QED
      BY <1>2, <3>1, <3>3, <3>4, MoveKeeps
  <2>2. QED
    BY <1>3, <1>6, <2>1 DEF ResolveServer, Silent
<1>7. CASE LookupFails(r)
  BY <1>3, <1>7 DEF LookupFails, Silent
<1>8. CASE Permit(r)
  <2> DEFINE new == [req[r] EXCEPT !.step = "limit"]
  <2>1. /\ Advance(r, new) /\ At(r, "evaluate")
        /\ <<req[r].role, req[r].server, req[r].tool>> \in permitted
    BY <1>8 DEF Permit
  <2>2. /\ new \in Handling /\ new.step = "limit" /\ new.user = req[r].user
        /\ new.token = req[r].token /\ new.tool = req[r].tool
        /\ new.server = req[r].server /\ new.role = req[r].role
    BY <1>1 DEF Handling, Steps
  <2> HIDE DEF new
  <2>3. FoundUser(r)' /\ FoundServer(r)' /\ FoundPermit(r)'
    <3>1. /\ req'[r] = new /\ barred'[r] = barred[r]
          /\ RowsOf(users)' = RowsOf(users)
          /\ RowsOf(servers)' = RowsOf(servers) /\ holder' = holder
          /\ admitted' = admitted /\ permitted' = permitted
      BY <2>1, Advanced
    <3>2. QED
      BY <1>1, <1>2, <2>1, <2>2, <3>1
         DEF RequestInv, FoundUser, FoundServer, FoundPermit, Located, At
  <2>4. QED
    BY <1>2, <2>1, <2>2, <2>3, MoveKeeps
<1>9. QED
  BY <1>4, <1>5, <1>6, <1>7, <1>8

\* The steps that end a decided request.
LEMMA EndingsKeep ==
    ASSUME ProxyInv, NEW r \in Requests,
           \/ DenyByPolicy(r) \/ DenyByLimit(r) \/ LimiterFails(r)
           \/ ForwardFails(r) \/ DownstreamAnswers(r)
    PROVE  ProxyInv'
<1> USE DEF At, Located
<1>1. DOMAIN Told = {"result", "forbidden", "rate limited", "upstream error"}
      /\ Told["result"] = "allowed" /\ Told["forbidden"] = "denied"
      /\ Told["rate limited"] = "rate_limited" /\ Told["upstream error"] = "error"
  BY DEF Told
<1>2. CASE DenyByPolicy(r)
  BY <1>1, <1>2, NotYetAdmitted, PublishKeeps DEF DenyByPolicy
<1>3. CASE DenyByLimit(r)
  BY <1>1, <1>3, NotYetAdmitted, PublishKeeps DEF DenyByLimit
<1>4. CASE LimiterFails(r)
  BY <1>4, NotYetAdmitted, RefuseKeeps DEF LimiterFails, Silent
<1>5. CASE ForwardFails(r)
  BY <1>1, <1>5, PublishKeeps DEF ForwardFails
<1>6. CASE DownstreamAnswers(r)
  BY <1>1, <1>6, PublishKeeps DEF DownstreamAnswers
<1>7. QED
  BY <1>2, <1>3, <1>4, <1>5, <1>6

\* A request that is admitted, or sent, keeps what was found.
LEMMA GoingOutKeeps ==
    ASSUME ProxyInv, NEW r \in Requests, Admit(r) \/ Forward(r)
    PROVE  ProxyInv'
<1>1. RequestInv(r) /\ TypeOK
  BY DEF ProxyInv
<1>2. /\ Steady /\ log' = log /\ ran' = ran /\ barred' = barred
      /\ admitted' \subseteq admitted \cup {r} /\ admitted \subseteq admitted'
      /\ wire' \subseteq wire \cup {r}
      /\ req[r].step \in {"limit", "forward"}
      /\ \/ /\ At(r, "limit") /\ admitted' = admitted \cup {r} /\ wire' = wire
            /\ req' = [req EXCEPT ![r].step = "forward"]
         \/ /\ At(r, "forward") /\ admitted' = admitted /\ wire' = wire \cup {r}
            /\ req' = [req EXCEPT ![r].step = "await"]
  BY DEF Admit, Forward, Steady, At
<1>3. req \in [Requests -> Handling] /\ req[r] \in Handling
  BY <1>1 DEF TypeOK
<1>4. /\ req'[r].step \in {"forward", "await"}
      /\ req'[r].step = "await" <=> At(r, "forward")
      /\ req'[r].token = req[r].token /\ req'[r].tool = req[r].tool
      /\ req'[r].user = req[r].user /\ req'[r].role = req[r].role
      /\ req'[r].server = req[r].server
      /\ \A q \in Requests \ {r} : req'[q] = req[q]
      /\ req' \in [Requests -> Handling]
  <2>1. ASSUME NEW step \in {"forward", "await"},
               req' = [req EXCEPT ![r].step = step]
        PROVE  /\ req'[r].step = step
               /\ req'[r].token = req[r].token /\ req'[r].tool = req[r].tool
               /\ req'[r].user = req[r].user /\ req'[r].role = req[r].role
               /\ req'[r].server = req[r].server
               /\ \A q \in Requests \ {r} : req'[q] = req[q]
               /\ req' \in [Requests -> Handling]
    <3> DEFINE new == [req[r] EXCEPT !.step = step]
    <3>1. /\ new \in Handling /\ new.step = step
          /\ new.token = req[r].token /\ new.tool = req[r].tool
          /\ new.user = req[r].user /\ new.role = req[r].role
          /\ new.server = req[r].server
      BY <1>3 DEF Handling, Steps
    <3>2. req' = [req EXCEPT ![r] = new]
      BY <2>1
    <3> HIDE DEF new
    <3>3. QED
      BY <1>3, <3>1, <3>2
  <2>2. QED
    BY <1>2, <2>1 DEF At
<1>5. TypeOK'
  BY <1>1, <1>2, <1>4, SteadyKeeps DEF TypeOK, Steady
<1>6. UNCHANGED <<RowsOf(users), RowsOf(servers), ActiveUsers, servers, holder, live, permitted>>
  BY <1>2 DEF Steady, adminVars, RowsOf, ActiveUsers
<1>7. Begun(r)'
  BY <1>1, <1>2, <1>4, <1>6 DEF RequestInv, Begun, At
<1>8. FoundUser(r)' /\ FoundServer(r)' /\ FoundPermit(r)'
  BY <1>1, <1>2, <1>4, <1>6
     DEF RequestInv, FoundUser, FoundServer, FoundPermit, Located, At
<1>9. Sent(r)'
  BY <1>1, <1>2, <1>4 DEF RequestInv, Sent, At
<1>10. Ledger(r)'
  BY <1>1, <1>2, <1>4 DEF RequestInv, Ledger, At
<1>11. \A q \in Requests \ {r} : Untouched(q)
  BY <1>2, <1>4 DEF Untouched
<1>12. QED
  BY <1>2, <1>5, <1>7, <1>8, <1>9, <1>10, <1>11, OneMoves DEF RequestInv

-----------------------------------------------------------------------------
(* The steps around the handlers.                                          *)

\* A call that is run, or is lost, and a process that dies.
LEMMA OutsideKeeps ==
    ASSUME ProxyInv, (\E r \in Requests : Downstream(r)) \/ Crash
    PROVE  ProxyInv'
<1>1. TypeOK /\ \A r \in Requests : RequestInv(r)
  BY DEF ProxyInv
<1>2. Steady /\ log' = log /\ barred' = barred /\ admitted' = admitted
      /\ wire' \cup ran' \subseteq wire \cup ran
  BY DEF Downstream, DownstreamRuns, CallNotRun, Crash, Steady
<1>3. Drift /\ AdminInv' /\ AdminTypeOK' /\ HoldersReal'
  BY <1>2, SteadyKeeps
<1>4. ASSUME NEW r \in Requests, Downstream(r) PROVE ProxyInv'
  <2>1. req' = req /\ \A q \in Requests : Untouched(q)
    BY <1>2, <1>4 DEF Downstream, DownstreamRuns, CallNotRun, Untouched
  <2>2. TypeOK'
    BY <1>1, <1>2, <1>3, <2>1 DEF TypeOK, Steady
  <2>3. QED
    BY <1>3, <2>1, <2>2, Frame DEF ProxyInv
<1>5. CASE Crash
  <2>1. req' = [r \in Requests |->
                  IF req[r].step \in {"idle", "finished"}
                  THEN req[r]
                  ELSE [req[r] EXCEPT !.step = "crashed"]]
    BY <1>5 DEF Crash
  <2>2. req' \in [Requests -> Handling]
    <3>1. ASSUME NEW r \in Requests
          PROVE  [req[r] EXCEPT !.step = "crashed"] \in Handling
      <4>1. req[r] \in Handling
        BY <1>1 DEF TypeOK
      <4>2. QED
        BY <4>1 DEF Handling, Steps
    <3>2. QED
      BY <1>1, <2>1, <3>1 DEF TypeOK
  <2>3. TypeOK'
    BY <1>1, <1>2, <1>3, <2>2 DEF TypeOK, Steady
  <2>4. ASSUME NEW r \in Requests PROVE RequestInv(r)'
    <3>1. CASE req[r].step \in {"idle", "finished"}
      <4>1. Untouched(r)
        BY <1>2, <2>1, <3>1 DEF Untouched
      <4>2. QED
        BY <1>3, <4>1, Frame
    <3>2. CASE req[r].step \notin {"idle", "finished"}
      <4>1. /\ req'[r].step = "crashed"
            /\ req'[r].token = req[r].token /\ req'[r].tool = req[r].tool
            /\ req'[r].user = req[r].user /\ req'[r].role = req[r].role
            /\ req'[r].server = req[r].server
        BY <1>1, <2>1, <3>2 DEF TypeOK, Handling
      <4>2. UNCHANGED <<RowsOf(users), RowsOf(servers), ActiveUsers, servers, holder, live, permitted>>
        BY <1>2 DEF Steady, adminVars, RowsOf, ActiveUsers
      <4>3. Begun(r)'
        BY <1>1, <1>2, <3>2, <4>1, <4>2 DEF RequestInv, Begun, At
      <4>4. FoundUser(r)' /\ FoundServer(r)' /\ FoundPermit(r)'
        BY <1>1, <1>2, <3>2, <4>1, <4>2
           DEF RequestInv, FoundUser, FoundServer, FoundPermit, Located, At
      <4>5. Sent(r)'
        BY <1>1, <1>2, <3>2, <4>1 DEF RequestInv, Sent
      <4>6. Ledger(r)'
        BY <1>1, <1>2, <3>2, <4>1 DEF RequestInv, Ledger, At
      <4>7. QED
        BY <4>3, <4>4, <4>5, <4>6 DEF RequestInv
    <3>3. QED
      BY <3>1, <3>2
  <2>5. QED
    BY <1>3, <2>3, <2>4 DEF ProxyInv
<1>6. QED
  BY <1>4, <1>5

\* Administration, and tokens that come and go.
LEMMA SurroundingsKeep ==
    ASSUME ProxyInv,
           \/ Administer
           \/ \E t \in Tokens : Withdraw(t) \/ \E u \in UserIds \cup {Stranger} : Issue(t, u)
    PROVE  ProxyInv'
<1>1. TypeOK /\ AdminInv /\ AdminTypeOK /\ HoldersReal
  BY DEF ProxyInv, TypeOK
<1>2. /\ UNCHANGED <<req, wire, ran, log, admitted, barred>>
      /\ [AdminNext]_adminVars /\ permitted \subseteq permitted'
  BY DEF Administer, Withdraw, Issue
<1>3. AdminInv' /\ AdminTypeOK' /\ OffStays
  BY <1>1, <1>2, NextAdmin, OffStaysStep DEF AdminInv
<1>4. /\ Drift
      /\ HoldersReal'
      /\ holder' \in [Tokens -> UserIds \cup {Stranger, Nobody}]
      /\ live' \subseteq Tokens
      /\ permitted' \subseteq RoleIds \X ServerIds \X Tools
  <2>1. CASE Administer
    <3>1. holder' = holder /\ live' = live
          /\ permitted' = permitted \cup AllowedTriples(policies')
      BY <2>1 DEF Administer
    <3>2. AllowedTriples(policies') \subseteq RoleIds \X ServerIds \X Tools
      <4>1. \A p \in RowsOf(policies') : policies'[p] \in PolicyRows
        BY <1>3 DEF AdminTypeOK, RowsOf
      <4>2. QED
        BY <4>1 DEF AllowedTriples, PolicyRows
    <3>3. HoldersReal'
      BY <1>1, <1>3, <3>1 DEF HoldersReal, OffStays
    <3>4. QED
      BY <1>1, <1>2, <1>3, <3>1, <3>2, <3>3 DEF Drift, TypeOK
  <2>2. ASSUME NEW t \in Tokens, Withdraw(t) PROVE <1>4!:
    BY <1>1, <1>3, <2>2 DEF Withdraw, Drift, HoldersReal, TypeOK, adminVars, RowsOf
  <2>3. ASSUME NEW t \in Tokens, NEW u \in UserIds \cup {Stranger}, Issue(t, u)
        PROVE  <1>4!:
    BY <1>1, <1>3, <2>3 DEF Issue, Drift, HoldersReal, TypeOK, adminVars, RowsOf
  <2>4. QED
    BY <2>1, <2>2, <2>3
<1>5. TypeOK'
  BY <1>1, <1>2, <1>3, <1>4 DEF TypeOK
<1>6. \A r \in Requests : Untouched(r)
  BY <1>2 DEF Untouched
<1>7. QED
  BY <1>3, <1>4, <1>5, <1>6, Frame DEF ProxyInv

-----------------------------------------------------------------------------
(* The invariant.                                                          *)

\* At the start no request has come in and no token was issued.
LEMMA InitProxy == Init => ProxyInv
<1> SUFFICES ASSUME Init PROVE ProxyInv
  OBVIOUS
<1>1. AdminInv
  BY InitAdmin DEF Init
<1>2. \A r \in Requests : req[r] = Idle /\ log[r] = <<>>
  BY DEF Init
<1>3. TypeOK
  <2>1. log \in [Requests -> Seq(Events)]
    BY DEF Init
  <2>2. req \in [Requests -> Handling]
    <3>1. Idle \in Handling
      BY DEF Idle, Handling, Steps, Answers
    <3>2. QED
      BY <3>1 DEF Init
  <2>3. barred \in [Requests -> [caller : BOOLEAN, servers : SUBSET ServerIds]]
    BY DEF Init
  <2>4. QED
    BY <1>1, <2>1, <2>2, <2>3 DEF Init, TypeOK, AdminInv
<1>4. HoldersReal
  BY DEF Init, HoldersReal
<1>5. \A r \in Requests : RequestInv(r)
  BY <1>2 DEF Init, Idle, RequestInv, Begun, FoundUser, FoundServer,
     FoundPermit, Sent, Ledger, Located, At
<1>6. QED
  BY <1>1, <1>3, <1>4, <1>5 DEF ProxyInv

\* Every step of the proxy and of its surroundings keeps the invariant.
LEMMA NextProxy == ProxyInv /\ [Next]_vars => ProxyInv'
<1> SUFFICES ASSUME ProxyInv, [Next]_vars PROVE ProxyInv'
  OBVIOUS
<1>1. ASSUME NEW r \in Requests, Handler(r) PROVE ProxyInv'
  BY <1>1, ArriveKeeps, LookupsKeep, EndingsKeep, GoingOutKeeps DEF Handler
<1>2. CASE UNCHANGED vars
  <2>1. Steady /\ TypeOK' /\ \A r \in Requests : Untouched(r)
    BY <1>2, SteadyKeeps DEF vars, proxyVars, Steady, ProxyInv, TypeOK, Untouched
  <2>2. QED
    BY <2>1, SteadyKeeps, Frame DEF ProxyInv
<1>3. QED
  BY <1>1, <1>2, OutsideKeeps, SurroundingsKeep DEF Next

\* The inductive invariant of the proxy holds.
LEMMA ProxyInductive == Spec => []ProxyInv
  BY InitProxy, NextProxy, PTL DEF Spec

\* The proxy keeps its types: every event names a user and a server.
THEOREM TypeCorrect == Spec => []TypeOK
<1>1. ProxyInv => TypeOK
  BY DEF ProxyInv
<1>2. QED
  BY <1>1, ProxyInductive, PTL

\* No tool call is executed without positive authorization, for any tables,
\* tokens and requests, whatever falls between the look-ups.
THEOREM NoneUnauthorised == Spec => []Authorised
<1>1. ProxyInv => Authorised
  BY DEF ProxyInv, RequestInv, FoundUser, FoundServer, FoundPermit, Sent,
     Authorised, TypeOK
<1>2. QED
  BY <1>1, ProxyInductive, PTL

\* A request that policy or limiter has decided has the one event that says what
\* the agent was told, and every other answer has none and was never sent.
THEOREM EveryAnswerAccounted == Spec => []Accounted
<1>1. ProxyInv => Accounted
  BY DEF ProxyInv, RequestInv, Sent, Ledger, Accounted, Silent, Told
<1>2. QED
  BY <1>1, ProxyInductive, PTL

\* What there is to know of an event.
LEMMA EventOf ==
    ASSUME ProxyInv, NEW r \in Requests, log[r] # <<>>
    PROVE  /\ DOMAIN log[r] = {1}
           /\ log[r][1].user \in RowsOf(users)
           /\ log[r][1].server \in RowsOf(servers)
           /\ At(r, "finished")
           /\ log[r][1].outcome \in Outcomes
           /\ r \in admitted => log[r][1].outcome \in {"allowed", "error"}
<1> DEFINE event == [user |-> holder[req[r].token], server |-> req[r].server,
                     outcome |-> Told[req[r].answer]]
<1>1. /\ At(r, "finished") /\ log[r] = <<event>>
      /\ holder[req[r].token] \in RowsOf(users)
      /\ req[r].server \in RowsOf(servers)
      /\ req[r].answer \in DOMAIN Told
      /\ r \in admitted => req[r].answer \in {"result", "upstream error"}
  BY DEF ProxyInv, RequestInv, Ledger
<1>2. Told["result"] = "allowed" /\ Told["upstream error"] = "error"
      /\ \A a \in DOMAIN Told : Told[a] \in Outcomes
  BY DEF Told, Outcomes
<1>3. /\ event.user = holder[req[r].token] /\ event.server = req[r].server
      /\ event.outcome = Told[req[r].answer]
  OBVIOUS
<1> HIDE DEF event
<1>4. DOMAIN log[r] = {1} /\ log[r][1] = event
  <2>1. DOMAIN <<event>> = 1 .. 1 /\ 1 .. 1 = {1}
    OBVIOUS
  <2>2. <<event>>[1] = event
    OBVIOUS
  <2>3. log[r] = <<event>>
    BY <1>1 DEF event
  <2>4. QED
    BY <2>1, <2>2, <2>3
<1>5. event.outcome \in Outcomes
  BY <1>1, <1>2, <1>3
<1>6. QED
  BY <1>1, <1>2, <1>3, <1>4, <1>5

\* The user and the server of every event that was published stay in their
\* tables, whatever administration happens before it is stored.
THEOREM EventsReferToRows == Spec => []EventReferences
<1>1. ASSUME ProxyInv PROVE EventReferences
  <2> SUFFICES ASSUME NEW r \in Requests, NEW i \in DOMAIN log[r]
               PROVE  /\ log[r][i].user \in RowsOf(users)
                      /\ log[r][i].server \in RowsOf(servers)
    BY DEF EventReferences
  <2>1. i = 1 /\ log[r] # <<>>
    <3>1. CASE log[r] = <<>>
      BY <3>1
    <3>2. QED
      BY <1>1, <3>1, EventOf
  <2>2. QED
    BY <1>1, <2>1, EventOf
<1>2. QED
  BY <1>1, ProxyInductive, PTL

-----------------------------------------------------------------------------
(* The abstract gateway.                                                   *)

\* The phase of a request, and the verdict of its event.
Phase(r) ==
    CASE At(r, "await") -> "dispatched"
      [] req[r].step \in {"finished", "crashed"} -> "closed"
      [] OTHER -> "open"

Verdict(r) == IF log[r] = <<>> THEN Nobody ELSE log[r][1].outcome

\* Whatever is recorded as denied or rate limited has not been run and is not
\* on its way: the answer of the audit trail is one to rely on.
THEOREM StoppedCallsNeverRun == Spec => []Gate!StoppedNeverRuns
<1>1. ASSUME ProxyInv PROVE Gate!StoppedNeverRuns
  <2> SUFFICES ASSUME NEW r \in ran \cup wire
               PROVE  Verdict(r) \notin {"denied", "rate_limited"}
    BY <1>1 DEF Gate!StoppedNeverRuns, Verdict, ProxyInv, TypeOK
  <2>1. r \in Requests /\ r \in admitted
    BY <1>1 DEF ProxyInv, TypeOK, RequestInv, Sent
  <2>2. Nobody \notin {"denied", "rate_limited"}
    BY StrangerAssumption DEF Outcomes
  <2>3. QED
    BY <1>1, <2>1, <2>2, EventOf DEF Verdict
<1>2. QED
  BY <1>1, ProxyInductive, PTL

GPhase == [r \in Requests |-> Phase(r)]
GVerdict == [r \in Requests |-> Verdict(r)]

\* What the abstract gateway sees of a step that moves one request.
LEMMA OneSeen ==
    ASSUME NEW r \in Requests,
           \A q \in Requests \ {r} : req'[q] = req[q] /\ log'[q] = log[q]
    PROVE  /\ GPhase' = [GPhase EXCEPT ![r] = Phase(r)']
           /\ GVerdict' = [GVerdict EXCEPT ![r] = Verdict(r)']
<1>1. \A q \in Requests \ {r} : Phase(q)' = Phase(q) /\ Verdict(q)' = Verdict(q)
  BY DEF Phase, Verdict, At
<1>2. QED
  BY <1>1 DEF GPhase, GVerdict

\* The actions of the gateway, on what it sees.
LEMMA SeenActions ==
    ASSUME NEW r \in Requests, UNCHANGED ran
    PROVE  /\ /\ GPhase' = GPhase /\ GVerdict' = GVerdict
              /\ wire' = wire /\ admitted' = admitted
              => UNCHANGED Gate!gvars
           /\ /\ GPhase[r] = "open" /\ admitted' = admitted \cup {r}
              /\ GPhase' = GPhase /\ GVerdict' = GVerdict /\ wire' = wire
              => Gate!Entitle(r)
           /\ /\ GPhase[r] = "open" /\ wire' = wire /\ admitted' = admitted
              /\ GPhase' = [GPhase EXCEPT ![r] = "closed"]
              /\ \E o \in IF r \in admitted THEN {"error"}
                                            ELSE {"denied", "rate_limited", Nobody} :
                    GVerdict' = [GVerdict EXCEPT ![r] = o]
              => Gate!RefuseCall(r)
           /\ /\ GPhase[r] = "open" /\ r \in admitted
              /\ GPhase' = [GPhase EXCEPT ![r] = "dispatched"]
              /\ wire' = wire \cup {r} /\ admitted' = admitted
              /\ GVerdict' = GVerdict
              => Gate!Dispatch(r)
           /\ /\ GPhase[r] = "dispatched"
              /\ GPhase' = [GPhase EXCEPT ![r] = "closed"]
              /\ wire' = wire /\ admitted' = admitted
              /\ \E o \in {"allowed", "error"} :
                    /\ o = "allowed" => r \notin wire
                    /\ GVerdict' = [GVerdict EXCEPT ![r] = o]
              => Gate!Conclude(r)
<1> USE DEF GPhase, GVerdict, Phase, Verdict
<1>1. /\ GPhase' = GPhase /\ GVerdict' = GVerdict
      /\ wire' = wire /\ admitted' = admitted
      => UNCHANGED Gate!gvars
  BY DEF Gate!gvars
<1>2. /\ GPhase[r] = "open" /\ admitted' = admitted \cup {r}
      /\ GPhase' = GPhase /\ GVerdict' = GVerdict /\ wire' = wire
      => Gate!Entitle(r)
  BY DEF Gate!Entitle
<1>3. /\ GPhase[r] = "open" /\ wire' = wire /\ admitted' = admitted
      /\ GPhase' = [GPhase EXCEPT ![r] = "closed"]
      /\ \E o \in IF r \in admitted THEN {"error"}
                                    ELSE {"denied", "rate_limited", Nobody} :
            GVerdict' = [GVerdict EXCEPT ![r] = o]
      => Gate!RefuseCall(r)
  BY DEF Gate!RefuseCall, Gate!Close
<1>4. /\ GPhase[r] = "open" /\ r \in admitted
      /\ GPhase' = [GPhase EXCEPT ![r] = "dispatched"]
      /\ wire' = wire \cup {r} /\ admitted' = admitted
      /\ GVerdict' = GVerdict
      => Gate!Dispatch(r)
  BY DEF Gate!Dispatch
<1>5. /\ GPhase[r] = "dispatched"
      /\ GPhase' = [GPhase EXCEPT ![r] = "closed"]
      /\ wire' = wire /\ admitted' = admitted
      /\ \E o \in {"allowed", "error"} :
            /\ o = "allowed" => r \notin wire
            /\ GVerdict' = [GVerdict EXCEPT ![r] = o]
      => Gate!Conclude(r)
  BY DEF Gate!Conclude, Gate!Close
<1>6. QED
  BY <1>1, <1>2, <1>3, <1>4, <1>5

\* What the answer of a request makes of it in the gateway's eyes.
LEMMA SeenAnswer ==
    ASSUME ProxyInv, NEW r \in Requests, NEW outcome \in Outcomes, NEW answer,
           log[r] = <<>>, PublishAndAnswer(r, outcome, answer)
    PROVE  /\ GPhase' = [GPhase EXCEPT ![r] = "closed"]
           /\ GVerdict' = [GVerdict EXCEPT ![r] = outcome]
           /\ UNCHANGED <<wire, ran, admitted>>
<1> DEFINE event == [user |-> req[r].user, server |-> req[r].server,
                     outcome |-> outcome]
           new == Finished(r, answer)
<1>1. TypeOK /\ req[r] \in Handling
  BY DEF ProxyInv, TypeOK
<1>2. event.outcome = outcome /\ new.step = "finished"
  BY <1>1 DEF Finished, Handling
<1>3. log' = [log EXCEPT ![r] = Append(@, event)] /\ req' = [req EXCEPT ![r] = new]
  BY DEF PublishAndAnswer
<1> HIDE DEF event, new
<1>4. log'[r] = <<event>> /\ req'[r] = new
  <2>1. Append(<<>>, event) = <<event>>
    BY FirstEvent
  <2>2. log'[r] = Append(log[r], event) /\ req'[r] = new
    BY <1>1, <1>3 DEF TypeOK
  <2>3. QED
    BY <2>1, <2>2
<1>5. Phase(r)' = "closed" /\ Verdict(r)' = outcome
  <2>1. <<event>> # <<>> /\ <<event>>[1] = event
    OBVIOUS
  <2>2. QED
    BY <1>2, <1>4, <2>1 DEF Phase, Verdict, At
<1>6. \A q \in Requests \ {r} : req'[q] = req[q] /\ log'[q] = log[q]
  BY <1>1, <1>3 DEF TypeOK
<1>7. QED
  BY <1>5, <1>6, OneSeen DEF PublishAndAnswer

\* A step that only moves a request on is unseen, or refuses it in silence.
LEMMA SeenAdvance ==
    ASSUME ProxyInv, NEW r \in Requests, NEW new, Advance(r, new),
           r \notin admitted, log[r] = <<>>, Phase(r) = "open",
           new.step \notin {"await", "crashed"}
    PROVE  [Gate!GNext]_(Gate!gvars)
<1>1. /\ req'[r] = new /\ log' = log
      /\ \A q \in Requests \ {r} : req'[q] = req[q]
      /\ UNCHANGED <<wire, ran, admitted>>
  BY DEF Advance, ProxyInv, TypeOK
<1>2. /\ GPhase' = [GPhase EXCEPT ![r] = Phase(r)']
      /\ GVerdict' = [GVerdict EXCEPT ![r] = Verdict(r)']
      /\ Verdict(r)' = Nobody /\ Verdict(r) = Nobody
  BY <1>1, OneSeen DEF Verdict
<1>3. CASE new.step = "finished"
  <2>1. Phase(r)' = "closed"
    BY <1>1, <1>3 DEF Phase, At
  <2>2. Gate!RefuseCall(r)
    BY <1>1, <1>2, <2>1, SeenActions DEF GPhase
  <2>3. QED
    BY <2>2 DEF Gate!GNext
<1>4. CASE new.step # "finished"
  <2>1. Phase(r)' = "open"
    BY <1>1, <1>4 DEF Phase, At
  <2>2. GPhase' = GPhase /\ GVerdict' = GVerdict
    BY <1>2, <2>1 DEF GPhase, GVerdict
  <2>3. UNCHANGED Gate!gvars
    BY <1>1, <2>2, SeenActions
  <2>4. QED
    BY <2>3
<1>5. QED
  BY <1>3, <1>4

\* Every step of a handler is a step of the gateway, or unseen by it.
LEMMA HandlerSeen ==
    ASSUME ProxyInv, NEW r \in Requests, Handler(r)
    PROVE  [Gate!GNext]_(Gate!gvars)
<1>1. /\ TypeOK /\ req[r] \in Handling /\ RequestInv(r)
      /\ Gate!RefuseCall(r) \/ Gate!Conclude(r) \/ Gate!Entitle(r)
             \/ Gate!Dispatch(r) => Gate!GNext
  BY DEF ProxyInv, TypeOK, Gate!GNext
<1>2. ~At(r, "finished") => log[r] = <<>>
  BY <1>1 DEF RequestInv, Ledger
<1>3. \A step : At(r, step) /\ step \notin {"await", "finished", "crashed"}
                    => Phase(r) = "open" /\ GPhase[r] = "open"
  BY DEF Phase, GPhase, At
<1>4. CASE \/ \E t \in Tokens, n \in ServerNames, tool \in Tools : Arrive(r, t, n, tool)
  <2>1. PICK t \in Tokens, n \in ServerNames, tool \in Tools : Arrive(r, t, n, tool)
    BY <1>4
  <2> DEFINE new == [Idle EXCEPT !.step = "authenticate", !.token = t,
                                 !.name = n, !.tool = tool]
  <2>2. new.step = "authenticate"
    BY DEF Idle
  <2>3. At(r, "idle") /\ req' = [req EXCEPT ![r] = new] /\ log' = log
        /\ UNCHANGED <<wire, ran, admitted>>
    BY <2>1 DEF Arrive
  <2> HIDE DEF new
  <2>4. Phase(r)' = "open" /\ Phase(r) = "open" /\ Verdict(r)' = Verdict(r)
        /\ \A q \in Requests \ {r} : req'[q] = req[q] /\ log'[q] = log[q]
    BY <1>1, <2>2, <2>3 DEF TypeOK, Phase, Verdict, At
  <2>5. GPhase' = GPhase /\ GVerdict' = GVerdict
    BY <2>4, OneSeen DEF GPhase, GVerdict
  <2>6. UNCHANGED Gate!gvars
    BY <2>3, <2>5, SeenActions
  <2>7. QED
    BY <2>6
<1>5. ASSUME NEW new, Advance(r, new), new.step \notin {"await", "crashed"},
             req[r].step \in {"authenticate", "resolve user", "resolve server",
                              "evaluate", "limit"}
      PROVE  [Gate!GNext]_(Gate!gvars)
  BY <1>2, <1>3, <1>5, NotYetAdmitted, SeenAdvance DEF At
<1>6. ASSUME NEW answer, Refuse(r, answer),
             req[r].step \in {"authenticate", "resolve user", "resolve server",
                              "evaluate", "limit"}
      PROVE  [Gate!GNext]_(Gate!gvars)
  <2>1. Finished(r, answer).step = "finished"
    BY <1>1 DEF Finished, Handling
  <2>2. QED
    BY <1>5, <1>6, <2>1 DEF Refuse
<1>7. CASE Authenticate(r)
  <2>1. [req[r] EXCEPT !.step = "resolve user",
                       !.user = holder[req[r].token]].step = "resolve user"
    BY <1>1 DEF Handling
  <2>2. QED
    BY <1>5, <1>6, <1>7, <2>1 DEF Authenticate, At
<1>8. CASE ResolveUser(r)
  <2>1. [req[r] EXCEPT !.step = "resolve server",
                       !.role = users[req[r].user].role].step = "resolve server"
    BY <1>1 DEF Handling
  <2>2. QED
    BY <1>5, <1>6, <1>8, <2>1 DEF ResolveUser, At
<1>9. CASE ResolveServer(r)
  <2>1. \A s : [req[r] EXCEPT !.step = "evaluate", !.server = s].step = "evaluate"
    BY <1>1 DEF Handling
  <2>2. QED
    BY <1>5, <1>6, <1>9, <2>1 DEF ResolveServer, At
<1>10. CASE Permit(r)
  <2>1. [req[r] EXCEPT !.step = "limit"].step = "limit"
    BY <1>1 DEF Handling
  <2>2. QED
    BY <1>5, <1>10, <2>1 DEF Permit, At
<1>11. CASE LookupFails(r) \/ LimiterFails(r)
  BY <1>6, <1>11 DEF LookupFails, LimiterFails, At
<1>12. CASE DenyByPolicy(r) \/ DenyByLimit(r)
  <2>1. \E o \in {"denied", "rate_limited"} : \E answer : PublishAndAnswer(r, o, answer)
    BY <1>12 DEF DenyByPolicy, DenyByLimit
  <2>2. r \notin admitted /\ GPhase[r] = "open" /\ log[r] = <<>>
    BY <1>2, <1>3, <1>12, NotYetAdmitted DEF DenyByPolicy, DenyByLimit, At
  <2>3. Gate!RefuseCall(r)
    BY <2>1, <2>2, SeenAnswer, SeenActions DEF Outcomes
  <2>4. QED
    BY <1>1, <2>3
<1>13. CASE Admit(r)
  <2>1. /\ GPhase[r] = "open" /\ admitted' = admitted \cup {r} /\ log' = log
        /\ UNCHANGED <<ran, wire>>
    BY <1>3, <1>13 DEF Admit, At
  <2>2. /\ Phase(r)' = "open" /\ Verdict(r)' = Verdict(r)
        /\ \A q \in Requests \ {r} : req'[q] = req[q] /\ log'[q] = log[q]
    BY <1>1, <1>13 DEF Admit, TypeOK, Handling, Phase, Verdict, At
  <2>3. GPhase' = GPhase /\ GVerdict' = GVerdict
    BY <2>1, <2>2, OneSeen DEF GPhase, GVerdict
  <2>4. QED
    BY <1>1, <2>1, <2>3, SeenActions
<1>14. CASE Forward(r)
  <2>1. /\ GPhase[r] = "open" /\ r \in admitted /\ wire' = wire \cup {r}
        /\ log' = log /\ UNCHANGED <<ran, admitted>>
    BY <1>1, <1>3, <1>14 DEF Forward, At, RequestInv, Sent
  <2>2. /\ Phase(r)' = "dispatched" /\ Verdict(r)' = Verdict(r)
        /\ \A q \in Requests \ {r} : req'[q] = req[q] /\ log'[q] = log[q]
    BY <1>1, <1>14 DEF Forward, TypeOK, Handling, Phase, Verdict, At
  <2>3. GPhase' = [GPhase EXCEPT ![r] = "dispatched"] /\ GVerdict' = GVerdict
    BY <2>2, OneSeen DEF GVerdict
  <2>4. QED
    BY <1>1, <2>1, <2>3, SeenActions
<1>15. CASE ForwardFails(r) \/ DownstreamAnswers(r)
  <2>1. /\ log[r] = <<>> /\ r \in admitted
        /\ \/ GPhase[r] = "open" /\ ForwardFails(r)
           \/ GPhase[r] = "dispatched"
    BY <1>1, <1>2, <1>15
       DEF ForwardFails, DownstreamAnswers, At, RequestInv, Sent, Phase, GPhase
  <2>2. \E o \in {"allowed", "error"} :
           /\ o = "allowed" => r \notin wire
           /\ ForwardFails(r) => o = "error"
           /\ \E answer : PublishAndAnswer(r, o, answer)
    BY <1>15 DEF ForwardFails, DownstreamAnswers, At
  <2>3. PICK o \in {"allowed", "error"} :
           /\ o = "allowed" => r \notin wire
           /\ ForwardFails(r) => o = "error"
           /\ \E answer : PublishAndAnswer(r, o, answer)
    BY <2>2
  <2>4. /\ GPhase' = [GPhase EXCEPT ![r] = "closed"]
        /\ GVerdict' = [GVerdict EXCEPT ![r] = o]
        /\ UNCHANGED <<wire, ran, admitted>>
    BY <2>1, <2>3, SeenAnswer DEF Outcomes
  <2>5. Gate!RefuseCall(r) \/ Gate!Conclude(r)
    BY <2>1, <2>3, <2>4, SeenActions
  <2>6. QED
    BY <1>1, <2>5
<1>16. QED
  BY <1>4, <1>7, <1>8, <1>9, <1>10, <1>11, <1>12, <1>13, <1>14, <1>15 DEF Handler

\* What happens to a call outside, and the end of the process, are steps of
\* the gateway too.
LEMMA OutsideSeen ==
    ASSUME ProxyInv, (\E r \in Requests : Downstream(r)) \/ Crash
    PROVE  Gate!GNext
<1>1. ASSUME NEW r \in Requests, Downstream(r) PROVE Gate!GNext
  <2>1. req' = req /\ log' = log
    BY <1>1 DEF Downstream, DownstreamRuns, CallNotRun
  <2>2. GPhase' = GPhase /\ GVerdict' = GVerdict
    BY <2>1 DEF GPhase, GVerdict, Phase, Verdict, At
  <2>3. Gate!Execute(r) \/ Gate!Lose(r)
    BY <1>1, <2>2 DEF Downstream, DownstreamRuns, CallNotRun, Gate!Execute,
       Gate!Lose, GPhase, GVerdict, Phase, Verdict
  <2>4. QED
    BY <2>3 DEF Gate!GNext
<1>2. CASE Crash
  <2> DEFINE dying == {r \in Requests : req[r].step \notin {"idle", "finished", "crashed"}}
  <2>1. /\ req' = [r \in Requests |->
                      IF req[r].step \in {"idle", "finished"}
                      THEN req[r]
                      ELSE [req[r] EXCEPT !.step = "crashed"]]
        /\ log' = log /\ UNCHANGED <<wire, ran, admitted>>
    BY <1>2 DEF Crash
  <2>2. \A r \in Requests : req[r] \in Handling
    BY DEF ProxyInv, TypeOK
  <2>3. \A r \in Requests : Phase(r)' = IF r \in dying THEN "closed" ELSE Phase(r)
    BY <2>1, <2>2 DEF Phase, At, Handling
  <2>4. dying \in SUBSET {r \in Requests : GPhase[r] # "closed"}
    BY DEF GPhase, Phase, At
  <2>5. GPhase' = [r \in Requests |-> IF r \in dying THEN "closed" ELSE GPhase[r]]
        /\ GVerdict' = GVerdict
    BY <2>1, <2>3 DEF GPhase, GVerdict, Verdict
  <2>6. Gate!Abandon
    BY <2>1, <2>4, <2>5 DEF Gate!Abandon, GPhase, GVerdict, Phase, Verdict
  <2>7. QED
    BY <2>6 DEF Gate!GNext
<1>3. QED
  BY <1>1, <1>2

\* The gateway starts as the proxy does.
LEMMA GateStarts == Init => Gate!GInit
  BY DEF Init, Idle, At, Gate!GInit

\* The proxy with its tables, tokens and limiter implements the abstract
\* gateway: every step is a step of it, or changes nothing it can see.
THEOREM GatewayImplemented == Spec => ImplementsGateway
<1>1. ASSUME ProxyInv, [Next]_vars PROVE [Gate!GNext]_(Gate!gvars)
  <2>1. CASE UNCHANGED <<req, wire, ran, log, admitted>>
    <3>1. UNCHANGED Gate!gvars
      BY <2>1 DEF Gate!gvars, At
    <3>2. QED
      BY <3>1
  <2>2. CASE \E r \in Requests : Handler(r)
    BY <1>1, <2>2, HandlerSeen
  <2>3. CASE (\E r \in Requests : Downstream(r)) \/ Crash
    BY <1>1, <2>3, OutsideSeen
  <2>4. QED
    BY <1>1, <2>1, <2>2, <2>3
       DEF Next, vars, proxyVars, Administer, Withdraw, Issue
<1>2. QED
  BY <1>1, GateStarts, ProxyInductive, PTL DEF Spec, ImplementsGateway, Gate!GSpec

-----------------------------------------------------------------------------
(* The tables.                                                             *)

\* A step of the proxy changes the tables as the admin API does, or not.
LEMMA TablesStep == [Next]_vars => [AdminNext]_adminVars
<1> SUFFICES ASSUME [Next]_vars PROVE [AdminNext]_adminVars
  OBVIOUS
<1>1. CASE Administer
  BY <1>1 DEF Administer
<1>2. ASSUME NEW t \in Tokens,
             Withdraw(t) \/ \E u \in UserIds \cup {Stranger} : Issue(t, u)
      PROVE  UNCHANGED adminVars
  BY <1>2 DEF Withdraw, Issue
<1>3. ASSUME NEW r \in Requests, Handler(r) PROVE UNCHANGED adminVars
  BY <1>3 DEF Handler, Arrive, Authenticate, ResolveUser, ResolveServer,
     LookupFails, Permit, DenyByPolicy, DenyByLimit, LimiterFails, Admit,
     Forward, ForwardFails, DownstreamAnswers, Refuse, Advance,
     PublishAndAnswer
<1>4. ASSUME NEW r \in Requests, Downstream(r) PROVE UNCHANGED adminVars
  BY <1>4 DEF Downstream, DownstreamRuns, CallNotRun
<1>5. CASE Crash
  BY <1>5 DEF Crash
<1>6. CASE UNCHANGED vars
  BY <1>6 DEF vars
<1>7. QED
  BY <1>1, <1>2, <1>3, <1>4, <1>5, <1>6 DEF Next

\* The gateway leaves the tables to the admin API: with any requests, tokens
\* and crashes beside it, they behave as AdminStore says.
THEOREM TablesImplemented == Spec => AdminSpec
<1>1. Init => AdminInit
  BY DEF Init
<1>2. QED
  BY <1>1, TablesStep, PTL DEF Spec, AdminSpec

\* So under the gateway, too, every reference finds its row, no triple has two
\* rules, and who was turned off stays off.
THEOREM TablesKept ==
    Spec => [](References /\ OneRulePerTriple) /\ OffStaysOff
<1>1. Spec => []References /\ []OneRulePerTriple
  BY TablesImplemented, ReferencesHold, OneRule
<1>2. Spec => OffStaysOff
  BY TablesImplemented, OffForGood
<1>3. QED
  BY <1>1, <1>2, PTL
=============================================================================
