-------------------------- MODULE AdminStoreProofs --------------------------
(***************************************************************************)
(* The tables of the admin API for any ids, names and tools: their types,  *)
(* their references, the uniqueness of a rule, and what never comes back.  *)
(***************************************************************************)
EXTENDS AdminStore, FiniteSetTheorems, TLAPS

\* Two rows for one triple are one row.
RulesUnique ==
    \A p, q \in RowsOf(policies) :
        /\ policies[p].role = policies[q].role
        /\ policies[p].server = policies[q].server
        /\ policies[p].tool = policies[q].tool
        => p = q

\* The inductive invariant.
AdminInv == AdminTypeOK /\ References /\ RulesUnique

\* What RowsOf picks out of well-typed tables.
LEMMA RowsTyped ==
    ASSUME AdminTypeOK
    PROVE  /\ \A i \in RoleIds : i \in RowsOf(roles) <=> roles[i] \in RoleNames
           /\ \A i \in UserIds : i \in RowsOf(users) <=> users[i] \in UserRows
           /\ \A i \in ServerIds : i \in RowsOf(servers) <=> servers[i] \in ServerRows
           /\ \A i \in PolicyIds : i \in RowsOf(policies) <=> policies[i] \in PolicyRows
           /\ RowsOf(roles) \subseteq RoleIds
           /\ RowsOf(users) \subseteq UserIds
           /\ RowsOf(servers) \subseteq ServerIds
           /\ RowsOf(policies) \subseteq PolicyIds
<1> USE RowsAssumption DEF AdminTypeOK, RowsOf, Absent
<1>1. \A i \in RoleIds : i \in RowsOf(roles) <=> roles[i] \in RoleNames
  OBVIOUS
<1>2. \A i \in UserIds : i \in RowsOf(users) <=> users[i] \in UserRows
  OBVIOUS
<1>3. \A i \in ServerIds : i \in RowsOf(servers) <=> servers[i] \in ServerRows
  OBVIOUS
<1>4. \A i \in PolicyIds : i \in RowsOf(policies) <=> policies[i] \in PolicyRows
  OBVIOUS
<1>5. QED
  BY <1>1, <1>2, <1>3, <1>4

-----------------------------------------------------------------------------
(* Types.                                                                  *)

\* The initial tables have their types.
LEMMA InitAdmin == AdminInit => AdminInv
  BY DEF AdminInit, AdminInv, AdminTypeOK, References, RulesUnique, RowsOf,
     Absent

\* Every handler keeps the types of the tables.
LEMMA NextAdminType ==
    ASSUME AdminTypeOK, AdminNext
    PROVE  AdminTypeOK'
<1> USE RowsTyped DEF AdminTypeOK, Absent
<1>1. CASE RoleHandlers
  BY <1>1 DEF RoleHandlers, CreateRole, UpdateRole, DeleteRole
<1>2. CASE UserHandlers
  <2>1. ASSUME NEW i \in UserIds, NEW r \in RoleIds, NEW e \in Emails,
               CreateUser(i, e, r)
        PROVE  AdminTypeOK'
    BY <2>1 DEF CreateUser, UserRows
  <2>2. ASSUME NEW i \in UserIds, NEW r \in RoleIds, UpdateUserRole(i, r)
        PROVE  AdminTypeOK'
    BY <2>2 DEF UpdateUserRole, UserRows
  <2>3. ASSUME NEW i \in UserIds, DeactivateUser(i) PROVE AdminTypeOK'
    BY <2>3 DEF DeactivateUser, UserRows
  <2>4. QED
    BY <1>2, <2>1, <2>2, <2>3 DEF UserHandlers
<1>3. CASE ServerHandlers
  <2>1. ASSUME NEW i \in ServerIds, NEW n \in ServerNames,
               CreateDownstreamServer(i, n)
        PROVE  AdminTypeOK'
    BY <2>1 DEF CreateDownstreamServer, ServerRows
  <2>2. ASSUME NEW i \in ServerIds, NEW n \in ServerNames,
               UpdateDownstreamServer(i, n)
        PROVE  AdminTypeOK'
    BY <2>2 DEF UpdateDownstreamServer, ServerRows
  <2>3. ASSUME NEW i \in ServerIds, SetDownstreamServerActive(i)
        PROVE  AdminTypeOK'
    BY <2>3 DEF SetDownstreamServerActive, ServerRows
  <2>4. QED
    BY <1>3, <2>1, <2>2, <2>3 DEF ServerHandlers
<1>4. CASE PolicyHandlers
  <2>1. ASSUME NEW p \in PolicyIds, NEW r \in RoleIds, NEW s \in ServerIds,
               NEW t \in Tools, NEW a \in BOOLEAN, UpsertPolicy(p, r, s, t, a)
        PROVE  AdminTypeOK'
    BY <2>1 DEF UpsertPolicy, PolicyRows
  <2>2. ASSUME NEW p \in PolicyIds, DeletePolicy(p) PROVE AdminTypeOK'
    BY <2>2 DEF DeletePolicy
  <2>3. QED
    BY <1>4, <2>1, <2>2 DEF PolicyHandlers
<1>5. QED
  BY <1>1, <1>2, <1>3, <1>4 DEF AdminNext

-----------------------------------------------------------------------------
(* References.                                                             *)

\* The references of tables of which only one has grown or changed.
\* A handler of roles keeps every role that has a holder.
LEMMA RolesKeepReferences ==
    ASSUME AdminTypeOK, AdminTypeOK', References, RoleHandlers
    PROVE  References'
<1>1. UNCHANGED <<users, servers, policies>>
  BY DEF RoleHandlers, CreateRole, UpdateRole, DeleteRole
<1>2. /\ RowsOf(users') = RowsOf(users)
      /\ RowsOf(servers') = RowsOf(servers)
      /\ RowsOf(policies') = RowsOf(policies)
  BY <1>1
<1>3. PICK i \in RoleIds :
         \/ \E n \in RoleNames : roles' = [roles EXCEPT ![i] = n]
         \/ roles' = [roles EXCEPT ![i] = Deleted] /\ Holders(i) = {}
  BY DEF RoleHandlers, CreateRole, UpdateRole, DeleteRole
<1>4. CASE \E n \in RoleNames : roles' = [roles EXCEPT ![i] = n]
  <2>1. RowsOf(roles) \subseteq RowsOf(roles')
    BY <1>4, RowsAssumption DEF AdminTypeOK, RowsOf
  <2>2. QED
    BY <1>1, <1>2, <2>1 DEF References
<1>5. CASE roles' = [roles EXCEPT ![i] = Deleted] /\ Holders(i) = {}
  <2>1. RowsOf(roles) \ {i} \subseteq RowsOf(roles')
    BY <1>5 DEF AdminTypeOK, RowsOf
  <2>2. /\ \A u \in RowsOf(users) : users[u].role # i
        /\ \A p \in RowsOf(policies) : policies[p].role # i
    BY <1>5 DEF Holders
  <2>3. QED
    BY <1>1, <1>2, <2>1, <2>2 DEF References
<1>6. QED
  BY <1>3, <1>4, <1>5

\* A handler of users refers to a role that is there.
LEMMA UsersKeepReferences ==
    ASSUME AdminTypeOK, AdminTypeOK', References, UserHandlers
    PROVE  References'
<1>1. UNCHANGED <<roles, servers, policies>>
  BY DEF UserHandlers, CreateUser, UpdateUserRole, DeactivateUser
<1>2. /\ RowsOf(roles') = RowsOf(roles)
      /\ RowsOf(servers') = RowsOf(servers)
      /\ RowsOf(policies') = RowsOf(policies)
  BY <1>1
<1>3. ASSUME NEW i \in UserIds,
             \A u \in UserIds \ {i} : users'[u] = users[u],
             i \in RowsOf(users') => users'[i].role \in RowsOf(roles)
      PROVE  References'
  <2>1. ASSUME NEW u \in RowsOf(users') PROVE users'[u].role \in RowsOf(roles)
    <3>1. u \in UserIds
      BY DEF AdminTypeOK, RowsOf
    <3>2. CASE u = i
      BY <1>3, <3>2
    <3>3. CASE u # i
      <4>1. users'[u] = users[u] /\ u \in RowsOf(users)
        BY <1>3, <3>1, <3>3 DEF RowsOf, AdminTypeOK
      <4>2. QED
        BY <4>1 DEF References
    <3>4. QED
      BY <3>2, <3>3
  <2>2. QED
    BY <1>1, <1>2, <2>1 DEF References
<1>4. ASSUME NEW i \in UserIds, NEW r \in RoleIds, NEW e \in Emails,
             CreateUser(i, e, r)
      PROVE  References'
  BY <1>3, <1>4 DEF CreateUser, AdminTypeOK
<1>5. ASSUME NEW i \in UserIds, NEW r \in RoleIds, UpdateUserRole(i, r)
      PROVE  References'
  BY <1>3, <1>5, RowsTyped DEF UpdateUserRole, AdminTypeOK, UserRows
<1>6. ASSUME NEW i \in UserIds, DeactivateUser(i) PROVE References'
  <2>1. i \in RowsOf(users) /\ users[i] \in UserRows
    BY <1>6, RowsTyped DEF DeactivateUser
  <2>2. /\ \A u \in UserIds \ {i} : users'[u] = users[u]
        /\ users'[i].role = users[i].role
    BY <1>6, <2>1 DEF DeactivateUser, AdminTypeOK, UserRows
  <2>3. users[i].role \in RowsOf(roles)
    BY <2>1 DEF References
  <2>4. QED
    BY <1>3, <2>2, <2>3
<1>7. QED
  BY <1>4, <1>5, <1>6 DEF UserHandlers

\* A handler of servers takes none away.
LEMMA ServersKeepReferences ==
    ASSUME AdminTypeOK, AdminTypeOK', References, ServerHandlers
    PROVE  References'
<1>1. UNCHANGED <<roles, users, policies>>
  BY DEF ServerHandlers, CreateDownstreamServer, UpdateDownstreamServer,
     SetDownstreamServerActive
<1>2. /\ RowsOf(roles') = RowsOf(roles)
      /\ RowsOf(users') = RowsOf(users)
      /\ RowsOf(policies') = RowsOf(policies)
  BY <1>1
<1>3. RowsOf(servers) \subseteq RowsOf(servers')
  <2>1. ASSUME NEW i \in ServerIds, NEW n \in ServerNames,
               CreateDownstreamServer(i, n)
        PROVE  RowsOf(servers) \subseteq RowsOf(servers')
    BY <2>1 DEF CreateDownstreamServer, RowsOf, Absent, AdminTypeOK
  <2>2. ASSUME NEW i \in ServerIds, servers'[i] \in ServerRows,
               \A j \in ServerIds \ {i} : servers'[j] = servers[j]
        PROVE  RowsOf(servers) \subseteq RowsOf(servers')
    BY <2>2, RowsAssumption DEF RowsOf, AdminTypeOK
  <2>3. ASSUME NEW i \in ServerIds, NEW n \in ServerNames,
               UpdateDownstreamServer(i, n)
        PROVE  RowsOf(servers) \subseteq RowsOf(servers')
    BY <2>2, <2>3, RowsTyped DEF UpdateDownstreamServer, AdminTypeOK, ServerRows
  <2>4. ASSUME NEW i \in ServerIds, SetDownstreamServerActive(i)
        PROVE  RowsOf(servers) \subseteq RowsOf(servers')
    BY <2>2, <2>4, RowsTyped DEF SetDownstreamServerActive, AdminTypeOK,
       ServerRows
  <2>5. QED
    BY <2>1, <2>3, <2>4 DEF ServerHandlers
<1>4. QED
  BY <1>1, <1>2, <1>3 DEF References

\* A handler of policies refers to a role and a server that are there.
LEMMA PoliciesKeepReferences ==
    ASSUME AdminTypeOK, AdminTypeOK', References, PolicyHandlers
    PROVE  References'
<1>1. UNCHANGED <<roles, users, servers>>
  BY DEF PolicyHandlers, UpsertPolicy, DeletePolicy
<1>2. /\ RowsOf(roles') = RowsOf(roles)
      /\ RowsOf(users') = RowsOf(users)
      /\ RowsOf(servers') = RowsOf(servers)
  BY <1>1
<1>3. PICK p \in PolicyIds :
        /\ \A q \in PolicyIds \ {p} : policies'[q] = policies[q]
        /\ \/ policies'[p] = Deleted
           \/ /\ policies'[p].role \in RowsOf(roles)
              /\ policies'[p].server \in RowsOf(servers)
  BY DEF PolicyHandlers, UpsertPolicy, DeletePolicy, AdminTypeOK
<1>4. ASSUME NEW q \in RowsOf(policies')
      PROVE  /\ policies'[q].role \in RowsOf(roles)
             /\ policies'[q].server \in RowsOf(servers)
  <2>1. q \in PolicyIds /\ policies'[q] # Deleted
    BY DEF AdminTypeOK, RowsOf, Absent
  <2>2. CASE q = p
    BY <1>3, <2>1, <2>2
  <2>3. CASE q # p
    <3>1. policies'[q] = policies[q] /\ q \in RowsOf(policies)
      BY <1>3, <2>1, <2>3 DEF RowsOf, AdminTypeOK
    <3>2. QED
      BY <3>1 DEF References
  <2>4. QED
    BY <2>2, <2>3
<1>5. QED
  BY <1>1, <1>2, <1>4 DEF References

-----------------------------------------------------------------------------
(* The uniqueness of a rule.                                               *)

\* An upsert overwrites the one rule of its triple, or writes the first.
LEMMA NextUnique ==
    ASSUME AdminTypeOK, AdminTypeOK', RulesUnique, AdminNext
    PROVE  RulesUnique'
<1>1. CASE UNCHANGED policies
  BY <1>1 DEF RulesUnique
<1>2. ASSUME NEW p \in PolicyIds, DeletePolicy(p) PROVE RulesUnique'
  <2>1. \A q \in RowsOf(policies') :
          q \in RowsOf(policies) /\ policies'[q] = policies[q]
    BY <1>2 DEF DeletePolicy, RowsOf, Absent, AdminTypeOK
  <2>2. QED
    BY <2>1 DEF RulesUnique
<1>3. ASSUME NEW p \in PolicyIds, NEW r \in RoleIds, NEW s \in ServerIds,
             NEW t \in Tools, NEW a \in BOOLEAN, UpsertPolicy(p, r, s, t, a)
      PROVE  RulesUnique'
  <2>1. \A q \in RowsOf(policies') \ {p} :
          q \in RowsOf(policies) /\ policies'[q] = policies[q]
    BY <1>3 DEF UpsertPolicy, RowsOf, AdminTypeOK
  <2>2. policies'[p] = [role |-> r, server |-> s, tool |-> t, allowed |-> a]
    BY <1>3 DEF UpsertPolicy, AdminTypeOK
  <2>3. ASSUME NEW q \in RowsFor(r, s, t) PROVE q = p
    <3>1. p \in RowsFor(r, s, t)
      BY <1>3, <2>3 DEF UpsertPolicy
    <3>2. QED
      BY <2>3, <3>1 DEF RowsFor, RulesUnique
  <2>4. ASSUME NEW q \in RowsOf(policies') \ {p}
        PROVE  ~ /\ policies'[q].role = r
                 /\ policies'[q].server = s
                 /\ policies'[q].tool = t
    BY <2>1, <2>3 DEF RowsFor
  <2>5. QED
    BY <2>1, <2>2, <2>4 DEF RulesUnique
<1>4. QED
  BY <1>1, <1>2, <1>3 DEF AdminNext, RoleHandlers, CreateRole, UpdateRole,
     DeleteRole, UserHandlers, CreateUser, UpdateUserRole, DeactivateUser,
     ServerHandlers, CreateDownstreamServer, UpdateDownstreamServer,
     SetDownstreamServerActive, PolicyHandlers

\* Every handler preserves the inductive invariant.
LEMMA NextAdmin == AdminInv /\ [AdminNext]_adminVars => AdminInv'
<1> SUFFICES ASSUME AdminInv, [AdminNext]_adminVars PROVE AdminInv'
  OBVIOUS
<1>1. CASE AdminNext
  <2>1. AdminTypeOK'
    BY <1>1, NextAdminType DEF AdminInv
  <2>2. References'
    BY <1>1, <2>1, RolesKeepReferences, UsersKeepReferences,
       ServersKeepReferences, PoliciesKeepReferences DEF AdminInv, AdminNext
  <2>3. RulesUnique'
    BY <1>1, <2>1, NextUnique DEF AdminInv
  <2>4. QED
    BY <2>1, <2>2, <2>3 DEF AdminInv
<1>2. CASE UNCHANGED adminVars
  BY <1>2 DEF adminVars, AdminInv, AdminTypeOK, References, RulesUnique
<1>3. QED
  BY <1>1, <1>2

\* The inductive invariant holds in every reachable state.
LEMMA AdminInductive == AdminSpec => []AdminInv
  BY InitAdmin, NextAdmin, PTL DEF AdminSpec

-----------------------------------------------------------------------------

\* The tables keep their types, for every value of the constants.
THEOREM AdminTypeCorrect == AdminSpec => []AdminTypeOK
<1>1. AdminInv => AdminTypeOK
  BY DEF AdminInv
<1>2. QED
  BY <1>1, AdminInductive, PTL

\* No user and no policy ever refers to a row that is not there, whatever
\* the handlers do between each other, for any ids and names.
THEOREM ReferencesHold == AdminSpec => []References
<1>1. AdminInv => References
  BY DEF AdminInv
<1>2. QED
  BY <1>1, AdminInductive, PTL

\* Unique rules, as a bound on their number.
LEMMA UniqueIsOne == AdminInv => OneRulePerTriple
<1> SUFFICES ASSUME AdminInv, NEW r \in RoleIds, NEW s \in ServerIds, NEW t \in Tools
             PROVE  Cardinality(RowsFor(r, s, t)) <= 1
  BY DEF OneRulePerTriple
<1>1. CASE RowsFor(r, s, t) = {}
  BY <1>1, FS_EmptySet
<1>2. ASSUME NEW p \in RowsFor(r, s, t)
      PROVE  Cardinality(RowsFor(r, s, t)) <= 1
  <2>1. RowsFor(r, s, t) = {p}
    BY <1>2 DEF RowsFor, AdminInv, RulesUnique
  <2>2. Cardinality({p}) = 1
    BY FS_Singleton, Zenon
  <2>3. QED
    BY <2>1, <2>2
<1>3. QED
  BY <1>1, <1>2

\* A (role, server, tool) triple has one rule at most, so the lookup of one
\* row is the whole answer, for any ids and tools.
THEOREM OneRule == AdminSpec => []OneRulePerTriple
  BY UniqueIsOne, AdminInductive, PTL

\* The users and servers of a step's end, against those of its start.
OffStays ==
    /\ \A u \in RowsOf(users) :
          u \in RowsOf(users)' /\ (users'[u].active => users[u].active)
    /\ \A s \in RowsOf(servers) :
          s \in RowsOf(servers)' /\ (servers'[s].active => servers[s].active)

\* No handler takes a user or a server away, or turns it on again.
LEMMA OffStaysStep == AdminInv /\ [AdminNext]_adminVars => OffStays
<1> SUFFICES ASSUME AdminInv, [AdminNext]_adminVars PROVE OffStays
  OBVIOUS
<1> USE DEF OffStays
<1>1. CASE UNCHANGED <<users, servers>>
  BY <1>1
<1>2. ASSUME NEW i \in UserIds, UNCHANGED servers, users'[i] \in UserRows,
             \A u \in UserIds \ {i} : users'[u] = users[u],
             DOMAIN users' = UserIds,
             i \in RowsOf(users) /\ users'[i].active => users[i].active
      PROVE  OffStays
  BY <1>2, RowsAssumption DEF RowsOf, AdminInv, AdminTypeOK
<1>3. ASSUME NEW i \in ServerIds, UNCHANGED users, servers'[i] \in ServerRows,
             \A s \in ServerIds \ {i} : servers'[s] = servers[s],
             DOMAIN servers' = ServerIds,
             i \in RowsOf(servers) /\ servers'[i].active => servers[i].active
      PROVE  OffStays
  BY <1>3, RowsAssumption DEF RowsOf, AdminInv, AdminTypeOK
<1>4. CASE UserHandlers
  <2>1. ASSUME NEW i \in UserIds, NEW r \in RoleIds, NEW e \in Emails,
               CreateUser(i, e, r)
        PROVE  OffStays
    BY <1>2, <2>1 DEF CreateUser, UserRows, RowsOf, Absent, AdminInv,
       AdminTypeOK
  <2>2. ASSUME NEW i \in UserIds, NEW r \in RoleIds, UpdateUserRole(i, r)
        PROVE  OffStays
    BY <1>2, <2>2, RowsTyped DEF UpdateUserRole, UserRows, AdminInv, AdminTypeOK
  <2>3. ASSUME NEW i \in UserIds, DeactivateUser(i) PROVE OffStays
    BY <1>2, <2>3, RowsTyped DEF DeactivateUser, UserRows, AdminInv, AdminTypeOK
  <2>4. QED
    BY <1>4, <2>1, <2>2, <2>3 DEF UserHandlers
<1>5. CASE ServerHandlers
  <2>1. ASSUME NEW i \in ServerIds, NEW n \in ServerNames,
               CreateDownstreamServer(i, n)
        PROVE  OffStays
    BY <1>3, <2>1 DEF CreateDownstreamServer, ServerRows, RowsOf, Absent,
       AdminInv, AdminTypeOK
  <2>2. ASSUME NEW i \in ServerIds, NEW n \in ServerNames,
               UpdateDownstreamServer(i, n)
        PROVE  OffStays
    BY <1>3, <2>2, RowsTyped DEF UpdateDownstreamServer, ServerRows, AdminInv,
       AdminTypeOK
  <2>3. ASSUME NEW i \in ServerIds, SetDownstreamServerActive(i) PROVE OffStays
    BY <1>3, <2>3, RowsTyped DEF SetDownstreamServerActive, ServerRows,
       AdminInv, AdminTypeOK
  <2>4. QED
    BY <1>5, <2>1, <2>2, <2>3 DEF ServerHandlers
<1>6. CASE RoleHandlers \/ PolicyHandlers \/ UNCHANGED adminVars
  BY <1>1, <1>6 DEF RoleHandlers, CreateRole, UpdateRole, DeleteRole,
     PolicyHandlers, UpsertPolicy, DeletePolicy, adminVars
<1>7. QED
  BY <1>4, <1>5, <1>6 DEF AdminNext

\* A user or server that was registered stays, and one that was turned off
\* stays off, in every step of every behaviour, for any ids and names.
THEOREM OffForGood == AdminSpec => OffStaysOff
<1>1. AdminInv /\ [AdminNext]_adminVars => [OffStays]_adminVars
  BY OffStaysStep
<1>2. QED
  BY <1>1, AdminInductive, PTL DEF AdminSpec, OffStaysOff, OffStays
=============================================================================
