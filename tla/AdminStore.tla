----------------------------- MODULE AdminStore -----------------------------
(***************************************************************************)
(* The tables the gateway is administered through (migrations/) and the    *)
(* admin API's operations on them: the handlers of internal/handlers, each *)
(* with the one SQL statement it runs (internal/db/*.sql.go).  A handler   *)
(* is one action: its statement is atomic in Postgres, and checks the      *)
(* constraints of the tables, so concurrent handlers interleave.  A        *)
(* handler that refuses its input, or whose statement fails, changes       *)
(* nothing; one whose answer is lost after the commit has changed what its *)
(* action changes.                                                         *)
(*                                                                         *)
(* The ids are random UUIDs: an id is used for one row only, and the id of *)
(* a deleted row is not used again.  The columns that no operation tests   *)
(* (display_name, description, base_url, auth_type, auth_secret_ref,       *)
(* redact_fields, max_calls_per_minute) are left out; what a policy row    *)
(* grants is is_allowed.                                                   *)
(***************************************************************************)
EXTENDS Naturals, FiniteSets

CONSTANTS
    RoleIds,      \* ids of the roles
    UserIds,      \* ids of the users
    ServerIds,    \* ids of the downstream_servers
    PolicyIds,    \* ids of the policies
    RoleNames,    \* names of roles
    Emails,       \* e-mail addresses of users
    ServerNames,  \* names of servers
    Tools,        \* names of tools
    Unused,       \* no row has had the id yet
    Deleted       \* the row of the id has been deleted

VARIABLES
    roles,     \* the table roles, by id: the name
    users,     \* the table users, by id
    servers,   \* the table downstream_servers, by id
    policies   \* the table policies, by id

adminVars == <<roles, users, servers, policies>>

Absent == {Unused, Deleted}

UserRows == [email : Emails, role : RoleIds, active : BOOLEAN]
ServerRows == [name : ServerNames, active : BOOLEAN]
PolicyRows == [role : RoleIds, server : ServerIds, tool : Tools,
               allowed : BOOLEAN]

\* Absence is told from every row.
ASSUME RowsAssumption ==
    /\ Unused # Deleted
    /\ Absent \cap (RoleNames \cup UserRows \cup ServerRows \cup PolicyRows) = {}

\* The ids of the rows of a table.
RowsOf(table) == {i \in DOMAIN table : table[i] \notin Absent}

AdminInit ==
    /\ roles = [i \in RoleIds |-> Unused]
    /\ users = [i \in UserIds |-> Unused]
    /\ servers = [i \in ServerIds |-> Unused]
    /\ policies = [i \in PolicyIds |-> Unused]

-----------------------------------------------------------------------------
(* Roles.                                                                  *)

\* UNIQUE (name): no other role has the name n.
RoleNameFree(i, n) == \A j \in RowsOf(roles) \ {i} : roles[j] # n

CreateRole(i, n) ==
    /\ roles[i] = Unused
    /\ RoleNameFree(i, n)
    /\ roles' = [roles EXCEPT ![i] = n]
    /\ UNCHANGED <<users, servers, policies>>

UpdateRole(i, n) ==
    /\ i \in RowsOf(roles)
    /\ RoleNameFree(i, n)
    /\ roles' = [roles EXCEPT ![i] = n]
    /\ UNCHANGED <<users, servers, policies>>

\* The rows whose foreign key keeps a role in place: those of its users,
\* active or not, and of its policies.
Holders(i) ==
    {u \in RowsOf(users) : users[u].role = i}
        \cup {p \in RowsOf(policies) : policies[p].role = i}

\* Mutant of DeleteRole: no foreign key keeps the role.
DeleteRoleUnchecked(i) ==
    /\ i \in RowsOf(roles)
    /\ roles' = [roles EXCEPT ![i] = Deleted]
    /\ UNCHANGED <<users, servers, policies>>

DeleteRole(i) ==
    /\ i \in RowsOf(roles)
    /\ Holders(i) = {}
    /\ roles' = [roles EXCEPT ![i] = Deleted]
    /\ UNCHANGED <<users, servers, policies>>

-----------------------------------------------------------------------------
(* Users.                                                                  *)

CreateUser(i, e, r) ==
    /\ users[i] = Unused
    /\ r \in RowsOf(roles)
    /\ \A j \in RowsOf(users) : users[j].email # e
    /\ users' = [users EXCEPT ![i] = [email |-> e, role |-> r, active |-> TRUE]]
    /\ UNCHANGED <<roles, servers, policies>>

UpdateUserRole(i, r) ==
    /\ i \in RowsOf(users)
    /\ r \in RowsOf(roles)
    /\ users' = [users EXCEPT ![i].role = r]
    /\ UNCHANGED <<roles, servers, policies>>

\* Mutant of DeactivateUser: the row is deleted.
DeactivateUserHard(i) ==
    /\ i \in RowsOf(users)
    /\ users' = [users EXCEPT ![i] = Deleted]
    /\ UNCHANGED <<roles, servers, policies>>

DeactivateUser(i) ==
    /\ i \in RowsOf(users)
    /\ users' = [users EXCEPT ![i].active = FALSE]
    /\ UNCHANGED <<roles, servers, policies>>

-----------------------------------------------------------------------------
(* Downstream servers.                                                     *)

ServerNameFree(i, n) == \A j \in RowsOf(servers) \ {i} : servers[j].name # n

CreateDownstreamServer(i, n) ==
    /\ servers[i] = Unused
    /\ ServerNameFree(i, n)
    /\ servers' = [servers EXCEPT ![i] = [name |-> n, active |-> TRUE]]
    /\ UNCHANGED <<roles, users, policies>>

\* Mutant of UpdateDownstreamServer: the update writes every column,
\* is_active at its default.
UpdateServerWhole(i, n) ==
    /\ i \in RowsOf(servers)
    /\ ServerNameFree(i, n)
    /\ servers' = [servers EXCEPT ![i] = [name |-> n, active |-> TRUE]]
    /\ UNCHANGED <<roles, users, policies>>

UpdateDownstreamServer(i, n) ==
    /\ i \in RowsOf(servers)
    /\ ServerNameFree(i, n)
    /\ servers' = [servers EXCEPT ![i].name = n]
    /\ UNCHANGED <<roles, users, policies>>

\* The handler always passes is_active = FALSE.
SetDownstreamServerActive(i) ==
    /\ i \in RowsOf(servers)
    /\ servers' = [servers EXCEPT ![i].active = FALSE]
    /\ UNCHANGED <<roles, users, policies>>

-----------------------------------------------------------------------------
(* Policies.                                                               *)

\* The rows of a (role, server, tool) triple.
RowsFor(r, s, t) ==
    {p \in RowsOf(policies) :
        /\ policies[p].role = r
        /\ policies[p].server = s
        /\ policies[p].tool = t}

\* Mutant of UpsertPolicy: a plain INSERT.
InsertPolicy(p, r, s, t, a) ==
    /\ r \in RowsOf(roles)
    /\ s \in RowsOf(servers)
    /\ policies[p] = Unused
    /\ policies' = [policies EXCEPT ![p] =
                        [role |-> r, server |-> s, tool |-> t, allowed |-> a]]
    /\ UNCHANGED <<roles, users, servers>>

\* INSERT ... ON CONFLICT (role, server, tool) DO UPDATE: the new row takes
\* the id p, an existing row of the triple keeps its own.
UpsertPolicy(p, r, s, t, a) ==
    /\ r \in RowsOf(roles)
    /\ s \in RowsOf(servers)
    /\ IF RowsFor(r, s, t) = {} THEN policies[p] = Unused
                                ELSE p \in RowsFor(r, s, t)
    /\ policies' = [policies EXCEPT ![p] =
                        [role |-> r, server |-> s, tool |-> t, allowed |-> a]]
    /\ UNCHANGED <<roles, users, servers>>

DeletePolicy(p) ==
    /\ p \in RowsOf(policies)
    /\ policies' = [policies EXCEPT ![p] = Deleted]
    /\ UNCHANGED <<roles, users, servers>>

-----------------------------------------------------------------------------

RoleHandlers ==
    \E i \in RoleIds :
        \/ \E n \in RoleNames : CreateRole(i, n) \/ UpdateRole(i, n)
        \/ DeleteRole(i)

UserHandlers ==
    \E i \in UserIds :
        \/ \E r \in RoleIds :
               \/ \E e \in Emails : CreateUser(i, e, r)
               \/ UpdateUserRole(i, r)
        \/ DeactivateUser(i)

ServerHandlers ==
    \E i \in ServerIds :
        \/ \E n \in ServerNames :
               CreateDownstreamServer(i, n) \/ UpdateDownstreamServer(i, n)
        \/ SetDownstreamServerActive(i)

PolicyHandlers ==
    \E p \in PolicyIds :
        \/ \E r \in RoleIds, s \in ServerIds, t \in Tools, a \in BOOLEAN :
               UpsertPolicy(p, r, s, t, a)
        \/ DeletePolicy(p)

AdminNext == RoleHandlers \/ UserHandlers \/ ServerHandlers \/ PolicyHandlers

AdminSpec == AdminInit /\ [][AdminNext]_adminVars

-----------------------------------------------------------------------------
(* Properties.                                                             *)

\* The type invariant of the tables.
AdminTypeOK ==
    /\ roles \in [RoleIds -> RoleNames \cup Absent]
    /\ users \in [UserIds -> UserRows \cup {Unused}]
    /\ servers \in [ServerIds -> ServerRows \cup {Unused}]
    /\ policies \in [PolicyIds -> PolicyRows \cup Absent]

\* Every user's role, and every policy's role and server, is a row, however
\* roles are deleted while users and policies are created or moved
\* (REFERENCES in migrations 2 and 4; DeleteRole takes a role away).
References ==
    /\ \A u \in RowsOf(users) : users[u].role \in RowsOf(roles)
    /\ \A p \in RowsOf(policies) :
           /\ policies[p].role \in RowsOf(roles)
           /\ policies[p].server \in RowsOf(servers)

\* A triple has at most one rule, however upserts and deletions alternate, so
\* the policy engine's lookup of one row is the whole answer
\* (GetPolicyByRoleServerTool, policies.sql.go).
OneRulePerTriple ==
    \A r \in RoleIds, s \in ServerIds, t \in Tools :
        Cardinality(RowsFor(r, s, t)) <= 1

\* Users and servers, once registered, are never taken away nor activated
\* again: "audit events reference them by FK so hard-delete would corrupt
\* history" (CHANGELOG.md:157), and the API has no way back from a
\* deactivation.
OffStaysOff ==
    [][/\ \A u \in RowsOf(users) :
              u \in RowsOf(users)' /\ (users'[u].active => users[u].active)
       /\ \A s \in RowsOf(servers) :
              s \in RowsOf(servers)' /\ (servers'[s].active => servers[s].active)
      ]_adminVars
=============================================================================
