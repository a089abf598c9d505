---------------------------- MODULE PolicyCache ----------------------------
(***************************************************************************)
(* The policy engine's read-through cache (internal/policy/engine.go) over *)
(* one (role, server, tool) triple, with the admin API's writes of the     *)
(* policy row and the Redis server that holds the cached decision.  The    *)
(* cache key is injective in the triple (internal/cache/keys.go), so       *)
(* triples do not interact and one of them is enough.                      *)
(*                                                                         *)
(* A slot of Slots is one Evaluate call together with the goroutine it     *)
(* starts to write the cache: the call has answered when the goroutine     *)
(* runs, and nothing orders the goroutines of two calls.                   *)
(*                                                                         *)
(* Time is an integer clock.  WriteDelay bounds how long after the row was *)
(* read in Postgres the SET can still reach Redis (the goroutine's context *)
(* gives up after two seconds, engine.go:140); MaxTime bounds the clock.   *)
(***************************************************************************)
EXTENDS Integers

CONSTANTS
    Slots,        \* concurrent Evaluate calls, with their cache goroutines
    Rows,         \* the contents a policy row can have
    Permitting,   \* the rows whose is_allowed column is true
    NoRow,        \* the triple has no policy row
    NoEntry,      \* the cache holds nothing for the triple
    NoFill,       \* the slot has no cache goroutine
    PolicyTTL,    \* cache.PolicyTTL
    NoPolicyTTL,  \* policy.noPolicyTTL
    WriteDelay,   \* longest delay from the read of the row to the SET
    MaxTime       \* bound of the clock

ASSUME TimesAssumption ==
    /\ PolicyTTL \in Nat \ {0}
    /\ NoPolicyTTL \in Nat \ {0}
    /\ NoPolicyTTL <= PolicyTTL
    /\ WriteDelay \in Nat
    /\ MaxTime \in Nat

ASSUME RowsAssumption ==
    /\ Permitting \subseteq Rows
    /\ NoRow \notin Rows

VARIABLES
    now,       \* the clock
    row,       \* the policy row in Postgres, or NoRow
    entry,     \* the Redis key of the triple: a decision and its expiry
    snapshot,  \* what the last RDB snapshot of Redis holds for the key
    querying,  \* the slots whose call has missed the cache
    fill,      \* per slot: what its goroutine has to cache, and since when
    answer,    \* the last decision an Evaluate call returned, with its age
    lastTrue   \* history: when each content was last the row's content

vars == <<now, row, entry, snapshot, querying, fill, answer, lastTrue>>

Contents == Rows \cup {NoRow}

Never == -1

\* Mutant of TTL: a default deny is cached as long as a row.
TTLUniform(c) == PolicyTTL

\* How long the decision made from c is kept in Redis.
TTL(c) == IF c = NoRow THEN NoPolicyTTL ELSE PolicyTTL

Entries == [content : Contents, expires : Int] \cup {NoEntry}
Fills == [content : Contents, at : Int] \cup {NoFill}

\* Redis drops the entry when the clock reaches its expiry.
Expire(e, t) == IF e # NoEntry /\ e.expires <= t THEN NoEntry ELSE e

\* An Evaluate call returned the decision made from content c, which the row
\* last had age ago.  A call that fails returns deny() and an error.
Answered(c) == [content |-> c, age |-> now - lastTrue[c], failed |-> FALSE]
Failed == [content |-> NoRow, age |-> 0, failed |-> TRUE]

Init ==
    /\ now = 0
    /\ row = NoRow
    /\ entry = NoEntry
    /\ snapshot = NoEntry
    /\ querying = {}
    /\ fill = [s \in Slots |-> NoFill]
    /\ answer = Failed
    /\ lastTrue = [c \in Contents |-> IF c = NoRow THEN 0 ELSE Never]

-----------------------------------------------------------------------------
(* Evaluate.                                                               *)

Idle(s) == s \notin querying /\ fill[s] = NoFill

\* Mutant of LookupHit: a hit renews the expiry.
LookupHitRenews(s) ==
    /\ Idle(s)
    /\ entry # NoEntry
    /\ answer' = Answered(entry.content)
    /\ entry' = [entry EXCEPT !.expires = now + TTL(entry.content)]
    /\ UNCHANGED <<now, row, snapshot, querying, fill, lastTrue>>

\* The GET finds an entry: it is the decision, whatever the row is now.
LookupHit(s) ==
    /\ Idle(s)
    /\ entry # NoEntry
    /\ answer' = Answered(entry.content)
    /\ UNCHANGED <<now, row, entry, snapshot, querying, fill, lastTrue>>

\* The GET finds nothing, a value that does not parse, or fails: every one
\* of them falls through to Postgres, so no guard on the entry.
LookupMiss(s) ==
    /\ Idle(s)
    /\ querying' = querying \cup {s}
    /\ UNCHANGED <<now, row, entry, snapshot, fill, answer, lastTrue>>

\* Postgres answers, with the row or with ErrNoRows; the call returns and
\* leaves a goroutine behind to cache what it read.
Query(s) ==
    /\ s \in querying
    /\ querying' = querying \ {s}
    /\ fill' = [fill EXCEPT ![s] = [content |-> row, at |-> now]]
    /\ answer' = Answered(row)
    /\ UNCHANGED <<now, row, entry, snapshot, lastTrue>>

\* Postgres fails: deny, and nothing is cached.
QueryFails(s) ==
    /\ s \in querying
    /\ querying' = querying \ {s}
    /\ answer' = Failed
    /\ UNCHANGED <<now, row, entry, snapshot, fill, lastTrue>>

\* Mutant of CacheWrite: the time of the read is marshalled with the value.
CacheWriteWhole(s) ==
    /\ fill[s] # NoFill
    /\ fill' = [fill EXCEPT ![s] = NoFill]
    /\ entry' = [content |-> fill[s],
                 expires |-> now + TTL(fill[s].content)]
    /\ UNCHANGED <<now, row, snapshot, querying, answer, lastTrue>>

\* cacheDecisionTTL: the SET takes effect, over whatever is there.
CacheWrite(s) ==
    /\ fill[s] # NoFill
    /\ fill' = [fill EXCEPT ![s] = NoFill]
    /\ entry' = [content |-> fill[s].content,
                 expires |-> now + TTL(fill[s].content)]
    /\ UNCHANGED <<now, row, snapshot, querying, answer, lastTrue>>

\* cacheDecisionTTL: the SET fails and is only logged.
CacheWriteFails(s) ==
    /\ fill[s] # NoFill
    /\ fill' = [fill EXCEPT ![s] = NoFill]
    /\ UNCHANGED <<now, row, entry, snapshot, querying, answer, lastTrue>>

-----------------------------------------------------------------------------
(* Administration, Redis and time.                                         *)

\* The admin API creates or replaces the row; it does not touch Redis.
UpsertPolicy(r) ==
    /\ row' = r
    /\ lastTrue' = [lastTrue EXCEPT ![r] = now]
    /\ UNCHANGED <<now, entry, snapshot, querying, fill, answer>>

\* The admin API deletes the row; it does not touch Redis.
DeletePolicy ==
    /\ row' = NoRow
    /\ lastTrue' = [lastTrue EXCEPT ![NoRow] = now]
    /\ UNCHANGED <<now, entry, snapshot, querying, fill, answer>>

\* Mutant of InvalidatePolicy: the key deleted is that of another triple.
InvalidateOtherTriple ==
    /\ UNCHANGED <<now, row, entry, snapshot, querying, fill, answer, lastTrue>>

\* Engine.InvalidatePolicy, when its DEL succeeds (a failure is only logged
\* and changes nothing).  It is exported, and no binary calls it.
InvalidatePolicy ==
    /\ entry' = NoEntry
    /\ UNCHANGED <<now, row, snapshot, querying, fill, answer, lastTrue>>

\* Redis runs with RDB snapshots only: it saves the key with its absolute
\* expiry, and a restart brings back what the last snapshot held.
RedisSave ==
    /\ snapshot' = entry
    /\ UNCHANGED <<now, row, entry, querying, fill, answer, lastTrue>>

RedisRestart ==
    /\ entry' = snapshot
    /\ UNCHANGED <<now, row, snapshot, querying, fill, answer, lastTrue>>

\* Time passes unless a cache goroutine has used up its delay.
Tick ==
    /\ now < MaxTime
    /\ \A s \in Slots : fill[s] # NoFill => now < fill[s].at + WriteDelay
    /\ now' = now + 1
    /\ entry' = Expire(entry, now + 1)
    /\ snapshot' = Expire(snapshot, now + 1)
    /\ lastTrue' = [lastTrue EXCEPT ![row] = now + 1]
    /\ UNCHANGED <<row, querying, fill, answer>>

Evaluate(s) ==
    \/ LookupHit(s)
    \/ LookupMiss(s)
    \/ Query(s)
    \/ QueryFails(s)
    \/ CacheWrite(s)
    \/ CacheWriteFails(s)

Administer == DeletePolicy \/ \E r \in Rows : UpsertPolicy(r)

Next ==
    \/ \E s \in Slots : Evaluate(s)
    \/ Administer
    \/ InvalidatePolicy
    \/ RedisSave
    \/ RedisRestart
    \/ Tick

Spec == Init /\ [][Next]_vars

-----------------------------------------------------------------------------
(* Properties.                                                             *)

\* The type invariant of the engine, its cache and the row.
TypeOK ==
    /\ now \in Nat
    /\ row \in Contents
    /\ entry \in Entries
    /\ snapshot \in Entries
    /\ querying \subseteq Slots
    /\ fill \in [Slots -> Fills]
    /\ answer \in [content : Contents, age : Int, failed : BOOLEAN]
    /\ lastTrue \in [Contents -> Nat \cup {Never}]

\* A call is allowed only if a permitting row stood in Postgres no longer
\* ago than PolicyTTL + WriteDelay: "Never return Allowed=true unless a
\* positive policy row confirms it" (engine.go:53), with the age of the
\* confirmation, through late cache writes and Redis restarts.
PermitConfirmed ==
    (~answer.failed /\ answer.content \in Permitting)
        => /\ lastTrue[answer.content] # Never
           /\ answer.age <= PolicyTTL + WriteDelay

\* The default deny outlives the absence of a row by at most NoPolicyTTL +
\* WriteDelay: what the short TTL of engine.go:46 buys a created policy.
DefaultDenyBounded ==
    (~answer.failed /\ answer.content = NoRow)
        => answer.age <= NoPolicyTTL + WriteDelay
=============================================================================
