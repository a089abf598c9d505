---------------------------- MODULE RateLimiter ----------------------------
(***************************************************************************)
(* The sliding-window rate limiter (internal/ratelimit/limiter.go) over    *)
(* one (user, server) pair: Limiter.Allow reads the clock in the proxy,    *)
(* and a script that Redis runs atomically, some time later, purges the    *)
(* sorted set of the pair, records the call and counts.  The limit comes   *)
(* from the policy of the tool called, so calls of different limits share  *)
(* one sorted set.                                                         *)
(*                                                                         *)
(* A call is known by its time stamp: the clock is fine enough that no two *)
(* calls read the same value, which the code assumes ("Nanosecond          *)
(* timestamps are practically unique", limiter.go:36).  Delay bounds the   *)
(* time from the reading of the clock to the run of the script, MaxTime    *)
(* the clock.                                                              *)
(***************************************************************************)
EXTENDS Integers, FiniteSets

CONSTANTS
    Calls,    \* concurrent calls of Allow for the pair
    Limits,   \* the max_calls_per_minute the tools' policies carry
    Window,   \* cache.RateLimitWindow
    KeyTTL,   \* the expiry the script sets: Window plus a few seconds
    Delay,    \* longest delay from time.Now() to the run of the script
    MaxTime,  \* bound of the clock
    NoCall    \* the slot has no call in flight

ASSUME LimiterAssumption ==
    /\ Limits \subseteq Int
    /\ Window \in Nat \ {0}
    /\ KeyTTL \in Nat
    /\ Window <= KeyTTL
    /\ Delay \in Nat
    /\ MaxTime \in Nat

VARIABLES
    now,        \* the clock
    key,        \* the sorted set in Redis: its members and its expiry
    saved,      \* what the last RDB snapshot holds for it
    flight,     \* per slot: the stamp and the limit of its call, or NoCall
    lastStamp,  \* the latest stamp read
    admitted    \* history: per limit, the stamps of the calls it admitted
                \* since Redis last restarted

vars == <<now, key, saved, flight, lastStamp, admitted>>

NoKey == [stamps |-> {}, expires |-> 0]

Keys == [stamps : SUBSET Nat, expires : Nat]

Init ==
    /\ now = 0
    /\ key = NoKey
    /\ saved = NoKey
    /\ flight = [c \in Calls |-> NoCall]
    /\ lastStamp = -1
    /\ admitted = [l \in Limits |-> {}]

-----------------------------------------------------------------------------
(* The script.                                                             *)

\* ZREMRANGEBYSCORE -inf..now-Window, ZADD, for a call of stamp t.
AfterScript(t) == {s \in key.stamps : s > t - Window} \cup {t}

RunScript(t) ==
    key' = [stamps |-> AfterScript(t), expires |-> now + KeyTTL]

-----------------------------------------------------------------------------
(* Allow.                                                                  *)

\* Allow reads the clock.  A limit that is not positive is denied at once
\* and leaves no trace, so such a call never starts.
Begin(c, l) ==
    /\ flight[c] = NoCall
    /\ l > 0
    /\ lastStamp < now
    /\ lastStamp' = now
    /\ flight' = [flight EXCEPT ![c] = [stamp |-> now, limit |-> l]]
    /\ UNCHANGED <<now, key, saved, admitted>>

\* Mutant of Admit: the count is taken before the call is added.
AdmitBeforeAdd(c) ==
    /\ flight[c] # NoCall
    /\ RunScript(flight[c].stamp)
    /\ Cardinality(key'.stamps \ {flight[c].stamp}) <= flight[c].limit
    /\ admitted' = [admitted EXCEPT ![flight[c].limit] = @ \cup {flight[c].stamp}]
    /\ flight' = [flight EXCEPT ![c] = NoCall]
    /\ UNCHANGED <<now, saved, lastStamp>>

\* The script runs and its count comes back within the limit.
Admit(c) ==
    /\ flight[c] # NoCall
    /\ RunScript(flight[c].stamp)
    /\ Cardinality(key'.stamps) <= flight[c].limit
    /\ admitted' = [admitted EXCEPT ![flight[c].limit] = @ \cup {flight[c].stamp}]
    /\ flight' = [flight EXCEPT ![c] = NoCall]
    /\ UNCHANGED <<now, saved, lastStamp>>

\* Mutant of Deny: the last call of the quota is denied.
DenyAtLimit(c) ==
    /\ flight[c] # NoCall
    /\ RunScript(flight[c].stamp)
    /\ Cardinality(key'.stamps) >= flight[c].limit
    /\ flight' = [flight EXCEPT ![c] = NoCall]
    /\ UNCHANGED <<now, saved, lastStamp, admitted>>

\* The script runs and its count exceeds the limit; the call stays recorded.
Deny(c) ==
    /\ flight[c] # NoCall
    /\ RunScript(flight[c].stamp)
    /\ Cardinality(key'.stamps) > flight[c].limit
    /\ flight' = [flight EXCEPT ![c] = NoCall]
    /\ UNCHANGED <<now, saved, lastStamp, admitted>>

\* The script runs but its answer is lost: the Redis client may send it
\* again, with the same arguments.
LoseReply(c) ==
    /\ flight[c] # NoCall
    /\ RunScript(flight[c].stamp)
    /\ UNCHANGED <<now, saved, flight, lastStamp, admitted>>

\* Allow gives up with an error, which denies the call.
Fail(c) ==
    /\ flight[c] # NoCall
    /\ flight' = [flight EXCEPT ![c] = NoCall]
    /\ UNCHANGED <<now, key, saved, lastStamp, admitted>>

-----------------------------------------------------------------------------
(* Redis and time.                                                         *)

RedisSave ==
    /\ saved' = key
    /\ UNCHANGED <<now, key, flight, lastStamp, admitted>>

\* Redis comes back with its last snapshot; what it counts starts anew.
RedisRestart ==
    /\ key' = saved
    /\ admitted' = [l \in Limits |-> {}]
    /\ UNCHANGED <<now, saved, flight, lastStamp>>

\* Redis drops a key when the clock reaches its expiry.
Expire(k, t) == IF k.expires <= t THEN NoKey ELSE k

\* Time passes unless a call has used up its delay.
Tick ==
    /\ now < MaxTime
    /\ \A c \in Calls : flight[c] # NoCall => now < flight[c].stamp + Delay
    /\ now' = now + 1
    /\ key' = Expire(key, now + 1)
    /\ saved' = Expire(saved, now + 1)
    /\ UNCHANGED <<flight, lastStamp, admitted>>

Allow(c) ==
    \/ \E l \in Limits : Begin(c, l)
    \/ Admit(c)
    \/ Deny(c)
    \/ LoseReply(c)
    \/ Fail(c)

Next ==
    \/ \E c \in Calls : Allow(c)
    \/ RedisSave
    \/ RedisRestart
    \/ Tick

Spec == Init /\ [][Next]_vars

-----------------------------------------------------------------------------
(* Properties.                                                             *)

\* The type invariant of the limiter.
TypeOK ==
    /\ now \in Nat
    /\ key \in Keys
    /\ saved \in Keys
    /\ flight \in [Calls -> [stamp : Nat, limit : Limits] \cup {NoCall}]
    /\ lastStamp \in Int
    /\ admitted \in [Limits -> SUBSET Nat]

\* The calls admitted under a limit of l or less.
AdmittedUpTo(l) == UNION {admitted[k] : k \in {m \in Limits : m <= l}}

\* What the limiter is for: of the calls stamped within any Window - Delay
\* of each other, those of tools limited to l or less are at most l, however
\* their scripts are delayed, reordered, retried or mixed with the calls of
\* tools with a higher limit (limiter.go:83, "count > limit -> deny").
WindowBound ==
    \A l \in Limits : l > 0 =>
        \A t \in (0 - Window) .. MaxTime :
            Cardinality(AdmittedUpTo(l) \cap ((t + 1) .. (t + Window - Delay)))
                <= l
=============================================================================
