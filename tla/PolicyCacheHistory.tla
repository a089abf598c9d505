------------------------- MODULE PolicyCacheHistory -------------------------
(***************************************************************************)
(* PolicyCache with two history variables, to say what engine.go promises  *)
(* about moments: when the policy row was last created, and when its       *)
(* cached entry was last invalidated, unless a restart of Redis may have   *)
(* brought the entry back since.                                           *)
(***************************************************************************)
EXTENDS PolicyCache

VARIABLES
    created,     \* when the row last came into being
    invalidated  \* when InvalidatePolicy last removed the entry

hvars == <<vars, created, invalidated>>

HInit ==
    /\ Init
    /\ created = Never
    /\ invalidated = Never

HNext ==
    \/ /\ InvalidatePolicy
       /\ invalidated' = now
       /\ UNCHANGED created
    \/ /\ Administer
       /\ created' = IF row = NoRow /\ row' # NoRow THEN now ELSE created
       /\ UNCHANGED invalidated
    \/ /\ RedisRestart
       /\ invalidated' = Never
       /\ UNCHANGED created
    \/ /\ Tick \/ RedisSave \/ \E s \in Slots : Evaluate(s)
       /\ UNCHANGED <<created, invalidated>>

HSpec == HInit /\ [][HNext]_hvars

\* What is left of engine.go:147, which says of InvalidatePolicy that it
\* removes the entry "so the next request gets a fresh DB read": a write
\* already under way may fill the cache again, but what the cache answers
\* was the row at most WriteDelay before the invalidation.
InvalidationHolds ==
    (entry # NoEntry /\ invalidated # Never)
        => lastTrue[entry.content] >= invalidated - WriteDelay

\* What engine.go:102-103 says: "a newly-added policy should take effect in
\* <=10 s, not <=60 s": what the cache still answers NoPolicyTTL after the
\* row was created is something the row has been since.
NewPolicyTakesEffect ==
    (entry # NoEntry /\ created # Never /\ now > created + NoPolicyTTL)
        => lastTrue[entry.content] >= created
=============================================================================
