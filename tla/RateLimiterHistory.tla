------------------------- MODULE RateLimiterHistory -------------------------
(***************************************************************************)
(* RateLimiter with the history of the calls its script recorded, to say   *)
(* what its count and its denials mean.                                    *)
(***************************************************************************)
EXTENDS RateLimiter

VARIABLE recorded  \* the stamps of the calls whose script ran

hvars == <<vars, recorded>>

HInit == Init /\ recorded = {}

HAllow(c) ==
    \/ /\ Admit(c) \/ Deny(c) \/ LoseReply(c)
       /\ recorded' = recorded \cup {flight[c].stamp}
    \/ /\ Fail(c) \/ \E l \in Limits : Begin(c, l)
       /\ UNCHANGED recorded

HNext ==
    \/ \E c \in Calls : HAllow(c)
    \/ (Tick \/ RedisSave \/ RedisRestart) /\ UNCHANGED recorded

HSpec == HInit /\ [][HNext]_hvars

\* The calls of R that are still in the window of a call stamped t.
InWindow(R, t) == {s \in R : s > t - Window}

\* A call is denied by its count only when more than its limit of calls,
\* itself among them, were really made within Window before it or since: no
\* expired member, of the set or of a restored snapshot, denies a call
\* (limiter.go:18, "Removes entries older than the window").
DeniedForCause ==
    [][\A c \in Calls :
          Deny(c) => Cardinality(InWindow(recorded', flight[c].stamp))
                        > flight[c].limit]_hvars
=============================================================================
