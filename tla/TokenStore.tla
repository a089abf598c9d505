----------------------------- MODULE TokenStore -----------------------------
(***************************************************************************)
(* The proxy tokens (internal/auth/tokens.go), issued and revoked by the   *)
(* admin API (internal/handlers/auth.go) and looked up by the proxy on     *)
(* every request.  A token is one Redis key with an expiry; nothing else   *)
(* remembers it, so what Redis forgets or restores is the truth.  Redis    *)
(* saves snapshots (docker-compose.yml:32) that keep the absolute expiry   *)
(* of a key, and comes back from a crash with the last one.                *)
(*                                                                         *)
(* A token stands for its 64 hexadecimal digits and for their hash: tokens *)
(* are random, so each is issued at most once and the two are one-to-one.  *)
(* MaxTime bounds the clock.                                               *)
(***************************************************************************)
EXTENDS Integers

CONSTANTS
    Tokens,    \* the tokens generateToken may draw
    Users,     \* the user ids tokens are issued for
    TokenTTL,  \* the life of a token: cache.TokenTTL
    MaxTime,   \* bound of the clock
    None       \* no key, no grant, no acceptance

ASSUME TokenAssumption ==
    /\ TokenTTL \in Nat \ {0}
    /\ MaxTime \in Nat
    /\ None \notin [user : Users, until : Nat] \cup [user : Users, at : Nat]

VARIABLES
    now,       \* the clock
    key,       \* per token: its Redis key, the user and the expiry, or None
    saved,     \* what the last snapshot holds for it
    grant,     \* history: whom and when it was issued to
    revoked,   \* history: the tokens whose revocation was confirmed, and not
               \* undone by a restart from an earlier snapshot
    kept,      \* history: those of them when the last snapshot was saved
    accepted   \* history: the user and the time of its last acceptance

vars == <<now, key, saved, grant, revoked, kept, accepted>>

Keys == [user : Users, until : Nat]
Stamps == [user : Users, at : Nat]

Init ==
    /\ now = 0
    /\ key = [t \in Tokens |-> None]
    /\ saved = [t \in Tokens |-> None]
    /\ grant = [t \in Tokens |-> None]
    /\ revoked = {}
    /\ kept = {}
    /\ accepted = [t \in Tokens |-> None]

-----------------------------------------------------------------------------
(* The admin API.                                                          *)

\* IssueToken: the SET with its expiry, and the answer that hands the token
\* out.  Nothing checks the user, nor the tokens the user already has.
Issue(t, u) ==
    /\ grant[t] = None
    /\ key' = [key EXCEPT ![t] = [user |-> u, until |-> now + TokenTTL]]
    /\ grant' = [grant EXCEPT ![t] = [user |-> u, at |-> now]]
    /\ UNCHANGED <<now, saved, revoked, kept, accepted>>

\* Mutant of Revoke: the key deleted is that of the raw token, not its hash.
RevokeRaw(t) ==
    /\ grant[t] # None
    /\ revoked' = revoked \cup {t}
    /\ UNCHANGED <<now, key, saved, grant, kept, accepted>>

\* RevokeToken: the DEL, confirmed with 204 whether the key was there or not.
Revoke(t) ==
    /\ grant[t] # None
    /\ key' = [key EXCEPT ![t] = None]
    /\ revoked' = revoked \cup {t}
    /\ UNCHANGED <<now, saved, grant, kept, accepted>>

\* The DEL runs but its answer is lost: the admin is told 500.
RevokeUnconfirmed(t) ==
    /\ grant[t] # None
    /\ key' = [key EXCEPT ![t] = None]
    /\ UNCHANGED <<now, saved, grant, revoked, kept, accepted>>

-----------------------------------------------------------------------------
(* The proxy.                                                              *)

\* Mutant of Validate: an accepted token lives on from its last use.
ValidateRenews(t) ==
    /\ key[t] # None
    /\ key' = [key EXCEPT ![t].until = now + TokenTTL]
    /\ accepted' = [accepted EXCEPT ![t] = [user |-> key[t].user, at |-> now]]
    /\ UNCHANGED <<now, saved, grant, revoked, kept>>

\* Validate finds the key of a token and answers with its user.  A missing
\* key or a Redis error refuses the request and changes nothing.
Validate(t) ==
    /\ key[t] # None
    /\ accepted' = [accepted EXCEPT ![t] = [user |-> key[t].user, at |-> now]]
    /\ UNCHANGED <<now, key, saved, grant, revoked, kept>>

-----------------------------------------------------------------------------
(* Redis and time.                                                         *)

\* The snapshot has the deletions made before it, and no later one.
RedisSave ==
    /\ saved' = key
    /\ kept' = revoked
    /\ UNCHANGED <<now, key, grant, revoked, accepted>>

RedisRestart ==
    /\ key' = saved
    /\ revoked' = kept
    /\ UNCHANGED <<now, saved, grant, kept, accepted>>

\* What is left of the keys of ks at time n.
Live(ks, n) ==
    [t \in Tokens |->
        IF ks[t] # None /\ ks[t].until <= n THEN None ELSE ks[t]]

Tick ==
    /\ now < MaxTime
    /\ now' = now + 1
    /\ key' = Live(key, now + 1)
    /\ saved' = Live(saved, now + 1)
    /\ UNCHANGED <<grant, revoked, kept, accepted>>

Next ==
    \/ \E t \in Tokens, u \in Users : Issue(t, u)
    \/ \E t \in Tokens : Revoke(t) \/ RevokeUnconfirmed(t) \/ Validate(t)
    \/ RedisSave
    \/ RedisRestart
    \/ Tick

Spec == Init /\ [][Next]_vars

-----------------------------------------------------------------------------
(* Properties.                                                             *)

\* The type invariant of the token store.
TypeOK ==
    /\ now \in Nat
    /\ key \in [Tokens -> Keys \cup {None}]
    /\ saved \in [Tokens -> Keys \cup {None}]
    /\ grant \in [Tokens -> Stamps \cup {None}]
    /\ revoked \subseteq Tokens
    /\ kept \subseteq Tokens
    /\ accepted \in [Tokens -> Stamps \cup {None}]

\* Whenever the proxy accepts a token, it takes it for the user it was issued
\* to, and within TokenTTL of the issue, whatever snapshots Redis came back
\* with in between (tokens.go:41, "ttl is the token lifetime").
AcceptedInLifetime ==
    \A t \in Tokens : accepted[t] # None =>
        /\ grant[t] # None
        /\ accepted[t].user = grant[t].user
        /\ grant[t].at <= accepted[t].at
        /\ accepted[t].at < grant[t].at + TokenTTL

\* What is left of tokens.go:83, "Revoke immediately invalidates a token":
\* after its revocation was confirmed a token is not accepted, unless Redis
\* has since come back from a snapshot that is older than the revocation.
RevokedStaysOut ==
    [][\A t \in Tokens : Validate(t) => t \notin revoked]_vars
=============================================================================
