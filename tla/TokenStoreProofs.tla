-------------------------- MODULE TokenStoreProofs --------------------------
(***************************************************************************)
(* Proofs about TokenStore, for any tokens, users, life time and clock.    *)
(***************************************************************************)
EXTENDS TokenStore, TLAPS

\* A table of keys agrees with what was issued: each key is that of an issued
\* token, of its user, and lives exactly as long as the token has left.
Faithful(ks) ==
    \A t \in Tokens : ks[t] # None =>
        /\ grant[t] # None
        /\ ks[t].user = grant[t].user
        /\ ks[t].until = grant[t].at + TokenTTL
        /\ now < ks[t].until

\* No token was issued in the future.
IssuedBefore == \A t \in Tokens : grant[t] # None => grant[t].at <= now

\* A revoked token has no key and, being issued already, will not get one;
\* the snapshot says the same of the revocations it has kept.
RevokedGone ==
    /\ \A t \in revoked : grant[t] # None /\ key[t] = None
    /\ \A t \in kept : grant[t] # None /\ saved[t] = None

\* The inductive invariant: AcceptedInLifetime needs that the key an
\* acceptance reads is faithful, and RevokedStaysOut that a revoked token has
\* none; either must hold of the snapshot too, which a restart brings back.
IInv ==
    /\ TypeOK
    /\ Faithful(key)
    /\ Faithful(saved)
    /\ IssuedBefore
    /\ RevokedGone
    /\ AcceptedInLifetime

\* Dropping the expired keys of a faithful table leaves one that is faithful
\* at the next tick of the clock.
LEMMA LiveFaithful ==
    ASSUME NEW ks \in [Tokens -> Keys \cup {None}], Faithful(ks), TypeOK,
           now' = now + 1, UNCHANGED grant
    PROVE  /\ Live(ks, now + 1) \in [Tokens -> Keys \cup {None}]
           /\ \A t \in Tokens : Live(ks, now + 1)[t] # None =>
                 /\ grant'[t] # None
                 /\ Live(ks, now + 1)[t].user = grant'[t].user
                 /\ Live(ks, now + 1)[t].until = grant'[t].at + TokenTTL
                 /\ now' < Live(ks, now + 1)[t].until
  BY TokenAssumption DEF Live, Faithful, TypeOK, Keys, Stamps

\* The initial state satisfies the inductive invariant.
LEMMA InitIInv == Init => IInv
  BY TokenAssumption
  DEF Init, IInv, TypeOK, Faithful, IssuedBefore, RevokedGone, AcceptedInLifetime

\* Every step preserves the inductive invariant.
LEMMA NextIInv == IInv /\ [Next]_vars => IInv'
<1> SUFFICES ASSUME IInv, [Next]_vars PROVE IInv'
  OBVIOUS
<1> USE TokenAssumption DEF IInv
<1>1. ASSUME NEW t \in Tokens, NEW u \in Users, Issue(t, u) PROVE IInv'
  <2>1. TypeOK'
    BY <1>1 DEF Issue, TypeOK, Keys, Stamps
  <2>2. Faithful(key)' /\ Faithful(saved)'
    BY <1>1 DEF Issue, TypeOK, Keys, Stamps, Faithful
  <2>3. IssuedBefore'
    BY <1>1 DEF Issue, TypeOK, Stamps, IssuedBefore
  <2>4. AcceptedInLifetime'
    BY <1>1 DEF Issue, TypeOK, Stamps, AcceptedInLifetime
  <2>5. RevokedGone'
    BY <1>1 DEF Issue, TypeOK, Stamps, RevokedGone
  <2> QED BY <2>1, <2>2, <2>3, <2>4, <2>5
<1>2. ASSUME NEW t \in Tokens, Revoke(t) \/ RevokeUnconfirmed(t) PROVE IInv'
  BY <1>2 DEF Revoke, RevokeUnconfirmed, TypeOK, Faithful, IssuedBefore,
              RevokedGone, AcceptedInLifetime
<1>3. ASSUME NEW t \in Tokens, Validate(t) PROVE IInv'
  <2>1. TypeOK'
    BY <1>3 DEF Validate, TypeOK, Keys, Stamps
  <2>2. Faithful(key)' /\ Faithful(saved)' /\ IssuedBefore' /\ RevokedGone'
    BY <1>3 DEF Validate, Faithful, IssuedBefore, RevokedGone
  <2>3. AcceptedInLifetime'
    BY <1>3 DEF Validate, TypeOK, Keys, Stamps, Faithful, IssuedBefore,
                AcceptedInLifetime
  <2> QED BY <2>1, <2>2, <2>3
<1>4. CASE RedisSave
  BY <1>4 DEF RedisSave, TypeOK, Faithful, IssuedBefore, RevokedGone,
              AcceptedInLifetime
<1>5. CASE RedisRestart
  BY <1>5 DEF RedisRestart, TypeOK, Faithful, IssuedBefore, RevokedGone,
              AcceptedInLifetime
<1>6. CASE Tick
  <2>1. Faithful(key)' /\ Faithful(saved)' /\ TypeOK'
    BY <1>6, LiveFaithful DEF Tick, TypeOK, Faithful
  <2>2. IssuedBefore' /\ AcceptedInLifetime'
    BY <1>6 DEF Tick, TypeOK, Stamps, IssuedBefore, AcceptedInLifetime
  <2>3. RevokedGone'
    BY <1>6 DEF Tick, Live, TypeOK, RevokedGone
  <2> QED BY <2>1, <2>2, <2>3
<1>7. CASE UNCHANGED vars
  BY <1>7 DEF vars, TypeOK, Faithful, IssuedBefore, RevokedGone,
              AcceptedInLifetime
<1> QED BY <1>1, <1>2, <1>3, <1>4, <1>5, <1>6, <1>7 DEF Next

\* The token store keeps its types.
THEOREM TypeCorrect == Spec => []TypeOK
  BY InitIInv, NextIInv, PTL DEF Spec, IInv

\* A token is only ever accepted as its own user's and within its life time,
\* across any number of saves and restarts of Redis.
THEOREM LifetimeKept == Spec => []AcceptedInLifetime
  BY InitIInv, NextIInv, PTL DEF Spec, IInv

\* A token whose revocation Redis has not forgotten is never accepted again.
THEOREM RevocationKept == Spec => RevokedStaysOut
<1>1. IInv /\ [Next]_vars
        => [\A t \in Tokens : Validate(t) => t \notin revoked]_vars
  BY DEF IInv, RevokedGone, Validate
<1> QED BY <1>1, InitIInv, NextIInv, PTL DEF Spec, RevokedStaysOut
=============================================================================
