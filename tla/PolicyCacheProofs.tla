------------------------- MODULE PolicyCacheProofs --------------------------
(***************************************************************************)
(* The policy cache for any number of evaluations, any row contents, any   *)
(* TTLs and any write delay: its type invariant, the bound on the age of   *)
(* every decision, and what an invalidation is worth.                      *)
(***************************************************************************)
EXTENDS PolicyCacheHistory, TLAPS

\* An entry was read from the row late enough to explain its expiry, which
\* no restart can move.
Confirmed(e) ==
    e # NoEntry =>
        /\ lastTrue[e.content] # Never
        /\ now < e.expires
        /\ e.expires <= lastTrue[e.content] + TTL(e.content) + WriteDelay

\* A goroutine caches a content the row had when it was read, and is not
\* past its delay.
FillConfirmed(s) ==
    fill[s] # NoFill =>
        /\ fill[s].at \in Nat
        /\ fill[s].at <= lastTrue[fill[s].content]
        /\ now <= fill[s].at + WriteDelay

\* The age of the last decision is what its TTL and the delay allow.
AnswerConfirmed ==
    ~answer.failed =>
        /\ lastTrue[answer.content] # Never
        /\ answer.age <= TTL(answer.content) + WriteDelay

\* The inductive invariant.  PermitConfirmed and DefaultDenyBounded speak of
\* answers only, and an answer is as old as the entry it came from, the
\* entry as the snapshot or the goroutine it came from.
IInv ==
    /\ TypeOK
    /\ lastTrue[row] = now
    /\ \A c \in Contents : lastTrue[c] <= now
    /\ Confirmed(entry)
    /\ Confirmed(snapshot)
    /\ \A s \in Slots : FillConfirmed(s)
    /\ AnswerConfirmed

\* Every TTL is a positive number.
LEMMA TTLType ==
    ASSUME NEW c \in Contents
    PROVE  TTL(c) \in Nat \ {0}
  BY TimesAssumption DEF TTL

\* The history of a content only moves forward in a step.
Advances(c) ==
    /\ lastTrue[c] <= lastTrue'[c]
    /\ lastTrue[c] # Never => lastTrue'[c] # Never

\* The initial state satisfies the inductive invariant.
LEMMA InitIInv == Init => IInv
<1> SUFFICES ASSUME Init PROVE IInv
  OBVIOUS
<1>1. TypeOK
  BY DEF Init, TypeOK, Contents, Entries, Fills, Failed, Never
<1>2. lastTrue[row] = now /\ \A c \in Contents : lastTrue[c] <= now
  BY DEF Init, Contents, Never
<1>3. Confirmed(entry) /\ Confirmed(snapshot)
  BY DEF Init, Confirmed
<1>4. \A s \in Slots : FillConfirmed(s)
  BY DEF Init, FillConfirmed
<1>5. AnswerConfirmed
  BY DEF Init, AnswerConfirmed, Failed
<1>6. QED
  BY <1>1, <1>2, <1>3, <1>4, <1>5 DEF IInv

\* Every step preserves the inductive invariant.
LEMMA NextIInv == IInv /\ [Next]_vars => IInv'
<1> SUFFICES ASSUME IInv, [Next]_vars PROVE IInv'
  OBVIOUS
<1> USE TimesAssumption, RowsAssumption
<1>t. TypeOK
  BY DEF IInv
<1>1. ASSUME NEW s \in Slots, LookupHit(s) PROVE IInv'
  <2> USE <1>1 DEF LookupHit
  <2>1. entry \in [content : Contents, expires : Int]
    BY <1>t DEF TypeOK, Entries
  <2>2. TypeOK'
    BY <1>t, <2>1 DEF TypeOK, Answered, Never
  <2>3. AnswerConfirmed'
    BY <1>t, <2>1, TTLType DEF IInv, TypeOK, Confirmed, AnswerConfirmed,
       Answered
  <2>4. QED
    BY <2>2, <2>3 DEF IInv, Confirmed, FillConfirmed
<1>2. ASSUME NEW s \in Slots, LookupMiss(s) PROVE IInv'
  BY <1>2 DEF LookupMiss, IInv, TypeOK, Confirmed, FillConfirmed,
     AnswerConfirmed
<1>3. ASSUME NEW s \in Slots, Query(s) PROVE IInv'
  <2> USE <1>3 DEF Query
  <2>1. TypeOK'
    BY <1>t DEF TypeOK, Answered, Fills, Never
  <2>2. AnswerConfirmed'
    BY <1>t, TTLType DEF IInv, TypeOK, AnswerConfirmed, Answered, Never
  <2>3. ASSUME NEW q \in Slots PROVE FillConfirmed(q)'
    BY <1>t DEF IInv, TypeOK, FillConfirmed
  <2>4. QED
    BY <2>1, <2>2, <2>3 DEF IInv, Confirmed
<1>4. ASSUME NEW s \in Slots, QueryFails(s) PROVE IInv'
  BY <1>4 DEF QueryFails, Failed, IInv, TypeOK, Confirmed, FillConfirmed,
     AnswerConfirmed, Contents
<1>5. ASSUME NEW s \in Slots, CacheWrite(s) PROVE IInv'
  <2> USE <1>5 DEF CacheWrite
  <2>1. fill[s] \in [content : Contents, at : Int]
    BY <1>t DEF TypeOK, Fills
  <2>2. TTL(fill[s].content) \in Nat \ {0}
    BY <2>1, TTLType
  <2>3. TypeOK'
    BY <1>t, <2>1, <2>2 DEF TypeOK, Entries, Fills
  <2>4. Confirmed(entry)'
    BY <1>t, <2>1, <2>2 DEF IInv, TypeOK, Confirmed, FillConfirmed, TTL, Never
  <2>5. ASSUME NEW q \in Slots PROVE FillConfirmed(q)'
    BY <1>t DEF IInv, TypeOK, FillConfirmed
  <2>6. QED
    BY <2>3, <2>4, <2>5 DEF IInv, Confirmed, AnswerConfirmed
<1>6. ASSUME NEW s \in Slots, CacheWriteFails(s) PROVE IInv'
  BY <1>6 DEF CacheWriteFails, IInv, TypeOK, Fills, Confirmed, FillConfirmed,
     AnswerConfirmed
<1>7. ASSUME Administer PROVE IInv'
  <2>1. PICK r \in Contents :
          /\ row' = r
          /\ lastTrue' = [lastTrue EXCEPT ![r] = now]
          /\ UNCHANGED <<now, entry, snapshot, querying, fill, answer>>
    BY <1>7 DEF Administer, UpsertPolicy, DeletePolicy, Contents
  <2>2. TypeOK' /\ lastTrue'[row'] = now'
    BY <1>t, <2>1 DEF TypeOK
  <2>3. \A c \in Contents : Advances(c) /\ lastTrue'[c] <= now'
    BY <1>t, <2>1 DEF IInv, TypeOK, Advances, Never
  <2>4. Confirmed(entry)' /\ Confirmed(snapshot)'
    BY <1>t, <2>1, <2>3, TTLType DEF IInv, TypeOK, Entries, Confirmed,
       Advances, TTL
  <2>5. ASSUME NEW s \in Slots PROVE FillConfirmed(s)'
    BY <1>t, <2>1, <2>3 DEF IInv, TypeOK, Fills, FillConfirmed, Advances, Never
  <2>6. AnswerConfirmed'
    BY <1>t, <2>1, <2>3 DEF IInv, TypeOK, AnswerConfirmed, Advances, TTL
  <2>7. QED
    BY <2>2, <2>3, <2>4, <2>5, <2>6 DEF IInv
<1>8. ASSUME Tick PROVE IInv'
  <2> USE <1>8 DEF Tick
  <2>1. TypeOK' /\ lastTrue'[row'] = now'
    BY <1>t DEF TypeOK, Entries, Expire, Never
  <2>2. \A c \in Contents : Advances(c) /\ lastTrue'[c] <= now'
    BY <1>t DEF IInv, TypeOK, Advances, Never
  <2>3. Confirmed(entry)' /\ Confirmed(snapshot)'
    BY <1>t, <2>2, TTLType DEF IInv, TypeOK, Entries, Confirmed, Expire,
       Advances, TTL
  <2>4. ASSUME NEW s \in Slots PROVE FillConfirmed(s)'
    BY <1>t, <2>2 DEF IInv, TypeOK, Fills, FillConfirmed, Advances, Never
  <2>5. AnswerConfirmed'
    BY <1>t, <2>2 DEF IInv, TypeOK, AnswerConfirmed, Advances, TTL
  <2>6. QED
    BY <2>1, <2>2, <2>3, <2>4, <2>5 DEF IInv
<1>9. ASSUME InvalidatePolicy PROVE IInv'
  BY <1>9 DEF InvalidatePolicy, IInv, TypeOK, Entries, Confirmed,
     FillConfirmed, AnswerConfirmed
<1>10. ASSUME RedisSave PROVE IInv'
  BY <1>10 DEF RedisSave, IInv, TypeOK, Confirmed, FillConfirmed,
     AnswerConfirmed
<1>11. ASSUME RedisRestart PROVE IInv'
  BY <1>11 DEF RedisRestart, IInv, TypeOK, Confirmed, FillConfirmed,
     AnswerConfirmed
<1>12. CASE UNCHANGED vars
  BY <1>12 DEF vars, IInv, TypeOK, Confirmed, FillConfirmed, AnswerConfirmed
<1>13. QED
  BY <1>1, <1>2, <1>3, <1>4, <1>5, <1>6, <1>7, <1>8, <1>9, <1>10, <1>11,
     <1>12 DEF Next, Evaluate

\* The inductive invariant holds in every reachable state.
LEMMA Inductive == Spec => []IInv
  BY InitIInv, NextIInv, PTL DEF Spec

\* The variables keep their types, for every value of the constants.
THEOREM TypeCorrect == Spec => []TypeOK
<1>1. IInv => TypeOK
  BY DEF IInv
<1>2. QED
  BY <1>1, Inductive, PTL

\* No decision is allowed more than PolicyTTL + WriteDelay after the last
\* moment a permitting row stood in Postgres, for every value of the
\* constants.
THEOREM PermitBound == Spec => []PermitConfirmed
<1>1. IInv => PermitConfirmed
  BY RowsAssumption DEF IInv, AnswerConfirmed, PermitConfirmed, TTL
<1>2. QED
  BY <1>1, Inductive, PTL

\* No default deny is answered more than NoPolicyTTL + WriteDelay after the
\* last moment the triple had no row, for every value of the constants.
THEOREM DefaultDenyBound == Spec => []DefaultDenyBounded
<1>1. IInv => DefaultDenyBounded
  BY DEF IInv, AnswerConfirmed, DefaultDenyBounded, TTL
<1>2. QED
  BY <1>1, Inductive, PTL

-----------------------------------------------------------------------------
(* Invalidation.                                                           *)

\* With the history: what the cache holds was read from the row at most
\* WriteDelay before the last invalidation.  It is inductive together with
\* IInv, which bounds the age of what a goroutine may still write.
HInv ==
    /\ IInv
    /\ invalidated \in Nat \cup {Never}
    /\ invalidated <= now
    /\ InvalidationHolds

\* The history starts with no invalidation.
LEMMA InitHInv == HInit => HInv
  BY InitIInv DEF HInit, HInv, Init, InvalidationHolds, Never

\* A step that neither fills the entry nor takes a content's history back
\* keeps what the last invalidation is worth.
LEMMA EntryKeeps ==
    ASSUME HInv, IInv', now <= now', invalidated' = invalidated,
           entry' \in {entry, NoEntry},
           \A c \in Contents : lastTrue[c] <= lastTrue'[c]
    PROVE  HInv'
<1> USE TimesAssumption
<1>1. invalidated \in Int /\ now \in Nat /\ now' \in Nat
      /\ lastTrue \in [Contents -> Int] /\ lastTrue' \in [Contents -> Int]
      /\ entry \in Entries
  BY DEF HInv, IInv, TypeOK, Never
<1>2. InvalidationHolds'
  BY <1>1 DEF HInv, InvalidationHolds, Entries
<1>3. QED
  BY <1>1, <1>2 DEF HInv

\* Every step keeps what the last invalidation is worth.
LEMMA NextHInv == HInv /\ [HNext]_hvars => HInv'
<1> SUFFICES ASSUME HInv, [HNext]_hvars PROVE HInv'
  OBVIOUS
<1> USE TimesAssumption
<1>1. TypeOK /\ IInv'
  <2>1. [Next]_vars
    BY DEF HNext, hvars, Next
  <2>2. QED
    BY <2>1, NextIInv DEF HInv, IInv
<1>2. lastTrue \in [Contents -> Int] /\ now \in Nat
  BY <1>1 DEF TypeOK, Never
<1>3. CASE InvalidatePolicy /\ invalidated' = now
  BY <1>1, <1>2, <1>3 DEF InvalidatePolicy, HInv, InvalidationHolds
<1>4. CASE Administer /\ UNCHANGED invalidated
  <2>1. /\ now' = now /\ entry' = entry
        /\ \E c \in Contents : lastTrue' = [lastTrue EXCEPT ![c] = now]
    BY <1>4 DEF Administer, UpsertPolicy, DeletePolicy, Contents
  <2>2. \A c \in Contents : lastTrue[c] <= lastTrue'[c]
    BY <1>2, <2>1 DEF HInv, IInv
  <2>3. QED
    BY <1>1, <1>2, <1>4, <2>1, <2>2, EntryKeeps
<1>5. CASE RedisRestart /\ invalidated' = Never
  BY <1>1, <1>2, <1>5 DEF RedisRestart, HInv, InvalidationHolds, Never
<1>6. CASE Tick /\ UNCHANGED invalidated
  <2>1. /\ now' = now + 1
        /\ entry' \in {entry, NoEntry}
        /\ lastTrue' = [lastTrue EXCEPT ![row] = now + 1]
    BY <1>6 DEF Tick, Expire
  <2>2. \A c \in Contents : lastTrue[c] <= lastTrue'[c]
    BY <1>1, <1>2, <2>1 DEF HInv, IInv, TypeOK
  <2>3. QED
    BY <1>1, <1>2, <1>6, <2>1, <2>2, EntryKeeps
<1>7. ASSUME NEW s \in Slots, CacheWrite(s), UNCHANGED invalidated PROVE HInv'
  <2>1. /\ fill[s] # NoFill /\ entry'.content = fill[s].content
        /\ now' = now /\ lastTrue' = lastTrue
        /\ fill[s].content \in Contents /\ fill[s].at \in Int
    BY <1>1, <1>7 DEF CacheWrite, TypeOK, Fills
  <2>2. lastTrue[fill[s].content] >= now - WriteDelay
    BY <1>2, <2>1 DEF HInv, IInv, FillConfirmed
  <2>3. QED
    BY <1>1, <1>2, <1>7, <2>1, <2>2 DEF HInv, InvalidationHolds, Never
<1>8. CASE UNCHANGED <<now, entry, lastTrue, invalidated>>
  BY <1>1, <1>2, <1>8, EntryKeeps
<1>9. QED
  BY <1>3, <1>4, <1>5, <1>6, <1>7, <1>8
     DEF HNext, hvars, vars, Evaluate, LookupHit, LookupMiss, Query,
         QueryFails, CacheWriteFails, RedisSave

\* What the cache answers after an invalidation was the row at most
\* WriteDelay before it, for every value of the constants, unless Redis was
\* restarted from a snapshot since.
THEOREM InvalidationWorks == HSpec => []InvalidationHolds
<1>1. HInv => InvalidationHolds
  BY DEF HInv
<1>2. QED
  BY <1>1, InitHInv, NextHInv, PTL DEF HSpec

\* What PolicyCacheHistory adds only records: its behaviours are the engine's.
THEOREM HistoryOnly == HSpec => Spec
<1>1. HInit => Init
  BY DEF HInit
<1>2. [HNext]_hvars => [Next]_vars
  BY DEF HNext, Next, hvars
<1>3. QED
  BY <1>1, <1>2, PTL DEF HSpec, Spec

\* So the ages of decisions are bounded in them as well.
THEOREM HistoryBounds ==
    HSpec => [](TypeOK /\ PermitConfirmed /\ DefaultDenyBounded)
  BY HistoryOnly, TypeCorrect, PermitBound, DefaultDenyBound, PTL
=============================================================================
