------------------------- MODULE RateLimiterProofs --------------------------
(***************************************************************************)
(* The rate limiter for any number of concurrent calls, any limits, any    *)
(* window and any delay of the script: its type invariant, the bound on    *)
(* the calls admitted in a window, and the cause of every denial.          *)
(***************************************************************************)
EXTENDS RateLimiterHistory, FiniteSetTheorems, TLAPS

\* A sorted set outlives the window of its members, and holds no call from
\* the future.
KeySound(k) == \A s \in k.stamps : s <= now /\ s + Window <= k.expires

\* A call in flight was stamped within the delay.
FlightSound(c) ==
    flight[c] # NoCall =>
        /\ flight[c].stamp <= now
        /\ now <= flight[c].stamp + Delay

\* An admitted call is still recorded unless its window has passed: the key
\* is neither purged nor expired too early.
Recorded ==
    \A l \in Limits : \A s \in admitted[l] :
        s \in key.stamps \/ s + Window <= now

\* The window bound for windows that start anywhere.
Bound ==
    \A l \in Limits : l > 0 =>
        \A t \in Int :
            Cardinality(AdmittedUpTo(l) \cap ((t + 1) .. (t + Window - Delay)))
                <= l

\* The inductive invariant.  Recorded is what makes the count of a script
\* an upper bound on the calls admitted in the window of its call.
IInv ==
    /\ TypeOK
    /\ KeySound(key)
    /\ KeySound(saved)
    /\ \A c \in Calls : FlightSound(c)
    /\ Recorded
    /\ Bound

\* A sorted set with no member from the future is finite.
LEMMA KeyFinite ==
    ASSUME NEW k \in Keys, NEW t \in Nat, \A s \in k.stamps : s <= t
    PROVE  IsFiniteSet(k.stamps)
<1>1. k.stamps \in SUBSET (0 .. t)
  BY DEF Keys
<1>2. IsFiniteSet(0 .. t)
  BY FS_Interval
<1>3. QED
  BY <1>1, <1>2, FS_Subset

\* The initial state satisfies the inductive invariant.
LEMMA InitIInv == Init => IInv
<1> SUFFICES ASSUME Init PROVE IInv
  OBVIOUS
<1> USE LimiterAssumption DEF Init
<1>1. TypeOK
  BY DEF TypeOK, Keys, NoKey
<1>2. KeySound(key) /\ KeySound(saved)
  BY DEF KeySound, NoKey
<1>3. \A c \in Calls : FlightSound(c)
  BY DEF FlightSound
<1>4. Recorded
  BY DEF Recorded
<1>5. Bound
  <2> SUFFICES ASSUME NEW l \in Limits, l > 0, NEW t \in Int
               PROVE  Cardinality(AdmittedUpTo(l)
                          \cap ((t + 1) .. (t + Window - Delay))) <= l
    BY DEF Bound
  <2>1. AdmittedUpTo(l) = {}
    BY DEF AdmittedUpTo
  <2>2. QED
    BY <2>1, FS_EmptySet
<1>6. QED
  BY <1>1, <1>2, <1>3, <1>4, <1>5 DEF IInv

\* The run of a script: what it does to the set of the pair.
LEMMA ScriptStep ==
    ASSUME IInv, NEW t \in Nat, t <= now, now <= t + Delay, RunScript(t),
           now' = now, saved' = saved
    PROVE  /\ key' \in Keys
           /\ KeySound(key)'
           /\ KeySound(saved)'
           /\ t \in key'.stamps
           /\ \A s \in key.stamps : s \in key'.stamps \/ s + Window <= now
           /\ IsFiniteSet(key'.stamps)
<1> USE LimiterAssumption DEF IInv, TypeOK, RunScript, AfterScript
<1>1. key' \in Keys
  BY DEF Keys
<1>2. KeySound(key)'
  BY DEF KeySound, Keys
<1>3. KeySound(saved)'
  BY DEF KeySound
<1>4. t \in key'.stamps
  OBVIOUS
<1>5. \A s \in key.stamps : s \in key'.stamps \/ s + Window <= now
  BY DEF Keys
<1>6. IsFiniteSet(key'.stamps)
  BY <1>1, <1>2, KeyFinite DEF KeySound
<1>7. QED
  BY <1>1, <1>2, <1>3, <1>4, <1>5, <1>6

\* Every step preserves the inductive invariant.
LEMMA NextIInv == IInv /\ [Next]_vars => IInv'
<1> SUFFICES ASSUME IInv, [Next]_vars PROVE IInv'
  OBVIOUS
<1> USE LimiterAssumption
<1>t. TypeOK
  BY DEF IInv
<1>f. ASSUME NEW c \in Calls, flight[c] # NoCall
      PROVE  /\ flight[c] \in [stamp : Nat, limit : Limits]
             /\ flight[c].stamp <= now
             /\ now <= flight[c].stamp + Delay
  BY <1>f, <1>t DEF IInv, TypeOK, FlightSound
<1>1. ASSUME NEW c \in Calls, NEW l \in Limits, Begin(c, l) PROVE IInv'
  <2> USE <1>1 DEF Begin
  <2>1. TypeOK'
    BY <1>t DEF TypeOK
  <2>2. \A d \in Calls : FlightSound(d)'
    BY <1>t DEF IInv, TypeOK, FlightSound
  <2>3. QED
    BY <2>1, <2>2 DEF IInv, KeySound, Recorded, Bound, AdmittedUpTo
<1>2. ASSUME NEW c \in Calls, Admit(c) PROVE IInv'
  <2> DEFINE x == flight[c].stamp
  <2> DEFINE m == flight[c].limit
  <2> USE <1>2 DEF Admit
  <2>1. x \in Nat /\ m \in Limits /\ m \in Int /\ x <= now /\ now <= x + Delay
    BY <1>f
  <2>2. /\ key' \in Keys
        /\ KeySound(key)'
        /\ KeySound(saved)'
        /\ x \in key'.stamps
        /\ \A s \in key.stamps : s \in key'.stamps \/ s + Window <= now
        /\ IsFiniteSet(key'.stamps)
    BY <2>1, ScriptStep
  <2>3. \A l \in Limits :
          admitted'[l] = IF l = m THEN admitted[l] \cup {x} ELSE admitted[l]
    BY <1>t, <2>1 DEF TypeOK
  <2>4. TypeOK'
    BY <1>t, <2>1, <2>2 DEF TypeOK
  <2>5. \A d \in Calls : FlightSound(d)'
    BY <1>t DEF IInv, TypeOK, FlightSound
  <2>6. Recorded'
    BY <1>t, <2>1, <2>2, <2>3 DEF IInv, TypeOK, Recorded
  <2>7. Bound'
    <3> SUFFICES ASSUME NEW l \in Limits, l > 0, NEW t \in Int
                 PROVE  Cardinality(AdmittedUpTo(l)'
                            \cap ((t + 1) .. (t + Window - Delay))) <= l
      BY DEF Bound
    <3> DEFINE W == (t + 1) .. (t + Window - Delay)
    <3>1. Cardinality(AdmittedUpTo(l) \cap W) <= l
      BY DEF IInv, Bound
    <3>2. CASE m > l
      <4>1. AdmittedUpTo(l)' = AdmittedUpTo(l)
        BY <2>1, <2>3, <3>2 DEF AdmittedUpTo
      <4>2. QED
        BY <3>1, <4>1
    <3>3. CASE m <= l /\ x \notin W
      <4>1. AdmittedUpTo(l)' \cap W = AdmittedUpTo(l) \cap W
        BY <2>1, <2>3, <3>3 DEF AdmittedUpTo
      <4>2. QED
        BY <3>1, <4>1
    <3>4. CASE m <= l /\ x \in W
      <4>1. now < t + 1 + Window
        BY <1>t, <2>1, <3>4 DEF TypeOK
      <4>2. ASSUME NEW s \in AdmittedUpTo(l)' \cap W
            PROVE  s \in key'.stamps
        <5>1. PICK k \in Limits : s \in admitted'[k]
          BY <4>2 DEF AdmittedUpTo
        <5>2. s \in W /\ s \in Int /\ s > t
          BY <4>2
        <5>3. s \in key'.stamps \/ s + Window <= now
          BY <2>6, <5>1 DEF Recorded
        <5>4. QED
          BY <1>t, <4>1, <5>2, <5>3 DEF TypeOK
      <4>3. Cardinality(AdmittedUpTo(l)' \cap W) <= Cardinality(key'.stamps)
        BY <2>2, <4>2, FS_Subset
      <4>4. /\ Cardinality(AdmittedUpTo(l)' \cap W) \in Nat
            /\ Cardinality(key'.stamps) \in Nat
        BY <2>2, <4>2, FS_Subset, FS_CardinalityType
      <4>5. Cardinality(key'.stamps) <= m /\ m <= l /\ m \in Int /\ l \in Int
        BY <2>1, <3>4
      <4> HIDE DEF m
      <4>6. QED
        BY <4>3, <4>4, <4>5
    <3>5. m > l \/ m <= l
      BY <2>1
    <3>6. QED
      BY <3>2, <3>3, <3>4, <3>5
  <2>8. QED
    BY <2>2, <2>4, <2>5, <2>6, <2>7 DEF IInv, KeySound
<1>3. ASSUME NEW c \in Calls, Deny(c) \/ LoseReply(c) PROVE IInv'
  <2> DEFINE x == flight[c].stamp
  <2>1. /\ flight[c] # NoCall
        /\ RunScript(x)
        /\ now' = now /\ saved' = saved /\ lastStamp' = lastStamp
        /\ admitted' = admitted
        /\ flight' = flight \/ flight' = [flight EXCEPT ![c] = NoCall]
    BY <1>3 DEF Deny, LoseReply
  <2>2. x \in Nat /\ x <= now /\ now <= x + Delay
    BY <1>f, <2>1
  <2>3. /\ key' \in Keys
        /\ KeySound(key)'
        /\ KeySound(saved)'
        /\ \A s \in key.stamps : s \in key'.stamps \/ s + Window <= now
    BY <2>1, <2>2, ScriptStep
  <2>4. TypeOK'
    BY <1>t, <2>1, <2>3 DEF TypeOK
  <2>5. \A d \in Calls : FlightSound(d)'
    BY <1>t, <2>1 DEF IInv, TypeOK, FlightSound
  <2>6. Recorded'
    BY <2>1, <2>3 DEF IInv, Recorded
  <2>7. Bound'
    BY <2>1 DEF IInv, Bound, AdmittedUpTo
  <2>8. QED
    BY <2>3, <2>4, <2>5, <2>6, <2>7 DEF IInv, KeySound
<1>4. ASSUME NEW c \in Calls, Fail(c) PROVE IInv'
  <2> USE <1>4 DEF Fail
  <2>1. TypeOK'
    BY <1>t DEF TypeOK
  <2>2. \A d \in Calls : FlightSound(d)'
    BY <1>t DEF IInv, TypeOK, FlightSound
  <2>3. QED
    BY <2>1, <2>2 DEF IInv, KeySound, Recorded, Bound, AdmittedUpTo
<1>5. ASSUME RedisSave PROVE IInv'
  BY <1>5 DEF RedisSave, IInv, TypeOK, KeySound, FlightSound, Recorded, Bound,
     AdmittedUpTo
<1>6. ASSUME RedisRestart PROVE IInv'
  <2> USE <1>6 DEF RedisRestart
  <2>1. TypeOK'
    BY <1>t DEF TypeOK
  <2>2. Recorded'
    BY DEF Recorded
  <2>3. Bound'
    <3> SUFFICES ASSUME NEW l \in Limits, l > 0, NEW t \in Int
                 PROVE  Cardinality(AdmittedUpTo(l)'
                            \cap ((t + 1) .. (t + Window - Delay))) <= l
      BY DEF Bound
    <3>1. AdmittedUpTo(l)' = {}
      BY DEF AdmittedUpTo
    <3>2. QED
      BY <3>1, FS_EmptySet
  <2>4. QED
    BY <2>1, <2>2, <2>3 DEF IInv, KeySound, FlightSound
<1>7. ASSUME Tick PROVE IInv'
  <2> USE <1>7 DEF Tick
  <2>1. TypeOK'
    BY <1>t DEF TypeOK, Expire, Keys, NoKey
  <2>2. KeySound(key)' /\ KeySound(saved)'
    BY <1>t DEF IInv, TypeOK, Keys, KeySound, Expire, NoKey
  <2>3. \A c \in Calls : FlightSound(c)'
    BY <1>f, <1>t DEF TypeOK, FlightSound
  <2>4. Recorded'
    BY <1>t DEF IInv, TypeOK, Keys, KeySound, Recorded, Expire, NoKey
  <2>5. Bound'
    BY DEF IInv, Bound, AdmittedUpTo
  <2>6. QED
    BY <2>1, <2>2, <2>3, <2>4, <2>5 DEF IInv
<1>8. CASE UNCHANGED vars
  BY <1>8 DEF vars, IInv, TypeOK, KeySound, FlightSound, Recorded, Bound,
     AdmittedUpTo
<1>9. QED
  BY <1>1, <1>2, <1>3, <1>4, <1>5, <1>6, <1>7, <1>8 DEF Next, Allow

\* The inductive invariant holds in every reachable state.
LEMMA Inductive == Spec => []IInv
  BY InitIInv, NextIInv, PTL DEF Spec

\* The variables keep their types, for every value of the constants.
THEOREM TypeCorrect == Spec => []TypeOK
<1>1. IInv => TypeOK
  BY DEF IInv
<1>2. QED
  BY <1>1, Inductive, PTL

\* In any Window - Delay, tools limited to l or less have at most l calls
\* admitted, whatever the order in which their scripts run, for every value
\* of the constants.
THEOREM WindowBounded == Spec => []WindowBound
<1>1. IInv => WindowBound
  BY LimiterAssumption DEF IInv, Bound, WindowBound
<1>2. QED
  BY <1>1, Inductive, PTL

-----------------------------------------------------------------------------
(* Denials.                                                                *)

\* Every member of the set, and of the snapshot it may come back from, is a
\* call that was really made, of the past.
HInv ==
    /\ IInv
    /\ recorded \subseteq 0 .. now
    /\ key.stamps \subseteq recorded
    /\ saved.stamps \subseteq recorded

\* At the start there is no call.
LEMMA InitHInv == HInit => HInv
  BY InitIInv DEF HInit, HInv, Init, NoKey

\* Every step keeps the members calls that were made.
LEMMA NextHInv == HInv /\ [HNext]_hvars => HInv'
<1> SUFFICES ASSUME HInv, [HNext]_hvars PROVE HInv'
  OBVIOUS
<1>1. TypeOK /\ IInv'
  <2>1. [Next]_vars
    BY DEF HNext, HAllow, hvars, Next, Allow
  <2>2. QED
    BY <2>1, NextIInv DEF HInv, IInv
<1>2. now \in Nat /\ NoKey.stamps = {}
  BY <1>1 DEF TypeOK, NoKey
<1>3. ASSUME NEW c \in Calls, Admit(c) \/ Deny(c) \/ LoseReply(c),
             recorded' = recorded \cup {flight[c].stamp}
      PROVE  HInv'
  <2>1. /\ flight[c] # NoCall /\ RunScript(flight[c].stamp)
        /\ now' = now /\ saved' = saved
    BY <1>3 DEF Admit, Deny, LoseReply
  <2>2. flight[c].stamp \in 0 .. now
    BY <1>1, <2>1 DEF HInv, IInv, FlightSound, TypeOK
  <2>3. key'.stamps \subseteq key.stamps \cup {flight[c].stamp}
    BY <2>1 DEF RunScript, AfterScript
  <2>4. QED
    BY <1>1, <1>3, <2>1, <2>2, <2>3 DEF HInv
<1>4. CASE Tick /\ UNCHANGED recorded
  <2>1. /\ now' = now + 1
        /\ key' \in {key, NoKey} /\ saved' \in {saved, NoKey}
    BY <1>4 DEF Tick, Expire
  <2>2. QED
    BY <1>1, <1>2, <1>4, <2>1 DEF HInv
<1>5. CASE UNCHANGED <<now, recorded>> /\ key' \in {key, saved} /\ saved' \in {key, saved}
  BY <1>1, <1>5 DEF HInv
<1>6. QED
  BY <1>3, <1>4, <1>5 DEF HNext, HAllow, hvars, vars, Fail, Begin, RedisSave,
     RedisRestart

\* A denial by count has its cause in calls that were made.
LEMMA CauseOfDenial ==
    ASSUME HInv, HInv', NEW c \in Calls, Deny(c)
    PROVE  Cardinality(InWindow(recorded', flight[c].stamp)) > flight[c].limit
<1> DEFINE x == flight[c].stamp
           cause == InWindow(recorded', x)
<1> USE LimiterAssumption
<1>1. /\ flight[c] # NoCall /\ flight[c] \in [stamp : Nat, limit : Limits]
      /\ key'.stamps = AfterScript(x)
      /\ Cardinality(key'.stamps) > flight[c].limit
  BY DEF Deny, RunScript, HInv, IInv, TypeOK
<1>2. x \in Nat /\ flight[c].limit \in Int /\ key.stamps \subseteq Nat
  BY <1>1 DEF HInv, IInv, TypeOK, Keys
<1>3. key'.stamps \subseteq cause
  BY <1>1, <1>2 DEF HInv, AfterScript, InWindow
<1>4. IsFiniteSet(cause)
  <2>1. now' \in Nat
    BY DEF HInv, IInv, TypeOK
  <2>2. IsFiniteSet(0 .. now')
    BY <2>1, FS_Interval
  <2>3. cause \subseteq 0 .. now'
    BY DEF HInv, InWindow
  <2>4. QED
    BY <2>2, <2>3, FS_Subset
<1>5. /\ Cardinality(key'.stamps) <= Cardinality(cause)
      /\ Cardinality(key'.stamps) \in Nat /\ Cardinality(cause) \in Nat
  BY <1>3, <1>4, FS_Subset, FS_CardinalityType
<1> HIDE DEF cause
<1>6. Cardinality(cause) > flight[c].limit
  BY <1>1, <1>2, <1>5
<1>7. QED
  BY <1>6 DEF cause

\* No expired member, of the set or of a restored snapshot, ever denies a
\* call: a call is denied by its count only when more than its limit of
\* calls were made in its window, for every value of the constants.
THEOREM DenialsHaveCause == HSpec => DeniedForCause
<1>1. HInv /\ HInv' => \A c \in Calls :
          Deny(c) => Cardinality(InWindow(recorded', flight[c].stamp))
                        > flight[c].limit
  BY CauseOfDenial
<1>2. QED
  BY <1>1, InitHInv, NextHInv, PTL DEF HSpec, DeniedForCause

\* What RateLimiterHistory adds only records: its behaviours are the limiter's.
THEOREM HistoryOnly == HSpec => Spec
<1>1. HInit => Init
  BY DEF HInit
<1>2. [HNext]_hvars => [Next]_vars
  BY DEF HNext, HAllow, Next, Allow, hvars
<1>3. QED
  BY <1>1, <1>2, PTL DEF HSpec, Spec

\* So the quota holds in them as well.
THEOREM HistoryQuota == HSpec => [](TypeOK /\ WindowBound)
  BY HistoryOnly, TypeCorrect, WindowBounded, PTL
=============================================================================
