------------------------ MODULE AuditPipelineProofs -------------------------
(***************************************************************************)
(* The audit pipeline for any events and any interruptions: the publisher  *)
(* conserves what it accepts and flushes its buffer before Close returns,  *)
(* main closes it when no handler can publish any more, the queue, once a  *)
(* worker has declared it, misses no event, and what main leaves behind    *)
(* when it returns is in the table or on its way there.                    *)
(***************************************************************************)
EXTENDS AuditPipeline, FiniteSetTheorems, TLAPS

(***************************************************************************)
(* The publisher.                                                          *)
(***************************************************************************)

(* Sequences that grow at their end and lose an element.                   *)

\* What a concatenation is made of.
LEMMA ConcatParts ==
    ASSUME NEW S, NEW s \in Seq(S), NEW t \in Seq(S)
    PROVE  /\ s \o t \in Seq(S)
           /\ Len(s) \in Nat /\ Len(t) \in Nat
           /\ DOMAIN s = 1 .. Len(s)
           /\ DOMAIN t = 1 .. Len(t)
           /\ DOMAIN (s \o t) = 1 .. (Len(s) + Len(t))
           /\ \A i \in 1 .. Len(s) : (s \o t)[i] = s[i]
           /\ \A i \in 1 .. Len(t) : (s \o t)[Len(s) + i] = t[i]
           /\ \A i \in DOMAIN (s \o t) :
                 i \in 1 .. Len(s) \/ i - Len(s) \in 1 .. Len(t)
  OBVIOUS

\* A concatenation has the elements of both parts.
LEMMA ConcatElements ==
    ASSUME NEW S, NEW s \in Seq(S), NEW t \in Seq(S)
    PROVE  Elements(s \o t) = Elements(s) \cup Elements(t)
<1> DEFINE u == s \o t
           n == Len(s)
<1>1. /\ n \in Nat /\ Len(t) \in Nat
      /\ DOMAIN s = 1 .. n /\ DOMAIN t = 1 .. Len(t)
      /\ DOMAIN u = 1 .. (n + Len(t))
      /\ \A i \in 1 .. n : u[i] = s[i]
      /\ \A i \in 1 .. Len(t) : u[n + i] = t[i]
  BY ConcatParts
<1> HIDE DEF u, n
<1>2. ASSUME NEW i \in DOMAIN u PROVE u[i] \in Elements(s) \cup Elements(t)
  <2>1. CASE i <= n
    BY <1>1, <2>1 DEF Elements
  <2>2. CASE i > n
    <3>1. i - n \in 1 .. Len(t) /\ u[n + (i - n)] = t[i - n] /\ n + (i - n) = i
      BY <1>1, <2>2
    <3>2. QED
      BY <1>1, <3>1 DEF Elements
  <2>3. QED
    BY <1>1, <2>1, <2>2
<1>3. ASSUME NEW i \in DOMAIN s PROVE s[i] \in Elements(u)
  <2>1. i \in DOMAIN u /\ u[i] = s[i]
    BY <1>1
  <2>2. QED
    BY <2>1 DEF Elements
<1>4. ASSUME NEW i \in DOMAIN t PROVE t[i] \in Elements(u)
  <2>1. n + i \in DOMAIN u /\ u[n + i] = t[i]
    BY <1>1
  <2>2. QED
    BY <2>1 DEF Elements
<1>5. Elements(u) = Elements(s) \cup Elements(t)
  BY <1>2, <1>3, <1>4 DEF Elements
<1>6. QED
  BY <1>5 DEF u

\* One element precedes another in a concatenation where it does in a part,
\* or where the first part has the one and the second the other.
LEMMA ConcatBefore ==
    ASSUME NEW S, NEW s \in Seq(S), NEW t \in Seq(S), NEW x, NEW y
    PROVE  Before(s \o t, x, y) <=>
              \/ Before(s, x, y)
              \/ Before(t, x, y)
              \/ x \in Elements(s) /\ y \in Elements(t)
<1> DEFINE u == s \o t
           n == Len(s)
<1>1. /\ n \in Nat /\ Len(t) \in Nat
      /\ DOMAIN s = 1 .. n /\ DOMAIN t = 1 .. Len(t)
      /\ DOMAIN u = 1 .. (n + Len(t))
      /\ \A i \in 1 .. n : u[i] = s[i]
      /\ \A i \in 1 .. Len(t) : u[n + i] = t[i]
  BY ConcatParts
<1> HIDE DEF u, n
<1>2. \A i \in DOMAIN u : i > n =>
         i - n \in DOMAIN t /\ u[i] = t[i - n]
  <2>1. ASSUME NEW i \in DOMAIN u, i > n
        PROVE  i - n \in DOMAIN t /\ u[i] = t[i - n]
    <3>1. i - n \in 1 .. Len(t) /\ u[n + (i - n)] = t[i - n] /\ n + (i - n) = i
      BY <1>1, <2>1
    <3>2. QED
      BY <1>1, <3>1
  <2>2. QED
    BY <2>1
<1>3. ASSUME Before(u, x, y)
      PROVE  \/ Before(s, x, y) \/ Before(t, x, y)
             \/ x \in Elements(s) /\ y \in Elements(t)
  <2>1. PICK i, j \in DOMAIN u : i < j /\ u[i] = x /\ u[j] = y
    BY <1>3 DEF Before
  <2>2. CASE j <= n
    <3>1. i \in DOMAIN s /\ j \in DOMAIN s /\ s[i] = x /\ s[j] = y
      BY <1>1, <2>1, <2>2
    <3>2. QED
      BY <2>1, <3>1 DEF Before
  <2>3. CASE i > n
    <3>1. /\ i - n \in DOMAIN t /\ j - n \in DOMAIN t /\ i - n < j - n
          /\ t[i - n] = x /\ t[j - n] = y
      BY <1>1, <1>2, <2>1, <2>3
    <3>2. QED
      BY <3>1 DEF Before
  <2>4. CASE i <= n /\ j > n
    <3>1. i \in DOMAIN s /\ s[i] = x /\ j - n \in DOMAIN t /\ t[j - n] = y
      BY <1>1, <1>2, <2>1, <2>4
    <3>2. QED
      BY <3>1 DEF Elements
  <2>5. QED
    BY <1>1, <2>1, <2>2, <2>3, <2>4
<1>4. ASSUME Before(s, x, y) PROVE Before(u, x, y)
  <2>1. PICK i, j \in DOMAIN s : i < j /\ s[i] = x /\ s[j] = y
    BY <1>4 DEF Before
  <2>2. i \in DOMAIN u /\ j \in DOMAIN u /\ u[i] = x /\ u[j] = y
    BY <1>1, <2>1
  <2>3. QED
    BY <2>1, <2>2 DEF Before
<1>5. ASSUME Before(t, x, y) PROVE Before(u, x, y)
  <2>1. PICK i, j \in DOMAIN t : i < j /\ t[i] = x /\ t[j] = y
    BY <1>5 DEF Before
  <2>2. /\ n + i \in DOMAIN u /\ n + j \in DOMAIN u /\ n + i < n + j
        /\ u[n + i] = x /\ u[n + j] = y
    BY <1>1, <2>1
  <2>3. QED
    BY <2>2 DEF Before
<1>6. ASSUME x \in Elements(s), y \in Elements(t) PROVE Before(u, x, y)
  <2>1. PICK i \in DOMAIN s, j \in DOMAIN t : s[i] = x /\ t[j] = y
    BY <1>6 DEF Elements
  <2>2. /\ i \in DOMAIN u /\ n + j \in DOMAIN u /\ i < n + j
        /\ u[i] = x /\ u[n + j] = y
    BY <1>1, <2>1
  <2>3. QED
    BY <2>2 DEF Before
<1>7. QED
  BY <1>3, <1>4, <1>5, <1>6 DEF u

\* A sequence of one element has that element, and none before another.
LEMMA Singleton ==
    ASSUME NEW S, NEW x \in S
    PROVE  /\ <<x>> \in Seq(S)
           /\ Elements(<<x>>) = {x}
           /\ \A y, z : ~Before(<<x>>, y, z)
<1>1. DOMAIN <<x>> = 1 .. 1 /\ 1 .. 1 = {1}
  OBVIOUS
<1>2. <<x>>[1] = x
  OBVIOUS
<1>3. <<x>> \in Seq(S)
  <2>1. <<x>> = Append(<<>>, x) /\ <<>> \in Seq(S)
    OBVIOUS
  <2>2. QED
    BY <2>1
<1>4. Elements(<<x>>) = {x}
  BY <1>1, <1>2 DEF Elements
<1>5. \A y, z : ~Before(<<x>>, y, z)
  <2>1. \A i, j \in DOMAIN <<x>> : ~(i < j)
    BY <1>1
  <2>2. QED
    BY <2>1 DEF Before
<1>6. QED
  BY <1>3, <1>4, <1>5

\* The empty sequence has no element.
LEMMA Nothing == 
    /\ \A S : <<>> \in Seq(S)
    /\ Elements(<<>>) = {}
    /\ \A y, z : ~Before(<<>>, y, z)
  BY DEF Elements, Before

\* Appending is concatenating one element; a sequence that is not empty is
\* its head and then its tail.
LEMMA Ends ==
    ASSUME NEW S, NEW s \in Seq(S)
    PROVE  /\ \A x \in S : Append(s, x) = s \o <<x>>
           /\ s # <<>> => /\ Head(s) \in S /\ Tail(s) \in Seq(S)
                          /\ s = <<Head(s)>> \o Tail(s)
<1>1. ASSUME NEW x \in S PROVE Append(s, x) = s \o <<x>>
  OBVIOUS
<1>2. ASSUME s # <<>>
      PROVE  /\ Head(s) \in S /\ Tail(s) \in Seq(S)
             /\ s = <<Head(s)>> \o Tail(s)
  <2>1. Head(s) \in S /\ Tail(s) \in Seq(S)
    BY <1>2
  <2>2. s = <<Head(s)>> \o Tail(s)
    BY <1>2
  <2>3. QED
    BY <2>1, <2>2
<1>3. QED
  BY <1>1, <1>2

-----------------------------------------------------------------------------
(* What Publish accepts.                                                   *)

Hand(h) == IF h = NoEvent THEN {} ELSE {h}

InHand == Hand(holding)

OnWay(w, h, q) == w \o (IF h = NoEvent THEN <<>> ELSE <<h>>) \o q

\* What is on its way and its order, by the places it is in: the wire w, the
\* hand h and the buffer q.
LEMMA WayParts ==
    ASSUME NEW w \in Seq(Events), NEW q \in Seq(Events),
           NEW h \in Events \cup {NoEvent}
    PROVE  /\ Elements(OnWay(w, h, q)) = Elements(w) \cup Hand(h) \cup Elements(q)
           /\ \A x, y : Before(OnWay(w, h, q), x, y) <=>
                 \/ Before(w, x, y)
                 \/ Before(q, x, y)
                 \/ x \in Elements(w) /\ y \in Hand(h)
                 \/ x \in Elements(w) \cup Hand(h) /\ y \in Elements(q)
<1> DEFINE hand == IF h = NoEvent THEN <<>> ELSE <<h>>
           sent == w \o hand
<1>1. /\ hand \in Seq(Events)
      /\ Elements(hand) = Hand(h)
      /\ \A x, y : ~Before(hand, x, y)
  <2>1. CASE h = NoEvent
    BY <2>1, Nothing DEF Hand
  <2>2. CASE h # NoEvent
    <3>1. h \in Events
      BY <2>2
    <3>2. /\ <<h>> \in Seq(Events)
          /\ Elements(<<h>>) = {h}
          /\ \A y, z : ~Before(<<h>>, y, z)
      BY <3>1, Singleton
    <3>3. QED
      BY <2>2, <3>2 DEF Hand
  <2>3. QED
    BY <2>1, <2>2
<1>2. OnWay(w, h, q) = sent \o q
  BY DEF OnWay
<1> HIDE DEF hand
<1>3. sent \in Seq(Events)
  BY <1>1, ConcatParts
<1>4. /\ Elements(sent) = Elements(w) \cup Hand(h)
      /\ \A x, y : Before(sent, x, y) <=>
            \/ Before(w, x, y)
            \/ x \in Elements(w) /\ y \in Hand(h)
  BY <1>1, ConcatElements, ConcatBefore
<1> HIDE DEF sent
<1>5. /\ Elements(sent \o q) = Elements(sent) \cup Elements(q)
      /\ \A x, y : Before(sent \o q, x, y) <=>
            \/ Before(sent, x, y) \/ Before(q, x, y)
            \/ x \in Elements(sent) /\ y \in Elements(q)
  BY <1>3, ConcatElements, ConcatBefore
<1>6. QED
  BY <1>2, <1>4, <1>5

\* What is on its way in a state, and in the state after it.
OnwardParts ==
    /\ Elements(Onward) = Elements(wire) \cup InHand \cup Elements(queue)
    /\ \A x, y : Before(Onward, x, y) <=>
          \/ Before(wire, x, y)
          \/ Before(queue, x, y)
          \/ x \in Elements(wire) /\ y \in InHand
          \/ x \in Elements(wire) \cup InHand /\ y \in Elements(queue)

\* So it is before a step.
LEMMA PartsNow ==
    ASSUME wire \in Seq(Events), queue \in Seq(Events),
           holding \in Events \cup {NoEvent}
    PROVE  OnwardParts
<1> DEFINE on == Onward
           w == wire
           q == queue
           h == holding
<1>1. /\ on = OnWay(w, h, q)
      /\ w \in Seq(Events) /\ q \in Seq(Events) /\ h \in Events \cup {NoEvent}
  BY DEF Onward, OnWay
<1> HIDE DEF on, w, q, h
<1>2. /\ Elements(on) = Elements(w) \cup Hand(h) \cup Elements(q)
      /\ \A x, y : Before(on, x, y) <=>
            \/ Before(w, x, y)
            \/ Before(q, x, y)
            \/ x \in Elements(w) /\ y \in Hand(h)
            \/ x \in Elements(w) \cup Hand(h) /\ y \in Elements(q)
  BY <1>1, WayParts
<1>3. QED
  BY <1>2 DEF OnwardParts, InHand, on, w, q, h

\* So it is after a step.
LEMMA PartsNext ==
    ASSUME wire' \in Seq(Events), queue' \in Seq(Events),
           holding' \in Events \cup {NoEvent}
    PROVE  OnwardParts'
<1> DEFINE on == Onward'
           w == wire'
           q == queue'
           h == holding'
<1>1. /\ on = OnWay(w, h, q)
      /\ w \in Seq(Events) /\ q \in Seq(Events) /\ h \in Events \cup {NoEvent}
  BY DEF Onward, OnWay
<1> HIDE DEF on, w, q, h
<1>2. /\ Elements(on) = Elements(w) \cup Hand(h) \cup Elements(q)
      /\ \A x, y : Before(on, x, y) <=>
            \/ Before(w, x, y)
            \/ Before(q, x, y)
            \/ x \in Elements(w) /\ y \in Hand(h)
            \/ x \in Elements(w) \cup Hand(h) /\ y \in Elements(q)
  BY <1>1, WayParts
<1>3. QED
  BY <1>2 DEF OnwardParts, InHand, on, w, q, h

\* An event joins the end of a sequence.
LEMMA Joined ==
    ASSUME NEW s \in Seq(Events), NEW e \in Events
    PROVE  /\ Append(s, e) \in Seq(Events)
           /\ Elements(Append(s, e)) = Elements(s) \cup {e}
           /\ \A x, y : Before(Append(s, e), x, y) <=>
                 Before(s, x, y) \/ (x \in Elements(s) /\ y = e)
<1>1. Append(s, e) = s \o <<e>>
  BY Ends
<1>2. /\ <<e>> \in Seq(Events)
      /\ Elements(<<e>>) = {e}
      /\ \A y, z : ~Before(<<e>>, y, z)
  BY Singleton
<1>3. Append(s, e) \in Seq(Events)
  OBVIOUS
<1> DEFINE one == <<e>>
<1> HIDE DEF one
<1>4. Elements(s \o one) = Elements(s) \cup Elements(one)
  BY <1>2, ConcatElements DEF one
<1>5. ASSUME NEW x, NEW y
      PROVE  Before(s \o one, x, y) <=>
                \/ Before(s, x, y)
                \/ Before(one, x, y)
                \/ x \in Elements(s) /\ y \in Elements(one)
  <2>1. one \in Seq(Events)
    BY <1>2 DEF one
  <2>2. QED
    BY <2>1, ConcatBefore
<1>6. /\ Elements(s \o <<e>>) = Elements(s) \cup {e}
      /\ \A x, y : Before(s \o <<e>>, x, y) <=>
            Before(s, x, y) \/ (x \in Elements(s) /\ y = e)
  BY <1>2, <1>4, <1>5 DEF one
<1>7. QED
  BY <1>1, <1>3, <1>6

\* An event leaves the head of a sequence.
LEMMA Left ==
    ASSUME NEW s \in Seq(Events), s # <<>>
    PROVE  /\ Head(s) \in Events /\ Tail(s) \in Seq(Events)
           /\ Elements(s) = {Head(s)} \cup Elements(Tail(s))
           /\ \A x, y : Before(s, x, y) <=>
                 \/ Before(Tail(s), x, y)
                 \/ x = Head(s) /\ y \in Elements(Tail(s))
<1>1. Head(s) \in Events /\ Tail(s) \in Seq(Events) /\ s = <<Head(s)>> \o Tail(s)
  BY Ends
<1> DEFINE h == Head(s)
           t == Tail(s)
<1> HIDE DEF h, t
<1>2. h \in Events /\ t \in Seq(Events) /\ s = <<h>> \o t
  BY <1>1 DEF h, t
<1>3. /\ <<h>> \in Seq(Events)
      /\ Elements(<<h>>) = {h}
      /\ \A y, z : ~Before(<<h>>, y, z)
  BY <1>2, Singleton
<1> DEFINE one == <<h>>
<1> HIDE DEF one
<1>4. one \in Seq(Events) /\ s = one \o t
  BY <1>2, <1>3 DEF one
<1>5. Elements(one \o t) = Elements(one) \cup Elements(t)
  BY <1>2, <1>4, ConcatElements
<1>6. ASSUME NEW x, NEW y
      PROVE  Before(one \o t, x, y) <=>
                \/ Before(one, x, y)
                \/ Before(t, x, y)
                \/ x \in Elements(one) /\ y \in Elements(t)
  BY <1>2, <1>4, ConcatBefore
<1>7. Elements(one) = {h} /\ \A y, z : ~Before(one, y, z)
  BY <1>3 DEF one
<1>8. Elements(s) = {h} \cup Elements(t)
  BY <1>4, <1>5, <1>7
<1>9. ASSUME NEW x, NEW y
      PROVE  Before(s, x, y) <=> Before(t, x, y) \/ (x = h /\ y \in Elements(t))
  BY <1>4, <1>6, <1>7
<1>10. QED
  BY <1>2, <1>8, <1>9 DEF h, t

\* What Close was called with stays marked, and it returns after the worker,
\* which has then flushed it.
FlushInv ==
    /\ worker # "select" => isDone
    /\ closing = "returned" => worker = "stopped"
    /\ early \subseteq Accepted
    /\ ~isDone => early = {}
    /\ worker = "stopped" => Elements(queue) \cap early = {}

\* Only an accepted event can be lost.
LossesAccepted == lost \subseteq Accepted

\* The inductive invariant of the publisher.
PublisherInv == TypeOK /\ Conserved /\ LossesAccepted /\ FlushInv

\* The initial state satisfies the inductive invariant.
LEMMA InitPublisher == Init => PublisherInv
<1> SUFFICES ASSUME Init PROVE PublisherInv
  OBVIOUS
<1>1. wire \in Seq(Events) /\ queue \in Seq(Events) /\ order \in Seq(Events)
  BY Nothing DEF Init
<1>2. isDone \in BOOLEAN
  BY DEF Init
<1>3. TypeOK
  BY <1>1, <1>2, PublisherAssumption DEF Init, TypeOK
<1>4. /\ Elements(Onward) = {}
      /\ \A x, y : ~Before(Onward, x, y)
  BY <1>1, PartsNow, Nothing, PublisherAssumption DEF Init, InHand, Hand, OnwardParts
<1>5. Accepted = {} /\ lost = {}
  BY DEF Init, Accepted
<1>6. Conserved
  BY <1>4, <1>5, Nothing DEF Init, Conserved
<1>7. FlushInv
  BY <1>5 DEF Init, FlushInv
<1>8. LossesAccepted
  BY <1>5 DEF LossesAccepted
<1>9. QED
  BY <1>3, <1>6, <1>7, <1>8 DEF PublisherInv

\* A call that does not accept its event changes the calls only.
LEMMA CallSteps ==
    ASSUME PublisherInv, NEW e \in Events, call[e] # "accepted",
           NEW to \in {"checked", "dropped", "refused"},
           call' = [call EXCEPT ![e] = to],
           UNCHANGED <<queue, worker, holding, isDone, closing, wire, lost,
                       order, early>>
    PROVE  PublisherInv'
<1>1. TypeOK'
  BY DEF PublisherInv, TypeOK
<1>2. Accepted' = Accepted
  BY DEF PublisherInv, TypeOK, Accepted
<1>3. Onward' = Onward
  BY DEF Onward
<1>4. Conserved'
  BY <1>2, <1>3 DEF PublisherInv, Conserved
<1>5. FlushInv' /\ LossesAccepted'
  BY <1>2 DEF PublisherInv, FlushInv, LossesAccepted
<1>6. QED
  BY <1>1, <1>4, <1>5 DEF PublisherInv

\* Accepting an event puts it after all that was accepted before.
LEMMA EnqueueKeeps ==
    ASSUME PublisherInv, NEW e \in Events, Enqueue(e)
    PROVE  PublisherInv'
<1> USE DEF PublisherInv
<1>1. /\ call[e] = "checked"
      /\ call' = [call EXCEPT ![e] = "accepted"]
      /\ queue' = Append(queue, e) /\ order' = Append(order, e)
      /\ UNCHANGED <<worker, holding, isDone, closing, wire, lost, early>>
  BY DEF Enqueue
<1>2. /\ queue \in Seq(Events) /\ order \in Seq(Events)
      /\ wire \in Seq(Events) /\ holding \in Events \cup {NoEvent}
  BY DEF TypeOK
<1>3. /\ queue' \in Seq(Events)
      /\ Elements(queue') = Elements(queue) \cup {e}
      /\ \A x, y : Before(queue', x, y) <=>
            Before(queue, x, y) \/ (x \in Elements(queue) /\ y = e)
  BY <1>1, <1>2, Joined
<1>4. /\ order' \in Seq(Events)
      /\ Elements(order') = Elements(order) \cup {e}
      /\ \A x, y : Before(order', x, y) <=>
            Before(order, x, y) \/ (x \in Elements(order) /\ y = e)
  BY <1>1, <1>2, Joined
<1>5. TypeOK'
  BY <1>1, <1>3, <1>4 DEF TypeOK
<1>6. Accepted' = Accepted \cup {e} /\ e \notin Accepted
  BY <1>1 DEF Accepted, TypeOK
<1>7. /\ Elements(wire') = Elements(wire) /\ InHand' = InHand
      /\ \A x, y : Before(wire', x, y) <=> Before(wire, x, y)
  BY <1>1 DEF InHand
<1>8. /\ Elements(Onward') = Elements(Onward) \cup {e}
      /\ \A x, y : Before(Onward', x, y) <=>
            Before(Onward, x, y) \/ (x \in Elements(Onward) /\ y = e)
  <2>1. OnwardParts /\ OnwardParts'
    BY <1>1, <1>2, <1>3, PartsNow, PartsNext
  <2>2. QED
    BY <1>3, <1>7, <2>1 DEF OnwardParts
<1>9. Conserved'
  <2>1. Elements(Onward') = Accepted' \ lost'
    BY <1>1, <1>6, <1>8 DEF Conserved, LossesAccepted
  <2>2. ASSUME NEW x \in Events, NEW y \in Events, Before(Onward', x, y)
        PROVE  Before(order', x, y)
    BY <1>4, <1>8, <2>2 DEF Conserved
  <2>3. Elements(order') = Accepted'
    BY <1>4, <1>6 DEF Conserved
  <2>4. \A x \in Events : ~Before(order', x, x)
    BY <1>4, <1>6 DEF Conserved
  <2>5. QED
    BY <2>1, <2>2, <2>3, <2>4 DEF Conserved
<1>10. LossesAccepted'
  BY <1>1, <1>6 DEF LossesAccepted
<1>11. FlushInv'
  BY <1>1, <1>3, <1>6 DEF FlushInv
<1>12. QED
  BY <1>5, <1>9, <1>10, <1>11

\* Taking an event moves it from the head of the buffer to the hand: it does
\* not change what is on its way.
LEMMA TakeMoves ==
    ASSUME TypeOK, Take
    PROVE  /\ TypeOK'
           /\ Elements(Onward') = Elements(Onward)
           /\ \A x, y : Before(Onward', x, y) <=> Before(Onward, x, y)
           /\ Elements(queue') \subseteq Elements(queue)
<1>1. /\ queue # <<>> /\ holding = NoEvent
      /\ holding' = Head(queue) /\ queue' = Tail(queue)
      /\ UNCHANGED <<call, worker, isDone, closing, wire, lost, order, early>>
  BY DEF Take
<1>2. queue \in Seq(Events) /\ wire \in Seq(Events)
  BY DEF TypeOK
<1>3. /\ holding' \in Events /\ queue' \in Seq(Events)
      /\ Elements(queue) = {holding'} \cup Elements(queue')
      /\ \A x, y : Before(queue, x, y) <=>
            \/ Before(queue', x, y)
            \/ x = holding' /\ y \in Elements(queue')
  BY <1>1, <1>2, Left
<1>4. TypeOK'
  BY <1>1, <1>3 DEF TypeOK
<1>5. InHand = {} /\ InHand' = {holding'}
  BY <1>1, <1>3, PublisherAssumption DEF InHand, Hand
<1>6. /\ Elements(wire') = Elements(wire)
      /\ \A x, y : Before(wire', x, y) <=> Before(wire, x, y)
  BY <1>1
<1>7. /\ Elements(Onward) = Elements(wire) \cup Elements(queue)
      /\ \A x, y : Before(Onward, x, y) <=>
            \/ Before(wire, x, y)
            \/ Before(queue, x, y)
            \/ x \in Elements(wire) /\ y \in Elements(queue)
  BY <1>1, <1>2, <1>5, PartsNow DEF OnwardParts
<1>8. /\ Elements(Onward') = Elements(wire') \cup InHand' \cup Elements(queue')
      /\ \A x, y : Before(Onward', x, y) <=>
            \/ Before(wire', x, y)
            \/ Before(queue', x, y)
            \/ x \in Elements(wire') /\ y \in InHand'
            \/ x \in Elements(wire') \cup InHand' /\ y \in Elements(queue')
  BY <1>4, PartsNext DEF OnwardParts, TypeOK
<1>9. QED
  BY <1>3, <1>4, <1>5, <1>6, <1>7, <1>8

\* Sending an event moves it from the hand to the end of the wire, which does
\* not change what is on its way either.
LEMMA SendMoves ==
    ASSUME TypeOK, Send
    PROVE  /\ TypeOK'
           /\ Elements(wire') = Elements(wire) \cup {holding}
           /\ Elements(Onward') = Elements(Onward)
           /\ \A x, y : Before(Onward', x, y) <=> Before(Onward, x, y)
<1>1. /\ holding # NoEvent /\ holding' = NoEvent /\ wire' = Append(wire, holding)
      /\ UNCHANGED <<call, queue, worker, isDone, closing, lost, order, early>>
  BY DEF Send
<1>2. queue \in Seq(Events) /\ wire \in Seq(Events) /\ holding \in Events
  BY <1>1 DEF TypeOK
<1>3. /\ wire' \in Seq(Events)
      /\ Elements(wire') = Elements(wire) \cup {holding}
      /\ \A x, y : Before(wire', x, y) <=>
            Before(wire, x, y) \/ (x \in Elements(wire) /\ y = holding)
  BY <1>1, <1>2, Joined
<1>4. TypeOK'
  BY <1>1, <1>3 DEF TypeOK
<1>5. InHand = {holding} /\ InHand' = {}
  BY <1>1 DEF InHand, Hand
<1>6. /\ Elements(queue') = Elements(queue)
      /\ \A x, y : Before(queue', x, y) <=> Before(queue, x, y)
  BY <1>1
<1>7. /\ Elements(Onward) = Elements(wire) \cup InHand \cup Elements(queue)
      /\ \A x, y : Before(Onward, x, y) <=>
            \/ Before(wire, x, y)
            \/ Before(queue, x, y)
            \/ x \in Elements(wire) /\ y \in InHand
            \/ x \in Elements(wire) \cup InHand /\ y \in Elements(queue)
  BY <1>2, PartsNow DEF OnwardParts
<1>8. /\ Elements(Onward') = Elements(wire') \cup InHand' \cup Elements(queue')
      /\ \A x, y : Before(Onward', x, y) <=>
            \/ Before(wire', x, y)
            \/ Before(queue', x, y)
            \/ x \in Elements(wire') /\ y \in InHand'
            \/ x \in Elements(wire') \cup InHand' /\ y \in Elements(queue')
  BY <1>4, PartsNext DEF OnwardParts, TypeOK
<1>9. QED
  BY <1>3, <1>4, <1>5, <1>6, <1>7, <1>8

\* A failed send takes the event in hand out of what is on its way, where it
\* was once.
LEMMA SendFailsTakesOut ==
    ASSUME TypeOK, Conserved, SendFails
    PROVE  /\ TypeOK'
           /\ holding \in Accepted
           /\ Elements(Onward') = Elements(Onward) \ {holding}
           /\ \A x, y : Before(Onward', x, y) => Before(Onward, x, y)
<1>1. /\ holding # NoEvent /\ holding' = NoEvent /\ lost' = lost \cup {holding}
      /\ UNCHANGED <<call, queue, worker, isDone, closing, wire, order, early>>
  BY DEF SendFails
<1>2. queue \in Seq(Events) /\ wire \in Seq(Events) /\ holding \in Events
  BY <1>1 DEF TypeOK
<1>3. TypeOK'
  BY <1>1, <1>2 DEF TypeOK
<1>4. InHand = {holding} /\ InHand' = {}
  BY <1>1 DEF InHand, Hand
<1>5. /\ Elements(queue') = Elements(queue) /\ Elements(wire') = Elements(wire)
      /\ \A x, y : Before(queue', x, y) <=> Before(queue, x, y)
      /\ \A x, y : Before(wire', x, y) <=> Before(wire, x, y)
  BY <1>1
<1>6. /\ Elements(Onward) = Elements(wire) \cup InHand \cup Elements(queue)
      /\ \A x, y : Before(Onward, x, y) <=>
            \/ Before(wire, x, y)
            \/ Before(queue, x, y)
            \/ x \in Elements(wire) /\ y \in InHand
            \/ x \in Elements(wire) \cup InHand /\ y \in Elements(queue)
  BY <1>2, PartsNow DEF OnwardParts
<1>7. /\ Elements(Onward') = Elements(wire') \cup InHand' \cup Elements(queue')
      /\ \A x, y : Before(Onward', x, y) <=>
            \/ Before(wire', x, y)
            \/ Before(queue', x, y)
            \/ x \in Elements(wire') /\ y \in InHand'
            \/ x \in Elements(wire') \cup InHand' /\ y \in Elements(queue')
  BY <1>3, PartsNext DEF OnwardParts, TypeOK
<1>8. ~Before(Onward, holding, holding)
  BY <1>2 DEF Conserved
<1>9. holding \notin Elements(wire) \cup Elements(queue)
  BY <1>4, <1>6, <1>8
<1>10. holding \in Accepted
  BY <1>4, <1>6 DEF Conserved
<1>11. QED
  BY <1>3, <1>4, <1>5, <1>6, <1>7, <1>9, <1>10

\* Every step of the publisher preserves the inductive invariant.
LEMMA NextPublisher == PublisherInv /\ [Next]_vars => PublisherInv'
<1> SUFFICES ASSUME PublisherInv, [Next]_vars PROVE PublisherInv'
  OBVIOUS
<1> USE DEF PublisherInv
<1>1. ASSUME NEW e \in Events, Publish(e) PROVE PublisherInv'
  <2>1. CASE CheckOpen(e)
    BY <2>1, CallSteps DEF CheckOpen
  <2>2. CASE Enqueue(e)
    BY <2>2, EnqueueKeeps
  <2>3. CASE Drop(e)
    BY <2>3, CallSteps DEF Drop
  <2>4. QED
    BY <1>1, <2>1, <2>2, <2>3 DEF Publish
<1>2. CASE Take
  <2>1. /\ UNCHANGED <<call, worker, isDone, closing, lost, order, early>>
        /\ worker # "stopped"
    BY <1>2 DEF Take
  <2>2. Accepted' = Accepted
    BY <2>1 DEF Accepted
  <2>3. TypeOK' /\ Conserved'
    BY <1>2, <2>1, <2>2, TakeMoves DEF Conserved
  <2>4. LossesAccepted' /\ FlushInv'
    BY <2>1, <2>2 DEF LossesAccepted, FlushInv
  <2>5. QED
    BY <2>3, <2>4
<1>3. CASE Send
  <2>1. UNCHANGED <<call, queue, worker, isDone, closing, lost, order, early>>
    BY <1>3 DEF Send
  <2>2. Accepted' = Accepted
    BY <2>1 DEF Accepted
  <2>3. TypeOK' /\ Conserved'
    BY <1>3, <2>1, <2>2, SendMoves DEF Conserved
  <2>4. LossesAccepted' /\ FlushInv'
    BY <2>1, <2>2 DEF LossesAccepted, FlushInv
  <2>5. QED
    BY <2>3, <2>4
<1>4. CASE SendFails
  <2>1. /\ UNCHANGED <<call, queue, worker, isDone, closing, order, early>>
        /\ lost' = lost \cup {holding}
    BY <1>4 DEF SendFails
  <2>2. Accepted' = Accepted
    BY <2>1 DEF Accepted
  <2>3. TypeOK' /\ Conserved' /\ holding \in Accepted
    <3>1. /\ TypeOK' /\ holding \in Accepted
          /\ Elements(Onward') = Elements(Onward) \ {holding}
          /\ \A x, y : Before(Onward', x, y) => Before(Onward, x, y)
      BY <1>4, SendFailsTakesOut
    <3>2. Conserved'
      BY <2>1, <2>2, <3>1 DEF Conserved
    <3>3. QED
      BY <3>1, <3>2
  <2>4. LossesAccepted' /\ FlushInv'
    BY <2>1, <2>2, <2>3 DEF LossesAccepted, FlushInv
  <2>5. QED
    BY <2>3, <2>4
<1>5. ASSUME UNCHANGED <<call, queue, holding, wire, lost, order>>, TypeOK',
             FlushInv'
      PROVE  PublisherInv'
  BY <1>5 DEF Conserved, LossesAccepted, Accepted, Onward
<1>6. CASE SeeClosed
  BY <1>5, <1>6 DEF SeeClosed, TypeOK, FlushInv, Accepted
<1>7. CASE Stop
  <2>1. Elements(queue) = {}
    BY <1>7, Nothing DEF Stop
  <2>2. QED
    BY <1>5, <1>7, <2>1 DEF Stop, TypeOK, FlushInv, Accepted
<1>8. CASE CloseBegins
  <2>1. TypeOK'
    <3>1. isDone' \in BOOLEAN
      BY <1>8 DEF CloseBegins
    <3>2. QED
      BY <1>8, <3>1 DEF CloseBegins, TypeOK, Accepted
  <2>2. FlushInv'
    BY <1>8 DEF CloseBegins, TypeOK, FlushInv, Accepted
  <2>3. QED
    BY <1>5, <1>8, <2>1, <2>2 DEF CloseBegins
<1>9. CASE CloseReturns
  BY <1>5, <1>9 DEF CloseReturns, TypeOK, FlushInv, Accepted
<1>10. CASE UNCHANGED vars
  BY <1>5, <1>10 DEF vars, TypeOK, FlushInv, Accepted
<1>11. QED
  BY <1>1, <1>2, <1>3, <1>4, <1>6, <1>7, <1>8, <1>9, <1>10 DEF Next, Work

\* The inductive invariant holds in every reachable state.
LEMMA PublisherInductive == Spec => []PublisherInv
  BY InitPublisher, NextPublisher, PTL DEF Spec

\* The worker neither reorders, repeats nor forgets an accepted event but
\* those whose send failed, for any number of calls that overlap each other
\* and Close, and any buffer.
THEOREM AcceptedConserved == Spec => []Conserved
<1>1. PublisherInv => Conserved
  BY DEF PublisherInv
<1>2. QED
  BY <1>1, PublisherInductive, PTL

\* When Close returns, no event accepted before it was called is left in the
\* buffer, whatever calls overlap it.
THEOREM CloseFlushes == Spec => []EarlyFlushed
<1>1. PublisherInv => EarlyFlushed
  BY DEF PublisherInv, FlushInv, EarlyFlushed
<1>2. QED
  BY <1>1, PublisherInductive, PTL

-----------------------------------------------------------------------------
(* How much is left to do when Close was called.                           *)

\* What a removed element takes from a count.
LEMMA OneLess ==
    ASSUME NEW S, IsFiniteSet(S), NEW e \in S
    PROVE  /\ Cardinality(S) \in Nat
           /\ Cardinality(S \ {e}) = Cardinality(S) - 1
  BY FS_CardinalityType, FS_RemoveElement

\* Whether an element of it or not.
LEMMA NoMore ==
    ASSUME NEW S, IsFiniteSet(S), NEW e
    PROVE  /\ Cardinality(S \ {e}) \in Nat
           /\ Cardinality(S \ {e}) <= Cardinality(S)
<1>1. IsFiniteSet(S \ {e})
  BY FS_RemoveElement
<1>2. Cardinality(S) \in Nat /\ Cardinality(S \ {e}) \in Nat
  BY <1>1, FS_CardinalityType
<1>3. S \ {e} \in SUBSET S
  OBVIOUS
<1>4. Cardinality(S \ {e}) <= Cardinality(S)
  BY <1>3, FS_Subset
<1>5. QED
  BY <1>2, <1>4

\* The Publish calls that are past the check, whether the worker has an event
\* in hand, and the turns of its loop before it returns.
Checked == {e \in Events : call[e] = "checked"}

HandLoad == IF holding = NoEvent THEN 0 ELSE 1

WorkerStage ==
    IF worker = "select" THEN 2 ELSE IF worker = "drain" THEN 1 ELSE 0

\* The steps that Close may still have to wait for: three for an event that
\* is to be put in the buffer, taken and sent.
Effort == 3 * Cardinality(Checked) + 2 * Len(queue) + HandLoad + WorkerStage

\* Once Close was called every step of a Publish call past the check and of
\* the worker is one of those: nothing refills the buffer for ever, and the
\* worker never goes back.
CloseBounded ==
    [][isDone => \/ Effort' < Effort
                 \/ /\ Effort' = Effort
                    /\ UNCHANGED <<queue, worker, holding, wire, lost, order>>]_vars

\* The counts are numbers.
LEMMA EffortCounts ==
    ASSUME TypeOK
    PROVE  /\ IsFiniteSet(Checked) /\ Cardinality(Checked) \in Nat
           /\ Len(queue) \in Nat /\ HandLoad \in Nat /\ WorkerStage \in Nat
           /\ Effort \in Nat
<1>1. IsFiniteSet(Checked) /\ Cardinality(Checked) \in Nat
  BY PipelineAssumption, FS_Subset, FS_CardinalityType DEF Checked
<1>2. Len(queue) \in Nat
  BY DEF TypeOK
<1>3. HandLoad \in Nat /\ WorkerStage \in Nat
  BY DEF HandLoad, WorkerStage
<1>4. Effort \in Nat
  BY <1>1, <1>2, <1>3 DEF Effort
<1>5. QED
  BY <1>1, <1>2, <1>3, <1>4

\* Every step of the worker takes an event, is done with one, or gets closer
\* to its return.
WorkDone ==
    \/ /\ Len(queue') = Len(queue) - 1
       /\ HandLoad = 0 /\ HandLoad' = 1 /\ WorkerStage' = WorkerStage
    \/ /\ Len(queue') = Len(queue)
       /\ HandLoad = 1 /\ HandLoad' = 0 /\ WorkerStage' = WorkerStage
    \/ /\ Len(queue') = Len(queue)
       /\ HandLoad' = HandLoad /\ WorkerStage' = WorkerStage - 1

\* The worker changes no call, and does one of the three.
LEMMA WorkSpends ==
    ASSUME TypeOK, Work
    PROVE  WorkDone /\ UNCHANGED <<call, isDone, closing>>
<1>1. CASE Take
  <2>1. /\ queue \in Seq(Events) /\ queue # <<>> /\ holding = NoEvent
        /\ queue' = Tail(queue) /\ holding' = Head(queue)
        /\ UNCHANGED <<call, worker, isDone, closing>>
    BY <1>1 DEF Take, TypeOK
  <2>2. Len(queue') = Len(queue) - 1 /\ holding' \in Events
    BY <2>1
  <2>3. HandLoad = 0 /\ HandLoad' = 1 /\ WorkerStage' = WorkerStage
    BY <2>1, <2>2, PublisherAssumption DEF HandLoad, WorkerStage
  <2>4. QED
    BY <2>1, <2>2, <2>3 DEF WorkDone
<1>2. CASE Send \/ SendFails
  <2>1. /\ holding # NoEvent /\ holding' = NoEvent
        /\ UNCHANGED <<call, queue, worker, isDone, closing>>
    BY <1>2 DEF Send, SendFails
  <2>2. HandLoad = 1 /\ HandLoad' = 0 /\ WorkerStage' = WorkerStage
    BY <2>1 DEF HandLoad, WorkerStage
  <2>3. QED
    BY <2>1, <2>2 DEF WorkDone
<1>3. CASE SeeClosed \/ Stop
  <2>1. /\ \/ worker = "select" /\ worker' = "drain"
           \/ worker = "drain" /\ worker' = "stopped"
        /\ UNCHANGED <<call, queue, holding, isDone, closing>>
    BY <1>3 DEF SeeClosed, Stop
  <2>2. HandLoad' = HandLoad /\ WorkerStage' = WorkerStage - 1
    BY <2>1 DEF HandLoad, WorkerStage
  <2>3. QED
    BY <2>1, <2>2 DEF WorkDone
<1>4. QED
  BY <1>1, <1>2, <1>3 DEF Work

\* A Publish call past the check leaves it, with an event in the buffer or
\* without one.
LEMMA PublishSpends ==
    ASSUME TypeOK, NEW e \in Events, Enqueue(e) \/ Drop(e)
    PROVE  /\ e \in Checked /\ Checked' = Checked \ {e}
           /\ Len(queue') = Len(queue) \/ Len(queue') = Len(queue) + 1
           /\ HandLoad' = HandLoad /\ WorkerStage' = WorkerStage
<1>1. /\ call[e] = "checked"
      /\ \E to \in {"accepted", "dropped"} : call' = [call EXCEPT ![e] = to]
      /\ queue' = queue \/ queue' = Append(queue, e)
      /\ UNCHANGED <<worker, holding>>
  BY DEF Enqueue, Drop
<1>2. e \in Checked /\ Checked' = Checked \ {e}
  BY <1>1 DEF TypeOK, Checked
<1>3. Len(queue') = Len(queue) \/ Len(queue') = Len(queue) + 1
  BY <1>1 DEF TypeOK
<1>4. QED
  BY <1>1, <1>2, <1>3 DEF HandLoad, WorkerStage

\* After Close was called, Close waits for a bounded number of steps, and
\* every step of the publisher that is not a refusal is one of them: for any
\* number of overlapping calls and any buffer.
THEOREM CloseIsBounded == Spec => []TypeOK /\ [](Effort \in Nat) /\ CloseBounded
<1> DEFINE Spends ==
        isDone => \/ Effort' < Effort
                  \/ /\ Effort' = Effort
                     /\ UNCHANGED <<queue, worker, holding, wire, lost, order>>
<1>1. ASSUME TypeOK, [Next]_vars PROVE Spends
  <2> SUFFICES ASSUME isDone PROVE Spends
    OBVIOUS
  <2>1. /\ Cardinality(Checked) \in Nat /\ Len(queue) \in Nat
        /\ HandLoad \in Nat /\ WorkerStage \in Nat /\ Effort \in Nat
    BY <1>1, EffortCounts
  <2>2. CASE Work
    <3>1. WorkDone /\ Checked' = Checked
      BY <1>1, <2>2, WorkSpends DEF Checked
    <3>2. CASE /\ Len(queue') = Len(queue) - 1
               /\ HandLoad = 0 /\ HandLoad' = 1 /\ WorkerStage' = WorkerStage
      <4>1. Effort' = Effort - 1
        BY <2>1, <3>1, <3>2 DEF Effort
      <4>2. QED
        BY <2>1, <4>1
    <3>3. CASE /\ Len(queue') = Len(queue)
               /\ HandLoad = 1 /\ HandLoad' = 0 /\ WorkerStage' = WorkerStage
      <4>1. Effort' = Effort - 1
        BY <2>1, <3>1, <3>3 DEF Effort
      <4>2. QED
        BY <2>1, <4>1
    <3>4. CASE /\ Len(queue') = Len(queue)
               /\ HandLoad' = HandLoad /\ WorkerStage' = WorkerStage - 1
      <4>1. Effort' = Effort - 1
        BY <2>1, <3>1, <3>4 DEF Effort
      <4>2. QED
        BY <2>1, <4>1
    <3>5. QED
      BY <3>1, <3>2, <3>3, <3>4 DEF WorkDone
  <2>3. ASSUME NEW e \in Events, Enqueue(e) \/ Drop(e)
        PROVE  Spends
    <3>1. /\ e \in Checked /\ Checked' = Checked \ {e}
          /\ Len(queue') = Len(queue) \/ Len(queue') = Len(queue) + 1
          /\ HandLoad' = HandLoad /\ WorkerStage' = WorkerStage
      BY <1>1, <2>3, PublishSpends
    <3>2. IsFiniteSet(Checked)
      BY <1>1, EffortCounts
    <3>3. Cardinality(Checked') = Cardinality(Checked) - 1
      BY <3>1, <3>2, OneLess
    <3> DEFINE n == Cardinality(Checked)
               k == Len(queue)
               rest == HandLoad + WorkerStage
    <3>4. /\ n \in Nat /\ k \in Nat /\ rest \in Nat
          /\ Effort = 3 * n + 2 * k + rest
      BY ONLY <2>1 DEF Effort
    <3>5. Effort' = 3 * (n - 1) + 2 * Len(queue') + rest
      BY <2>1, <3>1, <3>3 DEF Effort
    <3>6. Len(queue') = k \/ Len(queue') = k + 1
      BY <3>1
    <3> HIDE DEF n, k, rest
    <3>7. Effort' = Effort - 3 \/ Effort' = Effort - 1
      BY ONLY <3>4, <3>5, <3>6
    <3>8. QED
      BY <2>1, <3>7
  <2>4. ASSUME NEW e \in Events, CheckOpen(e) PROVE Spends
    <3>1. /\ call[e] = "new" /\ call' = [call EXCEPT ![e] = "refused"]
          /\ UNCHANGED <<queue, worker, holding, wire, lost, order>>
      BY <2>4 DEF CheckOpen
    <3>2. Checked' = Checked
      BY <1>1, <3>1 DEF TypeOK, Checked
    <3>3. QED
      BY <3>1, <3>2 DEF Effort, HandLoad, WorkerStage
  <2>5. CASE CloseBegins \/ CloseReturns \/ UNCHANGED vars
    BY <2>5 DEF CloseBegins, CloseReturns, vars, Effort, Checked, HandLoad,
       WorkerStage
  <2>6. QED
    BY <1>1, <2>2, <2>3, <2>4, <2>5 DEF Next, Publish
<1>2. PublisherInv => TypeOK
  BY DEF PublisherInv
<1>3. TypeOK => Effort \in Nat
  BY EffortCounts
<1> HIDE DEF Spends
<1>4. Spec => [][Spends]_vars
  BY <1>1, <1>2, PublisherInductive, PTL DEF Spec
<1>5. QED
  BY <1>2, <1>3, <1>4, PublisherInductive, PTL DEF Spends, CloseBounded

(***************************************************************************)
(* The pipeline.                                                           *)
(***************************************************************************)

\* The publisher of the pipeline is AuditPublisher's.
LEMMA PublisherStep == [PipelineNext]_pipelineVars => [Next]_vars
<1> SUFFICES ASSUME [PipelineNext]_pipelineVars PROVE [Next]_vars
  OBVIOUS
<1>1. CASE Serve
  BY <1>1 DEF Serve, Accept, HandlerPublishes, HandlerReturns, Signal, Next
<1>2. CASE EndShutdown
  BY <1>2 DEF EndShutdown, ShutdownReturns, ShutdownTimesOut
<1>3. CASE Kill
  BY <1>3 DEF Kill
<1>4. CASE Dispatch
  BY <1>4 DEF Dispatch, WorkerRuns, Next
<1>5. CASE Exit
  BY <1>5 DEF Exit, DeferredClose, Next
<1>6. CASE UNCHANGED vars
  BY <1>6
<1>7. QED
  BY <1>1, <1>2, <1>3, <1>4, <1>5, <1>6
     DEF PipelineNext, Arrive, LoseLink, Write, pipelineVars, pvars

\* So its inductive invariant holds in the pipeline.
LEMMA PublisherInPipeline == PipelineSpec => []PublisherInv
<1>1. PipelineInit => Init
  BY DEF PipelineInit, SInit
<1>2. QED
  BY <1>1, InitPublisher, NextPublisher, PublisherStep, PTL DEF PipelineSpec

-----------------------------------------------------------------------------
(* The end of the proxy process.                                           *)

\* A closed publisher has no handler left that might publish: it is closed
\* after Shutdown has returned, and Shutdown has waited for every handler.
ClosedIsQuiet ==
    /\ isDone => server \in {"down", "killed"} /\ Running = {}
    /\ server = "down" => Running = {}

\* The inductive invariant of the process.
QuietInv ==
    /\ call \in [Events -> {"new", "checked", "accepted", "dropped", "refused"}]
    /\ handler \in [Events -> {"none", "running", "returned"}]
    /\ ClosedIsQuiet
    /\ NoneRefused

\* The initial state satisfies the inductive invariant.
LEMMA InitQuiet == PipelineInit => QuietInv
  BY DEF PipelineInit, SInit, Init, QuietInv, ClosedIsQuiet, NoneRefused,
     Running

\* A step that changes neither the calls, the handlers, nor Close, and does
\* not end Shutdown, changes nothing here.
LEMMA QuietUnchanged ==
    ASSUME QuietInv, UNCHANGED <<call, handler, isDone>>,
           server' = server \/ server' \in {"draining", "killed"},
           server' # server => server # "killed" /\ (server' = "draining" => ~isDone)
    PROVE  QuietInv'
  BY DEF QuietInv, ClosedIsQuiet, NoneRefused, Running

\* Every step of the pipeline preserves the inductive invariant.
LEMMA NextQuiet == QuietInv /\ [PipelineNext]_pipelineVars => QuietInv'
<1> SUFFICES ASSUME QuietInv, [PipelineNext]_pipelineVars PROVE QuietInv'
  OBVIOUS
<1>1. CASE Serve
  <2>1. ASSUME NEW e \in Events, Accept(e) PROVE QuietInv'
    BY <2>1 DEF Accept, vars, QuietInv, ClosedIsQuiet, NoneRefused, Running
  <2>2. ASSUME NEW e \in Events, HandlerPublishes(e) PROVE QuietInv'
    <3>1. ~isDone
      BY <2>2 DEF HandlerPublishes, QuietInv, ClosedIsQuiet
    <3>2. /\ UNCHANGED <<server, handler, isDone>>
          /\ call' \in [Events -> {"new", "checked", "accepted", "dropped",
                                   "refused"}]
          /\ NoneRefused'
      BY <2>2, <3>1 DEF HandlerPublishes, svars, Publish, CheckOpen, Enqueue,
         Drop, QuietInv, NoneRefused
    <3>3. QED
      BY <3>2 DEF QuietInv, ClosedIsQuiet, Running
  <2>3. ASSUME NEW e \in Events, HandlerReturns(e) PROVE QuietInv'
    BY <2>3 DEF HandlerReturns, vars, QuietInv, ClosedIsQuiet, NoneRefused,
       Running
  <2>4. CASE Signal
    BY <2>4, QuietUnchanged DEF Signal, vars, QuietInv, ClosedIsQuiet
  <2>5. QED
    BY <1>1, <2>1, <2>2, <2>3, <2>4 DEF Serve
<1>2. CASE EndShutdown
  <2>1. CASE ShutdownReturns
    BY <2>1 DEF ShutdownReturns, vars, QuietInv, ClosedIsQuiet, NoneRefused,
       Running
  <2>2. CASE ShutdownTimesOut
    BY <2>2, QuietUnchanged DEF ShutdownTimesOut, vars
  <2>3. QED
    BY <1>2, <2>1, <2>2 DEF EndShutdown
<1>3. CASE Kill
  BY <1>3, QuietUnchanged DEF Kill, Alive, vars
<1>4. CASE Dispatch
  <2>1. UNCHANGED <<call, handler, isDone, server>>
    BY <1>4 DEF Dispatch, WorkerRuns, svars, Work, Take, Send, SendFails,
       SeeClosed, Stop
  <2>2. QED
    BY <2>1, QuietUnchanged
<1>5. CASE Exit
  <2>1. server = "down" /\ UNCHANGED <<call, handler, server>>
    BY <1>5 DEF Exit, DeferredClose, svars, CloseBegins, CloseReturns
  <2>2. QED
    BY <2>1 DEF QuietInv, ClosedIsQuiet, NoneRefused, Running
<1>6. CASE UNCHANGED pvars
  BY <1>6, QuietUnchanged DEF pvars, vars, svars
<1>7. QED
  BY <1>1, <1>2, <1>3, <1>4, <1>5, <1>6
     DEF PipelineNext, Arrive, LoseLink, Write, pipelineVars

\* No handler's event is ever refused by a publisher that main has closed,
\* for any number of handlers in flight when the signal arrives: the check
\* of Publish that would race Close is never met.
THEOREM NoneEverRefused == PipelineSpec => []NoneRefused
<1>1. QuietInv => NoneRefused
  BY DEF QuietInv
<1>2. QED
  BY <1>1, InitQuiet, NextQuiet, PTL DEF PipelineSpec

-----------------------------------------------------------------------------
(* The connection.                                                         *)

\* The types of what is on the connection and at the broker.
WireTyped ==
    /\ link \in {"up", "lost"}
    /\ transit \in Seq(Events)
    /\ vanished \subseteq Events
    /\ arrived \in Seq(Events)

\* What was sent is on the connection, was lost with it, or has arrived.
SentSomewhere ==
    /\ link = "up" => vanished = {}
    /\ Elements(wire) = Elements(transit) \cup vanished \cup Elements(arrived)

\* The broker gets the events in the order they were sent in.
InOrder ==
    \A x, y \in Events :
        \/ Before(arrived, x, y)
        \/ Before(transit, x, y)
        \/ x \in Elements(arrived) /\ y \in Elements(transit)
        => Before(wire, x, y)

\* A worker that has returned has left nothing behind, and so has a connection
\* that was closed.
ClosedIsEmpty ==
    /\ worker = "stopped" => queue = <<>> /\ holding = NoEvent
    /\ closing = "returned" => transit = <<>>

\* The inductive invariant of the connection, beside those of the publisher
\* and of the end of the process.
WireInv == WireTyped /\ SentSomewhere /\ InOrder /\ ClosedIsEmpty

\* The initial state satisfies the inductive invariant.
LEMMA InitWire == PipelineInit => WireInv
  BY Nothing DEF PipelineInit, SInit, Init, WireInv, WireTyped, SentSomewhere,
     InOrder, ClosedIsEmpty

\* The publisher's worker sends to the connection while it is there, and never
\* once it has returned.
LEMMA DispatchWires ==
    ASSUME PublisherInv, WireInv, Dispatch
    PROVE  WireInv'
<1> USE DEF WireInv
<1>1. /\ UNCHANGED <<link, vanished, arrived, closing>>
      /\ IF wire' = wire
         THEN UNCHANGED transit
         ELSE link = "up" /\ transit' = Append(transit, holding)
      /\ Work
  BY DEF Dispatch, WorkerRuns, Work, Take, Send, SendFails, SeeClosed, Stop
<1>2. /\ wire \in Seq(Events) /\ transit \in Seq(Events)
      /\ holding \in Events \cup {NoEvent}
      /\ closing = "returned" => worker = "stopped"
  BY DEF PublisherInv, TypeOK, FlushInv, WireTyped
<1>3. CASE Send
  <2>1. /\ holding # NoEvent /\ holding \in Events
        /\ wire' = Append(wire, holding)
        /\ worker # "stopped" /\ UNCHANGED worker
    BY <1>2, <1>3 DEF Send, ClosedIsEmpty
  <2>2. wire' # wire
    BY <1>2, <2>1
  <2>3. link = "up" /\ transit' = Append(transit, holding)
    BY <1>1, <2>2
  <2>4. /\ Elements(wire') = Elements(wire) \cup {holding}
        /\ \A x, y : Before(wire', x, y) <=>
              Before(wire, x, y) \/ (x \in Elements(wire) /\ y = holding)
    BY <1>2, <2>1, Joined
  <2>5. /\ transit' \in Seq(Events)
        /\ Elements(transit') = Elements(transit) \cup {holding}
        /\ \A x, y : Before(transit', x, y) <=>
              \/ Before(transit, x, y)
              \/ x \in Elements(transit) /\ y = holding
    BY <1>2, <2>1, <2>3, Joined
  <2>6. WireTyped' /\ SentSomewhere'
    BY <1>1, <2>3, <2>4, <2>5 DEF WireTyped, SentSomewhere
  <2>7. InOrder'
    <3>1. Elements(arrived) \cup Elements(transit) \subseteq Elements(wire)
      BY DEF SentSomewhere
    <3>2. QED
      BY <1>1, <2>4, <2>5, <3>1 DEF InOrder
  <2>8. ClosedIsEmpty'
    BY <1>1, <1>2, <2>1 DEF ClosedIsEmpty
  <2>9. QED
    BY <2>6, <2>7, <2>8
<1>4. CASE Take \/ SendFails \/ SeeClosed \/ Stop
  <2>1. UNCHANGED wire /\ UNCHANGED transit
    BY <1>1, <1>4 DEF Take, SendFails, SeeClosed, Stop
  <2>2. worker' = "stopped" => queue' = <<>> /\ holding' = NoEvent
    BY <1>4 DEF Take, SendFails, SeeClosed, Stop, ClosedIsEmpty
  <2>3. QED
    BY <1>1, <2>1, <2>2
       DEF WireTyped, SentSomewhere, InOrder, ClosedIsEmpty
<1>5. QED
  BY <1>1, <1>3, <1>4 DEF Work

\* Every step of the pipeline preserves the inductive invariant.
LEMMA NextWire ==
    PublisherInv /\ QuietInv /\ WireInv /\ [PipelineNext]_pipelineVars
       => WireInv'
<1> SUFFICES ASSUME PublisherInv, QuietInv, WireInv,
                    [PipelineNext]_pipelineVars
             PROVE  WireInv'
  OBVIOUS
<1> USE DEF WireInv
<1>1. CASE UNCHANGED <<vars, lvars>>
  BY <1>1
     DEF vars, lvars, WireTyped, SentSomewhere, InOrder, ClosedIsEmpty
<1>2. ASSUME NEW e \in Events, HandlerPublishes(e), UNCHANGED lvars
      PROVE  WireInv'
  <2>1. UNCHANGED <<worker, holding, closing, wire>>
    BY <1>2 DEF HandlerPublishes, Publish, CheckOpen, Enqueue, Drop
  <2>2. worker # "stopped"
    BY <1>2 DEF HandlerPublishes, QuietInv, ClosedIsQuiet, PublisherInv,
       FlushInv
  <2>3. QED
    BY <1>2, <2>1, <2>2
       DEF lvars, WireTyped, SentSomewhere, InOrder, ClosedIsEmpty
<1>3. CASE Serve
  BY <1>1, <1>2, <1>3 DEF Serve, Accept, HandlerReturns, Signal
<1>4. CASE EndShutdown
  BY <1>1, <1>4 DEF EndShutdown, ShutdownReturns, ShutdownTimesOut
<1>5. CASE Kill
  BY <1>1, <1>5 DEF Kill
<1>6. CASE Dispatch
  BY <1>6, DispatchWires
<1>7. CASE Exit
  <2>1. /\ UNCHANGED <<worker, holding, queue, wire, lvars>>
        /\ closing' = "returned" => transit = <<>>
    BY <1>7 DEF Exit, DeferredClose, CloseBegins, CloseReturns
  <2>2. QED
    BY <2>1 DEF lvars, WireTyped, SentSomewhere, InOrder, ClosedIsEmpty
<1>8. CASE Arrive
  <2>1. /\ transit # <<>> /\ transit' = Tail(transit)
        /\ arrived' = Append(arrived, Head(transit))
        /\ UNCHANGED <<vars, link, vanished>>
    BY <1>8 DEF Arrive, pvars
  <2>2. transit \in Seq(Events) /\ arrived \in Seq(Events)
    BY DEF WireTyped
  <2>3. /\ Head(transit) \in Events /\ transit' \in Seq(Events)
        /\ Elements(transit) = {Head(transit)} \cup Elements(transit')
        /\ \A x, y : Before(transit, x, y) <=>
              \/ Before(transit', x, y)
              \/ x = Head(transit) /\ y \in Elements(transit')
    BY <2>1, <2>2, Left
  <2>4. /\ arrived' \in Seq(Events)
        /\ Elements(arrived') = Elements(arrived) \cup {Head(transit)}
        /\ \A x, y : Before(arrived', x, y) <=>
              \/ Before(arrived, x, y)
              \/ x \in Elements(arrived) /\ y = Head(transit)
    BY <2>1, <2>2, <2>3, Joined
  <2>5. WireTyped' /\ SentSomewhere'
    BY <2>1, <2>3, <2>4 DEF vars, WireTyped, SentSomewhere
  <2>6. ClosedIsEmpty'
    BY <2>1 DEF vars, ClosedIsEmpty
  <2>7. InOrder'
    BY <2>1, <2>3, <2>4 DEF vars, InOrder
  <2>8. QED
    BY <2>5, <2>6, <2>7
<1>9. CASE LoseLink
  <2>1. /\ link = "up" /\ link' = "lost" /\ closing # "returned"
        /\ vanished' = Elements(transit) /\ transit' = <<>>
        /\ UNCHANGED <<vars, arrived>>
    BY <1>9 DEF LoseLink, pvars
  <2>2. Elements(transit) \subseteq Events
    BY DEF WireTyped, Elements
  <2>3. WireTyped' /\ SentSomewhere'
    BY <2>1, <2>2, Nothing DEF vars, WireTyped, SentSomewhere
  <2>4. ClosedIsEmpty'
    BY <2>1 DEF vars, ClosedIsEmpty
  <2>5. InOrder'
    BY <2>1, Nothing DEF vars, InOrder
  <2>6. QED
    BY <2>3, <2>4, <2>5
<1>10. CASE Write
  BY <1>1, <1>10 DEF Write, pvars
<1>11. QED
  BY <1>1, <1>3, <1>4, <1>5, <1>6, <1>7, <1>8, <1>9, <1>10
     DEF PipelineNext, pipelineVars, pvars

\* The inductive invariants of the process hold in every reachable state.
LEMMA ProcessInductive == PipelineSpec => [](PublisherInv /\ QuietInv /\ WireInv)
  BY PublisherInPipeline, InitQuiet, NextQuiet, InitWire, NextWire, PTL
     DEF PipelineSpec

\* The broker gets every accepted event at most once, and in the order of
\* acceptance, whatever is lost on the way.
ArrivesInOrder ==
    \A x, y \in Events : Before(arrived, x, y) => Before(order, x, y)

\* Publisher and connection keep the order of acceptance and repeat nothing.
THEOREM FirstInFirstOut ==
    PipelineSpec => [](ArrivesInOrder /\ \A x \in Events : ~Before(arrived, x, x))
<1>1. ASSUME PublisherInv, WireInv
      PROVE  ArrivesInOrder /\ \A x \in Events : ~Before(arrived, x, x)
  <2>1. \A x, y : Before(wire, x, y) => Before(Onward, x, y)
    BY <1>1, PartsNow DEF PublisherInv, TypeOK, OnwardParts
  <2>2. QED
    BY <1>1, <2>1
       DEF PublisherInv, Conserved, WireInv, InOrder, ArrivesInOrder
<1>2. QED
  BY <1>1, ProcessInductive, PTL

-----------------------------------------------------------------------------
(* The queue.                                                              *)

\* The inductive invariant of the routing: the messages are numbered as they
\* arrive, and before the queue is bound none is routed.
RoutingInv ==
    /\ published = 1 .. Len(arrived)
    /\ routed \subseteq published
    /\ bound \in BOOLEAN
    /\ routed # {} => bound
    /\ NoGaps

\* The initial state satisfies the inductive invariant.
LEMMA InitRouting == PipelineInit => RoutingInv
<1> SUFFICES ASSUME PipelineInit PROVE RoutingInv
  OBVIOUS
<1>1. published = {} /\ routed = {} /\ bound = FALSE /\ Len(arrived) = 0
  BY DEF PipelineInit, W!Init
<1>2. published = 1 .. Len(arrived)
  BY <1>1
<1>3. bound \in BOOLEAN
  BY <1>1
<1>4. QED
  BY <1>1, <1>2, <1>3, Zenon DEF RoutingInv, NoGaps

\* Every step of the pipeline preserves the inductive invariant.
LEMMA NextRouting ==
    WireTyped /\ RoutingInv /\ [PipelineNext]_pipelineVars => RoutingInv'
<1> SUFFICES ASSUME WireTyped, RoutingInv, [PipelineNext]_pipelineVars
             PROVE  RoutingInv'
  OBVIOUS
<1>1. ASSUME UNCHANGED <<published, routed, arrived>>,
             bound' = bound \/ bound' = TRUE
      PROVE  RoutingInv'
  BY <1>1 DEF RoutingInv, NoGaps
<1>2. CASE Arrive
  <2> DEFINE m == Len(arrived) + 1
  <2>1. Len(arrived) \in Nat /\ Len(arrived') = m
    BY <1>2 DEF Arrive, WireTyped
  <2>2. published' = 1 .. m
    BY <1>2, <2>1 DEF Arrive, W!Publish, RoutingInv
  <2>3. \/ UNCHANGED <<routed, bound>> /\ routed = {}
        \/ bound /\ bound' = bound /\ routed' = routed \cup {m}
    BY <1>2 DEF Arrive, W!Publish, RoutingInv
  <2>4. m \in 1 .. m /\ published \subseteq 1 .. m
    BY <2>1 DEF RoutingInv
  <2> HIDE DEF m
  <2>5. routed' \subseteq published' /\ bound' \in BOOLEAN /\ (routed' # {} => bound')
    BY <2>2, <2>3, <2>4 DEF RoutingInv
  <2>6. ASSUME NEW k \in routed', NEW j \in published', j > k
        PROVE  j \in routed'
    <3>1. CASE j = m
      BY <2>3, <2>6, <3>1
    <3>2. CASE j # m
      <4>1. j \in published /\ k # m
        BY <2>1, <2>2, <2>3, <2>6, <3>2 DEF m, RoutingInv
      <4>2. QED
        BY <2>3, <2>6, <4>1 DEF RoutingInv, NoGaps
    <3>3. QED
      BY <3>1, <3>2
  <2>7. QED
    BY <2>1, <2>2, <2>5, <2>6 DEF RoutingInv, NoGaps
<1>3. CASE Write
  <2>1. UNCHANGED <<published, routed, arrived>> /\ (bound' = bound \/ bound' = TRUE)
    BY <1>3 DEF Write, W!Deliver, W!Persist, W!InsertStores,
       W!InsertConflicts, W!InsertFails, W!InsertUnknown, W!Start, W!Receive,
       W!Settle, W!Crash, W!ConnectionLost, W!StopBegins, W!StopEnds,
       W!StopDeaf, W!bvars, lvars
  <2>2. QED
    BY <1>1, <2>1
<1>4. CASE UNCHANGED <<writerVars, arrived>>
  BY <1>1, <1>4 DEF writerVars
<1>5. QED
  BY <1>2, <1>3, <1>4
     DEF PipelineNext, Serve, EndShutdown, Kill, Dispatch, Exit, LoseLink,
         pipelineVars, lvars

\* The routing's invariant holds in every reachable state.
LEMMA RoutingInductive == PipelineSpec => []RoutingInv
<1>1. WireInv => WireTyped
  BY DEF WireInv
<1>2. QED
  BY <1>1, ProcessInductive, InitRouting, NextRouting, PTL DEF PipelineSpec

\* Once one event has been routed to the queue, every later one is, through
\* any crashes, stops and disconnections of the worker: only what arrives
\* before the first worker has ever run is turned away.
THEOREM NoGapsEver == PipelineSpec => []NoGaps
<1>1. RoutingInv => NoGaps
  BY DEF RoutingInv
<1>2. QED
  BY <1>1, RoutingInductive, PTL

-----------------------------------------------------------------------------
(* The writer.                                                             *)

\* The process AuditWorkerProofs speaks of, with its alert consumer left out:
\* it never starts.
WP == INSTANCE AuditWorkerProofs WITH
        Messages <- 1 .. Cardinality(Events), Malformed <- {},
        Unstorable <- Refused, worker <- writer,
        Blocked <- {}, Garbled <- {}, MaxAlertInterruptions <- 0,
        alertBound <- FALSE, alertable <- {}, alerts <- {},
        alerter <- "down", alerting <- 0, handled <- FALSE, raised <- {},
        alertCount <- 0

\* The constants are as the writer's proofs assume.
LEMMA WriterConstants == WP!WriterAssumption /\ WP!AlertAssumption
<1>1. Cardinality(Events) \in Nat
  BY PipelineAssumption, FS_CardinalityType
<1>2. QED
  BY <1>1, PipelineAssumption DEF WP!WriterAssumption, WP!AlertAssumption

\* The writer of the pipeline is AuditWriter's.
LEMMA InitWriter == PipelineInit => WP!IInv
<1>1. WP!Init => WP!IInv
  BY WriterConstants, WP!InitIInv DEF WP!WriterAssumption, WP!AlertAssumption
<1>2. QED
  BY <1>1 DEF PipelineInit, W!Init, WP!Init

\* A sequence that has no event twice is no longer than the events are many.
LEMMA NoLongerThanEvents ==
    ASSUME NEW s \in Seq(Events), \A x \in Events : ~Before(s, x, x)
    PROVE  Len(s) <= Cardinality(Events)
<1>1. s \in [1 .. Len(s) -> Events] /\ Len(s) \in Nat
  OBVIOUS
<1>2. \A i, j \in 1 .. Len(s) : s[i] = s[j] => i = j
  <2>1. ASSUME NEW i \in 1 .. Len(s), NEW j \in 1 .. Len(s), s[i] = s[j], i < j
        PROVE  FALSE
    <3>1. s[i] \in Events /\ Before(s, s[i], s[i])
      BY <1>1, <2>1 DEF Before
    <3>2. QED
      BY <3>1
  <2>2. QED
    BY <1>1, <2>1
<1>3. s \in Injection(1 .. Len(s), Events)
  BY <1>1, <1>2 DEF Injection, IsInjective
<1>4. Cardinality(1 .. Len(s)) <= Cardinality(Events)
  BY <1>3, PipelineAssumption, FS_Injection
<1>5. Cardinality(1 .. Len(s)) = Len(s)
  <2> DEFINE n == Len(s)
             c == Cardinality(1 .. n)
  <2>1. n \in Nat /\ 1 \in Int /\ n \in Int
    BY <1>1
  <2> HIDE DEF n
  <2>2. c = IF 1 > n THEN 0 ELSE n - 1 + 1
    BY <2>1, FS_Interval
  <2> HIDE DEF c
  <2>3. c = n
    BY <2>1, <2>2
  <2>4. QED
    BY <2>3 DEF c, n
<1>6. QED
  BY <1>4, <1>5

\* There is a message for every event that arrives.
LEMMA ArrivalHasMessage ==
    ASSUME PublisherInv, WireInv, Arrive
    PROVE  Len(arrived) + 1 \in 1 .. Cardinality(Events)
<1>1. transit # <<>> /\ transit \in Seq(Events) /\ arrived \in Seq(Events)
  BY DEF Arrive, WireInv, WireTyped
<1> DEFINE h == Head(transit)
           s == Append(arrived, h)
<1>2. h \in Events /\ h \in Elements(transit)
  BY <1>1, Left
<1> HIDE DEF h
<1>3. /\ s \in Seq(Events)
      /\ \A x, y : Before(s, x, y) <=>
            Before(arrived, x, y) \/ (x \in Elements(arrived) /\ y = h)
  BY <1>1, <1>2, Joined
<1>4. Len(s) = Len(arrived) + 1 /\ Len(arrived) \in Nat
  BY <1>1, <1>2
<1>5. \A x \in Events : ~Before(wire, x, x)
  BY PartsNow DEF PublisherInv, TypeOK, OnwardParts, Conserved
<1> HIDE DEF s
<1>6. \A x \in Events : ~Before(s, x, x)
  BY <1>2, <1>3, <1>5 DEF WireInv, InOrder
<1>7. Len(s) <= Cardinality(Events)
  BY <1>3, <1>6, NoLongerThanEvents
<1>8. Cardinality(Events) \in Nat
  BY PipelineAssumption, FS_CardinalityType
<1>9. QED
  BY <1>4, <1>7, <1>8

\* Every step of the pipeline is one of the writer, or none.
LEMMA WriterStep ==
    PublisherInv /\ WireInv /\ [PipelineNext]_pipelineVars
       => [WP!Next]_WP!vars
<1> SUFFICES ASSUME PublisherInv, WireInv, [PipelineNext]_pipelineVars
             PROVE  [WP!Next]_WP!vars
  OBVIOUS
<1>1. CASE UNCHANGED writerVars
  BY <1>1 DEF writerVars, WP!vars, WP!bvars, WP!wvars
<1>2. CASE Arrive
  <2> DEFINE m == Len(arrived) + 1
  <2>1. m \in 1 .. Cardinality(Events)
    BY <1>2, ArrivalHasMessage
  <2>2. W!Publish(m)
    BY <1>2 DEF Arrive
  <2> HIDE DEF m
  <2>3. WP!Publish(m)
    BY <2>2 DEF W!Publish, W!wvars, WP!Publish, WP!wvars
  <2>4. QED
    BY <2>1, <2>3 DEF WP!Next
<1>3. CASE Write
  <2>1. ASSUME NEW m \in 1 .. Cardinality(Events), W!Deliver(m)
        PROVE  WP!Next
    <3>1. WP!Deliver(m)
      BY <2>1 DEF W!Deliver, W!Linked, WP!Deliver, WP!Linked
    <3>2. QED
      BY <3>1 DEF WP!Next
  <2>2. ASSUME NEW m \in 1 .. Cardinality(Events), W!Persist(m)
        PROVE  WP!Next
    <3>1. WP!Persist(m)
      BY <2>2 DEF W!Persist, W!InsertStores, W!InsertConflicts,
         W!InsertFails, W!InsertUnknown, W!Valid, W!Handles, W!bvars,
         WP!Persist, WP!InsertStores, WP!InsertConflicts, WP!InsertFails,
         WP!InsertUnknown, WP!Valid, WP!Handles, WP!bvars
    <3>2. QED
      BY <3>1 DEF WP!Next
  <2>3. W!Start => WP!Start
    BY DEF W!Start, WP!Start
  <2>4. W!Receive => WP!Receive
    BY DEF W!Receive, W!Linked, W!bvars, WP!Receive, WP!Linked, WP!bvars
  <2>5. W!Settle => WP!Settle
    BY DEF W!Settle, W!Linked, WP!Settle, WP!Linked
  <2>6. W!Crash => WP!Crash
    BY DEF W!Crash, W!Interrupt, W!Unacked, W!Linked, W!InHand, W!Elements,
       WP!Crash, WP!Interrupt, WP!Unacked, WP!Linked, WP!InHand, WP!Elements
  <2>7. W!ConnectionLost => WP!ConnectionLost
    BY DEF W!ConnectionLost, W!Interrupt, W!Unacked, W!Linked, W!InHand,
       W!Elements, WP!ConnectionLost, WP!Interrupt, WP!Unacked, WP!Linked,
       WP!InHand, WP!Elements
  <2>8. W!StopBegins => WP!StopBegins
    BY DEF W!StopBegins, W!Interrupt, W!bvars, WP!StopBegins, WP!Interrupt,
       WP!bvars
  <2>9. W!StopEnds => WP!StopEnds
    BY DEF W!StopEnds, W!Unacked, W!Linked, W!InHand, W!Elements, WP!StopEnds,
       WP!Unacked, WP!Linked, WP!InHand, WP!Elements
  <2>10. W!StopDeaf => WP!StopDeaf
    BY DEF W!StopDeaf, W!bvars, WP!StopDeaf, WP!bvars
  <2>11. QED
    BY <1>3, <2>1, <2>2, <2>3, <2>4, <2>5, <2>6, <2>7, <2>8, <2>9, <2>10
       DEF Write, WP!Next
<1>4. QED
  BY <1>1, <1>2, <1>3
     DEF PipelineNext, Serve, EndShutdown, Kill, Dispatch, Exit, LoseLink,
         pipelineVars

\* So the writer's inductive invariant holds in the pipeline.
LEMMA WriterInductive == PipelineSpec => []WP!IInv
<1>1. WP!IInv /\ [WP!Next]_WP!vars => WP!IInv'
  BY WriterConstants, WP!NextIInv DEF WP!WriterAssumption, WP!AlertAssumption
<1>2. QED
  BY <1>1, InitWriter, WriterStep, ProcessInductive, PTL DEF PipelineSpec

-----------------------------------------------------------------------------
(* The whole.                                                              *)

\* What state the server is in.
ServerTyped == server \in {"serving", "draining", "down", "killed"}

\* The variables of the pipeline keep their types, for any events and any
\* interruptions.
THEOREM PipelineTypeCorrect == PipelineSpec => []PipelineTypeOK
<1>1. ASSUME PublisherInv, QuietInv, WireInv, RoutingInv, WP!IInv,
             ServerTyped
      PROVE  PipelineTypeOK
  <2>1. STypeOK
    BY <1>1 DEF STypeOK, PublisherInv, QuietInv, ServerTyped
  <2>2. W!TypeOK
    BY <1>1 DEF WP!IInv, WP!TypeOK, W!TypeOK
  <2>3. QED
    BY <1>1, <2>1, <2>2 DEF PipelineTypeOK, WireInv, WireTyped, RoutingInv
<1>2. PipelineInit => ServerTyped
  BY DEF PipelineInit, SInit, ServerTyped
<1>3. ServerTyped /\ [PipelineNext]_pipelineVars => ServerTyped'
  BY DEF ServerTyped, PipelineNext, Serve, Accept, HandlerPublishes, HandlerReturns, Signal,
     EndShutdown, ShutdownReturns, ShutdownTimesOut, Kill, Dispatch,
     WorkerRuns, Exit, DeferredClose, Arrive, LoseLink, Write, pipelineVars,
     pvars, svars
<1>4. QED
  BY <1>1, <1>2, <1>3, ProcessInductive, RoutingInductive, WriterInductive, PTL
     DEF PipelineSpec

\* When main has returned, every accepted event is a row or on its way to one,
\* but for those whose send failed, that went down with the connection, or
\* that came before the first worker: for any number of handlers in flight,
\* any buffer and any interruptions of the worker.
THEOREM ExitDelivers == PipelineSpec => []GracefulExitDelivers
<1>1. ASSUME PublisherInv, WireInv, RoutingInv, WP!IInv,
             closing = "returned", NEW e \in Accepted
      PROVE  \/ e \in lost \cup vanished
             \/ Unrouted(e)
             \/ \E k \in MessagesOf(e) : k \in W!InBroker \cup rows
  <2>1. worker = "stopped" /\ queue = <<>> /\ holding = NoEvent
        /\ transit = <<>>
    BY <1>1 DEF PublisherInv, FlushInv, WireInv, ClosedIsEmpty
  <2>2. Elements(wire) = Accepted \ lost
    <3>1. OnwardParts
      BY <1>1, PartsNow DEF PublisherInv, TypeOK
    <3>2. Elements(Onward) = Elements(wire)
      BY <2>1, <3>1, Nothing DEF OnwardParts, InHand, Hand
    <3>3. QED
      BY <1>1, <3>2 DEF PublisherInv, Conserved
  <2>3. Elements(wire) = vanished \cup Elements(arrived)
    BY <1>1, <2>1, Nothing DEF WireInv, SentSomewhere
  <2>4. CASE e \in lost \cup vanished
    BY <2>4
  <2>5. CASE e \in Elements(arrived)
    <3>1. PICK k \in DOMAIN arrived : arrived[k] = e
      BY <2>5 DEF Elements
    <3>2. k \in MessagesOf(e)
      BY <3>1 DEF MessagesOf
    <3>3. k \in routed => k \in W!InBroker \cup rows
      <4>1. dlq = {}
        BY <1>1 DEF WP!IInv, WP!Sorted
      <4>2. routed = WP!InBroker \cup rows \cup dlq
        BY <1>1 DEF WP!IInv, WP!NothingLost
      <4>3. WP!InBroker = W!InBroker
        BY DEF WP!InBroker, WP!Unacked, WP!Linked, WP!InHand, WP!Elements,
           W!InBroker, W!Unacked, W!Linked, W!InHand, W!Elements
      <4>4. QED
        BY <4>1, <4>2, <4>3
    <3>4. QED
      BY <3>2, <3>3 DEF Unrouted
  <2>6. QED
    BY <1>1, <2>2, <2>3, <2>4, <2>5
<1>2. PublisherInv /\ WireInv /\ RoutingInv /\ WP!IInv => GracefulExitDelivers
  BY <1>1 DEF GracefulExitDelivers
<1>3. QED
  BY <1>2, ProcessInductive, RoutingInductive, WriterInductive, PTL

-----------------------------------------------------------------------------
(* The parts in the whole.                                                 *)

\* The pipeline uses the publisher as it is: whatever main, the connection and
\* the worker do, its variables change as AuditPublisher says.
THEOREM PublisherImplemented == PipelineSpec => Spec
<1>1. PipelineInit => Init
  BY DEF PipelineInit, SInit
<1>2. QED
  BY <1>1, PublisherStep, PTL DEF PipelineSpec, Spec

\* So in the process, too, accepted events are conserved and flushed.
THEOREM PublisherKept == PipelineSpec => [](Conserved /\ EarlyFlushed)
  BY PublisherImplemented, AcceptedConserved, CloseFlushes, PTL

\* The events the broker gets, numbered in the order of their arrival, are
\* messages as AuditWriter has them: there are never more than events, none is
\* published twice, and the writer does with them what it does.
THEOREM WriterImplemented == PipelineSpec => WP!Spec
<1>1. PipelineInit => WP!Init
  BY DEF PipelineInit, W!Init, WP!Init
<1>2. QED
  BY <1>1, WriterStep, ProcessInductive, PTL DEF PipelineSpec, WP!Spec

\* So the whole pipeline implements the audit trail: from the moment the
\* broker routes an event it is outstanding until it is stored, once, and is
\* then stored for good.
THEOREM PipelineTrail == PipelineSpec => WP!ImplementsTrail
<1>1. WP!Spec => WP!ImplementsTrail
  BY WriterConstants, WP!TrailImplemented DEF WP!WriterAssumption, WP!AlertAssumption
<1>2. QED
  BY <1>1, WriterImplemented

-----------------------------------------------------------------------------
(* How much is left to do when the signal has come.                        *)

\* The handlers that have not come to Publish yet, and those that are past its
\* check.
Undecided == {e \in Running : call[e] = "new"}

Deciding == {e \in Running : call[e] = "checked"}

\* What the handlers still have to do: an event costs a check and a place in
\* the buffer, which is then to be emptied, and every handler returns.
Busy ==
    Cardinality(Running) + 5 * Cardinality(Deciding) + 6 * Cardinality(Undecided)

LinkLoad == IF link = "up" THEN 1 ELSE 0

\* What is on its way to the broker: an event in the buffer is taken, sent and
\* arrives.
Flow == 3 * Len(queue) + 2 * HandLoad + Len(transit) + LinkLoad

\* What main still has to do.
MainStage ==
    CASE server = "draining" -> 3
      [] server = "down" /\ closing = "no" -> 2
      [] server = "down" /\ closing = "waiting" -> 1
      [] OTHER -> 0

\* The steps the proxy and its connection can still take.
Leaving == Busy + Flow + WorkerStage + MainStage

\* From the signal on every step of the proxy process or of its connection is
\* one of those.
ExitBounded ==
    [][server # "serving" =>
          UNCHANGED <<pvars, lvars>> \/ Leaving' < Leaving]_pipelineVars

\* Close has begun exactly when the publisher is done.
MainInv ==
    /\ closing \in {"no", "waiting", "returned"}
    /\ isDone <=> closing # "no"
    /\ server \in {"serving", "draining", "down", "killed"}

\* The initial state satisfies it.
LEMMA InitMain == PipelineInit => MainInv
<1> SUFFICES ASSUME PipelineInit PROVE MainInv
  OBVIOUS
<1>1. closing = "no" /\ ~isDone /\ server = "serving"
  BY DEF PipelineInit, SInit, Init
<1>2. QED
  BY <1>1 DEF MainInv

\* Every step preserves it.
LEMMA NextMain == MainInv /\ [PipelineNext]_pipelineVars => MainInv'
<1> SUFFICES ASSUME MainInv, [PipelineNext]_pipelineVars PROVE MainInv'
  OBVIOUS
<1>1. /\ \/ UNCHANGED <<closing, isDone>>
         \/ closing' = "waiting" /\ isDone'
         \/ closing = "waiting" /\ closing' = "returned" /\ UNCHANGED isDone
      /\ server' \in {server, "serving", "draining", "down", "killed"}
  <2>1. CASE Serve
    BY <2>1 DEF Serve, Accept, HandlerPublishes, HandlerReturns, Signal, Publish,
       CheckOpen, Enqueue, Drop, vars, svars
  <2>2. CASE EndShutdown \/ Kill
    BY <2>2 DEF EndShutdown, ShutdownReturns, ShutdownTimesOut, Kill, vars
  <2>3. CASE Dispatch
    BY <2>3 DEF Dispatch, WorkerRuns, Work, Take, Send, SendFails, SeeClosed,
       Stop, svars
  <2>4. CASE Exit
    BY <2>4 DEF Exit, DeferredClose, CloseBegins, CloseReturns, svars
  <2>5. CASE Arrive \/ LoseLink \/ Write \/ UNCHANGED pipelineVars
    BY <2>5 DEF Arrive, LoseLink, Write, pipelineVars, pvars, vars, svars
  <2>6. QED
    BY <2>1, <2>2, <2>3, <2>4, <2>5 DEF PipelineNext
<1>2. QED
  BY <1>1 DEF MainInv

\* The counts are numbers.
LEMMA LeavingCounts ==
    ASSUME PublisherInv, WireInv
    PROVE  /\ IsFiniteSet(Running) /\ Cardinality(Running) \in Nat
           /\ IsFiniteSet(Deciding) /\ Cardinality(Deciding) \in Nat
           /\ IsFiniteSet(Undecided) /\ Cardinality(Undecided) \in Nat
           /\ Busy \in Nat /\ Flow \in Nat /\ WorkerStage \in Nat
           /\ MainStage \in Nat /\ Leaving \in Nat
<1>1. IsFiniteSet(Running) /\ Cardinality(Running) \in Nat
  BY PipelineAssumption, FS_Subset, FS_CardinalityType DEF Running
<1>2. IsFiniteSet(Deciding) /\ Cardinality(Deciding) \in Nat
  BY <1>1, FS_Subset, FS_CardinalityType DEF Deciding
<1>3. IsFiniteSet(Undecided) /\ Cardinality(Undecided) \in Nat
  BY <1>1, FS_Subset, FS_CardinalityType DEF Undecided
<1>4. Busy \in Nat
  BY <1>1, <1>2, <1>3 DEF Busy
<1>5. Len(queue) \in Nat /\ HandLoad \in Nat /\ WorkerStage \in Nat
  BY EffortCounts DEF PublisherInv
<1>6. Len(transit) \in Nat /\ LinkLoad \in Nat
  BY DEF WireInv, WireTyped, LinkLoad
<1>7. Flow \in Nat
  BY <1>5, <1>6 DEF Flow
<1>8. MainStage \in Nat
  BY DEF MainStage
<1>9. Leaving \in Nat
  BY <1>4, <1>5, <1>7, <1>8 DEF Leaving
<1>10. QED
  BY <1>1, <1>2, <1>3, <1>4, <1>5, <1>7, <1>8, <1>9

\* A handler's step.
LEMMA ServeSpends ==
    ASSUME PublisherInv, QuietInv, WireInv, server # "serving", Serve
    PROVE  Leaving' < Leaving
<1>1. /\ IsFiniteSet(Running) /\ Cardinality(Running) \in Nat
      /\ IsFiniteSet(Deciding) /\ Cardinality(Deciding) \in Nat
      /\ IsFiniteSet(Undecided) /\ Cardinality(Undecided) \in Nat
      /\ Busy \in Nat /\ Flow \in Nat /\ WorkerStage \in Nat
      /\ MainStage \in Nat
  BY LeavingCounts
<1>2. ASSUME NEW e \in Events, HandlerPublishes(e), CheckOpen(e)
      PROVE  Leaving' < Leaving
  <2>1. ~isDone /\ e \in Running /\ call[e] = "new"
        /\ call' = [call EXCEPT ![e] = "checked"]
        /\ UNCHANGED <<queue, worker, holding, closing, server, handler, lvars>>
    <3>1. e \in Running
      BY <1>2 DEF HandlerPublishes
    <3>2. ~isDone
      BY <3>1 DEF QuietInv, ClosedIsQuiet
    <3>3. QED
      BY <1>2, <3>1, <3>2 DEF HandlerPublishes, CheckOpen, Serve, svars
  <2>2. /\ Running' = Running
        /\ Undecided' = Undecided \ {e} /\ e \in Undecided
        /\ Deciding' = Deciding \cup {e} /\ e \notin Deciding
    BY <2>1 DEF Running, Undecided, Deciding, QuietInv
  <2>3. Cardinality(Undecided') = Cardinality(Undecided) - 1
    BY <1>1, <2>2, OneLess
  <2>4. Cardinality(Deciding') = Cardinality(Deciding) + 1
    BY <1>1, <2>2, FS_AddElement
  <2>5. Busy' = Busy - 1
    BY <1>1, <2>2, <2>3, <2>4 DEF Busy
  <2>6. Flow' = Flow /\ WorkerStage' = WorkerStage /\ MainStage' = MainStage
    BY <2>1 DEF Flow, HandLoad, LinkLoad, WorkerStage, MainStage, lvars
  <2>7. QED
    BY <1>1, <2>5, <2>6 DEF Leaving
<1>3. ASSUME NEW e \in Events, HandlerPublishes(e), Enqueue(e) \/ Drop(e)
      PROVE  Leaving' < Leaving
  <2>1. /\ e \in Running /\ call[e] = "checked"
        /\ UNCHANGED <<worker, closing, server, handler, link, transit>>
        /\ \E to \in {"accepted", "dropped"} : call' = [call EXCEPT ![e] = to]
    BY <1>3 DEF HandlerPublishes, Enqueue, Drop, Serve, svars, lvars
  <2>2. /\ Running' = Running /\ Undecided' = Undecided
        /\ Deciding' = Deciding \ {e} /\ e \in Deciding
    BY <2>1 DEF Running, Undecided, Deciding, QuietInv
  <2>3. Cardinality(Deciding') = Cardinality(Deciding) - 1
    BY <1>1, <2>2, OneLess
  <2>4. /\ Len(queue') = Len(queue) \/ Len(queue') = Len(queue) + 1
        /\ HandLoad' = HandLoad /\ WorkerStage' = WorkerStage
    BY <1>3, PublishSpends DEF PublisherInv
  <2>5. Busy' = Busy - 5
    BY <1>1, <2>2, <2>3 DEF Busy
  <2>6. LinkLoad' = LinkLoad /\ Len(transit') = Len(transit) /\ MainStage' = MainStage
    BY <2>1 DEF LinkLoad, MainStage
  <2>7. Flow' = Flow \/ Flow' = Flow + 3
    <3>1. Len(queue) \in Nat /\ HandLoad \in Nat
      BY EffortCounts DEF PublisherInv
    <3>2. Len(transit) \in Nat /\ LinkLoad \in Nat
      BY DEF WireInv, WireTyped, LinkLoad
    <3>3. QED
      BY <2>4, <2>6, <3>1, <3>2 DEF Flow
  <2>8. QED
    BY <1>1, <2>4, <2>5, <2>6, <2>7 DEF Leaving
<1>4. ASSUME NEW e \in Events, HandlerReturns(e) PROVE Leaving' < Leaving
  <2>1. /\ e \in Running /\ call[e] # "checked"
        /\ handler' = [handler EXCEPT ![e] = "returned"]
        /\ UNCHANGED <<call, queue, worker, holding, closing, server, lvars>>
    BY <1>4 DEF HandlerReturns, Serve, vars
  <2>2. /\ Running' = Running \ {e}
        /\ Undecided' = Undecided \ {e}
        /\ Deciding' = Deciding
    <3>1. Running' = Running \ {e}
      BY <2>1 DEF Running, QuietInv
    <3>2. call' = call
      BY <2>1
    <3>3. QED
      BY <2>1, <3>1, <3>2 DEF Undecided, Deciding
  <2>3. Cardinality(Running') = Cardinality(Running) - 1
    BY <1>1, <2>1, <2>2, OneLess
  <2>4. Cardinality(Undecided') \in Nat /\ Cardinality(Undecided') <= Cardinality(Undecided)
    BY <1>1, <2>2, NoMore
  <2>5. \E d \in Nat \ {0} : Busy' = Busy - d
    <3>1. Cardinality(Deciding') = Cardinality(Deciding)
      BY <2>2
    <3> DEFINE d == 1 + 6 * (Cardinality(Undecided) - Cardinality(Undecided'))
    <3>2. d \in Nat \ {0}
      BY <1>1, <2>4
    <3>3. Busy' = Busy - d
      BY <1>1, <2>3, <2>4, <3>1 DEF Busy
    <3>4. QED
      BY <3>2, <3>3
  <2>6. Flow' = Flow /\ WorkerStage' = WorkerStage /\ MainStage' = MainStage
    BY <2>1 DEF Flow, HandLoad, LinkLoad, WorkerStage, MainStage, lvars
  <2>7. QED
    BY <1>1, <2>5, <2>6 DEF Leaving
<1>5. QED
  BY <1>2, <1>3, <1>4 DEF Serve, Accept, Signal, HandlerPublishes, Publish

\* The handlers do nothing.
LEMMA BusyUnchanged ==
    ASSUME UNCHANGED <<call, handler>>
    PROVE  Busy' = Busy
<1>1. Running' = Running
  BY DEF Running
<1>2. Undecided' = Undecided /\ Deciding' = Deciding
  BY <1>1 DEF Undecided, Deciding
<1>3. QED
  BY <1>1, <1>2 DEF Busy

\* A step of the publisher's worker: a sent event is on the connection.
LEMMA DispatchSpends ==
    ASSUME PublisherInv, WireInv, Dispatch
    PROVE  Leaving' < Leaving
<1>1. /\ Busy \in Nat /\ WorkerStage \in Nat /\ MainStage \in Nat
      /\ Len(queue) \in Nat /\ HandLoad \in Nat
      /\ Len(transit) \in Nat /\ LinkLoad \in Nat
  BY LeavingCounts, EffortCounts DEF PublisherInv, WireInv, WireTyped, LinkLoad
<1>2. /\ Work /\ UNCHANGED <<server, handler, link>>
      /\ IF wire' = wire
         THEN UNCHANGED transit
         ELSE transit' = Append(transit, holding)
  BY DEF Dispatch, WorkerRuns, svars
<1>3. WorkDone /\ UNCHANGED <<call, closing>>
  BY <1>2, WorkSpends DEF PublisherInv
<1>4. Busy' = Busy /\ MainStage' = MainStage /\ LinkLoad' = LinkLoad
  BY <1>2, <1>3, BusyUnchanged DEF MainStage, LinkLoad
<1>5. \/ Len(transit') = Len(transit)
      \/ /\ Len(transit') = Len(transit) + 1
         /\ HandLoad = 1 /\ HandLoad' = 0
  <2>1. CASE wire' = wire
    BY <1>2, <2>1
  <2>2. CASE wire' # wire
    <3>1. Send
      BY <1>2, <2>2 DEF Work, Take, SendFails, SeeClosed, Stop
    <3>2. holding \in Events /\ holding # NoEvent /\ holding' = NoEvent
      BY <3>1 DEF Send, PublisherInv, TypeOK
    <3>3. Len(transit') = Len(transit) + 1
      BY <1>2, <2>2, <3>2 DEF WireInv, WireTyped
    <3>4. QED
      BY <3>2, <3>3 DEF HandLoad
  <2>3. QED
    BY <2>1, <2>2
<1>6. \/ Flow' = Flow - 1 /\ WorkerStage' = WorkerStage
      \/ Flow' = Flow - 2 /\ WorkerStage' = WorkerStage
      \/ Flow' = Flow /\ WorkerStage' = WorkerStage - 1
  <2>1. CASE /\ Len(queue') = Len(queue) - 1
             /\ HandLoad = 0 /\ HandLoad' = 1 /\ WorkerStage' = WorkerStage
    <3>1. Len(transit') = Len(transit)
      BY <1>5, <2>1
    <3>2. Flow' = Flow - 1
      BY <1>1, <1>4, <2>1, <3>1 DEF Flow
    <3>3. QED
      BY <2>1, <3>2
  <2>2. CASE /\ Len(queue') = Len(queue)
             /\ HandLoad = 1 /\ HandLoad' = 0 /\ WorkerStage' = WorkerStage
    <3>1. CASE Len(transit') = Len(transit)
      <4>1. Flow' = Flow - 2
        BY <1>1, <1>4, <2>2, <3>1 DEF Flow
      <4>2. QED
        BY <2>2, <4>1
    <3>2. CASE Len(transit') = Len(transit) + 1
      <4>1. Flow' = Flow - 1
        BY <1>1, <1>4, <2>2, <3>2 DEF Flow
      <4>2. QED
        BY <2>2, <4>1
    <3>3. QED
      BY <1>5, <3>1, <3>2
  <2>3. CASE /\ Len(queue') = Len(queue)
             /\ HandLoad' = HandLoad /\ WorkerStage' = WorkerStage - 1
    <3>1. Len(transit') = Len(transit)
      BY <1>5, <2>3
    <3>2. Flow' = Flow
      BY <1>4, <2>3, <3>1 DEF Flow
    <3>3. QED
      BY <2>3, <3>2
  <2>4. QED
    BY <1>3, <2>1, <2>2, <2>3 DEF WorkDone
<1>7. Flow \in Nat
  BY <1>1 DEF Flow
<1>8. QED
  BY <1>1, <1>4, <1>6, <1>7 DEF Leaving

\* A step of main, or the death of the process.
LEMMA MainSpends ==
    ASSUME PublisherInv, WireInv, QuietInv, MainInv, server # "serving",
           EndShutdown \/ Exit \/ Kill
    PROVE  Leaving' < Leaving
<1>1. Busy \in Nat /\ Flow \in Nat /\ WorkerStage \in Nat /\ MainStage \in Nat
  BY LeavingCounts
<1>2. UNCHANGED <<call, queue, worker, holding, handler, link, transit>>
  BY DEF EndShutdown, ShutdownReturns, ShutdownTimesOut, Exit, DeferredClose,
     CloseBegins, CloseReturns, Kill, vars, svars, lvars
<1>3. Busy' = Busy /\ Flow' = Flow /\ WorkerStage' = WorkerStage
  BY <1>2, BusyUnchanged DEF Flow, HandLoad, LinkLoad, WorkerStage
<1>4. \E d \in 1 .. 3 : MainStage' = MainStage - d
  <2>1. CASE ShutdownReturns \/ ShutdownTimesOut
    <3>1. /\ server = "draining" /\ server' \in {"down", "killed"}
          /\ UNCHANGED closing
      BY <2>1 DEF ShutdownReturns, ShutdownTimesOut, vars
    <3>2. MainStage = 3 /\ MainStage' \in {0, 1, 2}
      BY <3>1 DEF MainStage
    <3>3. QED
      BY <3>2
  <2>2. CASE DeferredClose
    <3>1. /\ server = "down" /\ server' = "down"
          /\ \/ closing = "no" /\ closing' = "waiting"
             \/ closing = "waiting" /\ closing' = "returned"
      BY <2>2 DEF DeferredClose, CloseBegins, CloseReturns, svars, MainInv
    <3>2. QED
      BY <3>1 DEF MainStage
  <2>3. CASE Kill
    <3>1. /\ server \in {"draining", "down"} /\ server' = "killed"
          /\ closing \in {"no", "waiting"}
      BY <2>3 DEF Kill, Alive, MainInv
    <3>2. MainStage \in {1, 2, 3} /\ MainStage' = 0
      BY <3>1 DEF MainStage
    <3>3. QED
      BY <3>2
  <2>4. QED
    BY <2>1, <2>2, <2>3 DEF EndShutdown, Exit
<1>5. QED
  BY <1>1, <1>3, <1>4 DEF Leaving

\* A step of the connection.
LEMMA LinkSpends ==
    ASSUME PublisherInv, WireInv, Arrive \/ LoseLink
    PROVE  Leaving' < Leaving
<1>1. /\ Busy \in Nat /\ WorkerStage \in Nat /\ MainStage \in Nat
      /\ Len(queue) \in Nat /\ HandLoad \in Nat
      /\ transit \in Seq(Events) /\ Len(transit) \in Nat
  BY LeavingCounts, EffortCounts DEF PublisherInv, WireInv, WireTyped
<1>2. UNCHANGED <<call, queue, worker, holding, closing, server, handler>>
  BY DEF Arrive, LoseLink, pvars, vars, svars
<1>3. /\ Busy' = Busy /\ HandLoad' = HandLoad /\ WorkerStage' = WorkerStage
      /\ MainStage' = MainStage /\ Len(queue') = Len(queue)
  BY <1>2, BusyUnchanged DEF HandLoad, WorkerStage, MainStage
<1>4. CASE Arrive
  <2>1. transit # <<>> /\ transit' = Tail(transit) /\ UNCHANGED link
    BY <1>4 DEF Arrive
  <2>2. Len(transit') = Len(transit) - 1 /\ LinkLoad' = LinkLoad /\ LinkLoad \in Nat
    BY <1>1, <2>1 DEF LinkLoad
  <2>3. Flow \in Nat /\ Flow' = Flow - 1
    BY <1>1, <1>3, <2>2 DEF Flow
  <2>4. QED
    BY <1>1, <1>3, <2>3 DEF Leaving
<1>5. CASE LoseLink
  <2>1. link = "up" /\ link' = "lost" /\ transit' = <<>>
    BY <1>5 DEF LoseLink
  <2>2. Len(transit') = 0 /\ LinkLoad = 1 /\ LinkLoad' = 0
    BY <2>1 DEF LinkLoad
  <2>3. Flow \in Nat /\ Flow' = Flow - (Len(transit) + 1)
    BY <1>1, <1>3, <2>2 DEF Flow
  <2>4. QED
    BY <1>1, <1>3, <2>3 DEF Leaving
<1>6. QED
  BY <1>4, <1>5

\* From the signal on the proxy process and its connection take a bounded
\* number of steps, whatever the worker process does and however they
\* interleave: for any number of handlers in flight and any buffer.
THEOREM ExitIsBounded == PipelineSpec => [](Leaving \in Nat) /\ ExitBounded
<1> DEFINE Spends ==
        server # "serving" => UNCHANGED <<pvars, lvars>> \/ Leaving' < Leaving
<1>1. ASSUME PublisherInv, QuietInv, WireInv, MainInv, [PipelineNext]_pipelineVars
      PROVE  Spends
  <2>1. CASE Serve
    BY <1>1, <2>1, ServeSpends
  <2>2. CASE EndShutdown \/ Exit \/ Kill
    BY <1>1, <2>2, MainSpends
  <2>3. CASE Dispatch
    BY <1>1, <2>3, DispatchSpends
  <2>4. CASE Arrive \/ LoseLink
    BY <1>1, <2>4, LinkSpends
  <2>5. CASE Write \/ UNCHANGED pipelineVars
    BY <2>5 DEF Write, pipelineVars
  <2>6. QED
    BY <1>1, <2>1, <2>2, <2>3, <2>4, <2>5 DEF PipelineNext
<1>2. PublisherInv /\ WireInv => Leaving \in Nat
  BY LeavingCounts
<1> HIDE DEF Spends
<1>3. PipelineSpec => []MainInv
  BY InitMain, NextMain, PTL DEF PipelineSpec
<1>4. PipelineSpec => [][Spends]_pipelineVars
  BY <1>1, <1>3, ProcessInductive, PTL DEF PipelineSpec
<1>5. QED
  BY <1>2, <1>4, ProcessInductive, PTL DEF Spends, ExitBounded
=============================================================================
