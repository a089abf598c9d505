------------------------- MODULE AuditWorkerProofs --------------------------
(***************************************************************************)
(* The audit writer, and the worker process it runs in, for any messages,  *)
(* any prefetch window and any number of interruptions of any kind: no     *)
(* routed event is lost or doubled, the writer implements the audit trail, *)
(* what is shown of it holds in the process, no alert is lost, and every   *)
(* alert has its event in the trail.                                       *)
(***************************************************************************)
EXTENDS AuditWorker, TLAPS

(***************************************************************************)
(* The writer.                                                             *)
(***************************************************************************)

\* The message in hand was routed; it is malformed or waits for a verdict
\* that fits it.
HandSound ==
    /\ current # 0 => current \in routed
    /\ verdict # "none" => current # 0 /\ current \notin Malformed
    /\ AckedIsStored

\* What is not linked has no delivery waiting.
InboxSound == ~Linked => inbox = <<>>

\* Only malformed messages are dead-lettered, and none of them is stored.
Sorted == dlq \subseteq Malformed /\ rows \cap Malformed = {}

\* The inductive invariant.
IInv ==
    /\ TypeOK
    /\ NothingLost
    /\ HandSound
    /\ InboxSound
    /\ Sorted

-----------------------------------------------------------------------------
(* The elements of a sequence that grows at its end and shrinks at its     *)
(* head.                                                                   *)

\* Appending adds one element.
LEMMA AppendElements ==
    ASSUME NEW S, NEW s \in Seq(S), NEW x \in S
    PROVE  Elements(Append(s, x)) = Elements(s) \cup {x}
<1> DEFINE t == Append(s, x)
<1>1. /\ DOMAIN s = 1 .. Len(s)
      /\ DOMAIN t = 1 .. (Len(s) + 1)
      /\ Len(s) \in Nat
      /\ t[Len(s) + 1] = x
      /\ \A i \in 1 .. Len(s) : t[i] = s[i]
  OBVIOUS
<1> HIDE DEF t
<1>2. Elements(t) = Elements(s) \cup {x}
  BY <1>1 DEF Elements
<1>3. QED
  BY <1>2 DEF t

\* A sequence that is not empty has its head and the elements of its tail.
LEMMA TailElements ==
    ASSUME NEW S, NEW s \in Seq(S), s # <<>>
    PROVE  /\ Head(s) \in S
           /\ Tail(s) \in Seq(S)
           /\ Elements(s) = {Head(s)} \cup Elements(Tail(s))
<1> DEFINE t == Tail(s)
<1>1. /\ DOMAIN s = 1 .. Len(s)
      /\ DOMAIN t = 1 .. (Len(s) - 1)
      /\ Len(s) \in Nat \ {0}
      /\ Head(s) = s[1]
      /\ \A i \in 1 .. (Len(s) - 1) : t[i] = s[i + 1]
  OBVIOUS
<1>2. Head(s) \in S /\ t \in Seq(S)
  OBVIOUS
<1> HIDE DEF t
<1>3. Elements(s) = {Head(s)} \cup Elements(t)
  <2>1. ASSUME NEW i \in 1 .. Len(s), i # 1
        PROVE  s[i] \in Elements(t)
    <3>1. i - 1 \in 1 .. (Len(s) - 1) /\ s[i] = t[i - 1]
      BY <1>1, <2>1
    <3>2. QED
      BY <1>1, <3>1 DEF Elements
  <2>2. ASSUME NEW i \in 1 .. (Len(s) - 1)
        PROVE  t[i] \in Elements(s)
    <3>1. i + 1 \in 1 .. Len(s) /\ t[i] = s[i + 1]
      BY <1>1
    <3>2. QED
      BY <1>1, <3>1 DEF Elements
  <2>3. Head(s) \in Elements(s)
    BY <1>1 DEF Elements
  <2>4. Elements(s) \subseteq {Head(s)} \cup Elements(t)
    BY <1>1, <2>1 DEF Elements
  <2>5. Elements(t) \subseteq Elements(s)
    BY <1>1, <2>2 DEF Elements
  <2>6. QED
    BY ONLY <2>3, <2>4, <2>5
<1>4. QED
  BY <1>2, <1>3 DEF t

\* A sequence without repetition.
NoRepeats(s) == \A i, j \in DOMAIN s : s[i] = s[j] => i = j

\* It keeps that when it grows by a new element.
LEMMA AppendNoRepeats ==
    ASSUME NEW S, NEW s \in Seq(S), NEW x \in S, NoRepeats(s),
           x \notin Elements(s)
    PROVE  NoRepeats(Append(s, x))
<1> DEFINE t == Append(s, x)
<1>1. /\ DOMAIN s = 1 .. Len(s)
      /\ DOMAIN t = 1 .. (Len(s) + 1)
      /\ Len(s) \in Nat
      /\ t[Len(s) + 1] = x
      /\ \A i \in 1 .. Len(s) : t[i] = s[i]
  OBVIOUS
<1> HIDE DEF t
<1>2. \A i \in 1 .. Len(s) : s[i] # x
  BY <1>1 DEF Elements
<1>3. NoRepeats(t)
  BY <1>1, <1>2 DEF NoRepeats
<1>4. QED
  BY <1>3 DEF t

\* It keeps that when it loses its head, which its tail does not have.
LEMMA TailNoRepeats ==
    ASSUME NEW S, NEW s \in Seq(S), s # <<>>, NoRepeats(s)
    PROVE  NoRepeats(Tail(s)) /\ Head(s) \notin Elements(Tail(s))
<1> DEFINE t == Tail(s)
<1>1. /\ DOMAIN s = 1 .. Len(s)
      /\ DOMAIN t = 1 .. (Len(s) - 1)
      /\ Len(s) \in Nat \ {0}
      /\ Head(s) = s[1]
      /\ \A i \in 1 .. (Len(s) - 1) : t[i] = s[i + 1]
  OBVIOUS
<1> HIDE DEF t
<1>2. \A i \in 1 .. (Len(s) - 1) : i + 1 \in 1 .. Len(s) /\ i + 1 # 1
  BY <1>1
<1>3. NoRepeats(t)
  BY <1>1, <1>2 DEF NoRepeats
<1>4. Head(s) \notin Elements(t)
  <2>1. \A i \in DOMAIN t : t[i] # s[1]
    BY <1>1, <1>2 DEF NoRepeats
  <2>2. QED
    BY <1>1, <2>1 DEF Elements
<1>5. QED
  BY <1>3, <1>4 DEF t

\* An empty sequence is a sequence of anything and has no element.
LEMMA NoElements == Elements(<<>>) = {} /\ <<>> \in Seq(Messages)
  BY DEF Elements

-----------------------------------------------------------------------------

\* The initial state satisfies the inductive invariant.
LEMMA InitIInv == Init => IInv
<1> SUFFICES ASSUME Init PROVE IInv
  OBVIOUS
<1> USE NoElements DEF Init
<1>1. TypeOK
  BY DEF TypeOK
<1>2. NothingLost
  BY DEF NothingLost, InBroker, Unacked, Linked
<1>3. HandSound /\ InboxSound /\ Sorted
  BY DEF HandSound, AckedIsStored, InboxSound, Sorted
<1>4. QED
  BY <1>1, <1>2, <1>3 DEF IInv

\* Every step preserves the inductive invariant.
LEMMA NextIInv == IInv /\ [Next]_vars => IInv'
<1> SUFFICES ASSUME IInv, [Next]_vars PROVE IInv'
  OBVIOUS
<1> USE WriterAssumption, NoElements
<1> USE DEF IInv, TypeOK, NothingLost, InBroker, Unacked, Linked, InHand,
            HandSound, AckedIsStored, InboxSound, Sorted, bvars, wvars
<1>1. ASSUME NEW m \in Messages, Publish(m) PROVE IInv'
  BY <1>1 DEF Publish
<1>2. ASSUME NEW m \in Messages, Deliver(m) PROVE IInv'
  <2>1. inbox' \in Seq(Messages) /\ Elements(inbox') = Elements(inbox) \cup {m}
    BY <1>2, AppendElements DEF Deliver
  <2>2. QED
    BY <1>2, <2>1 DEF Deliver
<1>3. ASSUME NEW m \in Messages, Reject(m) PROVE IInv'
  BY <1>3 DEF Reject, Handles
<1>4. ASSUME NEW m \in Messages, Persist(m) PROVE IInv'
  <2>1. /\ current = m /\ m # 0 /\ m \notin Malformed /\ verdict = "none"
        /\ UNCHANGED <<bvars, inbox, current, worker>>
        /\ count' \in Nat
        /\ \/ rows' = rows /\ verdict' = "requeue"
           \/ rows' = rows \cup {m} /\ verdict' \in {"ack", "requeue"}
    BY <1>4 DEF Persist, InsertStores, InsertConflicts, InsertFails,
       InsertUnknown, Valid, Handles
  <2>2. TypeOK'
    BY <2>1
  <2>3. NothingLost'
    BY <2>1
  <2>4. HandSound'
    <3>1. AckedIsStored'
      BY <2>1
    <3>2. QED
      BY <2>1, <3>1
  <2>5. InboxSound'
    BY <2>1
  <2>6. Sorted'
    <3>1. dlq' = dlq /\ rows' \subseteq rows \cup {m}
      BY <2>1
    <3>2. QED
      BY <2>1, <3>1
  <2>7. QED
    BY ONLY <2>2, <2>3, <2>4, <2>5, <2>6 DEF IInv
<1>5. ASSUME Start PROVE IInv'
  BY <1>5 DEF Start
<1>6. ASSUME Receive PROVE IInv'
  <2>1. /\ current' \in Messages
        /\ inbox' \in Seq(Messages)
        /\ Elements(inbox) = {current'} \cup Elements(inbox')
    BY <1>6, TailElements DEF Receive
  <2>2. QED
    BY <1>6, <2>1 DEF Receive
<1>7. ASSUME Settle PROVE IInv'
  BY <1>7 DEF Settle
<1>8. ASSUME Crash PROVE IInv'
  <2>1. count' \in Nat
    BY <1>8 DEF Crash, Interrupt
  <2>2. TypeOK'
    BY <1>8, <2>1 DEF Crash
  <2>3. QED
    BY <1>8, <2>2 DEF Crash
<1>9. ASSUME ConnectionLost PROVE IInv'
  <2>1. count' \in Nat
    BY <1>9 DEF ConnectionLost, Interrupt
  <2>2. TypeOK'
    BY <1>9, <2>1 DEF ConnectionLost
  <2>3. QED
    BY <1>9, <2>2 DEF ConnectionLost
<1>10. ASSUME StopBegins PROVE IInv'
  BY <1>10 DEF StopBegins, Interrupt
<1>11. ASSUME StopEnds PROVE IInv'
  BY <1>11 DEF StopEnds
<1>12. ASSUME StopDeaf PROVE IInv'
  <2>1. count' \in Nat
    BY <1>12 DEF StopDeaf
  <2>2. TypeOK'
    BY <1>12, <2>1 DEF StopDeaf
  <2>3. QED
    BY <1>12, <2>2 DEF StopDeaf
<1>13. CASE UNCHANGED vars
  BY <1>13 DEF vars
<1>14. QED
  BY <1>1, <1>2, <1>3, <1>4, <1>5, <1>6, <1>7, <1>8, <1>9, <1>10, <1>11,
     <1>12, <1>13 DEF Next

\* The inductive invariant holds in every reachable state.
LEMMA Inductive == Spec => []IInv
  BY InitIInv, NextIInv, PTL DEF Spec

\* The variables keep their types, for every value of the constants.
THEOREM TypeCorrect == Spec => []TypeOK
<1>1. IInv => TypeOK
  BY DEF IInv
<1>2. QED
  BY <1>1, Inductive, PTL

\* No routed event is ever lost, for every value of the constants: it is
\* with the broker, in the table or in the dead-letter queue.
THEOREM NeverLost == Spec => []NothingLost
<1>1. IInv => NothingLost
  BY DEF IInv
<1>2. QED
  BY <1>1, Inductive, PTL

-----------------------------------------------------------------------------
(* One place for every message.                                            *)

\* A process that is down has nothing in hand.
DownIsEmpty == worker = "down" => current = 0

\* The inductive invariant of OnePlace, beside IInv.
PlaceInv == DownIsEmpty /\ OnePlace

\* The number of deliveries the writer holds.
Held == Len(inbox) + (IF current = 0 THEN 0 ELSE 1)

\* At the start there is nothing to be in two places.
LEMMA InitPlace == Init => PlaceInv
<1> SUFFICES ASSUME Init PROVE PlaceInv
  OBVIOUS
<1>1. Len(inbox) = 0 /\ DOMAIN inbox = {} /\ Unacked = {}
  BY DEF Init, Unacked, Linked
<1>2. QED
  BY <1>1, WriterAssumption DEF Init, PlaceInv, DownIsEmpty, OnePlace, Linked

\* A step that takes deliveries away, or leaves them, and puts back nothing
\* that is still held.
LEMMA FewerHeld ==
    ASSUME PlaceInv, Prefetch \in Nat, inbox \in Seq(Messages),
           \/ inbox' = inbox /\ current' \in {current, 0}
           \/ inbox' = <<>> /\ current' \in {current, 0}
    PROVE  /\ Held' <= Prefetch
           /\ NoRepeats(inbox)'
<1> USE DEF PlaceInv, OnePlace, Held, NoRepeats
<1>1. Len(inbox) \in Nat /\ Len(<<>>) = 0 /\ DOMAIN <<>> = {}
  OBVIOUS
<1>2. CASE inbox' = inbox
  BY <1>1, <1>2
<1>3. CASE inbox' = <<>>
  BY <1>1, <1>3, WriterAssumption
<1>4. QED
  BY <1>2, <1>3

\* Every step leaves each message in one place.
LEMMA NextPlace == IInv /\ PlaceInv /\ [Next]_vars => PlaceInv'
<1> SUFFICES ASSUME IInv, PlaceInv, [Next]_vars PROVE PlaceInv'
  OBVIOUS
<1>1. /\ TypeOK /\ inbox \in Seq(Messages) /\ Prefetch \in Nat \ {0}
      /\ Messages \subseteq Nat \ {0}
  BY WriterAssumption DEF IInv, TypeOK
<1>2. Elements(inbox) \subseteq Messages
  BY <1>1 DEF Elements
<1>3. /\ DownIsEmpty /\ Held <= Prefetch /\ NoRepeats(inbox)
      /\ ready \cap Unacked = {}
      /\ Linked => current \notin Elements(inbox)
  BY DEF PlaceInv, OnePlace, Held, NoRepeats
<1>4. ASSUME DownIsEmpty', Held' <= Prefetch, NoRepeats(inbox)',
             ready' \cap Unacked' = {},
             Linked' => current' \notin Elements(inbox')
      PROVE  PlaceInv'
  BY <1>4 DEF PlaceInv, OnePlace, Held, NoRepeats
<1>5. CASE UNCHANGED <<ready, inbox, current, worker>>
  BY <1>3, <1>5, <1>4 DEF DownIsEmpty, Held, NoRepeats, Unacked, Linked, InHand
<1>6. ASSUME NEW m \in Messages, Publish(m) PROVE PlaceInv'
  <2>1. m \notin Unacked
    BY <1>6 DEF Publish, IInv, TypeOK, NothingLost, InBroker
  <2>2. UNCHANGED <<inbox, current, worker, Unacked, Linked>>
        /\ ready' \subseteq ready \cup {m}
    BY <1>6 DEF Publish, wvars, Unacked, Linked, InHand
  <2>3. QED
    BY <1>3, <1>4, <2>1, <2>2 DEF DownIsEmpty, Held, NoRepeats
<1>7. ASSUME NEW m \in Messages, Deliver(m) PROVE PlaceInv'
  <2>1. /\ inbox' = Append(inbox, m) /\ ready' = ready \ {m} /\ m \in ready
        /\ UNCHANGED <<current, worker, Linked>> /\ Linked
    BY <1>7 DEF Deliver, Linked
  <2>2. m \notin Elements(inbox) /\ m # current
    BY <1>1, <1>3, <2>1 DEF Unacked, InHand
  <2>3. NoRepeats(inbox') /\ Elements(inbox') = Elements(inbox) \cup {m}
    BY <1>1, <1>3, <2>1, <2>2, AppendNoRepeats, AppendElements
  <2>4. Held' <= Prefetch
    <3>1. Len(inbox') = Len(inbox) + 1 /\ Len(inbox) \in Nat
      BY <1>1, <2>1
    <3>2. Held < Prefetch
      BY <1>7 DEF Deliver, Held
    <3>3. QED
      BY <1>1, <2>1, <3>1, <3>2 DEF Held
  <2>5. Unacked' \subseteq Unacked \cup {m}
    BY <2>1, <2>3 DEF Unacked, InHand
  <2>6. QED
    BY <1>3, <1>4, <2>1, <2>2, <2>3, <2>4, <2>5 DEF DownIsEmpty, NoRepeats
<1>8. CASE Receive
  <2>1. /\ inbox # <<>> /\ current = 0 /\ inbox' = Tail(inbox)
        /\ current' = Head(inbox) /\ Linked
        /\ UNCHANGED <<ready, worker, Linked>>
    BY <1>8 DEF Receive, bvars, Linked
  <2>2. /\ Elements(inbox) = {current'} \cup Elements(inbox')
        /\ NoRepeats(inbox') /\ current' \notin Elements(inbox')
    BY <1>1, <1>3, <2>1, TailElements, TailNoRepeats
  <2>3. Held' <= Prefetch
    <3>1. Len(inbox') = Len(inbox) - 1 /\ Len(inbox) \in Nat
      BY <1>1, <2>1
    <3>2. QED
      BY <1>1, <1>3, <2>1, <3>1 DEF Held
  <2>4. Unacked' \subseteq Unacked
    BY <2>1, <2>2 DEF Unacked, InHand
  <2>5. DownIsEmpty'
    BY <2>1 DEF DownIsEmpty, Linked
  <2>6. QED
    BY <1>3, <1>4, <2>1, <2>2, <2>3, <2>4, <2>5 DEF NoRepeats
<1>9. CASE Settle \/ \E m \in Messages : Reject(m)
  <2>1. /\ inbox' = inbox /\ current' = 0 /\ UNCHANGED <<worker, Linked>>
        /\ ready' \subseteq ready \cup InHand /\ (~Linked => ready' = ready)
    BY <1>9 DEF Settle, Reject, Handles, Linked, InHand, IInv, HandSound
  <2>2. Held' <= Prefetch /\ NoRepeats(inbox)'
    BY <1>1, <2>1, FewerHeld
  <2>3. DownIsEmpty' /\ 0 \notin Elements(inbox)
    BY <1>1, <1>2, <2>1 DEF DownIsEmpty
  <2>4. ready' \cap Unacked' = {}
    BY <1>3, <2>1 DEF Unacked, InHand
  <2>5. QED
    BY <1>4, <2>1, <2>2, <2>3, <2>4
<1>10. CASE Crash \/ ConnectionLost \/ StopEnds
  <2>1. /\ inbox' = <<>> /\ worker' \in {"down", "deaf"}
        /\ current' \in {current, 0} /\ (worker' = "down" => current' = 0)
    BY <1>10 DEF Crash, ConnectionLost, StopEnds
  <2>2. Held' <= Prefetch /\ NoRepeats(inbox)'
    BY <1>1, <2>1, FewerHeld
  <2>3. QED
    BY <1>4, <2>1, <2>2 DEF DownIsEmpty, Unacked, Linked
<1>11. CASE Start
  <2>1. /\ inbox = <<>> /\ current = 0
        /\ UNCHANGED <<inbox, current, ready>> /\ worker' = "consuming"
    BY <1>3, <1>11 DEF Start, IInv, InboxSound, Linked, DownIsEmpty
  <2>2. Unacked' = {} /\ Elements(inbox') = {}
    BY <2>1, NoElements DEF Unacked, InHand
  <2>3. QED
    BY <1>3, <1>4, <2>1, <2>2 DEF Held, NoRepeats, DownIsEmpty
<1>12. CASE StopBegins \/ StopDeaf
  <2>1. /\ UNCHANGED <<inbox, current, ready, Linked>>
        /\ worker' = "down" => current' = 0
    BY <1>12 DEF StopBegins, StopDeaf, bvars, Linked
  <2>2. QED
    BY <1>3, <1>4, <2>1 DEF Held, NoRepeats, DownIsEmpty, Unacked, InHand
<1>13. ASSUME NEW m \in Messages, Persist(m) PROVE PlaceInv'
  BY <1>5, <1>13 DEF Persist, InsertStores, InsertConflicts, InsertFails,
     InsertUnknown, bvars
<1>14. QED
  BY <1>5, <1>6, <1>7, <1>8, <1>9, <1>10, <1>11, <1>12, <1>13
     DEF Next, vars, bvars, wvars

\* Every message the broker holds is in one place, and the writer never holds
\* more than its prefetch window, for any messages and any interruptions.
THEOREM OnePlaceOnly == Spec => []OnePlace
<1>1. PlaceInv => OnePlace
  BY DEF PlaceInv
<1>2. QED
  BY <1>1, InitPlace, NextPlace, Inductive, PTL DEF Spec

-----------------------------------------------------------------------------
(* The audit trail.                                                        *)

\* The initial state of the writer is one of the trail.
LEMMA TrailInit == Init => Trail!TInit
  BY DEF Init, Trail!TInit

\* A step of the writer is a step of the trail or changes nothing there.
LEMMA TrailStep == IInv /\ [Next]_vars => [Trail!TNext]_Trail!tvars
<1> SUFFICES ASSUME IInv, [Next]_vars PROVE [Trail!TNext]_Trail!tvars
  OBVIOUS
<1> USE DEF Trail!tvars
<1>1. CASE routed' = routed /\ rows' = rows /\ dlq' = dlq
  BY <1>1
<1>2. ASSUME NEW m \in Messages, Publish(m), bound PROVE Trail!TNext
  <2>1. Trail!Route(m)
    BY <1>2 DEF Publish, Trail!Route, IInv, TypeOK, NothingLost
  <2>2. QED
    BY <2>1 DEF Trail!TNext
<1>3. ASSUME NEW m \in Messages, InsertStores(m) \/ InsertUnknown(m)
      PROVE  Trail!TNext
  <2>1. Trail!Store(m)
    BY <1>3 DEF InsertStores, InsertUnknown, Valid, Handles, Trail!Store,
       IInv, HandSound, Sorted, bvars
  <2>2. QED
    BY <2>1 DEF Trail!TNext
<1>4. ASSUME NEW m \in Messages, Reject(m), m \notin dlq, Linked
      PROVE  Trail!TNext
  <2>1. Trail!SetAside(m)
    BY <1>4 DEF Reject, Handles, Trail!SetAside, IInv, HandSound, Sorted
  <2>2. QED
    BY <2>1 DEF Trail!TNext
<1>5. ASSUME NEW m \in Messages, Reject(m), m \in dlq \/ ~Linked
      PROVE  routed' = routed /\ rows' = rows /\ dlq' = dlq
  BY <1>5 DEF Reject
<1>6. ASSUME NEW m \in Messages, Publish(m), ~bound
      PROVE  routed' = routed /\ rows' = rows /\ dlq' = dlq
  BY <1>6 DEF Publish
<1>7. ASSUME NEW m \in Messages,
             Deliver(m) \/ InsertConflicts(m) \/ InsertFails(m)
      PROVE  routed' = routed /\ rows' = rows /\ dlq' = dlq
  BY <1>7 DEF Deliver, InsertConflicts, InsertFails, bvars
<1>8. ASSUME \/ Start \/ Receive \/ Settle \/ Crash \/ ConnectionLost
             \/ StopBegins \/ StopEnds \/ StopDeaf \/ UNCHANGED vars
      PROVE  routed' = routed /\ rows' = rows /\ dlq' = dlq
  BY <1>8 DEF Start, Receive, Settle, Crash, ConnectionLost, StopBegins,
     StopEnds, StopDeaf, vars, bvars
<1>9. QED
  BY <1>1, <1>2, <1>3, <1>4, <1>5, <1>6, <1>7, <1>8 DEF Next, Persist

\* The writer, with its queue, its redeliveries and its interruptions,
\* implements the audit trail, for every value of the constants.
THEOREM TrailImplemented == Spec => ImplementsTrail
  BY TrailInit, TrailStep, Inductive, PTL DEF Spec, ImplementsTrail,
     Trail!TSpec

-----------------------------------------------------------------------------
(***************************************************************************)
(* The worker process.                                                     *)
(***************************************************************************)

\* A step of the process is one of the writer, or leaves it alone.
LEMMA WriterStep == [WorkerNext]_workerVars => [Next]_vars
<1> SUFFICES ASSUME [WorkerNext]_workerVars PROVE [Next]_vars
  OBVIOUS
<1> USE DEF Next
<1>1. ASSUME NEW m \in Messages, PublishEvent(m) PROVE [Next]_vars
  BY <1>1 DEF PublishEvent
<1>2. ASSUME NEW m \in Messages, Deliver(m) PROVE [Next]_vars
  BY <1>2
<1>3. CASE Write
  BY <1>3 DEF Write
<1>4. CASE StartWriter
  BY <1>4 DEF StartWriter
<1>5. CASE CrashWorker
  BY <1>5 DEF CrashWorker
<1>6. CASE LoseConnection
  BY <1>6 DEF LoseConnection
<1>7. CASE StopWriter
  BY <1>7 DEF StopWriter
<1>8. CASE UNCHANGED vars
  BY <1>8
<1>9. QED
  BY <1>1, <1>2, <1>3, <1>4, <1>5, <1>6, <1>7, <1>8
     DEF WorkerNext, StartAlerter, StopAlerter, workerVars

\* What is proved of the writer holds of it in the process: WorkerNext is put
\* together from its actions.
LEMMA WriterWithin == WorkerSpec => Spec
<1>1. WorkerInit => Init
  BY DEF WorkerInit
<1>2. QED
  BY <1>1, WriterStep, PTL DEF WorkerSpec, Spec

-----------------------------------------------------------------------------
(* The alert consumer.                                                     *)

\* The message in the loop has its alert once it has been handled.
LoopSound == handled => alerting \in raised \cup Garbled

\* The writer's queue is bound before the alert queue, so what is routed to
\* the one is routed to the other.
BoundFirst ==
    /\ worker # "down" => bound
    /\ alertBound => bound
    /\ alertable \subseteq routed

\* The inductive invariant of the alert consumer in its process.
AlertIInv ==
    /\ AlertTypeOK
    /\ NoAlertLost
    /\ LoopSound
    /\ BoundFirst

\* The initial state satisfies the inductive invariant.
LEMMA InitAlertIInv == WorkerInit => AlertIInv
<1> SUFFICES ASSUME WorkerInit PROVE AlertIInv
  OBVIOUS
<1>1. 0 \in 0 .. MaxAlertInterruptions
  BY AlertAssumption
<1>2. AlertTypeOK
  BY <1>1 DEF WorkerInit, AlertInit, AlertTypeOK
<1>3. NoAlertLost /\ LoopSound
  BY DEF WorkerInit, AlertInit, NoAlertLost, LoopSound
<1>4. BoundFirst
  BY DEF WorkerInit, Init, AlertInit, BoundFirst
<1>5. QED
  BY <1>2, <1>3, <1>4 DEF AlertIInv

\* A step of the writer alone keeps the order of the bindings.
LEMMA WriterKeepsBound ==
    ASSUME BoundFirst, [Next]_vars
    PROVE  /\ worker' # "down" => bound'
           /\ bound => bound'
           /\ routed \subseteq routed'
  BY DEF BoundFirst, Next, Publish, Deliver, Reject, Persist, InsertStores,
     InsertConflicts, InsertFails, InsertUnknown, Start, Receive, Settle,
     Crash, ConnectionLost, StopBegins, StopEnds, StopDeaf, Linked, vars,
     bvars, wvars

\* Every step of the process preserves the inductive invariant.
LEMMA NextAlertIInv ==
    TypeOK /\ AlertIInv /\ [WorkerNext]_workerVars => AlertIInv'
<1> SUFFICES ASSUME TypeOK, AlertIInv, [WorkerNext]_workerVars PROVE AlertIInv'
  OBVIOUS
<1>0. /\ worker' # "down" => bound'
      /\ bound => bound'
      /\ routed \subseteq routed'
  BY WriterStep, WriterKeepsBound DEF AlertIInv
<1> USE <1>0, AlertAssumption
    DEF AlertIInv, AlertTypeOK, NoAlertLost, LoopSound, BoundFirst
<1>1. ASSUME UNCHANGED alertVars PROVE AlertIInv'
  BY <1>1 DEF alertVars
<1>2. ASSUME NEW m \in Messages, PublishEvent(m) PROVE AlertIInv'
  BY <1>2 DEF PublishEvent, Publish, RouteAlert
<1>3. CASE Loop
  <2>1. CASE ReceiveAlert
    BY <2>1 DEF ReceiveAlert
  <2>2. CASE HandleAlert
    BY <2>2 DEF HandleAlert
  <2>3. CASE AckAlert
    BY <2>3 DEF AckAlert
  <2>4. QED
    BY <1>3, <2>1, <2>2, <2>3 DEF Loop
<1>4. CASE StartAlerter
  BY <1>4 DEF StartAlerter, StartAlerts
<1>5. CASE CrashWorker
  <2>1. /\ UNCHANGED <<alertBound, alertable, alerts, raised>>
        /\ alerter' = "down"
        /\ alerting' = 0
        /\ ~handled'
    BY <1>5 DEF CrashWorker, CrashAlerts
  <2>2. alertCount' \in 0 .. MaxAlertInterruptions
    BY <1>5 DEF CrashWorker, InterruptAlerts
  <2>3. handled' \in BOOLEAN
    BY <1>5, Zenon DEF CrashWorker, CrashAlerts
  <2>4. AlertTypeOK'
    BY <2>1, <2>2, <2>3
  <2>5. QED
    BY <2>1, <2>4
<1>6. ASSUME UNCHANGED <<alertBound, alertable, alerts, alerting, handled, raised>>,
             alerter' \in {"down", "stopping", "deaf"},
             alertCount' \in 0 .. MaxAlertInterruptions
      PROVE  AlertIInv'
  <2>1. (handled' => alerting' # 0) /\ handled' \in BOOLEAN /\ LoopSound'
    BY <1>6, Zenon
  <2>2. AlertTypeOK'
    BY <1>6, <2>1
  <2>3. QED
    BY <1>6, <2>1, <2>2
<1>7. CASE LoseConnection
  <2>1. CASE LoseAlertConnection
    BY <1>6, <2>1 DEF LoseAlertConnection, InterruptAlerts
  <2>2. QED
    BY <1>1, <1>7, <2>1 DEF LoseConnection
<1>8. CASE StopAlerter
  BY <1>6, <1>8 DEF StopAlerter, StopAlertsBegins, StopAlertsEnds
<1>9. QED
  BY <1>1, <1>2, <1>3, <1>4, <1>5, <1>7, <1>8
     DEF WorkerNext, workerVars, StartWriter, StopWriter

\* The writer's invariant holds in the process.
LEMMA WriterInductive == WorkerSpec => []IInv
  BY WriterWithin, Inductive, PTL

\* The alert consumer's invariant holds in the process.
LEMMA AlertInductive == WorkerSpec => []AlertIInv
<1>1. IInv => TypeOK
  BY DEF IInv
<1>2. QED
  BY <1>1, InitAlertIInv, NextAlertIInv, WriterInductive, PTL DEF WorkerSpec

-----------------------------------------------------------------------------

\* The writer and the alert consumer keep their types in the process.
THEOREM WorkerTypeCorrect == WorkerSpec => []WorkerTypeOK
<1>1. IInv /\ AlertIInv => WorkerTypeOK
  BY DEF IInv, AlertIInv, WorkerTypeOK
<1>2. QED
  BY <1>1, WriterInductive, AlertInductive, PTL

\* A blocked event that reached the alert queue stays there until its alert
\* has been raised, for any messages and any interruptions.
THEOREM AlertNeverLost == WorkerSpec => []NoAlertLost
<1>1. AlertIInv => NoAlertLost
  BY DEF AlertIInv
<1>2. QED
  BY <1>1, AlertInductive, PTL

\* An alert always has its event: in the table, on its way there, or in the
\* dead-letter queue.
THEOREM AlertTrailed == WorkerSpec => []AlertIsTrailed
<1>1. IInv /\ AlertIInv => AlertIsTrailed
  BY DEF IInv, AlertIInv, NothingLost, BoundFirst, AlertTypeOK, AlertIsTrailed
<1>2. QED
  BY <1>1, WriterInductive, AlertInductive, PTL

\* In the process, too, no routed event is lost and each is in one place.
THEOREM WorkerKeepsAll == WorkerSpec => [](NothingLost /\ OnePlace)
  BY WriterWithin, NeverLost, OnePlaceOnly, PTL

\* The process implements the audit trail.
THEOREM WorkerTrail == WorkerSpec => ImplementsTrail
  BY WriterWithin, TrailImplemented
=============================================================================
