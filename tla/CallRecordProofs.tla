--------------------------- MODULE CallRecordProofs ---------------------------
(***************************************************************************)
(* What is proved of CallRecord, for any calls, rows, filters, limits and  *)
(* width of the numbers: that the walk of a reader misses nothing and      *)
(* repeats nothing without cause, and what of a call's data reaches the    *)
(* downstream server, the agent and the audit event.                       *)
(*                                                                         *)
(* The two halves share no variable: WalkInv is the invariant of the       *)
(* reader, CallInv that of the calls.                                      *)
(***************************************************************************)
EXTENDS CallRecord, FiniteSetTheorems, SequenceTheorems, TLAPS

-----------------------------------------------------------------------------
(***************************************************************************)
(* The reader of the audit log.                                            *)
(***************************************************************************)

\* The matching rows that occurred after the one of e: what precedes it in
\* every listing.
Above(e) ==
    {f \in Selected(walk.query) : rows[f].stamp > rows[e].stamp}

Rank(e) == Cardinality(Above(e))

\* Why a row may be shown twice.
Explained(e) ==
    \/ Tied(e)
    \/ \E f \in Selected(walk.query) \ walk.due : rows[f].stamp > rows[e].stamp

\* What a filter may be.
Filters == Queries \cup {Resting.query}

\* What the table and the walk hold.
LogTyped ==
    /\ rows \in [Entries -> Rows \cup OtherRows \cup {NoRow}]
    /\ walk \in [step : {"resting", "reading", "done", "failed"},
                 query : Filters, limit : Asked \cup {Absent}, offset : Nat,
                 due : SUBSET Entries, seen : SUBSET Entries,
                 repeated : SUBSET Entries]

\* What the walk has counted matches its filter, and before the first page it
\* has counted nothing.  An offset that would not fit fails before it wraps.
WalkSound ==
    /\ walk.due \cup walk.seen \subseteq Selected(walk.query)
    /\ walk.repeated \subseteq walk.seen
    /\ walk.offset = 0 => walk.seen = {}
    /\ walk.offset < 2 ^ (Bits - 1) + MaxLimit

\* What was due and has not been seen is still to come: as many rows precede
\* it as the reader has been given.
StillToCome ==
    walk.step = "reading" =>
        \A e \in walk.due \ walk.seen : Tied(e) \/ Rank(e) >= walk.offset

\* What has been seen lies behind, unless a newer row has pushed it on.
LeftBehind ==
    \A e \in walk.seen : Explained(e) \/ Rank(e) < walk.offset

\* The inductive invariant of the reader.
WalkInv ==
    LogTyped /\ WalkSound /\ StillToCome /\ LeftBehind
             /\ WalkComplete /\ RepeatsExplained

-----------------------------------------------------------------------------
(* Listings and pages.                                                     *)

\* The stored rows have a time.
LEMMA StampsTyped ==
    ASSUME LogTyped
    PROVE  /\ \A e \in Stored : rows[e].stamp \in Int
           /\ \A q : Selected(q) \subseteq Stored /\ IsFiniteSet(Selected(q))
           /\ \A q : Cardinality(Selected(q)) \in Nat
<1>1. \A e \in Stored : rows[e].stamp \in Int
  BY RowAssumption DEF LogTyped, Stored
<1>2. ASSUME NEW q
      PROVE  Selected(q) \subseteq Stored /\ IsFiniteSet(Selected(q))
  <2>1. Selected(q) \subseteq Stored /\ Stored \subseteq Entries
    BY DEF Selected, Stored
  <2>2. IsFiniteSet(Selected(q))
    BY <2>1, LogAssumption, FS_Subset
  <2>3. QED
    BY <2>1, <2>2
<1>3. \A q : Cardinality(Selected(q)) \in Nat
  BY <1>2, FS_CardinalityType
<1>4. QED
  BY <1>1, <1>2, <1>3

\* A listing of a finite set has each of its elements once, the newest first.
LEMMA ListingShape ==
    ASSUME NEW S, IsFiniteSet(S), NEW s \in Listings(S)
    PROVE  /\ Len(s) \in Nat
           /\ Len(s) = Cardinality(S)
           /\ s \in Seq(S)
           /\ DOMAIN s = 1 .. Len(s)
           /\ \A i \in 1 .. Len(s) : s[i] \in S
           /\ \A i, j \in 1 .. Len(s) : s[i] = s[j] => i = j
           /\ \A x \in S : \E i \in 1 .. Len(s) : s[i] = x
           /\ \A i, j \in 1 .. Len(s) : i < j => rows[s[i]].stamp >= rows[s[j]].stamp
<1> DEFINE n == Cardinality(S)
<1>1. n \in Nat
  BY FS_CardinalityType
<1>2. /\ s \in [1 .. n -> S]
      /\ \A i, j \in 1 .. n : i # j => s[i] # s[j]
      /\ \A i, j \in DOMAIN s : i < j => rows[s[i]].stamp >= rows[s[j]].stamp
  BY DEF Listings, SetToSeqs
<1>3. Cardinality(1 .. n) = n /\ IsFiniteSet(1 .. n)
  <2> HIDE DEF n
  <2>1. 1 \in Int /\ n \in Int
    BY <1>1
  <2>2. /\ Cardinality(1 .. n) = IF 1 > n THEN 0 ELSE n - 1 + 1
        /\ IsFiniteSet(1 .. n)
    BY <2>1, FS_Interval
  <2>3. (IF 1 > n THEN 0 ELSE n - 1 + 1) = n
    BY <1>1
  <2>4. QED
    BY <2>2, <2>3
<1>4. s \in Injection(1 .. n, S)
  BY <1>2 DEF Injection, IsInjective
<1>5. s \in Surjection(1 .. n, S)
  BY <1>3, <1>4, FS_Injection
<1>6. s \in Seq(S) /\ Len(s) = n /\ DOMAIN s = 1 .. n
  <2> HIDE DEF n
  <2>1. s \in Seq(S)
    BY <1>1, <1>2, SeqDef
  <2>2. DOMAIN s = 1 .. n /\ DOMAIN s = 1 .. Len(s) /\ Len(s) \in Nat
    BY <1>2, <2>1, LenProperties
  <2>3. Len(s) = n
    BY <1>1, <2>2
  <2>4. QED
    BY <2>1, <2>2, <2>3
<1> HIDE DEF n
<1>7. \A x \in S : \E i \in 1 .. n : s[i] = x
  BY <1>5 DEF Surjection
<1>8. QED
  BY <1>1, <1>2, <1>6, <1>7 DEF n

\* In a listing, the rows before one that shares its time with no other are
\* those that occurred later.
LEMMA ListingRank ==
    ASSUME LogTyped, NEW s \in Listings(Selected(walk.query)),
           NEW i \in 1 .. Len(s), ~Tied(s[i])
    PROVE  Rank(s[i]) = i - 1
<1> DEFINE S == Selected(walk.query)
           e == s[i]
           A == Above(e)
           f == [j \in 1 .. (i - 1) |-> s[j]]
<1>1. IsFiniteSet(S) /\ \A x \in S : rows[x].stamp \in Int
  BY StampsTyped
<1>2. /\ Len(s) \in Nat
      /\ \A j \in 1 .. Len(s) : s[j] \in S
      /\ \A j, k \in 1 .. Len(s) : s[j] = s[k] => j = k
      /\ \A x \in S : \E j \in 1 .. Len(s) : s[j] = x
      /\ \A j, k \in 1 .. Len(s) : j < k => rows[s[j]].stamp >= rows[s[k]].stamp
  BY <1>1, ListingShape
<1>3. i \in Nat \ {0} /\ \A j \in 1 .. (i - 1) : j \in 1 .. Len(s) /\ j < i
  BY <1>2
<1>4. ASSUME NEW j \in 1 .. (i - 1) PROVE s[j] \in A
  <2>1. s[j] \in S /\ e \in S /\ s[j] # e
    BY <1>2, <1>3
  <2>2. rows[s[j]].stamp # rows[e].stamp
    BY <2>1 DEF Tied
  <2>3. rows[s[j]].stamp >= rows[e].stamp
    BY <1>2, <1>3
  <2>4. rows[s[j]].stamp > rows[e].stamp
    BY <1>1, <2>1, <2>2, <2>3
  <2>5. QED
    BY <2>1, <2>4 DEF Above
<1>5. ASSUME NEW x \in A PROVE \E j \in 1 .. (i - 1) : s[j] = x
  <2>1. x \in S /\ rows[x].stamp > rows[e].stamp
    BY DEF Above
  <2>2. PICK j \in 1 .. Len(s) : s[j] = x
    BY <1>2, <2>1
  <2>3. j # i
    BY <1>1, <1>2, <2>1, <2>2
  <2>4. ASSUME i < j PROVE FALSE
    <3>1. rows[e].stamp >= rows[x].stamp
      BY <1>2, <2>2, <2>4
    <3>2. e \in S
      BY <1>2
    <3>3. QED
      BY <1>1, <2>1, <3>1, <3>2
  <2>5. QED
    BY <1>2, <2>2, <2>3, <2>4
<1>6. IsFiniteSet(A)
  <2>1. A \subseteq S
    BY DEF Above
  <2>2. QED
    BY <1>1, <2>1, FS_Subset
<1> HIDE DEF S, e, A
<1>7. f \in Injection(1 .. (i - 1), A)
  BY <1>2, <1>3, <1>4 DEF Injection, IsInjective
<1>8. f \in Surjection(1 .. (i - 1), A)
  <2>1. f \in [1 .. (i - 1) -> A]
    BY <1>4
  <2>2. \A x \in A : \E j \in 1 .. (i - 1) : f[j] = x
    BY <1>5
  <2>3. QED
    BY <2>1, <2>2 DEF Surjection
<1> HIDE DEF f
<1>9. Cardinality(1 .. (i - 1)) = Cardinality(A)
  BY <1>6, <1>7, <1>8, FS_Injection
<1>10. Cardinality(1 .. (i - 1)) = i - 1
  <2> DEFINE n == i - 1
  <2>1. n \in Nat /\ 1 \in Int /\ n \in Int
    BY <1>3
  <2> HIDE DEF n
  <2>2. Cardinality(1 .. n) = IF 1 > n THEN 0 ELSE n - 1 + 1
    BY <2>1, FS_Interval
  <2>3. (IF 1 > n THEN 0 ELSE n - 1 + 1) = n
    BY <2>1
  <2>4. Cardinality(1 .. n) = n
    BY <2>2, <2>3
  <2>5. QED
    BY <2>4 DEF n
<1>11. QED
  BY <1>9, <1>10 DEF Rank, A, e

\* An offset that PostgreSQL does not refuse has not been cut.
LEMMA OffsetReads ==
    ASSUME NEW n \in Nat, n < 2 ^ (Bits - 1) + MaxLimit
    PROVE  (Offset(n) = n /\ n < 2 ^ (Bits - 1)) \/ Offset(n) < 0
<1> DEFINE h == 2 ^ (Bits - 1)
           m == 2 ^ Bits
<1>1. h \in Int /\ MaxLimit \in Nat /\ MaxLimit < h
  BY LogAssumption
<1>2. m = 2 * h
  BY PowerAssumption
<1>3. Offset(n) = ((n + h) % m) - h /\ n < h + MaxLimit
  BY DEF Offset, Int32
<1> HIDE DEF h, m
<1>4. m \in Nat /\ m > 0 /\ n < m
  BY <1>1, <1>2, <1>3
<1>5. CASE n < h
  <2>1. (n + h) % m = n + h
    BY <1>1, <1>2, <1>4, <1>5
  <2>2. QED
    BY <1>1, <1>3, <1>5, <2>1 DEF h
<1>6. CASE n >= h
  <2>1. n + h = m + (n - h) /\ n - h \in Nat /\ n - h < m
    BY <1>1, <1>2, <1>4, <1>6
  <2>2. (m + (n - h)) % m = n - h
    BY <1>4, <2>1
  <2>3. Offset(n) = n - h - h
    BY <1>1, <1>3, <2>1, <2>2
  <2>4. QED
    BY <1>1, <1>2, <1>4, <2>3
<1>7. QED
  BY <1>1, <1>5, <1>6

\* The elements of a sequence; the part of s after the first o up to the m-th,
\* its length and its elements.
Elements(s) == {s[i] : i \in DOMAIN s}

PageOf(s, o, m) == SubSeq(s, o + 1, m)

Span(o, m) == IF o + 1 <= m THEN m - o ELSE 0

Stretch(s, o, m) == {s[j] : j \in (o + 1) .. m}

\* What a page holds: the rows of the listing s after the first o, up to the
\* m-th.
LEMMA PageShape ==
    ASSUME NEW S, NEW s \in Seq(S), NEW o \in Nat, NEW m \in Int, m <= Len(s),
           NEW page, page = PageOf(s, o, m)
    PROVE  /\ Len(page) = Span(o, m)
           /\ page = <<>> <=> m <= o
           /\ Elements(page) = Stretch(s, o, m)
<1> DEFINE got == {page[i] : i \in DOMAIN page}
<1> USE DEF PageOf
<1>1. Len(s) \in Nat /\ DOMAIN s = 1 .. Len(s)
  BY LenProperties
<1>2. CASE o + 1 <= m
  <2>1. /\ page \in Seq(S)
        /\ Len(page) = m - o
        /\ \A i \in 1 .. (m - o) : page[i] = s[o + i]
    <3>1. \A i \in (o + 1) .. m : s[i] \in S
      BY <1>1
    <3>2. /\ o + 1 \in Int
          /\ m - (o + 1) + 1 = m - o
      OBVIOUS
    <3>3. /\ page \in Seq(S)
          /\ Len(page) = m - (o + 1) + 1
          /\ \A i \in 1 .. m - (o + 1) + 1 : page[i] = s[o + 1 + i - 1]
      BY <1>2, <3>1, <3>2, SubSeqProperties
    <3>4. \A i \in 1 .. (m - o) : o + 1 + i - 1 = o + i
      OBVIOUS
    <3>5. QED
      BY <3>2, <3>3, <3>4
  <2>2. DOMAIN page = 1 .. (m - o) /\ page # <<>>
    <3>1. DOMAIN page = 1 .. Len(page)
      BY <2>1, LenProperties
    <3>2. page # <<>>
      <4>1. Len(page) # 0
        BY <1>2, <2>1
      <4>2. QED
        BY <4>1
    <3>3. QED
      BY <2>1, <3>1, <3>2
  <2>3. ASSUME NEW i \in 1 .. (m - o) PROVE page[i] \in {s[j] : j \in (o + 1) .. m}
    <3>1. o + i \in (o + 1) .. m
      OBVIOUS
    <3>2. QED
      BY <2>1, <3>1
  <2>4. ASSUME NEW j \in (o + 1) .. m PROVE s[j] \in got
    <3>1. j - o \in 1 .. (m - o) /\ o + (j - o) = j
      OBVIOUS
    <3>2. page[j - o] = s[j]
      BY <2>1, <3>1
    <3>3. QED
      BY <2>2, <3>1, <3>2
  <2>5. got = {s[j] : j \in (o + 1) .. m}
    BY <2>2, <2>3, <2>4
  <2>6. Len(page) = Span(o, m)
    BY <1>2, <2>1 DEF Span
  <2>7. page = <<>> <=> m <= o
    BY <1>2, <2>2
  <2>8. Elements(page) = Stretch(s, o, m)
    BY <2>5 DEF Elements, Stretch
  <2>9. QED
    BY <2>6, <2>7, <2>8
<1>3. CASE ~(o + 1 <= m)
  <2>1. page = <<>>
    BY <1>1, <1>3
  <2>2. (o + 1) .. m = {}
    BY <1>3
  <2>3. Len(page) = 0 /\ DOMAIN page = {}
    BY <2>1
  <2>4. got = {} /\ {s[j] : j \in (o + 1) .. m} = {}
    BY <2>2, <2>3
  <2>5. m <= o /\ Span(o, m) = 0
    BY <1>3 DEF Span
  <2> HIDE DEF got
  <2>6. got = {s[j] : j \in (o + 1) .. m}
    BY <2>4
  <2>7. Len(page) = Span(o, m)
    BY <2>3, <2>5
  <2>8. page = <<>> <=> m <= o
    BY <2>1, <2>5
  <2>9. Elements(page) = Stretch(s, o, m)
    BY <2>6 DEF Elements, Stretch, got
  <2>10. QED
    BY <2>7, <2>8, <2>9
<1>4. QED
  BY <1>2, <1>3

-----------------------------------------------------------------------------
(* The steps.                                                              *)

\* The initial state satisfies the inductive invariant.
LEMMA InitWalk == LogInit => WalkInv
<1> SUFFICES ASSUME LogInit PROVE WalkInv
  OBVIOUS
<1>1. /\ rows = [e \in Entries |-> NoRow]
      /\ walk.step = "resting" /\ walk.query = Resting.query
      /\ walk.limit = Absent /\ walk.offset = 0
      /\ walk.due = {} /\ walk.seen = {} /\ walk.repeated = {}
  BY DEF LogInit, Resting
<1>2. LogTyped
  BY DEF LogInit, Resting, LogTyped, Filters
<1>3. WalkSound
  <2>1. 0 < 2 ^ (Bits - 1) + MaxLimit
    BY LogAssumption
  <2>2. QED
    BY <1>1, <2>1 DEF WalkSound
<1>4. StillToCome /\ LeftBehind /\ WalkComplete /\ RepeatsExplained
  BY <1>1 DEF StillToCome, LeftBehind, WalkComplete, RepeatsExplained
<1>5. QED
  BY <1>2, <1>3, <1>4 DEF WalkInv

\* A new walk has counted nothing.
LEMMA BeginKeeps ==
    ASSUME WalkInv, NEW query \in Queries, NEW asked \in Asked,
           Begin(query, asked)
    PROVE  WalkInv'
<1>1. /\ rows' = rows
      /\ walk' = [Resting EXCEPT !.step = "reading", !.query = query,
                                 !.limit = asked]
  BY DEF Begin
<1>2. /\ walk'.step = "reading" /\ walk'.offset = 0
      /\ walk'.due = {} /\ walk'.seen = {} /\ walk'.repeated = {}
  BY <1>1 DEF Resting
<1>3. LogTyped'
  BY <1>1 DEF WalkInv, LogTyped, Resting, Filters
<1>4. WalkSound'
  <2>1. 0 < 2 ^ (Bits - 1) + MaxLimit
    BY LogAssumption
  <2>2. QED
    BY <1>2, <2>1 DEF WalkSound
<1>5. StillToCome' /\ LeftBehind' /\ WalkComplete' /\ RepeatsExplained'
  BY <1>2 DEF StillToCome, LeftBehind, WalkComplete, RepeatsExplained
<1>6. QED
  BY <1>3, <1>4, <1>5 DEF WalkInv

\* A walk that ends without an answer keeps what it has counted.
LEMMA FailKeeps ==
    ASSUME WalkInv, rows' = rows, walk' = [walk EXCEPT !.step = "failed"]
    PROVE  WalkInv'
<1>1. /\ walk'.step = "failed" /\ walk'.query = walk.query
      /\ walk'.limit = walk.limit /\ walk'.offset = walk.offset
      /\ walk'.due = walk.due /\ walk'.seen = walk.seen
      /\ walk'.repeated = walk.repeated
  BY DEF WalkInv, LogTyped
<1>2. LogTyped'
  BY DEF WalkInv, LogTyped
<1>3. /\ Selected(walk.query)' = Selected(walk.query)
      /\ \A e : Tied(e)' <=> Tied(e)
      /\ \A e : Rank(e)' = Rank(e)
      /\ \A e : Explained(e)' <=> Explained(e)
  BY <1>1 DEF Selected, Stored, Tied, Rank, Above, Explained
<1>4. WalkSound'
  BY <1>1, <1>3 DEF WalkInv, WalkSound
<1>5. LeftBehind'
  BY <1>1, <1>3 DEF WalkInv, LeftBehind
<1>6. StillToCome' /\ WalkComplete'
  BY <1>1 DEF StillToCome, WalkComplete
<1>7. RepeatsExplained'
  <2>1. \A e \in walk.repeated : Explained(e)
    BY DEF WalkInv, RepeatsExplained, Explained
  <2>2. \A e \in walk'.repeated : Explained(e)'
    BY <1>1, <1>3, <2>1
  <2>3. QED
    BY <2>2 DEF RepeatsExplained, Explained
<1>8. QED
  BY <1>2, <1>4, <1>5, <1>6, <1>7 DEF WalkInv

\* The limit of a page is a number, and no more than the maximum.
LEMMA LimitTyped ==
    ASSUME NEW asked \in Asked \cup {Absent}
    PROVE  Limit(asked) \in Int /\ Limit(asked) <= MaxLimit
<1> DEFINE h == 2 ^ (Bits - 1)
           m == 2 ^ Bits
           k == IF asked = Absent THEN DefaultLimit ELSE asked
<1>1. /\ h \in Int /\ MaxLimit \in Nat /\ MaxLimit < h /\ m = 2 * h
      /\ k \in Int
  BY LogAssumption, PowerAssumption
<1>2. Int32(k) = ((k + h) % m) - h
  BY DEF Int32
<1> HIDE DEF h, m
<1>3. m \in Nat /\ m > 0
  BY <1>1
<1> HIDE DEF k
<1>4. (k + h) % m \in Int
  BY <1>1, <1>3
<1>5. Int32(k) \in Int
  BY <1>1, <1>2, <1>4
<1>6. QED
  BY <1>1, <1>5 DEF Limit, k

\* A page that is read continues where the last one ended.
LEMMA PageKeeps ==
    ASSUME WalkInv, walk.step = "reading", rows' = rows,
           walk.offset < 2 ^ (Bits - 1),
           NEW l \in Nat, l = Limit(walk.limit), l <= MaxLimit,
           NEW s \in Listings(Selected(walk.query)),
           NEW page,
           page = SubSeq(s, walk.offset + 1,
                         IF walk.offset + l < Len(s) THEN walk.offset + l
                         ELSE Len(s)),
           Receives(page, Selected(walk.query))
    PROVE  WalkInv'
<1> DEFINE S == Selected(walk.query)
           o == walk.offset
           n == Len(s)
           m == IF o + l < n THEN o + l ELSE n
           got == {page[i] : i \in DOMAIN page}
           len == Len(page)
           due == IF o = 0 THEN S ELSE walk.due
<1>1. LogTyped /\ o \in Nat
  BY DEF WalkInv, LogTyped
<1>2. S \subseteq Entries /\ IsFiniteSet(S)
  BY <1>1, StampsTyped DEF Stored
<1>3. /\ n \in Nat /\ s \in Seq(S)
      /\ \A i \in 1 .. n : s[i] \in S
      /\ \A x \in S : \E i \in 1 .. n : s[i] = x
  BY <1>2, ListingShape
<1>4. page = SubSeq(s, o + 1, m)
  OBVIOUS
<1> HIDE DEF o, n
<1>5. m \in Int /\ m <= n /\ m <= o + l /\ (m = n \/ m = o + l)
  BY <1>1, <1>3
<1> HIDE DEF m
<1>6. /\ len = IF o + 1 <= m THEN m - o ELSE 0
      /\ page = <<>> <=> m <= o
      /\ got = {s[j] : j \in (o + 1) .. m}
  <2>0. page = PageOf(s, o, m)
    BY <1>4 DEF PageOf
  <2>1. m <= Len(s)
    BY <1>5 DEF n
  <2> HIDE DEF S
  <2>2. s \in Seq(S) /\ o \in Nat /\ m \in Int
    BY <1>1, <1>3, <1>5
  <2>3. Len(page) = Span(o, m)
    BY ONLY <2>0, <2>1, <2>2, PageShape
  <2>4. page = <<>> <=> m <= o
    BY ONLY <2>0, <2>1, <2>2, PageShape
  <2>5. Elements(page) = Stretch(s, o, m)
    BY ONLY <2>0, <2>1, <2>2, PageShape
  <2>6. QED
    BY <2>3, <2>4, <2>5 DEF Elements, Stretch, Span
<1>7. /\ walk'.step = IF page = <<>> THEN "done" ELSE "reading"
      /\ walk'.query = walk.query /\ walk'.limit = walk.limit
      /\ walk'.offset = o + len
      /\ walk'.due = due
      /\ walk'.seen = walk.seen \cup got
      /\ walk'.repeated = walk.repeated \cup (walk.seen \cap got)
  BY <1>1 DEF Receives, LogTyped, o, len
<1> HIDE DEF len
<1>8. len \in Nat /\ len <= l /\ (m > o => o + len = m)
  BY <1>1, <1>5, <1>6
<1> HIDE DEF got
<1>9. got \subseteq S
  <2>1. ASSUME NEW j \in (o + 1) .. m PROVE s[j] \in S
    <3>1. j \in 1 .. n
      BY <1>1, <1>3, <1>5
    <3>2. QED
      BY <1>3, <3>1
  <2>2. QED
    BY <1>6, <2>1
<1>10. /\ S' = S
       /\ \A e : Tied(e)' <=> Tied(e)
       /\ \A e : Rank(e)' = Rank(e)
  BY <1>7 DEF Selected, Stored, Tied, Rank, Above
<1>11. walk.due \cup walk.seen \subseteq S /\ walk.repeated \subseteq walk.seen
       /\ (o = 0 => walk.seen = {} /\ walk.repeated = {})
  BY DEF WalkInv, WalkSound, o
<1> HIDE DEF S
\* Where a row without its like is in the listing.
<1>12. ASSUME NEW e \in S, ~Tied(e)
       PROVE  \E i \in 1 .. n : s[i] = e /\ Rank(e) = i - 1
  <2>1. PICK i \in 1 .. n : s[i] = e
    BY <1>3
  <2>2. Rank(s[i]) = i - 1
    BY <1>1, <1>12, <2>1, ListingRank DEF S, n
  <2>3. QED
    BY <2>1, <2>2
<1>13. LogTyped'
  <2>1. walk' \in [step : {"resting", "reading", "done", "failed"},
                   query : Filters, limit : Asked \cup {Absent}, offset : Nat,
                   due : SUBSET Entries, seen : SUBSET Entries,
                   repeated : SUBSET Entries]
    <3>1. /\ due \in SUBSET Entries /\ walk.seen \cup got \in SUBSET Entries
          /\ walk.repeated \cup (walk.seen \cap got) \in SUBSET Entries
          /\ o + len \in Nat
      BY <1>1, <1>2, <1>8, <1>9, <1>11 DEF LogTyped
    <3>2. walk' = [walk EXCEPT
              !.step = IF page = <<>> THEN "done" ELSE @,
              !.offset = o + len,
              !.due = due,
              !.seen = walk.seen \cup got,
              !.repeated = walk.repeated \cup (walk.seen \cap got)]
      BY <1>1 DEF Receives, LogTyped, o, got, S, len
    <3> HIDE DEF due
    <3>3. QED
      BY <1>1, <3>1, <3>2 DEF LogTyped
  <2>2. QED
    BY <1>1, <2>1 DEF LogTyped
<1>14. WalkSound'
  <2>1. walk'.due \cup walk'.seen \subseteq S'
    BY <1>7, <1>9, <1>10, <1>11
  <2>2. walk'.repeated \subseteq walk'.seen
    BY <1>7, <1>11
  <2>3. walk'.offset = 0 => walk'.seen = {}
    <3>1. ASSUME o + len = 0 PROVE o = 0 /\ got = {}
      <4>1. o = 0 /\ len = 0
        BY <1>1, <1>8, <3>1
      <4>2. ~(o + 1 <= m)
        BY <1>1, <1>5, <1>8, <4>1
      <4>3. (o + 1) .. m = {}
        BY <1>1, <1>5, <4>2
      <4>4. QED
        BY <1>6, <4>1, <4>3
    <3>2. QED
      BY <1>7, <1>11, <3>1
  <2>4. walk'.offset < 2 ^ (Bits - 1) + MaxLimit
    <3> DEFINE h == 2 ^ (Bits - 1)
    <3>1. h \in Int /\ MaxLimit \in Nat /\ o < h
      BY LogAssumption DEF o
    <3> HIDE DEF h
    <3>2. o + len < h + MaxLimit
      BY <1>1, <1>8, <3>1
    <3>3. QED
      BY <1>7, <3>2 DEF h
  <2>5. QED
    BY <1>7, <2>1, <2>2, <2>3, <2>4 DEF WalkSound, S
\* What was due and is not on this page comes after it.
<1>15. ASSUME NEW e \in walk'.due, e \notin walk'.seen, ~Tied(e)
       PROVE  Rank(e) >= o + l /\ Rank(e) \in Nat /\ o + l >= m
  <2>1. e \in S /\ e \notin walk.seen /\ e \notin got
    BY <1>7, <1>11, <1>15
  <2>2. PICK i \in 1 .. n : s[i] = e /\ Rank(e) = i - 1
    BY <1>12, <1>15, <2>1
  <2>3. i - 1 >= o
    <3>1. CASE o = 0
      BY <2>2, <3>1
    <3>2. CASE o # 0
      <4>1. e \in walk.due \ walk.seen
        BY <1>7, <1>15, <2>1, <3>2
      <4>2. Rank(e) >= o
        BY <1>15, <4>1 DEF WalkInv, StillToCome, o
      <4>3. QED
        BY <2>2, <4>2
    <3>3. QED
      BY <3>1, <3>2
  <2>4. ~(i <= m)
    <3>1. ASSUME i <= m PROVE i \in (o + 1) .. m
      BY <1>1, <1>3, <1>5, <2>3, <3>1
    <3>2. QED
      BY <1>6, <2>1, <2>2, <3>1
  <2>5. m = o + l
    BY <1>3, <1>5, <2>4
  <2>6. QED
    BY <1>1, <1>3, <1>5, <2>2, <2>4, <2>5
<1>16. StillToCome'
  <2>1. ASSUME NEW e \in walk'.due \ walk'.seen
        PROVE  Tied(e) \/ Rank(e) >= o + len
    BY <1>1, <1>8, <1>15, <2>1
  <2>2. QED
    BY <1>7, <1>10, <2>1 DEF StillToCome
<1>17. WalkComplete'
  <2>1. ASSUME walk'.step = "done", l # 0,
               NEW e \in walk'.due, e \notin walk'.seen, ~Tied(e)
        PROVE  FALSE
    <3>1. m <= o
      BY <1>6, <1>7, <2>1
    <3>2. e \in S
      BY <1>7, <1>11, <2>1
    <3>3. PICK i \in 1 .. n : s[i] = e /\ Rank(e) = i - 1
      BY <1>12, <2>1, <3>2
    <3>4. Rank(e) >= o + l /\ Rank(e) \in Nat
      BY <1>15, <2>1
    <3>5. m = n
      BY <1>1, <1>5, <2>1, <3>1
    <3>6. QED
      BY <1>1, <1>3, <3>1, <3>3, <3>4, <3>5
  <2>2. Limit(walk'.limit) = l
    BY <1>7
  <2>3. QED
    BY <1>10, <2>1, <2>2 DEF WalkComplete
\* What was seen before is explained or behind, as it was.
<1>18. ASSUME NEW e \in walk.seen
       PROVE  o # 0 /\ (Explained(e)' \/ (~Tied(e) /\ Rank(e) < o))
  <2>1. o # 0 /\ walk'.due = walk.due
    BY <1>7, <1>11
  <2>2. Explained(e) \/ Rank(e) < o
    BY DEF WalkInv, LeftBehind, o
  <2>3. Explained(e)' <=> Explained(e)
    BY <1>10, <2>1 DEF Explained, S
  <2>4. QED
    BY <2>1, <2>2, <2>3 DEF Explained
<1>19. LeftBehind'
  <2>1. ASSUME NEW e \in walk.seen
        PROVE  Explained(e)' \/ Rank(e) < o + len
    <3>1. CASE Explained(e)'
      BY <3>1
    <3>2. CASE ~Tied(e) /\ Rank(e) < o
      <4>1. e \in S
        BY <1>11
      <4>2. Rank(e) \in Int
        BY <1>3, <1>12, <3>2, <4>1
      <4>3. QED
        BY <1>1, <1>8, <3>2, <4>2
    <3>3. QED
      BY <1>18, <3>1, <3>2
  <2>2. ASSUME NEW e \in got
        PROVE  Explained(e)' \/ Rank(e) < o + len
    <3>1. CASE Tied(e)
      BY <1>10, <3>1 DEF Explained
    <3>2. CASE ~Tied(e)
      <4>1. PICK j \in (o + 1) .. m : s[j] = e
        BY <1>6
      <4>2. j \in 1 .. n /\ m > o
        BY <1>1, <1>3, <1>5
      <4>3. Rank(s[j]) = j - 1
        BY <1>1, <3>2, <4>1, <4>2, ListingRank DEF S, n
      <4>4. QED
        BY <1>1, <1>5, <1>8, <4>1, <4>2, <4>3
    <3>3. QED
      BY <3>1, <3>2
  <2>3. \A e \in walk'.seen : Explained(e)' \/ Rank(e)' < walk'.offset
    BY <1>7, <1>10, <2>1, <2>2
  <2>4. QED
    BY <2>3 DEF LeftBehind
<1>20. RepeatsExplained'
  <2>1. ASSUME NEW e \in walk.repeated PROVE Explained(e)'
    <3>1. Explained(e) /\ o # 0
      BY <1>11 DEF WalkInv, RepeatsExplained, Explained
    <3>2. QED
      BY <1>7, <1>10, <3>1 DEF Explained, S
  <2>2. ASSUME NEW e \in walk.seen \cap got PROVE Explained(e)'
    <3>1. CASE ~Tied(e) /\ Rank(e) < o
      <4>1. PICK j \in (o + 1) .. m : s[j] = e
        BY <1>6
      <4>2. j \in 1 .. n
        BY <1>1, <1>3, <1>5
      <4>3. Rank(s[j]) = j - 1
        BY <1>1, <3>1, <4>1, <4>2, ListingRank DEF S, n
      <4>4. QED
        BY <1>1, <1>5, <3>1, <4>1, <4>2, <4>3
    <3>2. QED
      BY <1>18, <3>1
  <2>3. \A e \in walk'.repeated : Explained(e)'
    BY <1>7, <2>1, <2>2
  <2>4. QED
    BY <2>3 DEF RepeatsExplained, Explained
<1>21. QED
  BY <1>13, <1>14, <1>16, <1>17, <1>19, <1>20 DEF WalkInv

\* A page that is asked for is refused, or read.
LEMMA ReadKeeps ==
    ASSUME WalkInv, ReadPage
    PROVE  WalkInv'
<1> DEFINE l == Limit(walk.limit)
           offset == Offset(walk.offset)
           matching == Selected(walk.query)
<1>1. walk.step = "reading" /\ rows' = rows
  BY DEF ReadPage
<1>2. IF l < 0 \/ offset < 0
      THEN walk' = [walk EXCEPT !.step = "failed"]
      ELSE \E s \in Listings(matching) :
              Receives(SubSeq(s, offset + 1,
                              IF offset + l < Len(s) THEN offset + l
                              ELSE Len(s)),
                       matching)
  BY DEF ReadPage
<1>3. walk.limit \in Asked \cup {Absent} /\ walk.offset \in Nat
      /\ walk.offset < 2 ^ (Bits - 1) + MaxLimit
  BY DEF WalkInv, LogTyped, WalkSound
<1>4. l \in Int /\ l <= MaxLimit
  BY <1>3, LimitTyped
<1>5. (offset = walk.offset /\ walk.offset < 2 ^ (Bits - 1)) \/ offset < 0
  BY <1>3, OffsetReads
<1> HIDE DEF l, offset, matching
<1>6. CASE l < 0 \/ offset < 0
  BY <1>1, <1>2, <1>6, FailKeeps
<1>7. CASE ~(l < 0 \/ offset < 0)
  <2>1. offset = walk.offset /\ walk.offset < 2 ^ (Bits - 1) /\ l \in Nat
    BY <1>4, <1>5, <1>7
  <2>2. PICK s \in Listings(matching) :
           Receives(SubSeq(s, walk.offset + 1,
                           IF walk.offset + l < Len(s) THEN walk.offset + l
                           ELSE Len(s)),
                    matching)
    BY <1>2, <1>7, <2>1
  <2> DEFINE page == SubSeq(s, walk.offset + 1,
                            IF walk.offset + l < Len(s) THEN walk.offset + l
                            ELSE Len(s))
  <2>3. Receives(page, matching)
    BY <2>2
  <2>4. \E p : /\ p = page
               /\ Receives(p, matching)
    BY <2>3
  <2>5. PICK p : p = page /\ Receives(p, matching)
    BY <2>4
  <2>6. QED
    BY <1>1, <1>4, <2>1, <2>5, PageKeeps DEF l, matching
<1>8. QED
  BY <1>6, <1>7

\* A row that is inserted pushes older ones on, and takes none away.
LEMMA InsertKeeps ==
    ASSUME WalkInv, NEW e \in Entries, NEW row \in Rows \cup OtherRows,
           InsertRow(e, row)
    PROVE  WalkInv'
<1> DEFINE S == Selected(walk.query)
<1>1. /\ rows[e] = NoRow /\ walk' = walk
      /\ rows' = [rows EXCEPT ![e] = row]
      /\ row # NoRow
      /\ rows \in [Entries -> Rows \cup OtherRows \cup {NoRow}]
  BY RowAssumption DEF InsertRow, WalkInv, LogTyped
<1>2. LogTyped'
  BY <1>1 DEF WalkInv, LogTyped
<1>3. /\ e \notin S
      /\ \A f \in S : rows'[f] = rows[f]
      /\ \A f \in S' : f = e \/ f \in S
      /\ S \subseteq S'
  BY <1>1 DEF Selected, Stored
<1>4. /\ walk.due \cup walk.seen \subseteq S
      /\ walk.repeated \subseteq walk.seen
      /\ walk.offset \in Nat
  BY DEF WalkInv, WalkSound, LogTyped
<1>5. ASSUME NEW f \in S
      PROVE  Tied(f) => Tied(f)'
  BY <1>1, <1>3 DEF Tied
<1>6. ASSUME NEW f \in S
      PROVE  /\ Above(f) \subseteq Above(f)'
             /\ Above(f)' # Above(f) =>
                   \E g \in S' \ walk'.due : rows'[g].stamp > rows'[f].stamp
  <2>1. Above(f) \subseteq Above(f)'
    BY <1>1, <1>3 DEF Above
  <2>2. ASSUME NEW g \in Above(f)', g \notin Above(f)
        PROVE  g \in S' \ walk'.due /\ rows'[g].stamp > rows'[f].stamp
    BY <1>1, <1>3, <1>4, <2>2 DEF Above
  <2>3. QED
    BY <2>1, <2>2
<1>7. ASSUME NEW f \in S
      PROVE  Rank(f) \in Nat /\ Rank(f)' \in Nat /\ Rank(f) <= Rank(f)'
  <2>1. IsFiniteSet(S')
    <3>1. S' \subseteq Entries
      BY DEF Selected, Stored
    <3>2. QED
      BY <3>1, LogAssumption, FS_Subset
  <2>2. Above(f)' \subseteq S'
    BY DEF Above
  <2>3. IsFiniteSet(Above(f)')
    BY <2>1, <2>2, FS_Subset
  <2>4. /\ IsFiniteSet(Above(f))
        /\ Cardinality(Above(f)) <= Cardinality(Above(f)')
    BY <1>6, <2>3, FS_Subset
  <2>5. QED
    BY <2>3, <2>4, FS_CardinalityType DEF Rank
<1>8. ASSUME NEW f \in S
      PROVE  Explained(f) => Explained(f)'
  <2>1. CASE Tied(f)
    BY <1>5, <2>1 DEF Explained
  <2>2. ASSUME NEW g \in S \ walk.due, rows[g].stamp > rows[f].stamp
        PROVE  Explained(f)'
    <3>1. g \in S' \ walk'.due /\ rows'[g].stamp > rows'[f].stamp
      BY <1>1, <1>3, <2>2
    <3>2. QED
      BY <3>1 DEF Explained
  <2>3. QED
    BY <2>1, <2>2 DEF Explained
<1>9. WalkSound'
  <2>1. walk'.due \cup walk'.seen \subseteq S'
    BY <1>1, <1>3, <1>4
  <2>2. QED
    BY <1>1, <2>1 DEF WalkInv, WalkSound
<1>10. StillToCome'
  <2>1. ASSUME walk.step = "reading", NEW f \in walk.due \ walk.seen
        PROVE  Tied(f)' \/ Rank(f)' >= walk.offset
    <3>1. f \in S /\ (Tied(f) \/ Rank(f) >= walk.offset)
      BY <1>4, <2>1 DEF WalkInv, StillToCome
    <3>2. Rank(f) \in Nat /\ Rank(f)' \in Nat /\ Rank(f) <= Rank(f)'
      BY <1>7, <3>1
    <3>3. QED
      BY <1>4, <1>5, <3>1, <3>2
  <2>2. QED
    BY <1>1, <2>1 DEF StillToCome
<1>11. LeftBehind'
  <2>1. ASSUME NEW f \in walk.seen
        PROVE  Explained(f)' \/ Rank(f)' < walk.offset
    <3>1. f \in S /\ (Explained(f) \/ Rank(f) < walk.offset)
      BY <1>4 DEF WalkInv, LeftBehind
    <3>2. CASE Above(f)' = Above(f)
      BY <1>8, <3>1, <3>2 DEF Rank
    <3>3. CASE Above(f)' # Above(f)
      BY <1>6, <3>1, <3>3 DEF Explained
    <3>4. QED
      BY <3>2, <3>3
  <2>2. QED
    BY <1>1, <2>1 DEF LeftBehind
<1>12. WalkComplete'
  BY <1>1, <1>4, <1>5 DEF WalkInv, WalkComplete
<1>13. RepeatsExplained'
  <2>1. \A f \in walk.repeated : f \in S /\ Explained(f)
    BY <1>4 DEF WalkInv, RepeatsExplained, Explained
  <2>2. \A f \in walk'.repeated : Explained(f)'
    BY <1>1, <1>8, <2>1
  <2>3. QED
    BY <2>2 DEF RepeatsExplained, Explained
<1>14. QED
  BY <1>2, <1>9, <1>10, <1>11, <1>12, <1>13 DEF WalkInv

\* No step breaks the invariant of the reader.
LEMMA NextWalk == WalkInv /\ [Next]_vars => WalkInv'
<1> SUFFICES ASSUME WalkInv, [Next]_vars PROVE WalkInv'
  OBVIOUS
<1>1. CASE UNCHANGED logVars
  <2>1. rows' = rows /\ walk' = walk
    BY <1>1 DEF logVars
  <2>2. /\ \A q : Selected(q)' = Selected(q)
        /\ \A e : Tied(e)' <=> Tied(e)
        /\ \A e : Rank(e)' = Rank(e)
        /\ \A e : Explained(e)' <=> Explained(e)
    BY <2>1 DEF Selected, Stored, Tied, Rank, Above, Explained
  <2>3. QED
    BY <2>1, <2>2 DEF WalkInv, LogTyped, WalkSound, StillToCome, LeftBehind,
                      WalkComplete, RepeatsExplained
<1>2. ASSUME NEW query \in Queries, NEW asked \in Asked, Begin(query, asked)
      PROVE  WalkInv'
  BY <1>2, BeginKeeps
<1>3. CASE ReadPage
  BY <1>3, ReadKeeps
<1>4. CASE ReadFails
  BY <1>4, FailKeeps DEF ReadFails
<1>5. ASSUME NEW c \in Calls, StoreCall(c) PROVE WalkInv'
  BY <1>5, InsertKeeps, RowAssumption DEF StoreCall
<1>6. ASSUME NEW e \in Entries, StoreOther(e) PROVE WalkInv'
  BY <1>6, InsertKeeps DEF StoreOther
<1>7. QED
  BY <1>1, <1>2, <1>3, <1>4, <1>5, <1>6 DEF Next, LogNext, vars

\* The inductive invariant of the reader holds.
LEMMA ReaderSound == Spec => []WalkInv
<1>1. Init => WalkInv
  BY InitWalk DEF Init
<1>2. QED
  BY <1>1, NextWalk, PTL DEF Spec

\* The walk to an empty page misses no row that matched when it began, for
\* any table, limit and width of the numbers.
THEOREM WalksMissNothing == Spec => []WalkComplete
<1>1. WalkInv => WalkComplete
  BY DEF WalkInv
<1>2. QED
  BY <1>1, ReaderSound, PTL

\* A row that is shown twice was pushed on by a newer one, or shares its time.
THEOREM RepeatsHaveCause == Spec => []RepeatsExplained
<1>1. WalkInv => RepeatsExplained
  BY DEF WalkInv
<1>2. QED
  BY <1>1, ReaderSound, PTL

\* The walk stays within the rows that match its filter: the guard of ReadPage
\* that bounds the offset stops no reader.
OffsetInside ==
    walk.offset <= Cardinality(Selected(walk.query))

\* A reader who goes on to another page has been given a row.
WalkAdvances ==
    [][walk.step = "reading" /\ walk'.step = "reading" /\ walk' # walk
           => walk'.offset > walk.offset]_vars

\* A page that is read ends the walk or moves it on, within the matching rows.
LEMMA PageAdvances ==
    ASSUME WalkInv, OffsetInside, NEW l \in Nat,
           NEW s \in Listings(Selected(walk.query)),
           NEW page,
           page = SubSeq(s, walk.offset + 1,
                         IF walk.offset + l < Len(s) THEN walk.offset + l
                         ELSE Len(s)),
           Receives(page, Selected(walk.query))
    PROVE  /\ walk'.query = walk.query
           /\ walk'.offset <= Cardinality(Selected(walk.query))
           /\ walk'.step = "reading" => walk'.offset > walk.offset
<1> DEFINE S == Selected(walk.query)
           o == walk.offset
           n == Len(s)
           m == IF o + l < n THEN o + l ELSE n
<1>1. LogTyped /\ o \in Nat
  BY DEF WalkInv, LogTyped
<1>2. IsFiniteSet(S)
  BY <1>1, StampsTyped
<1>3. n \in Nat /\ n = Cardinality(S) /\ s \in Seq(S)
  BY <1>2, ListingShape
<1>4. o <= n
  BY <1>3 DEF OffsetInside
<1>5. page = PageOf(s, o, m)
  BY DEF PageOf
<1>6. walk'.query = walk.query /\ walk'.offset = o + Len(page)
      /\ (walk'.step = "reading" => page # <<>>)
  BY <1>1 DEF Receives, LogTyped
<1>7. m \in Int /\ m <= n
  BY <1>1, <1>3
<1>8. m <= Len(s)
  BY <1>7
<1> HIDE DEF S, o, n, m
<1>9. Len(page) = Span(o, m)
  BY ONLY <1>1, <1>3, <1>5, <1>7, <1>8, PageShape
<1>10. page = <<>> <=> m <= o
  BY ONLY <1>1, <1>3, <1>5, <1>7, <1>8, PageShape
<1> DEFINE len == Len(page)
<1>11. len = Span(o, m) /\ walk'.offset = o + len
  BY <1>6, <1>9
<1>12. o \in Nat
  BY <1>1
<1> HIDE DEF len
<1>13. CASE m <= o
  <2>1. len = 0
    BY ONLY <1>7, <1>11, <1>12, <1>13 DEF Span
  <2>2. walk'.offset <= n
    BY ONLY <1>4, <1>11, <1>12, <2>1
  <2>3. walk'.step # "reading"
    BY <1>6, <1>10, <1>13
  <2>4. QED
    BY <1>3, <1>6, <2>2, <2>3 DEF S
<1>14. CASE o < m
  <2>1. len = m - o
    BY ONLY <1>7, <1>11, <1>12, <1>14 DEF Span
  <2>2. walk'.offset = m
    BY ONLY <1>7, <1>11, <1>12, <2>1
  <2>3. walk'.offset <= n /\ walk'.offset > o
    BY ONLY <1>7, <1>12, <1>14, <2>2
  <2>4. QED
    BY <1>3, <1>6, <2>3 DEF S, o
<1>15. m <= o \/ o < m
  BY ONLY <1>7, <1>12
<1>16. QED
  BY <1>13, <1>14, <1>15

\* A page that is asked for is refused, or moves the walk on.
LEMMA ReadAdvances ==
    ASSUME WalkInv, OffsetInside, ReadPage
    PROVE  /\ OffsetInside'
           /\ walk'.step = "reading" => walk'.offset > walk.offset
<1> DEFINE l == Limit(walk.limit)
           offset == Offset(walk.offset)
           matching == Selected(walk.query)
<1>1. walk.step = "reading" /\ rows' = rows
  BY DEF ReadPage
<1>2. IF l < 0 \/ offset < 0
      THEN walk' = [walk EXCEPT !.step = "failed"]
      ELSE \E s \in Listings(matching) :
              Receives(SubSeq(s, offset + 1,
                              IF offset + l < Len(s) THEN offset + l
                              ELSE Len(s)),
                       matching)
  BY DEF ReadPage
<1>3. walk.limit \in Asked \cup {Absent} /\ walk.offset \in Nat
      /\ walk.offset < 2 ^ (Bits - 1) + MaxLimit
  BY DEF WalkInv, LogTyped, WalkSound
<1>4. l \in Int
  BY <1>3, LimitTyped
<1>5. (offset = walk.offset /\ walk.offset < 2 ^ (Bits - 1)) \/ offset < 0
  BY <1>3, OffsetReads
<1>6. \A q : Selected(q)' = Selected(q)
  BY <1>1 DEF Selected, Stored
<1> HIDE DEF l, offset, matching
<1>7. CASE l < 0 \/ offset < 0
  <2>1. walk'.step = "failed" /\ walk'.query = walk.query
        /\ walk'.offset = walk.offset
    BY <1>2, <1>7 DEF WalkInv, LogTyped
  <2>2. Selected(walk.query)' = Selected(walk.query)
    BY <1>6, <2>1
  <2>3. QED
    BY <2>1, <2>2 DEF OffsetInside
<1>8. CASE ~(l < 0 \/ offset < 0)
  <2>1. offset = walk.offset /\ l \in Nat
    BY <1>4, <1>5, <1>8
  <2>2. PICK s \in Listings(matching) :
           Receives(SubSeq(s, walk.offset + 1,
                           IF walk.offset + l < Len(s) THEN walk.offset + l
                           ELSE Len(s)),
                    matching)
    BY <1>2, <1>8, <2>1
  <2>3. \E p : /\ p = SubSeq(s, walk.offset + 1,
                             IF walk.offset + l < Len(s) THEN walk.offset + l
                             ELSE Len(s))
               /\ Receives(p, matching)
    BY <2>2
  <2>4. PICK p : /\ p = SubSeq(s, walk.offset + 1,
                               IF walk.offset + l < Len(s) THEN walk.offset + l
                               ELSE Len(s))
                 /\ Receives(p, matching)
    BY <2>3
  <2>5. /\ walk'.query = walk.query
        /\ walk'.offset <= Cardinality(Selected(walk.query))
        /\ walk'.step = "reading" => walk'.offset > walk.offset
    BY <2>1, <2>4, PageAdvances DEF matching
  <2>6. Selected(walk.query)' = Selected(walk.query)
    BY <1>6, <2>5
  <2>7. QED
    BY <2>5, <2>6 DEF OffsetInside
<1>9. QED
  BY <1>7, <1>8

\* A row that is inserted leaves room for what has been read.
LEMMA InsertInside ==
    ASSUME WalkInv, OffsetInside, NEW e \in Entries, NEW row,
           row # NoRow, InsertRow(e, row)
    PROVE  OffsetInside' /\ walk' = walk
<1> DEFINE S == Selected(walk.query)
<1>1. /\ rows[e] = NoRow /\ walk' = walk
      /\ rows' = [rows EXCEPT ![e] = row]
      /\ rows \in [Entries -> Rows \cup OtherRows \cup {NoRow}]
      /\ walk.offset \in Nat
  BY DEF InsertRow, WalkInv, LogTyped
<1>2. S \subseteq S' /\ S' \subseteq Entries
  BY <1>1 DEF Selected, Stored
<1>3. IsFiniteSet(S')
  BY <1>2, LogAssumption, FS_Subset
<1>4. IsFiniteSet(S) /\ Cardinality(S) <= Cardinality(S')
  BY <1>2, <1>3, FS_Subset
<1>5. Cardinality(S) \in Nat /\ Cardinality(S') \in Nat
  BY <1>3, <1>4, FS_CardinalityType
<1>6. walk.offset <= Cardinality(S)
  BY DEF OffsetInside
<1> HIDE DEF S
<1>7. walk'.offset <= Cardinality(S')
  BY <1>1, <1>4, <1>5, <1>6
<1>8. QED
  BY <1>1, <1>7 DEF OffsetInside, S

\* No step takes the walk out of the matching rows, and no page leaves it
\* where it was.
LEMMA NextAdvances ==
    ASSUME WalkInv, OffsetInside, [Next]_vars
    PROVE  /\ OffsetInside'
           /\ walk.step = "reading" /\ walk'.step = "reading" /\ walk' # walk
                  => walk'.offset > walk.offset
<1>1. CASE UNCHANGED logVars
  <2>1. rows' = rows /\ walk' = walk
    BY <1>1 DEF logVars
  <2>2. QED
    BY <2>1 DEF OffsetInside, Selected, Stored
<1>2. ASSUME NEW query \in Queries, NEW asked \in Asked, Begin(query, asked)
      PROVE  OffsetInside' /\ walk.step # "reading"
  <2>1. walk.step # "reading" /\ walk'.offset = 0
    BY <1>2 DEF Begin, Resting
  <2>2. LogTyped'
    BY <1>2, BeginKeeps DEF WalkInv
  <2>3. Selected(walk.query)' \subseteq Entries
    BY DEF Selected, Stored
  <2>4. Cardinality(Selected(walk.query)') \in Nat
    BY <2>3, LogAssumption, FS_Subset, FS_CardinalityType
  <2>5. QED
    BY <2>1, <2>4 DEF OffsetInside
<1>3. CASE ReadPage
  BY <1>3, ReadAdvances
<1>4. CASE ReadFails
  <2>1. /\ rows' = rows /\ walk'.step = "failed"
        /\ walk'.query = walk.query /\ walk'.offset = walk.offset
    BY <1>4 DEF ReadFails, WalkInv, LogTyped
  <2>2. QED
    BY <2>1 DEF OffsetInside, Selected, Stored
<1>5. ASSUME NEW c \in Calls, StoreCall(c)
      PROVE  OffsetInside' /\ walk' = walk
  BY <1>5, InsertInside, RowAssumption DEF StoreCall
<1>6. ASSUME NEW e \in Entries, StoreOther(e)
      PROVE  OffsetInside' /\ walk' = walk
  BY <1>6, InsertInside, RowAssumption DEF StoreOther
<1>7. QED
  BY <1>1, <1>2, <1>3, <1>4, <1>5, <1>6 DEF Next, LogNext, vars

\* A reader who goes on always goes further, and never past the rows that
\* match: as the table is finite and keeps its rows, a walk has only so many
\* pages between two insertions.
THEOREM WalksAdvance == Spec => []OffsetInside /\ WalkAdvances
<1>1. Init => OffsetInside
  <2> SUFFICES ASSUME Init PROVE OffsetInside
    OBVIOUS
  <2>1. LogTyped /\ walk.offset = 0
    BY InitWalk DEF Init, WalkInv, LogInit, Resting
  <2>2. Cardinality(Selected(walk.query)) \in Nat
    BY <2>1, StampsTyped
  <2>3. QED
    BY <2>1, <2>2 DEF OffsetInside
<1>2. WalkInv /\ OffsetInside /\ [Next]_vars => OffsetInside'
  BY NextAdvances
<1>3. WalkInv /\ OffsetInside /\ [Next]_vars
        => [walk.step = "reading" /\ walk'.step = "reading" /\ walk' # walk
              => walk'.offset > walk.offset]_vars
  BY NextAdvances
<1>4. QED
  BY <1>1, <1>2, <1>3, ReaderSound, PTL DEF Spec, WalkAdvances

-----------------------------------------------------------------------------
(***************************************************************************)
(* The data of a call.                                                     *)
(***************************************************************************)

\* What a call may carry.
Bodies == Results \cup {NoResult}

\* The parameters of a request that has been parsed.
ParamsRead == {CleanParams(input) : input \in Inputs}

ParamsKept == ParamsRead \cup {Nothing}

Registered == Registrations \cup {Fresh.registration}

Shown == {ShownResult(result, fields) : result \in Bodies, fields \in FieldLists}
             \cup {NoResult}

Outcomes == {"none", "allowed", "denied", "rate_limited", "error"}

Events ==
    {NoEvent}
        \cup [outcome : Outcomes,
              params : {RedactJSONBytes(p, fields) : p \in ParamsKept, fields \in FieldLists},
              summary : Shown \cup Bodies]

CallRecords ==
    [step : {"new", "refused", "parsed", "permitted", "sent", "ended"},
     params : ParamsKept, fields : FieldLists,
     registration : Registered,
     sent : {Unsent} \cup [params : ParamsKept, header : {"none", "X-Api-Key"}],
     result : Bodies, shown : Shown, event : Events]

CallTyped == call \in [Calls -> CallRecords]

\* A call has an event when it has ended, and not before; it is shown nothing
\* before either.
OpenOrEnded(r) ==
    IF r.step = "ended"
    THEN /\ r.event.outcome # "none"
         /\ r.event.params = RedactJSONBytes(r.params, r.fields)
    ELSE r.event = NoEvent /\ r.shown = NoResult

\* What the agent has been shown is redacted by the call's fields, and is what
\* the event of an answer holds.
ShownAsAudited(r) ==
    /\ \/ r.shown = NoResult
       \/ \E result \in Bodies : r.shown = ShownResult(result, r.fields)
    /\ r.step = "ended" =>
          IF r.event.outcome = "allowed"
          THEN r.event.summary = r.shown
          ELSE r.shown = NoResult

Parsed(r) == r.step \notin {"new", "refused"}

\* The parameters are those of the request once it has been parsed, and what
\* has been sent is the parameters and the header of a server whose secret
\* could be resolved.
ParsedAndSent(r) ==
    /\ Parsed(r) => r.params \in ParamsRead
    /\ r.sent # Unsent =>
          /\ Parsed(r)
          /\ r.registration \in Registrations
          /\ r.registration.secret # "unresolvable"
          /\ r.sent = [params |-> r.params, header |-> Header(r.registration)]

Sound(r) == OpenOrEnded(r) /\ ShownAsAudited(r) /\ ParsedAndSent(r)

\* The inductive invariant of the calls.
CallInv == CallTyped /\ \A c \in Calls : Sound(call[c])

\* A call nobody has sent carries nothing.
LEMMA FreshSound == Fresh \in CallRecords /\ Sound(Fresh)
<1>1. /\ Nothing \in ParamsKept
      /\ Fresh.registration \in Registered
      /\ NoResult \in Bodies /\ NoResult \in Shown /\ NoEvent \in Events
      /\ {} \in FieldLists
  BY CallAssumption DEF ParamsKept, Registered, Bodies, Shown, Events
<1>2. /\ Fresh.step = "new"
      /\ Fresh.params = Nothing /\ Fresh.fields = {}
      /\ Fresh.sent = Unsent /\ Fresh.result = NoResult
      /\ Fresh.shown = NoResult /\ Fresh.event = NoEvent
  BY DEF Fresh
<1>3. Fresh = [step |-> "new", params |-> Nothing,
               fields |-> {}, registration |-> Fresh.registration,
               sent |-> Unsent, result |-> NoResult, shown |-> NoResult,
               event |-> NoEvent]
  BY DEF Fresh
<1>4. Fresh \in CallRecords
  BY <1>1, <1>3 DEF CallRecords
<1>5. Sound(Fresh)
  BY <1>2 DEF Sound, OpenOrEnded, ShownAsAudited, ParsedAndSent, Parsed
<1>6. QED
  BY <1>4, <1>5

\* A call that ends, ends with an event of what it is shown.
LEMMA EndedSound ==
    ASSUME NEW r \in CallRecords, Sound(r), Parsed(r),
           NEW outcome \in Outcomes \ {"none"}, NEW fields \in FieldLists,
           NEW result \in Bodies, NEW summary \in Shown \cup Bodies,
           NEW shown \in Shown,
           outcome = "allowed" =>
              summary = shown /\ shown = ShownResult(result, fields),
           outcome # "allowed" => shown = NoResult,
           NEW new,
           new = [r EXCEPT
                    !.step = "ended",
                    !.fields = fields,
                    !.result = result,
                    !.shown = shown,
                    !.event = [outcome |-> outcome,
                               params |-> RedactJSONBytes(r.params, fields),
                               summary |-> summary]]
    PROVE  new \in CallRecords /\ Sound(new)
<1> DEFINE event == [outcome |-> outcome,
                     params |-> RedactJSONBytes(r.params, fields),
                     summary |-> summary]
<1>1. event \in Events
  <2>1. RedactJSONBytes(r.params, fields)
           \in {RedactJSONBytes(p, f) : p \in ParamsKept, f \in FieldLists}
    BY DEF CallRecords
  <2>2. QED
    BY <2>1 DEF Events
<1>2. /\ event.outcome = outcome /\ event.summary = summary
      /\ event.params = RedactJSONBytes(r.params, fields)
  OBVIOUS
<1> HIDE DEF event
<1>3. new = [r EXCEPT !.step = "ended", !.fields = fields, !.result = result,
                      !.shown = shown, !.event = event]
  BY DEF event
<1>4. /\ new.step = "ended" /\ new.fields = fields /\ new.result = result
      /\ new.shown = shown /\ new.event = event
      /\ new.params = r.params
      /\ new.registration = r.registration /\ new.sent = r.sent
  BY <1>3 DEF CallRecords
<1>5. new \in CallRecords
  BY <1>1, <1>3 DEF CallRecords
<1>6. Sound(new)
  <2>1. OpenOrEnded(new)
    BY <1>2, <1>4 DEF OpenOrEnded
  <2>2. ShownAsAudited(new)
    BY <1>2, <1>4 DEF ShownAsAudited
  <2>3. ParsedAndSent(new)
    BY <1>4 DEF Sound, ParsedAndSent, Parsed
  <2>4. QED
    BY <2>1, <2>2, <2>3 DEF Sound
<1>7. QED
  BY <1>5, <1>6

\* A call that stays open carries its request on.
LEMMA OpenSound ==
    ASSUME NEW r \in CallRecords, Sound(r), Parsed(r), r.step # "ended",
           NEW step \in {"parsed", "permitted", "sent"},
           NEW fields \in FieldLists, NEW registration \in Registered,
           NEW sent \in {r.sent, [params |-> r.params, header |-> Header(registration)]},
           \/ registration = r.registration /\ sent = r.sent
           \/ /\ registration \in Registrations
              /\ registration.secret # "unresolvable"
              /\ sent = [params |-> r.params, header |-> Header(registration)],
           NEW new,
           new = [r EXCEPT !.step = step, !.fields = fields,
                           !.registration = registration, !.sent = sent]
    PROVE  new \in CallRecords /\ Sound(new)
<1>1. /\ new.step = step /\ new.fields = fields
      /\ new.registration = registration /\ new.sent = sent
      /\ new.params = r.params
      /\ new.result = r.result /\ new.shown = r.shown /\ new.event = r.event
  BY DEF CallRecords
<1>2. new \in CallRecords
  <2>1. sent \in {Unsent} \cup [params : ParamsKept, header : {"none", "X-Api-Key"}]
    BY DEF CallRecords, Header
  <2>2. QED
    BY <2>1 DEF CallRecords
<1>3. Sound(new)
  <2>1. OpenOrEnded(new) /\ ShownAsAudited(new)
    BY <1>1 DEF Sound, OpenOrEnded, ShownAsAudited
  <2>2. ParsedAndSent(new)
    BY <1>1 DEF Sound, ParsedAndSent, Parsed
  <2>3. QED
    BY <2>1, <2>2 DEF Sound
<1>4. QED
  BY <1>2, <1>3

\* A request that is read carries its parameters.
LEMMA SubmittedSound ==
    ASSUME NEW input \in Inputs
    PROVE  /\ [Fresh EXCEPT !.step = "refused"] \in CallRecords
           /\ Sound([Fresh EXCEPT !.step = "refused"])
           /\ [Fresh EXCEPT !.step = "parsed",
                            !.params = CleanParams(input)] \in CallRecords
           /\ Sound([Fresh EXCEPT !.step = "parsed",
                                  !.params = CleanParams(input)])
<1> DEFINE doc == CleanParams(input)
           refused == [Fresh EXCEPT !.step = "refused"]
           parsed == [Fresh EXCEPT !.step = "parsed", !.params = doc]
<1>1. doc \in ParamsRead /\ doc \in ParamsKept
  BY DEF ParamsRead, ParamsKept
<1>2. Fresh \in CallRecords /\ Sound(Fresh) /\ Fresh.sent = Unsent
      /\ Fresh.shown = NoResult /\ Fresh.event = NoEvent
  BY FreshSound DEF Fresh
<1> HIDE DEF doc
<1>3. refused \in CallRecords /\ parsed \in CallRecords
  BY <1>1, <1>2 DEF CallRecords
<1>4. /\ refused.step = "refused" /\ refused.sent = Unsent
      /\ refused.shown = NoResult /\ refused.event = NoEvent
      /\ parsed.step = "parsed" /\ parsed.sent = Unsent
      /\ parsed.shown = NoResult /\ parsed.event = NoEvent
      /\ parsed.params = doc
  BY <1>2 DEF CallRecords
<1> HIDE DEF refused, parsed
<1>5. Sound(refused) /\ Sound(parsed)
  BY <1>1, <1>4 DEF Sound, OpenOrEnded, ShownAsAudited, ParsedAndSent, Parsed
<1>6. QED
  BY <1>3, <1>5 DEF refused, parsed, doc

\* A step of one call leaves the others alone.
LEMMA ChangeOne ==
    ASSUME CallInv, NEW c \in Calls, NEW new \in CallRecords, Sound(new),
           Becomes(c, new)
    PROVE  CallInv'
<1>1. call' = [call EXCEPT ![c] = new] /\ call \in [Calls -> CallRecords]
  BY DEF Becomes, CallInv, CallTyped
<1>2. CallTyped'
  BY <1>1 DEF CallTyped
<1>3. ASSUME NEW d \in Calls PROVE Sound(call'[d])
  <2>1. call'[d] = IF d = c THEN new ELSE call[d]
    BY <1>1
  <2>2. Sound(call[d])
    BY DEF CallInv
  <2>3. QED
    BY <2>1, <2>2
<1>4. QED
  BY <1>2, <1>3 DEF CallInv

\* What a step decides of a call keeps it sound.
LEMMA CallStep ==
    ASSUME CallInv, NEW c \in Calls
    PROVE  /\ \A input \in Inputs : Submit(c, input) => CallInv'
           /\ \A fields \in FieldLists :
                 DenyCall(c, fields) \/ LimitCall(c, fields) \/ PermitCall(c, fields)
                    => CallInv'
           /\ \A registration \in Registrations :
                 SendCall(c, registration) \/ ResolveFails(c, registration) => CallInv'
           /\ \A result \in Results \cup {NoResult} :
                 FailCall(c, result) \/ AnswerCall(c, result) => CallInv'
<1> DEFINE r == call[c]
<1>1. r \in CallRecords /\ Sound(r)
  BY DEF CallInv, CallTyped
<1>2. /\ r.fields \in FieldLists /\ r.registration \in Registered
      /\ NoResult \in Bodies /\ NoResult \in Shown
  BY <1>1 DEF CallRecords, Bodies, Shown
<1>3. ASSUME NEW input \in Inputs, Submit(c, input) PROVE CallInv'
  <2>1. \/ Becomes(c, [Fresh EXCEPT !.step = "refused"])
        \/ Becomes(c, [Fresh EXCEPT !.step = "parsed",
                                    !.params = CleanParams(input)])
    BY <1>3 DEF Submit
  <2>2. QED
    BY <2>1, SubmittedSound, ChangeOne
\* A call that ends.
<1>4. ASSUME Parsed(r), NEW outcome \in Outcomes \ {"none"}, NEW fields \in FieldLists,
             NEW result \in Bodies, NEW summary \in Shown \cup Bodies,
             NEW shown \in Shown,
             outcome = "allowed" =>
                summary = shown /\ shown = ShownResult(result, fields),
             outcome # "allowed" => shown = NoResult,
             Ends(c, outcome, fields, result, summary, shown)
      PROVE  CallInv'
  <2> DEFINE new == [r EXCEPT
                       !.step = "ended",
                       !.fields = fields,
                       !.result = result,
                       !.shown = shown,
                       !.event = [outcome |-> outcome,
                                  params |-> RedactJSONBytes(r.params, fields),
                                  summary |-> summary]]
  <2>1. Becomes(c, new)
    BY <1>4 DEF Ends
  <2>2. new \in CallRecords /\ Sound(new)
    BY <1>1, <1>4, EndedSound
  <2> HIDE DEF new
  <2>3. QED
    BY <2>1, <2>2, ChangeOne
<1>5. ASSUME NEW fields \in FieldLists,
             NEW outcome \in {"denied", "rate_limited", "error"},
             NEW body \in Bodies, Parsed(r),
             Ends(c, outcome, fields, body, body, NoResult)
      PROVE  CallInv'
  BY <1>2, <1>4, <1>5 DEF Outcomes
<1>6. ASSUME NEW fields \in FieldLists, DenyCall(c, fields) PROVE CallInv'
  BY <1>2, <1>5, <1>6 DEF DenyCall, At, Parsed
<1>7. ASSUME NEW fields \in FieldLists, LimitCall(c, fields) PROVE CallInv'
  BY <1>2, <1>5, <1>7 DEF LimitCall, At, Parsed
<1>8. ASSUME NEW registration \in Registrations, ResolveFails(c, registration)
      PROVE  CallInv'
  BY <1>2, <1>5, <1>8 DEF ResolveFails, At, Parsed
<1>9. ASSUME NEW body \in Results \cup {NoResult}, FailCall(c, body) PROVE CallInv'
  BY <1>2, <1>5, <1>9 DEF FailCall, At, Parsed, Bodies
<1>10. ASSUME NEW result \in Results \cup {NoResult}, AnswerCall(c, result)
       PROVE  CallInv'
  <2> DEFINE shown == ShownResult(result, r.fields)
  <2>1. result \in Bodies /\ shown \in Shown
    BY <1>2 DEF Bodies, Shown
  <2>2. Parsed(r) /\ Ends(c, "allowed", r.fields, result, shown, shown)
    BY <1>10 DEF AnswerCall, At, Parsed
  <2> HIDE DEF shown
  <2>3. shown = ShownResult(result, r.fields)
    BY DEF shown
  <2>4. QED
    BY <1>2, <1>4, <2>1, <2>2, <2>3 DEF Outcomes
\* A call that goes on.
<1>11. ASSUME NEW fields \in FieldLists, PermitCall(c, fields) PROVE CallInv'
  <2> DEFINE new == [r EXCEPT !.step = "permitted", !.fields = fields]
  <2>1. Becomes(c, new) /\ Parsed(r) /\ r.step # "ended"
    BY <1>11 DEF PermitCall, At, Parsed
  <2>2. new = [r EXCEPT !.step = "permitted", !.fields = fields,
                        !.registration = r.registration, !.sent = r.sent]
    BY <1>1 DEF CallRecords
  <2> HIDE DEF new
  <2>3. new \in CallRecords /\ Sound(new)
    BY <1>1, <1>2, <2>1, <2>2, OpenSound
  <2>4. QED
    BY <2>1, <2>3, ChangeOne
<1>12. ASSUME NEW registration \in Registrations, SendCall(c, registration)
       PROVE  CallInv'
  <2> DEFINE sent == [params |-> r.params, header |-> Header(registration)]
             new == [r EXCEPT !.step = "sent", !.registration = registration,
                              !.sent = sent]
  <2>1. /\ Becomes(c, new) /\ Parsed(r) /\ r.step # "ended"
        /\ registration.secret # "unresolvable" /\ registration \in Registered
    BY <1>12 DEF SendCall, At, Parsed, Registered
  <2>2. sent = [params |-> r.params, header |-> Header(registration)]
    OBVIOUS
  <2> HIDE DEF sent
  <2>3. new = [r EXCEPT !.step = "sent", !.fields = r.fields,
                        !.registration = registration, !.sent = sent]
    BY <1>1 DEF CallRecords
  <2> HIDE DEF new
  <2>4. new \in CallRecords /\ Sound(new)
    BY <1>1, <1>2, <2>1, <2>2, <2>3, OpenSound
  <2>5. QED
    BY <2>1, <2>4, ChangeOne
<1>13. QED
  BY <1>3, <1>6, <1>7, <1>8, <1>9, <1>10, <1>11, <1>12

\* No step breaks the invariant of the calls.
LEMMA NextCalls == CallInv /\ [Next]_vars => CallInv'
<1> SUFFICES ASSUME CallInv, [Next]_vars PROVE CallInv'
  OBVIOUS
<1>1. CASE UNCHANGED call
  BY <1>1 DEF CallInv, CallTyped
<1>2. CASE CallNext
  BY <1>2, CallStep DEF CallNext
<1>3. QED
  BY <1>1, <1>2 DEF Next, StoreCall, StoreOther, vars

\* The inductive invariant of the calls holds.
LEMMA CallsSound == Spec => []CallInv
<1>1. Init => CallInv
  <2>1. ASSUME CallInit PROVE CallInv
    BY <2>1, FreshSound DEF CallInit, CallInv, CallTyped
  <2>2. QED
    BY <2>1 DEF Init
<1>2. QED
  BY <1>1, NextCalls, PTL DEF Spec

\* What the audit event of a call holds of its result is what the agent was
\* shown, and a call without an answer shows nothing.
THEOREM AuditedAsShown == Spec => []StoredIsShown
<1>1. CallInv => StoredIsShown
  BY DEF CallInv, Sound, ShownAsAudited, StoredIsShown, Ended, At
<1>2. QED
  BY <1>1, CallsSound, PTL

\* A call whose server has a secret that could not be resolved is never sent
\* without it: only a server that names none, or one whose auth_type has no
\* header, is called bare.
THEOREM CallsCredentialed == Spec => []SentWithCredential
<1>1. ASSUME CallInv PROVE SentWithCredential
  <2>1. ASSUME NEW c \in Calls, call[c].sent # Unsent, call[c].sent.header = "none"
        PROVE  \/ call[c].registration.secret = "none"
               \/ call[c].registration.auth = "oauth2"
    <3> DEFINE r == call[c]
    <3>1. /\ r.registration \in Registrations
          /\ r.registration.secret # "unresolvable"
          /\ r.sent = [params |-> r.params, header |-> Header(r.registration)]
      BY <1>1, <2>1 DEF CallInv, Sound, ParsedAndSent
    <3>2. r.sent.header = "none"
      BY <2>1
    <3> HIDE DEF r
    <3>3. r.sent.header = Header(r.registration)
      BY <3>1
    <3>4. r.registration.secret = "none" \/ r.registration.auth = "oauth2"
      BY <3>1, <3>2, <3>3, CallAssumption DEF Header
    <3>5. QED
      BY <3>4 DEF r
  <2>2. QED
    BY <2>1 DEF SentWithCredential
<1>2. QED
  BY <1>1, CallsSound, PTL

\* Parameters that have been read are a JSON object with nothing redacted, whose
\* numbers are all float64s, and they are among its values.
LEMMA ReadShape ==
    ASSUME NEW doc \in ParamsRead
    PROVE  /\ DOMAIN doc = {"shape", "kept", "redacted", "wide", "rounded"}
           /\ doc.shape = "object" /\ doc.redacted = {} /\ doc.wide = {}
           /\ doc.rounded \subseteq doc.kept
<1>1. PICK input \in Inputs : doc = CleanParams(input)
  BY DEF ParamsRead
<1> DEFINE wide == {<<"arguments">> \o p : p \in input.wide}
           paths == {<<"name">>} \cup {<<"arguments">> \o p : p \in input.arguments}
<1>2. wide \subseteq paths
  BY InputAssumption
<1>3. doc = Decoded(Document("object", paths, wide))
  BY <1>1 DEF CleanParams
<1> HIDE DEF wide, paths
<1>4. doc = [shape |-> "object", kept |-> paths, redacted |-> {}, wide |-> {},
             rounded |-> {} \cup wide]
  BY <1>3 DEF Decoded, Document
<1>5. QED
  BY <1>2, <1>4

\* The audited parameters show what was sent but for what they redact, and
\* redact only listed fields.
Matches(sent, audited, fields) ==
    /\ audited.redacted \subseteq fields \cap {p[1] : p \in sent.kept}
    /\ audited.kept = {p \in sent.kept : p[1] \notin audited.redacted}
    /\ audited.wide = {p \in sent.wide : p[1] \notin audited.redacted}
    /\ audited.rounded = {p \in sent.rounded : p[1] \notin audited.redacted}

\* Redaction takes no more than the listed fields, and does not touch a number
\* that decoding the request has not rounded.
LEMMA RedactedMatches ==
    ASSUME NEW sent \in ParamsRead, NEW fields
    PROVE  Matches(sent, RedactJSONBytes(sent, fields), fields)
<1> DEFINE audited == RedactJSONBytes(sent, fields)
<1>1. /\ DOMAIN sent = {"shape", "kept", "redacted", "wide", "rounded"}
      /\ sent.shape = "object" /\ sent.redacted = {} /\ sent.wide = {}
      /\ sent.rounded \subseteq sent.kept
  BY ReadShape
<1>2. CASE fields = {}
  <2>1. audited = sent
    BY <1>2 DEF RedactJSONBytes
  <2>2. QED
    BY <1>1, <2>1 DEF Matches
<1>3. CASE fields # {}
  <2>1. audited = RedactJSON(sent, fields)
    BY <1>1, <1>3 DEF RedactJSONBytes
  <2>2. /\ audited.kept = {p \in sent.kept : p[1] \notin fields}
        /\ audited.rounded = {p \in sent.rounded \cup sent.wide : p[1] \notin fields}
        /\ audited.wide = {}
        /\ audited.redacted =
              {p[1] : p \in sent.kept \ {q \in sent.kept : q[1] \notin fields}}
    BY <1>1, <2>1 DEF RedactJSON, Decoded
  <2> HIDE DEF audited
  <2>3. audited.redacted \subseteq fields \cap {p[1] : p \in sent.kept}
    BY <2>2
  <2>4. \A p \in sent.kept : p[1] \in audited.redacted <=> p[1] \in fields
    BY <2>2
  <2>5. audited.kept = {p \in sent.kept : p[1] \notin audited.redacted}
    BY <2>2, <2>4
  <2>6. audited.rounded = {p \in sent.rounded : p[1] \notin audited.redacted}
    BY <1>1, <2>2, <2>4
  <2>7. audited.wide = {p \in sent.wide : p[1] \notin audited.redacted}
    BY <1>1, <2>2
  <2>8. QED
    BY <2>3, <2>5, <2>6, <2>7 DEF Matches, audited
<1>4. QED
  BY <1>2, <1>3

\* What the audit event says a server was asked is what it was asked, but for
\* the listed fields, each of which it names.
THEOREM TrailMatchesSent == Spec => []AuditedIsSent
<1>1. ASSUME CallInv, NEW c \in Calls, At(c, "ended"), call[c].sent # Unsent
      PROVE  Matches(call[c].sent.params, call[c].event.params, call[c].fields)
  <2> DEFINE r == call[c]
  <2>1. /\ Parsed(r) /\ r.params \in ParamsRead
        /\ r.sent = [params |-> r.params, header |-> Header(r.registration)]
        /\ r.event.params = RedactJSONBytes(r.params, r.fields)
    BY <1>1 DEF CallInv, Sound, ParsedAndSent, OpenOrEnded, At
  <2> HIDE DEF r
  <2>2. r.sent.params = r.params
    BY <2>1
  <2>3. Matches(r.params, RedactJSONBytes(r.params, r.fields), r.fields)
    BY <2>1, RedactedMatches
  <2>4. QED
    BY <2>1, <2>2, <2>3 DEF r
<1>2. CallInv => AuditedIsSent
  BY <1>1 DEF AuditedIsSent, Ended, Matches
<1>3. QED
  BY <1>2, CallsSound, PTL

\* The fields of a document that are listed do not survive at its top.
LEMMA RedactedClean ==
    ASSUME NEW doc, NEW fields, doc.shape = "object",
           DOMAIN doc = {"shape", "kept", "redacted", "wide", "rounded"}
    PROVE  \A p \in RedactJSONBytes(doc, fields).kept : p[1] \notin fields
<1>1. CASE fields = {}
  BY <1>1
<1>2. CASE fields # {}
  <2>1. RedactJSONBytes(doc, fields) = RedactJSON(doc, fields)
    BY <1>2 DEF RedactJSONBytes
  <2>2. RedactJSON(doc, fields).kept = {p \in doc.kept : p[1] \notin fields}
    BY DEF RedactJSON, Decoded
  <2>3. QED
    BY <2>1, <2>2
<1>3. QED
  BY <1>1, <1>2

\* No object in a result that is shown has a listed field at its top.
LEMMA ShownClean ==
    ASSUME NEW result \in Bodies, NEW fields,
           NEW doc \in Objects(ShownResult(result, fields)),
           NEW p \in doc.kept
    PROVE  p[1] \notin fields
<1> DEFINE shown == ShownResult(result, fields)
<1>1. shown.form = "tool"
  BY DEF Objects
<1>2. PICK k \in DOMAIN shown.items :
        /\ shown.items[k].type = "text"
        /\ shown.items[k].text.shape = "object"
        /\ doc = shown.items[k].text
  BY <1>1 DEF Objects
<1>3. CASE fields = {}
  BY <1>3
<1>4. CASE result = NoResult
  <2>1. shown = NoResult
    BY <1>4 DEF ShownResult, NoResult
  <2>2. QED
    BY <1>1, <2>1 DEF NoResult
<1>5. CASE fields # {} /\ result \in Results /\ result.form = "tool"
  <2>1. shown = RedactFields(result, fields)
    BY <1>5 DEF ShownResult
  <2>2. DOMAIN result = {"form", "items", "more"}
    BY <1>5, ResultAssumption
  <2>3. shown.items = [i \in DOMAIN result.items |-> RedactItem(result.items[i], fields)]
    BY <2>1, <2>2 DEF RedactFields
  <2>4. k \in DOMAIN result.items /\ shown.items[k] = RedactItem(result.items[k], fields)
    BY <1>2, <2>3
  <2> DEFINE item == result.items[k]
  <2>5. /\ DOMAIN item = {"type", "text", "data"}
        /\ DOMAIN item.text = {"shape", "kept", "redacted", "wide", "rounded"}
    BY <1>5, <2>4, ResultAssumption
  <2> HIDE DEF item, shown
  <2>6. /\ RedactItem(item, fields).type = item.type
        /\ RedactItem(item, fields).text =
              IF item.type = "text" THEN RedactJSONBytes(item.text, fields)
              ELSE item.text
    BY <2>5 DEF RedactItem
  <2>7. doc = RedactJSONBytes(item.text, fields)
    BY <1>2, <2>4, <2>6 DEF item
  <2>8. item.text.shape = "object"
    <3>1. doc.shape = "object"
      BY <1>2
    <3>2. QED
      BY <2>5, <2>7, <3>1 DEF RedactJSONBytes, RedactJSON, Decoded
  <2>9. QED
    BY <2>5, <2>7, <2>8, RedactedClean
<1>6. CASE fields # {} /\ result.form # "tool"
  BY <1>1, <1>6 DEF ShownResult
<1>7. QED
  BY <1>3, <1>4, <1>5, <1>6 DEF Bodies

\* No listed field survives at the top of what is audited or shown.
THEOREM TopLevelClean == Spec => []TopLevelStripped
<1>1. ASSUME CallInv PROVE TopLevelStripped
  <2>1. ASSUME NEW c \in Calls, At(c, "ended"),
               NEW p \in call[c].event.params.kept
        PROVE  p[1] \notin call[c].fields
    <3> DEFINE r == call[c]
    <3>1. /\ r.params \in ParamsRead
          /\ r.event.params = RedactJSONBytes(r.params, r.fields)
      BY <1>1, <2>1 DEF CallInv, Sound, ParsedAndSent, Parsed, OpenOrEnded, At
    <3>2. /\ r.params.shape = "object"
          /\ DOMAIN r.params = {"shape", "kept", "redacted", "wide", "rounded"}
      BY <3>1, ReadShape
    <3> HIDE DEF r
    <3>3. p \in RedactJSONBytes(r.params, r.fields).kept
      BY <2>1, <3>1 DEF r
    <3>4. QED
      BY <3>2, <3>3, RedactedClean DEF r
  <2>2. ASSUME NEW c \in Calls, NEW doc \in Objects(call[c].shown), NEW p \in doc.kept
        PROVE  p[1] \notin call[c].fields
    <3>1. call[c].shown # NoResult
      BY <2>2 DEF Objects, NoResult
    <3>2. PICK result \in Bodies : call[c].shown = ShownResult(result, call[c].fields)
      BY <1>1, <3>1 DEF CallInv, Sound, ShownAsAudited
    <3>3. QED
      BY <2>2, <3>2, ShownClean
  <2>3. QED
    BY <2>1, <2>2 DEF TopLevelStripped, Leaks, Ended
<1>2. QED
  BY <1>1, CallsSound, PTL

\* The calls, the table and the reader keep their types.
THEOREM RecordTypeCorrect == Spec => []TypeOK
<1>1. ASSUME CallInv, WalkInv PROVE TypeOK
  <2>1. ASSUME NEW c \in Calls
        PROVE  /\ call[c].step \in {"new", "refused", "parsed", "permitted", "sent", "ended"}
               /\ call[c].fields \in FieldLists
               /\ call[c].result \in Results \cup {NoResult}
               /\ call[c].event.outcome \in {"none", "allowed", "denied", "rate_limited", "error"}
               /\ At(c, "ended") <=> call[c].event.outcome # "none"
    <3>1. call[c] \in CallRecords /\ OpenOrEnded(call[c])
      BY <1>1 DEF CallInv, CallTyped, Sound
    <3>2. call[c].event \in Events
      BY <3>1 DEF CallRecords
    <3>3. call[c].event.outcome \in Outcomes
      BY <3>2 DEF Events, NoEvent, Outcomes
    <3>4. At(c, "ended") <=> call[c].event.outcome # "none"
      BY <3>1 DEF OpenOrEnded, NoEvent, At
    <3>5. QED
      BY <3>1, <3>3, <3>4 DEF CallRecords, Bodies, Outcomes
  <2>2. \A e \in Stored : rows[e] \in Rows \cup OtherRows
    BY <1>1 DEF WalkInv, LogTyped, Stored
  <2>3. /\ walk.step \in {"resting", "reading", "done", "failed"}
        /\ walk.offset \in Nat
        /\ walk.due \subseteq Entries
        /\ walk.repeated \subseteq walk.seen
    BY <1>1 DEF WalkInv, LogTyped, WalkSound
  <2>4. QED
    BY <2>1, <2>2, <2>3 DEF TypeOK
<1>2. QED
  BY <1>1, CallsSound, ReaderSound, PTL
===============================================================================
