------------------------- MODULE EventsReaderProofs -------------------------
(***************************************************************************)
(* What the reader of the events streams promises, for any streams, any    *)
(* COUNT, any budget of failures and any channel size: every event past    *)
(* the first read is recorded once, in order.                              *)
(***************************************************************************)
EXTENDS EventsReader, DataFacts

Entry == 1 .. MaxEntries
Update == {Live, Unavailable} \cup {Events(es) : es \in [Streams -> Seq(Entry)]}

\* TypeOK, with the channel as a sequence of updates; and the reader gives up when its
\* budget is spent.
Types ==
  /\ log \in [Streams -> 0 .. MaxEntries]
  /\ phase \in Phases
  /\ ids \in [Streams -> 0 .. MaxEntries \cup {Latest}]
  /\ after \in [Streams -> 0 .. MaxEntries]
  /\ failures \in 0 .. MaxFailures
  /\ failures = MaxFailures => phase = "gone" \/ out = Unavailable
  /\ upd \in Seq(Update) /\ Len(upd) <= UpdCap
  /\ out \in Update \cup {Nothing} /\ (out = Nothing <=> phase # "sending")
  /\ status \in {"Attaching", "Live", "Unavailable"}
  /\ seen \in [Streams -> Seq(Entry)]
  /\ first \in [Streams -> 0 .. MaxEntries \cup {None}]

\* A cursor is a number since the first read that returned something, and XREAD waits
\* past it.
Cursors ==
  \A q \in Streams :
    /\ first[q] = None <=> ids[q] = Latest
    /\ first[q] # None => first[q] <= ids[q] /\ ids[q] <= log[q]
    /\ phase = "blocked" => /\ after[q] <= log[q]
                            /\ ids[q] # Latest => after[q] = ids[q]

ReaderInv == Types /\ Cursors /\ ExactlyOnceInOrder

-----------------------------------------------------------------------------
(* Updates and what they carry                                             *)

LEMMA Constants ==
  /\ MaxEntries \in Nat /\ Unreadable \subseteq Entry /\ Count \in Nat /\ Count > 0
  /\ MaxFailures \in Nat /\ MaxFailures > 0 /\ UpdCap \in Nat
  /\ \A n \in Nat : n # Latest /\ n # None
  BY ReaderAssumption DEF Entry

LEMMA Updates ==
  /\ Nothing \notin Update /\ Live # Unavailable
  /\ Live \in Update /\ Unavailable \in Update
  /\ \A es \in [Streams -> Seq(Entry)] :
       Events(es) \in Update /\ Events(es) # Unavailable /\ Events(es).op = "Events"
         /\ Events(es).events = es
  /\ \A u \in Update : /\ u.op = "Events" => u.events \in [Streams -> Seq(Entry)]
                       /\ u.op # "Events" => u.op \in {"Live", "Unavailable"}
                       /\ IsUpdate(u)
<1>1. /\ Nothing.op = "Nothing" /\ Live.op = "Live" /\ Unavailable.op = "Unavailable"
      /\ \A es : Events(es).op = "Events" /\ Events(es).events = es
  BY DEF Nothing, Live, Unavailable, Events
<1>2. \A u \in Update : \/ u \in {Live, Unavailable}
                        \/ \E es \in [Streams -> Seq(Entry)] : u = Events(es)
  BY DEF Update
<1>3. \A es \in [Streams -> Seq(Entry)] : Events(es) \in Update
  BY DEF Update
<1>4. Live \in Update /\ Unavailable \in Update
  BY DEF Update
<1>5. \A u \in Update : /\ u.op = "Events" => u.events \in [Streams -> Seq(Entry)]
                        /\ u.op # "Events" => u.op \in {"Live", "Unavailable"}
                        /\ u \in {Live, Unavailable} \/ u.op = "Events"
  BY <1>1, <1>2
<1>6. \A u \in Update : IsUpdate(u)
  BY <1>5 DEF IsUpdate, Entry
<1>7. QED
  BY <1>1, <1>2, <1>3, <1>4, <1>5, <1>6

\* What an update carries of a stream.
LEMMA Carried ==
  ASSUME NEW q \in Streams
  PROVE  /\ \A u \in Update \cup {Nothing} : EventsIn(u, q) \in Seq(Entry)
         /\ \A u \in {Nothing, Live, Unavailable} : EventsIn(u, q) = <<>>
         /\ \A es \in [Streams -> Seq(Entry)] : EventsIn(Events(es), q) = es[q]
<1>1. Nothing.op = "Nothing" /\ Live.op = "Live" /\ Unavailable.op = "Unavailable"
  BY DEF Nothing, Live, Unavailable
<1>2. \A u \in {Nothing, Live, Unavailable} : EventsIn(u, q) = <<>>
  BY <1>1 DEF EventsIn
<1>3. \A es \in [Streams -> Seq(Entry)] : EventsIn(Events(es), q) = es[q]
  BY Updates DEF EventsIn
<1>4. <<>> \in Seq(Entry)
  OBVIOUS
<1>5. \A u \in Update : EventsIn(u, q) \in Seq(Entry)
  BY <1>4, Updates DEF EventsIn
<1>6. QED
  BY <1>2, <1>3, <1>4, <1>5

\* What a channel of updates carries of a stream.
Carries(c, q) == [i \in 1 .. Len(c) |-> EventsIn(c[i], q)]

LEMMA ChannelCarries ==
  ASSUME NEW q \in Streams, NEW c \in Seq(Update)
  PROVE  /\ Carries(c, q) \in Seq(Seq(Entry))
         /\ FlattenSeq(Carries(c, q)) \in Seq(Entry)
         /\ \A u \in Update : FlattenSeq(Carries(Append(c, u), q))
                                = FlattenSeq(Carries(c, q)) \o EventsIn(u, q)
         /\ c # <<>> => FlattenSeq(Carries(c, q))
                          = EventsIn(Head(c), q) \o FlattenSeq(Carries(Tail(c), q))
<1>1. \A d \in Seq(Update) : Carries(d, q) \in Seq(Seq(Entry)) /\ Len(Carries(d, q)) = Len(d)
  <2> SUFFICES ASSUME NEW d \in Seq(Update)
               PROVE  Carries(d, q) \in Seq(Seq(Entry)) /\ Len(Carries(d, q)) = Len(d)
    OBVIOUS
  <2>1. Len(d) \in Nat /\ \A i \in 1 .. Len(d) : d[i] \in Update
    BY ElementOfSeq, LenProperties
  <2>2. \A i \in 1 .. Len(d) : EventsIn(d[i], q) \in Seq(Entry)
    BY <2>1, Carried
  <2>3. QED
    BY <2>1, <2>2 DEF Carries
<1>2. ASSUME NEW u \in Update
      PROVE  FlattenSeq(Carries(Append(c, u), q)) = FlattenSeq(Carries(c, q)) \o EventsIn(u, q)
  <2>1. /\ Append(c, u) \in Seq(Update) /\ Len(Append(c, u)) = Len(c) + 1
        /\ Len(c) \in Nat
        /\ \A i \in 1 .. Len(c) + 1 : Append(c, u)[i] = IF i = Len(c) + 1 THEN u ELSE c[i]
    BY AppendProperties, LenProperties
  <2>2. EventsIn(u, q) \in Seq(Entry)
    BY Carried
  <2>3. Append(Carries(c, q), EventsIn(u, q)) = Carries(Append(c, u), q)
    <3>1. /\ Append(Carries(c, q), EventsIn(u, q)) \in Seq(Seq(Entry))
          /\ Len(Append(Carries(c, q), EventsIn(u, q))) = Len(c) + 1
          /\ \A i \in 1 .. Len(c) + 1 : Append(Carries(c, q), EventsIn(u, q))[i]
               = IF i = Len(c) + 1 THEN EventsIn(u, q) ELSE Carries(c, q)[i]
      BY <1>1, <2>2, AppendProperties
    <3>2. /\ Carries(Append(c, u), q) \in Seq(Seq(Entry))
          /\ Len(Carries(Append(c, u), q)) = Len(c) + 1
      BY <1>1, <2>1
    <3>3. ASSUME NEW i \in 1 .. Len(c) + 1
          PROVE  Append(Carries(c, q), EventsIn(u, q))[i] = Carries(Append(c, u), q)[i]
      <4>1. Carries(Append(c, u), q)[i] = EventsIn(Append(c, u)[i], q)
        BY <2>1 DEF Carries
      <4>2. CASE i = Len(c) + 1
        BY <2>1, <3>1, <4>1, <4>2
      <4>3. CASE i # Len(c) + 1
        <5>1. i \in 1 .. Len(c)
          BY <2>1, <4>3
        <5>2. Carries(c, q)[i] = EventsIn(c[i], q)
          BY <5>1 DEF Carries
        <5>3. QED
          BY <2>1, <3>1, <4>1, <4>3, <5>2
      <4>4. QED
        BY <4>2, <4>3
    <3>4. QED
      BY <3>1, <3>2, <3>3, SeqEqual
  <2>4. QED
    BY <1>1, <2>2, <2>3, FlattenAppend
<1>3. ASSUME c # <<>>
      PROVE  FlattenSeq(Carries(c, q))
               = EventsIn(Head(c), q) \o FlattenSeq(Carries(Tail(c), q))
  <2>1. /\ Tail(c) \in Seq(Update) /\ Len(Tail(c)) = Len(c) - 1 /\ Head(c) = c[1]
        /\ Len(c) \in Nat /\ Len(c) # 0
        /\ \A i \in 1 .. Len(c) - 1 : Tail(c)[i] = c[i + 1]
    BY <1>3, HeadTailProperties, LenProperties, EmptySeq
  <2>2. Carries(c, q) # <<>>
    BY <1>1, <2>1, EmptySeq
  <2>3. Head(Carries(c, q)) = EventsIn(Head(c), q)
    <3>1. Head(Carries(c, q)) = Carries(c, q)[1]
      BY <1>1, <2>2, HeadTailProperties
    <3>2. 1 \in 1 .. Len(c)
      BY <2>1
    <3>3. QED
      BY <2>1, <3>1, <3>2 DEF Carries
  <2>4. Tail(Carries(c, q)) = Carries(Tail(c), q)
    <3>1. /\ Tail(Carries(c, q)) \in Seq(Seq(Entry))
          /\ Len(Tail(Carries(c, q))) = Len(c) - 1
          /\ \A i \in 1 .. Len(c) - 1 : Tail(Carries(c, q))[i] = Carries(c, q)[i + 1]
      BY <1>1, <2>2, HeadTailProperties
    <3>2. /\ Carries(Tail(c), q) \in Seq(Seq(Entry))
          /\ Len(Carries(Tail(c), q)) = Len(c) - 1
      BY <1>1, <2>1
    <3>3. ASSUME NEW i \in 1 .. Len(c) - 1
          PROVE  Tail(Carries(c, q))[i] = Carries(Tail(c), q)[i]
      <4>1. i + 1 \in 1 .. Len(c) /\ i \in 1 .. Len(Tail(c))
        BY <2>1
      <4>2. Carries(c, q)[i + 1] = EventsIn(c[i + 1], q)
        BY <4>1 DEF Carries
      <4>3. Carries(Tail(c), q)[i] = EventsIn(Tail(c)[i], q)
        BY <4>1 DEF Carries
      <4>4. QED
        BY <2>1, <3>1, <4>2, <4>3
    <3>4. QED
      BY <3>1, <3>2, <3>3, SeqEqual
  <2>5. FlattenSeq(Carries(c, q)) = Head(Carries(c, q)) \o FlattenSeq(Tail(Carries(c, q)))
    BY <1>1, <2>2, FlattenTail
  <2>6. QED
    BY <2>3, <2>4, <2>5
<1>4. QED
  BY <1>1, <1>2, <1>3, FlattenType

-----------------------------------------------------------------------------
(* The entries of a set in their order                                     *)

LEMMA InOrderIs ==
  ASSUME NEW S \in SUBSET Nat, IsFiniteSet(S)
  PROVE  /\ Cardinality(S) \in Nat /\ Len(InOrder(S)) = Cardinality(S)
         /\ InOrder(S) \in Seq(S)
         /\ \A i \in 1 .. Cardinality(S) : \A n \in S :
              InOrder(S)[i] = n <=> Cardinality(Below(S, n)) = i - 1
<1> DEFINE c == Cardinality(S)
<1>1. c \in Nat
  BY FS_CardinalityType
<1> HIDE DEF c
<1>2. \A x, y \in S : Cardinality(Below(S, x)) = Cardinality(Below(S, y)) => x = y
  BY RanksAreDense DEF Rank, Injection, IsInjective
<1>3. ASSUME NEW i \in 1 .. c
      PROVE  InOrder(S)[i] \in S /\ Cardinality(Below(S, InOrder(S)[i])) = i - 1
  <2>1. i - 1 \in Nat /\ i - 1 < Cardinality(S)
    BY <1>1 DEF c
  <2>2. \E n \in S : Cardinality(Below(S, n)) = i - 1
    BY <2>1, RankTaken
  <2>3. \E n \in S : Cardinality({m \in S : m < n}) = i - 1
    BY <2>2 DEF Below
  <2>4. InOrder(S)[i] = CHOOSE n \in S : Cardinality({m \in S : m < n}) = i - 1
    BY DEF InOrder, c
  <2>5. QED
    BY <2>3, <2>4 DEF Below
<1>4. InOrder(S) = [i \in 1 .. c |-> InOrder(S)[i]]
  <2> DEFINE o(i) == CHOOSE n \in S : Cardinality({m \in S : m < n}) = i - 1
  <2>1. InOrder(S) = [i \in 1 .. c |-> o(i)]
    BY DEF InOrder, c
  <2> HIDE DEF o
  <2>2. QED
    BY <2>1
<1>5. InOrder(S) \in Seq(S) /\ Len(InOrder(S)) = c
  <2>1. [i \in 1 .. c |-> InOrder(S)[i]] \in Seq(S) /\ Len([i \in 1 .. c |-> InOrder(S)[i]]) = c
    BY <1>1, <1>3
  <2>2. QED
    BY <1>4, <2>1
<1>6. ASSUME NEW i \in 1 .. c, NEW n \in S
      PROVE  InOrder(S)[i] = n <=> Cardinality(Below(S, n)) = i - 1
  BY <1>2, <1>3
<1>7. QED
  BY <1>1, <1>5, <1>6 DEF c

\* Later entries come after earlier ones.
LEMMA InOrderJoins ==
  ASSUME NEW A \in SUBSET Nat, NEW B \in SUBSET Nat, IsFiniteSet(A), IsFiniteSet(B),
         \A a \in A, b \in B : a < b
  PROVE  InOrder(A \cup B) = InOrder(A) \o InOrder(B)
<1> DEFINE C == A \cup B
           a == Cardinality(A)
           b == Cardinality(B)
           s == InOrder(A) \o InOrder(B)
<1>1. C \in SUBSET Nat /\ IsFiniteSet(C) /\ a \in Nat /\ b \in Nat /\ Cardinality(C) = a + b
  <2>1. A \cap B = {}
    OBVIOUS
  <2>2. IsFiniteSet(C) /\ Cardinality(C) = a + b - Cardinality(A \cap B)
    BY FS_Union
  <2>3. Cardinality(A \cap B) = 0 /\ a \in Nat /\ b \in Nat
    BY <2>1, FS_EmptySet, FS_CardinalityType
  <2>4. QED
    BY <2>2, <2>3
<1>2. /\ InOrder(A) \in Seq(Nat) /\ InOrder(B) \in Seq(Nat) /\ InOrder(C) \in Seq(Nat)
      /\ Len(InOrder(A)) = a /\ Len(InOrder(B)) = b /\ Len(InOrder(C)) = a + b
  <2>1. /\ InOrder(A) \in Seq(A) /\ Len(InOrder(A)) = a
        /\ InOrder(B) \in Seq(B) /\ Len(InOrder(B)) = b
    BY InOrderIs
  <2>2. InOrder(C) \in Seq(C) /\ Len(InOrder(C)) = Cardinality(C)
    <3> HIDE DEF C
    <3>1. QED
      BY <1>1, InOrderIs
  <2>3. ASSUME NEW S \in SUBSET Nat, NEW t \in Seq(S) PROVE t \in Seq(Nat)
    <3>1. /\ Len(t) \in Nat /\ t = [i \in 1 .. Len(t) |-> t[i]]
          /\ \A i \in 1 .. Len(t) : t[i] \in S
      BY ElementOfSeq, LenProperties
    <3>2. \A i \in 1 .. Len(t) : t[i] \in Nat
      BY <3>1
    <3>3. [i \in 1 .. Len(t) |-> t[i]] \in Seq(Nat)
      BY <3>1, <3>2
    <3>4. QED
      BY <3>1, <3>3
  <2>4. QED
    BY <1>1, <2>1, <2>2, <2>3
<1>3. /\ s \in Seq(Nat) /\ Len(s) = a + b
      /\ \A i \in 1 .. a + b : s[i] = IF i <= a THEN InOrder(A)[i] ELSE InOrder(B)[i - a]
  BY <1>2, ConcatProperties, SMTT(30)
<1>4. /\ \A i \in 1 .. a : \A n \in A : InOrder(A)[i] = n <=> Cardinality(Below(A, n)) = i - 1
      /\ \A i \in 1 .. b : \A n \in B : InOrder(B)[i] = n <=> Cardinality(Below(B, n)) = i - 1
      /\ \A i \in 1 .. a + b : \A n \in C : InOrder(C)[i] = n <=> Cardinality(Below(C, n)) = i - 1
      /\ \A i \in 1 .. a : InOrder(A)[i] \in A
      /\ \A i \in 1 .. b : InOrder(B)[i] \in B
  <2>1. InOrder(A) \in Seq(A) /\ InOrder(B) \in Seq(B)
    BY InOrderIs
  <2>2. (\A i \in 1 .. a : InOrder(A)[i] \in A) /\ (\A i \in 1 .. b : InOrder(B)[i] \in B)
    BY <1>2, <2>1, ElementOfSeq
  <2> HIDE DEF C
  <2>3. QED
    BY <1>1, <2>2, InOrderIs
<1>5. ASSUME NEW n \in A PROVE Below(C, n) = Below(A, n)
  <2>1. \A m \in B : ~(m < n)
    OBVIOUS
  <2>2. QED
    BY <2>1 DEF Below
<1>6. ASSUME NEW n \in B PROVE Cardinality(Below(C, n)) = a + Cardinality(Below(B, n))
                               /\ Cardinality(Below(B, n)) \in Nat
  <2>1. Below(C, n) = A \cup Below(B, n)
    BY DEF Below
  <2>2. A \cap Below(B, n) = {}
    <3>1. A \cap B = {}
      OBVIOUS
    <3>2. QED
      BY <3>1 DEF Below
  <2>3. IsFiniteSet(Below(B, n))
    BY FS_Subset DEF Below
  <2>4. Cardinality(A \cup Below(B, n))
          = a + Cardinality(Below(B, n)) - Cardinality(A \cap Below(B, n))
    BY <2>3, FS_Union
  <2>5. Cardinality(A \cap Below(B, n)) = 0 /\ Cardinality(Below(B, n)) \in Nat
    BY <2>2, <2>3, FS_EmptySet, FS_CardinalityType
  <2> HIDE DEF C, a
  <2>6. QED
    BY <1>1, <2>1, <2>4, <2>5
<1>7. A \subseteq C /\ B \subseteq C
  OBVIOUS
<1> HIDE DEF C, a, b, s
<1>8. ASSUME NEW i \in 1 .. a + b
      PROVE  InOrder(C)[i] = s[i]
  <2>1. CASE i <= a
    <3>1. i \in 1 .. a
      BY <1>1, <2>1
    <3>2. InOrder(A)[i] \in A /\ Cardinality(Below(A, InOrder(A)[i])) = i - 1
      BY <1>4, <3>1
    <3>3. InOrder(C)[i] = InOrder(A)[i]
      BY <1>4, <1>5, <1>7, <3>2
    <3>4. QED
      BY <1>3, <2>1, <3>3
  <2>2. CASE i > a
    <3>1. i - a \in 1 .. b
      BY <1>1, <2>2
    <3>2. PICK n \in B : n = InOrder(B)[i - a]
      BY <1>4, <3>1
    <3>3. Cardinality(Below(B, n)) = i - a - 1
      BY <1>4, <3>1, <3>2
    <3>4. Cardinality(Below(C, n)) = i - 1
      BY <1>1, <1>6, <3>3
    <3>5. InOrder(C)[i] = n
      BY <1>4, <1>7, <3>4
    <3>6. s[i] = InOrder(B)[i - a]
      BY <1>1, <1>3, <2>2
    <3>7. QED
      BY <3>2, <3>5, <3>6
  <2>3. QED
    BY <1>1, <2>1, <2>2
<1>9. InOrder(C) = s
  BY <1>2, <1>3, <1>8, SeqEqual
<1>10. QED
  BY <1>9 DEF C, s

\* The readable entries past i, up to and including j.
Past(i, j) == (i + 1 .. j) \ Unreadable

LEMMA PastIs ==
  ASSUME NEW i \in 0 .. MaxEntries, NEW j \in 0 .. MaxEntries
  PROVE  /\ Past(i, j) \in SUBSET Nat /\ IsFiniteSet(Past(i, j))
         /\ InOrder(Past(i, j)) \in Seq(Entry)
         /\ i = j => InOrder(Past(i, j)) = <<>>
<1>1. MaxEntries \in Nat
  BY Constants
<1>2. Past(i, j) \in SUBSET Nat /\ Past(i, j) \in SUBSET Entry
  BY <1>1 DEF Past, Entry
<1>3. IsFiniteSet(i + 1 .. j)
  BY <1>1, FS_Interval
<1>4. IsFiniteSet(Past(i, j))
  BY <1>3, FS_Subset DEF Past
<1>5. InOrder(Past(i, j)) \in Seq(Past(i, j)) /\ Len(InOrder(Past(i, j))) = Cardinality(Past(i, j))
  BY <1>2, <1>4, InOrderIs
<1>6. InOrder(Past(i, j)) \in Seq(Entry)
  BY <1>2, <1>5
<1>7. ASSUME i = j PROVE InOrder(Past(i, j)) = <<>>
  <2>1. Past(i, j) = {}
    BY <1>1, <1>7 DEF Past
  <2>2. Len(InOrder(Past(i, j))) = 0
    BY <1>5, <2>1, FS_EmptySet
  <2>3. QED
    BY <1>5, <2>2, EmptySeq
<1>8. QED
  BY <1>2, <1>4, <1>6, <1>7

LEMMA PastJoins ==
  ASSUME NEW i \in 0 .. MaxEntries, NEW j \in i .. MaxEntries, NEW k \in j .. MaxEntries
  PROVE  InOrder(Past(i, k)) = InOrder(Past(i, j)) \o InOrder(Past(j, k))
<1>1. MaxEntries \in Nat /\ j \in 0 .. MaxEntries /\ k \in 0 .. MaxEntries
  BY Constants
<1>2. Past(i, k) = Past(i, j) \cup Past(j, k)
  BY <1>1 DEF Past
<1>3. \A a \in Past(i, j), b \in Past(j, k) : a < b
  BY <1>1 DEF Past
<1>4. QED
  BY <1>1, <1>2, <1>3, PastIs, InOrderJoins

-----------------------------------------------------------------------------
(* Types and cursors                                                       *)

LEMMA TypesHold ==
  Init => Types /\ Cursors
<1> SUFFICES ASSUME Init PROVE Types /\ Cursors
  OBVIOUS
<1>1. MaxEntries \in Nat /\ 0 .. 1 \subseteq Nat
  BY Constants
<1>2. log \in [Streams -> 0 .. MaxEntries]
  BY DEF Init
<1>3. Types
  BY <1>2, Constants, Updates DEF Init, Types, Phases
<1>4. Cursors
  BY Constants DEF Init, Cursors
<1>5. QED
  BY <1>3, <1>4

\* The entries of a stream that a reply has, and where its cursor moves.
LEMMA ReplyEntries ==
  ASSUME Types, Cursors, phase = "blocked", NEW q \in HasMore
  PROVE  /\ q \in Streams /\ after[q] \in 0 .. MaxEntries /\ UpTo(q) \in 0 .. MaxEntries
         /\ after[q] < UpTo(q) /\ UpTo(q) <= log[q]
         /\ Entries(q) = InOrder(Past(after[q], UpTo(q))) /\ Entries(q) \in Seq(Entry)
<1>1. q \in Streams /\ log[q] > after[q]
  BY DEF HasMore
<1>2. /\ after[q] \in 0 .. MaxEntries /\ log[q] \in 0 .. MaxEntries
      /\ MaxEntries \in Nat /\ Count \in Nat /\ Count > 0
  BY <1>1, Constants DEF Types
<1>3. UpTo(q) \in 0 .. MaxEntries /\ after[q] < UpTo(q) /\ UpTo(q) <= log[q]
  BY <1>1, <1>2 DEF UpTo
<1>4. Entries(q) = InOrder(Past(after[q], UpTo(q)))
  BY DEF Entries, Past
<1>5. QED
  BY <1>1, <1>2, <1>3, <1>4, PastIs

LEMMA TypesKept ==
  ASSUME Types, Cursors, [Next]_vars
  PROVE  Types' /\ Cursors'
<1>1. ASSUME NEW q \in Streams, Add(q)
      PROVE  Types' /\ Cursors'
  <2>1. /\ log' \in [Streams -> 0 .. MaxEntries]
        /\ \A r \in Streams : log[r] <= log'[r]
    BY <1>1, Constants DEF Types, Add
  <2>2. UNCHANGED <<phase, ids, after, failures, out, first, upd, status, seen>>
    BY <1>1 DEF Add, reader, ui
  <2>3. Types'
    BY <2>1, <2>2 DEF Types
  <2>4. Cursors'
    <3>1. ASSUME NEW r \in Streams
          PROVE  /\ log[r] \in 0 .. MaxEntries /\ log'[r] \in 0 .. MaxEntries
                 /\ after[r] \in 0 .. MaxEntries /\ ids[r] \in 0 .. MaxEntries \cup {Latest}
                 /\ log[r] <= log'[r]
      BY <2>1 DEF Types
    <3>2. QED
      BY <2>2, <3>1, Constants DEF Cursors
  <2>5. QED
    BY <2>3, <2>4
<1>2. CASE Attach
  <2>1. UNCHANGED <<log, ids, after, failures, out, first, upd, status, seen>>
    BY <1>2 DEF Attach, server, ui
  <2>2. QED
    BY <1>2, <2>1 DEF Attach, Types, Cursors, Phases
<1>3. CASE Connected
  <2>1. UNCHANGED <<log, ids, after, failures, first, upd, status, seen>>
    BY <1>3 DEF Connected, server, ui
  <2>2. out' \in Update /\ out = Nothing /\ out' # Nothing
    BY <1>3, Updates DEF Connected, Types
  <2>3. failures # MaxFailures
    BY <1>3, <2>2, Updates DEF Connected, Types
  <2>4. QED
    BY <1>3, <2>1, <2>2, <2>3 DEF Connected, Types, Cursors, Phases
<1>4. CASE Send
  <2>1. UNCHANGED <<log, ids, after, failures, first, status, seen>>
    BY <1>4 DEF Send, server, ui
  <2>2. out \in Update
    BY <1>4 DEF Send, Types
  <2>3. upd' \in Seq(Update) /\ Len(upd') <= UpdCap
    <3>1. upd \in Seq(Update) /\ upd' = Append(upd, out) /\ Len(upd) < UpdCap
      BY <1>4 DEF Send, Types
    <3>2. Len(upd') = Len(upd) + 1 /\ Len(upd) \in Nat /\ upd' \in Seq(Update)
      BY <2>2, <3>1, AppendProperties, LenProperties
    <3>3. QED
      BY <3>1, <3>2, Constants
  <2>4. QED
    BY <1>4, <2>1, <2>3 DEF Send, Types, Cursors, Phases
<1>5. CASE Read
  <2>1. UNCHANGED <<log, ids, failures, out, first, upd, status, seen>>
    BY <1>5 DEF Read, server, ui
  <2>2. after' \in [Streams -> 0 .. MaxEntries]
    BY <1>5 DEF Read, Types
  <2>3. \A q \in Streams : /\ ids[q] # Latest => after'[q] = ids[q]
                           /\ ids[q] = Latest => after'[q] = log[q]
    BY <1>5 DEF Read
  <2>4. Types'
    BY <1>5, <2>1, <2>2 DEF Read, Types, Phases
  <2>5. \A q \in Streams : log[q] \in 0 .. MaxEntries
    BY DEF Types
  <2>6. Cursors'
    BY <2>1, <2>3, <2>5, Constants DEF Cursors
  <2>7. QED
    BY <2>4, <2>6
<1>6. CASE Reply
  <2>1. PICK qs \in (SUBSET HasMore) \ {{}} :
          LET es == [q \in Streams |-> IF q \in qs THEN Entries(q) ELSE <<>>]
          IN  /\ ids' = [q \in Streams |-> IF q \in qs THEN UpTo(q) ELSE ids[q]]
              /\ first' = [q \in Streams |->
                             IF q \in qs /\ first[q] = None THEN after[q] ELSE first[q]]
              /\ IF es = Silence THEN phase' = "loop" /\ out' = Nothing
                                 ELSE phase' = "sending" /\ out' = Events(es)
    BY <1>6 DEF Reply
  <2> DEFINE es == [q \in Streams |-> IF q \in qs THEN Entries(q) ELSE <<>>]
  <2>2. UNCHANGED <<log, upd, status, seen, after>> /\ failures' = 0 /\ phase = "blocked"
    BY <1>6 DEF Reply, server, ui
  <2>3. \A q \in qs : /\ q \in Streams /\ after[q] \in 0 .. MaxEntries
                      /\ UpTo(q) \in 0 .. MaxEntries /\ after[q] < UpTo(q)
                      /\ UpTo(q) <= log[q] /\ Entries(q) \in Seq(Entry)
    BY <2>1, <2>2, ReplyEntries
  <2>4. es \in [Streams -> Seq(Entry)]
    <3>1. <<>> \in Seq(Entry)
      OBVIOUS
    <3>2. QED
      BY <2>3, <3>1
  <2>5. Types'
    <3>1. ids' \in [Streams -> 0 .. MaxEntries \cup {Latest}]
      BY <2>1, <2>3 DEF Types
    <3>2. first' \in [Streams -> 0 .. MaxEntries \cup {None}]
      BY <2>1, <2>3 DEF Types
    <3>3. /\ out' \in Update \cup {Nothing} /\ (out' = Nothing <=> phase' # "sending")
          /\ phase' \in {"loop", "sending"}
      <4> HIDE DEF es
      <4>1. Events(es) \in Update /\ Events(es) # Nothing
        BY <2>4, Updates
      <4>2. \/ phase' = "loop" /\ out' = Nothing
            \/ phase' = "sending" /\ out' = Events(es)
        BY <2>1 DEF es
      <4>3. QED
        BY <4>1, <4>2
    <3>4. 0 \in 0 .. MaxFailures /\ MaxFailures # 0
      BY Constants
    <3>5. QED
      BY <2>2, <3>1, <3>2, <3>3, <3>4 DEF Types, Phases
  <2>6. Cursors'
    <3>1. ASSUME NEW q \in Streams
          PROVE  /\ first'[q] = None <=> ids'[q] = Latest
                 /\ first'[q] # None => first'[q] <= ids'[q] /\ ids'[q] <= log[q]
      <4>1. CASE q \in qs
        <5>1. ids'[q] = UpTo(q) /\ UpTo(q) \in Nat /\ UpTo(q) # Latest /\ UpTo(q) <= log[q]
          BY <2>1, <2>3, <4>1, Constants
        <5>2. first'[q] \in 0 .. MaxEntries /\ first'[q] <= UpTo(q)
          <6>1. CASE first[q] = None
            BY <2>1, <2>3, <4>1, <6>1, Constants
          <6>2. CASE first[q] # None
            <7>1. first'[q] = first[q] /\ first[q] \in 0 .. MaxEntries
              BY <2>1, <6>2 DEF Types
            <7>2. ids[q] # Latest /\ first[q] <= ids[q] /\ after[q] = ids[q]
              BY <2>2, <6>2 DEF Cursors
            <7>3. QED
              BY <2>3, <4>1, <7>1, <7>2, Constants
          <6>3. QED
            BY <6>1, <6>2
        <5>3. QED
          BY <5>1, <5>2, Constants
      <4>2. CASE q \notin qs
        BY <2>1, <4>2 DEF Cursors
      <4>3. QED
        BY <4>1, <4>2
    <3>2. phase' # "blocked"
      BY <2>1
    <3>3. QED
      BY <2>2, <3>1, <3>2 DEF Cursors
  <2>7. QED
    BY <2>5, <2>6
<1>7. CASE TimesOut
  <2>1. UNCHANGED <<log, ids, after, out, first, upd, status, seen>>
    BY <1>7 DEF TimesOut, server, ui
  <2>2. 0 \in 0 .. MaxFailures /\ MaxFailures # 0
    BY Constants
  <2>3. QED
    BY <1>7, <2>1, <2>2 DEF TimesOut, Types, Cursors, Phases
<1>8. CASE Fail
  <2>1. UNCHANGED <<log, ids, after, first, upd, status, seen>>
    BY <1>8 DEF Fail, server, ui
  <2>2. out = Nothing /\ failures \in 0 .. MaxFailures /\ failures # MaxFailures
    BY <1>8, Updates DEF Fail, Types
  <2>3. /\ failures' \in 0 .. MaxFailures
        /\ \/ phase' = "sending" /\ out' = Unavailable
           \/ phase' = "sleeping" /\ out' = out /\ failures' # MaxFailures
    BY <1>8, <2>2, Constants DEF Fail
  <2>4. Unavailable \in Update /\ Unavailable # Nothing
    BY Updates
  <2>5. Types'
    BY <2>1, <2>2, <2>3, <2>4 DEF Types, Phases
  <2>6. Cursors'
    BY <2>1, <2>3 DEF Cursors
  <2>7. QED
    BY <2>5, <2>6
<1>9. CASE Retry
  <2>1. UNCHANGED <<log, ids, after, failures, out, first, upd, status, seen>>
    BY <1>9 DEF Retry, server, ui
  <2>2. QED
    BY <1>9, <2>1 DEF Retry, Types, Cursors, Phases
<1>10. CASE Ui
  <2>1. UNCHANGED <<log, phase, ids, after, failures, out, first>>
    BY <1>10 DEF Ui, ApplyStatus, ApplyEvents, server, reader
  <2>2. upd # <<>> /\ upd' = Tail(upd) /\ upd \in Seq(Update)
    BY <1>10 DEF Ui, ApplyStatus, ApplyEvents, Types
  <2>3. Head(upd) \in Update
    BY <2>2, HeadTailProperties
  <2>4. upd' \in Seq(Update) /\ Len(upd') <= UpdCap
    <3>1. Len(upd') = Len(upd) - 1 /\ upd' \in Seq(Update) /\ Len(upd) \in Nat
      BY <2>2, HeadTailProperties, LenProperties
    <3>2. Len(upd) <= UpdCap
      BY DEF Types
    <3>3. QED
      BY <3>1, <3>2, Constants
  <2>5. /\ status' \in {"Attaching", "Live", "Unavailable"}
        /\ seen' \in [Streams -> Seq(Entry)]
    <3>1. CASE ApplyStatus
      BY <2>3, <3>1, Updates DEF ApplyStatus, Types
    <3>2. CASE ApplyEvents
      <4>1. Head(upd).events \in [Streams -> Seq(Entry)]
        BY <2>3, <3>2, Updates DEF ApplyEvents
      <4>2. \A q \in Streams : seen[q] \o Head(upd).events[q] \in Seq(Entry)
        BY <4>1, ConcatProperties DEF Types
      <4>3. QED
        BY <3>2, <4>2 DEF ApplyEvents, Types
    <3>3. QED
      BY <1>10, <3>1, <3>2 DEF Ui
  <2>6. QED
    BY <2>1, <2>4, <2>5 DEF Types, Cursors
<1>11. CASE UNCHANGED vars
  BY <1>11 DEF vars, server, reader, ui, Types, Cursors
<1>12. QED
  BY <1>1, <1>2, <1>3, <1>4, <1>5, <1>6, <1>7, <1>8, <1>9, <1>10, <1>11 DEF Next, Reader

(* What the cursors, the channel, the budget of failures and the series    *)
(* can hold (TypeOK).                                                      *)
THEOREM TypeCorrect == Spec => []TypeOK
<1>1. Types => TypeOK
  <2>1. ASSUME Types PROVE \A i \in 1 .. Len(upd) : IsUpdate(upd[i])
    BY <2>1, ElementOfSeq, Updates DEF Types
  <2>2. ASSUME Types PROVE out = Nothing \/ IsUpdate(out)
    BY <2>2, Updates DEF Types
  <2>3. QED
    BY <2>1, <2>2 DEF Types, TypeOK, Entry
<1>2. QED
  BY <1>1, TypesHold, TypesKept, PTL DEF Spec

-----------------------------------------------------------------------------
(* Nothing is lost, doubled or moved                                       *)

Recorded(q) ==
  IF first[q] = None THEN Delivered(q) = <<>>
  ELSE Delivered(q) = InOrder(Past(first[q], ids[q]))

LEMMA DeliveredIs ==
  /\ \A q \in Streams :
       Delivered(q) = seen[q] \o FlattenSeq(Carries(upd, q)) \o EventsIn(out, q)
  /\ ExactlyOnceInOrder <=> \A q \in Streams : Recorded(q)
  BY DEF Delivered, OnTheWay, Carries, ExactlyOnceInOrder, Recorded, Past

\* What is recorded, on its way and being sent are sequences of entries.
LEMMA PartsOfDelivered ==
  ASSUME Types, NEW q \in Streams
  PROVE  /\ seen[q] \in Seq(Entry)
         /\ FlattenSeq(Carries(upd, q)) \in Seq(Entry)
         /\ EventsIn(out, q) \in Seq(Entry)
         /\ \A s \in Seq(Entry) : s \o <<>> = s /\ <<>> \o s = s
         /\ \A s, t, u \in Seq(Entry) : /\ (s \o t) \o u = s \o (t \o u)
                                        /\ s \o t \in Seq(Entry)
<1>1. seen[q] \in Seq(Entry) /\ upd \in Seq(Update) /\ out \in Update \cup {Nothing}
  BY DEF Types
<1>2. \A s \in Seq(Entry) : s \o <<>> = s /\ <<>> \o s = s
  BY ConcatEmptySeq
<1>3. \A s, t, u \in Seq(Entry) : (s \o t) \o u = s \o (t \o u) /\ s \o t \in Seq(Entry)
  BY ConcatAssociative, ConcatProperties
<1>4. QED
  BY <1>1, <1>2, <1>3, Carried, ChannelCarries

\* A step that neither reads nor touches the channel changes nothing of it.
LEMMA DeliveredKept ==
  ASSUME NEW q \in Streams, UNCHANGED <<seen, upd>>, EventsIn(out', q) = EventsIn(out, q)
  PROVE  Delivered(q)' = Delivered(q)
<1>1. OnTheWay(q)' = OnTheWay(q)
  BY DEF OnTheWay, EventsIn
<1>2. Delivered(q)' = seen'[q] \o OnTheWay(q)' \o EventsIn(out', q)
  BY DEF Delivered, EventsIn
<1>3. QED
  BY <1>1, <1>2 DEF Delivered

LEMMA ReplyDelivers ==
  ASSUME Types, Cursors, Reply, NEW q \in Streams, Recorded(q)
  PROVE  Recorded(q)'
<1>1. PICK qs \in (SUBSET HasMore) \ {{}} :
        LET es == [r \in Streams |-> IF r \in qs THEN Entries(r) ELSE <<>>]
        IN  /\ ids' = [r \in Streams |-> IF r \in qs THEN UpTo(r) ELSE ids[r]]
            /\ first' = [r \in Streams |->
                           IF r \in qs /\ first[r] = None THEN after[r] ELSE first[r]]
            /\ IF es = Silence THEN phase' = "loop" /\ out' = Nothing
                               ELSE phase' = "sending" /\ out' = Events(es)
  BY DEF Reply
<1> DEFINE es == [r \in Streams |-> IF r \in qs THEN Entries(r) ELSE <<>>]
<1>2. phase = "blocked" /\ UNCHANGED <<log, upd, seen>>
  BY DEF Reply, server, ui
<1>3. out = Nothing /\ EventsIn(out, q) = <<>>
  BY <1>2, Carried DEF Types
<1>4. es \in [Streams -> Seq(Entry)]
  <2>1. \A r \in qs : Entries(r) \in Seq(Entry)
    BY <1>1, <1>2, ReplyEntries
  <2>2. <<>> \in Seq(Entry)
    OBVIOUS
  <2>3. QED
    BY <2>1, <2>2
<1>5. EventsIn(out', q) = es[q]
  <2> HIDE DEF es
  <2>1. CASE es = Silence
    BY <1>1, <2>1, Carried DEF es, Silence
  <2>2. CASE es # Silence
    <3>1. out' = Events(es)
      BY <1>1, <2>2 DEF es
    <3>2. QED
      BY <1>4, <3>1, Carried
  <2>3. QED
    BY <2>1, <2>2
<1>6. Delivered(q)' = Delivered(q) \o es[q]
  <2>1. OnTheWay(q)' = OnTheWay(q)
    BY <1>2 DEF OnTheWay, EventsIn
  <2>2. Delivered(q)' = seen[q] \o OnTheWay(q) \o es[q]
    BY <1>2, <1>5, <2>1 DEF Delivered, EventsIn
  <2>3. Delivered(q) = seen[q] \o OnTheWay(q)
    <3>1. seen[q] \o OnTheWay(q) \in Seq(Entry)
      BY PartsOfDelivered DEF OnTheWay, Carries
    <3>2. QED
      BY <1>3, <3>1, PartsOfDelivered DEF Delivered
  <2>4. QED
    BY <2>2, <2>3
<1>7. Delivered(q) \in Seq(Entry)
  <2>1. seen[q] \o OnTheWay(q) \in Seq(Entry)
    BY PartsOfDelivered DEF OnTheWay, Carries
  <2>2. QED
    BY <2>1, PartsOfDelivered DEF Delivered
<1>8. CASE q \notin qs
  <2>1. es[q] = <<>> /\ first'[q] = first[q] /\ ids'[q] = ids[q]
    BY <1>1, <1>8
  <2>2. Delivered(q)' = Delivered(q)
    BY <1>6, <1>7, <2>1, PartsOfDelivered
  <2>3. QED
    BY <2>1, <2>2 DEF Recorded
<1>9. CASE q \in qs
  <2>1. q \in HasMore
    BY <1>1, <1>9
  <2>2. /\ after[q] \in 0 .. MaxEntries /\ UpTo(q) \in 0 .. MaxEntries /\ after[q] < UpTo(q)
        /\ es[q] = InOrder(Past(after[q], UpTo(q))) /\ es[q] \in Seq(Entry)
    BY <1>2, <1>9, <2>1, ReplyEntries
  <2>3. ids'[q] = UpTo(q)
    BY <1>1, <1>9
  <2>4. CASE first[q] = None
    <3>1. Delivered(q) = <<>> /\ first'[q] = after[q]
      BY <1>1, <1>9, <2>4 DEF Recorded
    <3>2. Delivered(q)' = es[q]
      BY <1>6, <2>2, <3>1, PartsOfDelivered
    <3>3. first'[q] # None
      BY <2>2, <3>1, Constants
    <3>4. QED
      BY <2>2, <2>3, <3>1, <3>2, <3>3 DEF Recorded
  <2>5. CASE first[q] # None
    <3>1. /\ first'[q] = first[q] /\ first[q] \in 0 .. MaxEntries
          /\ Delivered(q) = InOrder(Past(first[q], ids[q]))
      BY <1>1, <2>5 DEF Recorded, Types
    <3>2. ids[q] # Latest /\ after[q] = ids[q] /\ first[q] <= after[q]
      BY <1>2, <2>5 DEF Cursors
    <3>3. /\ after[q] \in first[q] .. MaxEntries /\ UpTo(q) \in after[q] .. MaxEntries
      BY <2>2, <3>1, <3>2, Constants
    <3>4. Delivered(q)' = InOrder(Past(first[q], UpTo(q)))
      <4>1. Delivered(q)' = InOrder(Past(first[q], after[q]))
                              \o InOrder(Past(after[q], UpTo(q)))
        BY <1>6, <2>2, <3>1, <3>2
      <4>2. QED
        BY <3>1, <3>3, <4>1, PastJoins
    <3>5. QED
      BY <2>3, <2>5, <3>1, <3>4 DEF Recorded
  <2>6. QED
    BY <2>4, <2>5
<1>10. QED
  BY <1>8, <1>9

LEMMA RecordedKept ==
  ASSUME Types, Cursors, [Next]_vars, NEW q \in Streams, Recorded(q)
  PROVE  Recorded(q)'
<1>1. ASSUME UNCHANGED <<ids, first>>, Delivered(q)' = Delivered(q)
      PROVE  Recorded(q)'
  BY <1>1 DEF Recorded
<1>2. CASE (\E r \in Streams : Add(r)) \/ Attach \/ Read \/ TimesOut \/ Retry \/ UNCHANGED vars
  <2>1. UNCHANGED <<ids, first, out, seen, upd>>
    BY <1>2 DEF Add, Attach, Read, TimesOut, Retry, vars, server, reader, ui
  <2>2. QED
    BY <1>1, <2>1, DeliveredKept
<1>3. CASE Connected
  <2>1. UNCHANGED <<ids, first, seen, upd>> /\ out = Nothing /\ out' \in {Live, Unavailable}
    BY <1>3 DEF Connected, server, ui, Types
  <2>2. EventsIn(out', q) = EventsIn(out, q)
    BY <2>1, Carried
  <2>3. QED
    BY <1>1, <2>1, <2>2, DeliveredKept
<1>4. CASE Fail
  <2>1. /\ UNCHANGED <<ids, first, seen, upd>> /\ out = Nothing
        /\ out' \in {Nothing, Unavailable}
    BY <1>4 DEF Fail, server, ui, Types
  <2>2. EventsIn(out', q) = EventsIn(out, q)
    BY <2>1, Carried
  <2>3. QED
    BY <1>1, <2>1, <2>2, DeliveredKept
<1>5. CASE Send
  <2>1. /\ UNCHANGED <<ids, first, seen>> /\ out' = Nothing /\ upd' = Append(upd, out)
        /\ out \in Update /\ upd \in Seq(Update)
    BY <1>5 DEF Send, server, ui, Types
  <2>2. OnTheWay(q)' = OnTheWay(q) \o EventsIn(out, q)
    BY <2>1, ChannelCarries DEF OnTheWay, Carries, EventsIn
  <2>3. EventsIn(out', q) = <<>>
    BY <2>1, Carried
  <2>4. Delivered(q)' = seen[q] \o (OnTheWay(q) \o EventsIn(out, q)) \o <<>>
    BY <2>1, <2>2, <2>3 DEF Delivered, EventsIn
  <2>5. seen[q] \in Seq(Entry) /\ OnTheWay(q) \in Seq(Entry) /\ EventsIn(out, q) \in Seq(Entry)
    BY PartsOfDelivered DEF OnTheWay, Carries
  <2>6. Delivered(q)' = seen[q] \o (OnTheWay(q) \o EventsIn(out, q))
    <3>1. seen[q] \o (OnTheWay(q) \o EventsIn(out, q)) \in Seq(Entry)
      BY <2>5, PartsOfDelivered
    <3>2. QED
      BY <2>4, <3>1, PartsOfDelivered
  <2>7. Delivered(q)' = Delivered(q)
    BY <2>5, <2>6, PartsOfDelivered, ZenonT(40) DEF Delivered
  <2>8. QED
    BY <1>1, <2>1, <2>7
<1>6. CASE Reply
  BY <1>6, ReplyDelivers
<1>7. CASE Ui
  <2>1. UNCHANGED <<ids, first, out>> /\ upd # <<>> /\ upd' = Tail(upd) /\ upd \in Seq(Update)
    BY <1>7 DEF Ui, ApplyStatus, ApplyEvents, server, reader, Types
  <2>2. OnTheWay(q) = EventsIn(Head(upd), q) \o OnTheWay(q)'
    BY <2>1, ChannelCarries DEF OnTheWay, Carries, EventsIn
  <2>3. seen'[q] = seen[q] \o EventsIn(Head(upd), q)
    <3>1. seen[q] \in Seq(Entry)
      BY PartsOfDelivered
    <3>2. CASE ApplyStatus
      BY <3>1, <3>2, PartsOfDelivered DEF ApplyStatus, EventsIn
    <3>3. CASE ApplyEvents
      BY <3>3 DEF ApplyEvents, EventsIn
    <3>4. QED
      BY <1>7, <3>2, <3>3 DEF Ui
  <2>4. /\ seen[q] \in Seq(Entry) /\ EventsIn(Head(upd), q) \in Seq(Entry)
        /\ OnTheWay(q)' \in Seq(Entry)
    <3>1. Head(upd) \in Update /\ Tail(upd) \in Seq(Update)
      BY <2>1, HeadTailProperties
    <3>2. OnTheWay(q)' = FlattenSeq(Carries(Tail(upd), q))
      BY <2>1 DEF OnTheWay, Carries, EventsIn
    <3>3. QED
      BY <3>1, <3>2, Carried, ChannelCarries, PartsOfDelivered
  <2>5. Delivered(q)' = (seen[q] \o EventsIn(Head(upd), q)) \o OnTheWay(q)' \o EventsIn(out, q)
    BY <2>1, <2>3 DEF Delivered, EventsIn
  <2>6. Delivered(q)' = Delivered(q)
    <3>1. PICK s, t, u \in Seq(Entry) :
            s = seen[q] /\ t = EventsIn(Head(upd), q) /\ u = OnTheWay(q)'
      BY <2>4
    <3>2. (s \o t) \o u = s \o (t \o u)
      BY ConcatAssociative
    <3>3. QED
      BY <2>2, <2>5, <3>1, <3>2 DEF Delivered
  <2>7. QED
    BY <1>1, <2>1, <2>6
<1>8. QED
  BY <1>2, <1>3, <1>4, <1>5, <1>6, <1>7 DEF Next, Reader

(* From the first read that returned something of a stream, every readable *)
(* entry up to the cursor is recorded, on its way or being sent, exactly   *)
(* once and in the order of the stream (parse_xread and run): whatever the *)
(* failures, the size of a burst, the entries that name no event and the   *)
(* room in the channel.                                                    *)
THEOREM EventsAreRecordedOnce == Spec => []ExactlyOnceInOrder
<1>1. Init => \A q \in Streams : Recorded(q)
  <2> SUFFICES ASSUME Init, NEW q \in Streams PROVE Recorded(q)
    OBVIOUS
  <2>1. seen[q] = <<>> /\ upd = <<>> /\ out = Nothing /\ first[q] = None
    BY DEF Init
  <2>2. FlattenSeq(Carries(upd, q)) = <<>>
    BY <2>1 DEF FlattenSeq, Carries
  <2>3. Types
    BY TypesHold
  <2>4. Delivered(q) = <<>> \o <<>> \o <<>>
    BY <2>1, <2>2, DeliveredIs, Carried
  <2>5. Delivered(q) = <<>>
    BY <2>4
  <2>6. QED
    BY <2>1, <2>5 DEF Recorded
<1>2. Init => ReaderInv
  BY <1>1, TypesHold, DeliveredIs DEF ReaderInv
<1>3. ReaderInv /\ [Next]_vars => ReaderInv'
  <2> SUFFICES ASSUME ReaderInv, [Next]_vars PROVE ReaderInv'
    OBVIOUS
  <2>1. Types' /\ Cursors'
    BY TypesKept DEF ReaderInv
  <2>2. \A q \in Streams : Recorded(q)'
    BY RecordedKept, DeliveredIs DEF ReaderInv
  <2>3. ExactlyOnceInOrder'
    BY <2>2 DEF ExactlyOnceInOrder, Recorded, Past
  <2>4. QED
    BY <2>1, <2>3 DEF ReaderInv
<1>4. QED
  BY <1>2, <1>3, PTL DEF Spec, ReaderInv

=============================================================================
