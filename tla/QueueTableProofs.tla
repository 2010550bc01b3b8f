-------------------------- MODULE QueueTableProofs --------------------------
(***************************************************************************)
(* The queue table and the reads behind the panes, proved for every value  *)
(* of the constants: the checked arithmetic for integers of any width, the *)
(* layout for panes and names of any width, the history of the events for  *)
(* any seconds, and the reads for any queues, keys and failures.           *)
(***************************************************************************)
EXTENDS QueueTable, DataFacts

-----------------------------------------------------------------------------
(* Pages and durations                                                     *)

\* The pages that have bounds: not empty, and their last position fits.
Expressible(offset, limit) == limit # 0 /\ limit <= MaxInt /\ offset + limit - 1 <= MaxInt

(* page_range either refuses a page or returns bounds that do not count    *)
(* from the end and are as wide as the limit says.                         *)
LEMMA PageRangeIs ==
  ASSUME NEW offset \in Size, NEW limit \in Size
  PROVE  PageRange(offset, limit) =
           IF Expressible(offset, limit)
           THEN Bounds(offset, offset + limit - 1) ELSE NoBounds
<1>1. offset \in Nat /\ limit \in Nat /\ MaxInt \in Nat
  BY WidthsAssumption DEF Size
<1>2. CASE limit = 0
  BY <1>2 DEF PageRange, Expressible
<1>3. CASE limit # 0
  <2>1. limit - 1 \in Nat /\ offset + (limit - 1) = offset + limit - 1
    BY <1>1, <1>3
  <2>2. \A n \in Nat : n \in I64 <=> n <= MaxInt
    BY <1>1 DEF I64
  <2>3. offset + limit - 1 \in Nat /\ offset <= offset + limit - 1
    BY <1>1, <2>1
  <2>4. {offset, limit, offset + (limit - 1)} \subseteq I64
          <=> Expressible(offset, limit)
    BY <1>1, <1>3, <2>1, <2>2, <2>3 DEF Expressible
  <2>5. QED
    BY <1>3, <2>1, <2>4 DEF PageRange
<1>4. QED
  BY <1>2, <1>3

(* The page of a collection that page_range has read is the page asked     *)
(* for, to the last position of the machine's integers: never one counted  *)
(* from the end, and so never the whole collection.                        *)
THEOREM RangeIsThePage ==
  ASSUME NEW offset \in Size, NEW limit \in Size, NEW length \in Nat,
         PageRange(offset, limit) # NoBounds
  PROVE  Positions(PageRange(offset, limit), length)
           = {p \in 0..(length - 1) : offset <= p /\ p < offset + limit}
<1>1. offset \in Nat /\ limit \in Nat
  BY WidthsAssumption DEF Size
<1>2. Expressible(offset, limit)
  BY PageRangeIs
<1>3. PageRange(offset, limit) = Bounds(offset, offset + limit - 1)
  BY <1>2, PageRangeIs
<1>4. limit > 0 /\ offset + limit - 1 >= 0
  BY <1>1, <1>2 DEF Expressible
<1>5. /\ Bounds(offset, offset + limit - 1).start = offset
      /\ Bounds(offset, offset + limit - 1).stop = offset + limit - 1
  BY DEF Bounds
<1>6. /\ FromEnd(offset, length) = offset
      /\ FromEnd(offset + limit - 1, length) = offset + limit - 1
  BY <1>1, <1>4 DEF FromEnd
<1>7. \A p \in 0..(length - 1) : p <= offset + limit - 1 <=> p < offset + limit
  BY <1>1
<1>8. QED
  BY <1>3, <1>5, <1>6, <1>7 DEF Positions

(* Only a page that is empty or reaches past the last position is refused: *)
(* the one element at that position can still be asked for.                *)
THEOREM RefusalIsNeeded ==
  ASSUME NEW offset \in Size, NEW limit \in Size
  PROVE  /\ PageRange(offset, limit) = NoBounds
              <=> limit = 0 \/ limit > MaxInt \/ offset + limit - 1 > MaxInt
         /\ PageRange(MaxInt, 1) = Bounds(MaxInt, MaxInt)
<1>1. offset \in Nat /\ limit \in Nat /\ MaxInt \in Nat \ {0}
  BY WidthsAssumption DEF Size
<1>2. Bounds(offset, offset + limit - 1) # NoBounds
  BY <1>1 DEF Bounds, NoBounds
<1>3. Expressible(offset, limit)
        <=> ~(limit = 0 \/ limit > MaxInt \/ offset + limit - 1 > MaxInt)
  BY <1>1 DEF Expressible
<1>4. MaxInt \in Size /\ 1 \in Size
  BY <1>1, WidthsAssumption DEF Size
<1>5. Expressible(MaxInt, 1) /\ MaxInt + 1 - 1 = MaxInt
  BY <1>1 DEF Expressible
<1>6. PageRange(MaxInt, 1) = Bounds(MaxInt, MaxInt)
  BY <1>4, <1>5, PageRangeIs
<1>7. QED
  BY <1>2, <1>3, <1>6, PageRangeIs

(* A page and the next one touch: paging loses no position and shows none  *)
(* twice.                                                                  *)
THEOREM PagesMeet ==
  ASSUME NEW offset \in Size, NEW limit \in Size, offset + limit \in Size,
         PageRange(offset, limit) # NoBounds, PageRange(offset + limit, limit) # NoBounds
  PROVE  PageRange(offset + limit, limit).start = PageRange(offset, limit).stop + 1
<1>1. offset \in Nat /\ limit \in Nat
  BY WidthsAssumption DEF Size
<1>2. /\ PageRange(offset, limit) = Bounds(offset, offset + limit - 1)
      /\ PageRange(offset + limit, limit) = Bounds(offset + limit, offset + limit + limit - 1)
  BY PageRangeIs
<1>3. QED
  BY <1>1, <1>2 DEF Bounds

(* The value pane's page_bounds is page_range with the page for a limit.   *)
THEOREM OnePageRule ==
  ASSUME NEW offset \in Size
  PROVE  PageBounds(offset) = PageRange(offset, Page)
<1>1. Page \in I64 /\ Page # 0
  BY WidthsAssumption DEF I64
<1>2. QED
  BY <1>1 DEF PageBounds, PageRange

(* Elapsed without its sets: the definition unfolded, for TablesAreTyped.  *)
LEMMA ElapsedIs ==
  ASSUME NEW a \in I64, NEW b \in I64
  PROVE  Elapsed({a}, {b}) = IF a <= b /\ b - a <= MaxInt THEN {b - a} ELSE {}
<1>1. a \in Int /\ b \in Int /\ MaxInt \in Nat
  BY WidthsAssumption DEF I64
<1>2. b - a >= 0 <=> a <= b
  BY <1>1
<1>3. a <= b => (b - a \in I64 <=> b - a <= MaxInt)
  BY <1>1 DEF I64
<1>4. {y - x : x \in {a}, y \in {b}} = {b - a}
  OBVIOUS
<1>5. Elapsed({a}, {b}) = {d \in {b - a} : d >= 0 /\ d \in I64}
  BY <1>4 DEF Elapsed
<1>6. QED
  BY <1>2, <1>3, <1>5

-----------------------------------------------------------------------------
(* The layout                                                              *)

\* Only the terminal chooses the width.
LEMMA WidthIsKept == TableSpec => [](width \in Widths)
<1>1. TableInit => width \in Widths
  BY DEF TableInit
<1>2. width \in Widths /\ [TableNext]_tableVars => (width \in Widths)'
  BY DEF TableNext, Read, Graph, tableVars
<1>3. QED
  BY <1>1, <1>2, PTL DEF TableSpec

\* The width of the name column.
LEMMA NameIsANumber ==
  ASSUME NEW longest \in Nat
  PROVE  NameW(longest) \in Nat
<1>1. MinName \in Nat /\ MaxName \in Nat
  BY LayoutAssumption
<1>2. Max({longest, MinName}) \in Nat
  BY <1>1, MaxOfTwo
<1>3. \A m \in Nat : Min({m, MaxName}) \in Nat
  BY <1>1, MinOfTwo
<1>4. QED
  BY <1>2, <1>3 DEF NameW

\* The optional columns shown fit.
LEMMA ColumnsFit ==
  ASSUME width \in Nat, NEW nameW \in Nat
  PROVE  /\ Columns(nameW) \in 0..OptionalCols
         /\ Columns(nameW) # 0 => Used(nameW) + Columns(nameW) * Col <= width
<1> DEFINE Stops(k) == k = OptionalCols \/ Used(nameW) + (k + 1) * Col > width
           K == {k \in 0..OptionalCols : Stops(k)}
           c == Columns(nameW)
<1>1. OptionalCols \in Nat
  BY LayoutAssumption
<1>2. K \subseteq Int /\ K # {} /\ \A k \in K : 0 <= k
  BY <1>1
<1>3. c = Min(K)
  BY DEF Columns
<1>4. c \in K /\ \A k \in K : c <= k
  <2>1. 0 \in Int
    OBVIOUS
  <2> HIDE DEF K, c
  <2>2. QED
    BY <1>2, <1>3, <2>1, MinIs, Zenon
<1>5. ASSUME c # 0
      PROVE  Used(nameW) + c * Col <= width
  <2>1. c - 1 \in 0..OptionalCols /\ c - 1 < c /\ (c - 1) + 1 = c /\ c \in Nat
    <3>1. c \in 0..OptionalCols
      BY <1>4
    <3> HIDE DEF c
    <3>2. QED
      BY <1>1, <1>5, <3>1
  <2>2. c - 1 \notin K
    BY <1>4, <2>1
  <2>3. ~Stops(c - 1)
    BY <2>1, <2>2
  <2>4. ~(Used(nameW) + c * Col > width)
    BY <2>1, <2>3
  <2>5. RequiredCols * Col \in Int /\ c * Col \in Int
    <3> HIDE DEF c
    <3>1. QED
      BY <2>1, LayoutAssumption
  <2>6. Used(nameW) + c * Col \in Int
    <3> HIDE DEF c
    <3>1. QED
      BY <2>5, LayoutAssumption DEF Used
  <2>7. QED
    BY <2>4, <2>6
<1>6. QED
  BY <1>4, <1>5

\* A row is never wider than a pane that its required columns fit in, whatever the
\* names are, and the graph is between its bounds.
THEOREM RowsFit == TableSpec => []TableFits
<1>1. width \in Widths => TableFits
  <2>1. SUFFICES ASSUME width \in Widths, NEW longest \in 0..(MaxName + 1)
                 PROVE  LET nameW == NameW(longest)
                        IN /\ RowW(nameW) <= width \/ RowW(nameW) = Used(nameW)
                           /\ SparkW(nameW) \in {0} \cup SparkMin..WindowSecs
    BY DEF TableFits
  <2> DEFINE nameW == NameW(longest)
             used == Used(nameW)
             c == Columns(nameW)
             spare == Spare(nameW)
             spark == SparkW(nameW)
  <2>2. /\ width \in Nat /\ longest \in Nat
        /\ {StatusW, Col, RateW, RequiredCols, OptionalCols, SparkMin, SparkMax, WindowSecs} \subseteq Nat
        /\ SparkMin > 0 /\ SparkMin <= SparkMax /\ SparkMax <= WindowSecs
    BY <2>1, LayoutAssumption, SeriesAssumption
  <2>3. nameW \in Nat
    BY <2>2, NameIsANumber
  <2>4. /\ c \in 0..OptionalCols
        /\ c # 0 => used + c * Col <= width
    <3> HIDE DEF nameW
    <3>1. QED
      BY <2>2, <2>3, ColumnsFit
  <2>5. used \in Int /\ c * Col \in Int
    <3>1. RequiredCols * Col \in Int /\ c * Col \in Int
      BY <2>2, <2>4
    <3>2. QED
      BY <2>2, <2>3, <3>1 DEF Used
  <2>6. spare = width - (used + c * Col + 2 + RateW) /\ spare \in Int
    BY <2>2, <2>5 DEF Spare
  <2>7. spark = IF spare >= SparkMin THEN (IF spare <= SparkMax THEN spare ELSE SparkMax) ELSE 0
    BY <2>2, <2>6, MinOfTwo DEF SparkW
  <2>8. RowW(nameW) = used + c * Col + (IF spark > 0 THEN 2 + spark + RateW ELSE 0)
    BY DEF RowW
  <2>9. c = 0 => c * Col = 0
    BY <2>2, <2>4
  <2> HIDE DEF nameW, used, c, spare, spark
  <2>10. SparkW(nameW) \in {0} \cup SparkMin..WindowSecs
    BY <2>2, <2>6, <2>7 DEF spark
  <2>11. RowW(nameW) <= width \/ RowW(nameW) = used
    <3>1. CASE spark > 0
      <4>1. spark <= spare /\ spark \in Nat
        BY <2>2, <2>6, <2>7, <3>1
      <4>2. QED
        BY <2>2, <2>5, <2>6, <2>8, <3>1, <4>1
    <3>2. CASE ~(spark > 0)
      <4>1. RowW(nameW) = used + c * Col
        BY <2>5, <2>8, <3>2
      <4>2. QED
        BY <2>4, <2>5, <2>9, <4>1
    <3>3. QED
      BY <3>1, <3>2
  <2>12. QED
    BY <2>10, <2>11 DEF nameW, used
<1>2. QED
  BY <1>1, WidthIsKept, PTL

-----------------------------------------------------------------------------
(* The history of the events                                               *)

Buckets == [second : Seconds, total : Nat \ {0}]
Ordered(bs) == \A i, j \in 1..Len(bs) : i < j => bs[i].second < bs[j].second

\* The bucket of a second that had n events, if it had any.
Counted(bs, s, n) ==
  IF n = 0 THEN \A i \in 1..Len(bs) : bs[i].second # s
  ELSE \E i \in 1..Len(bs) : bs[i] = Events!Bucket(s, n)

\* As long as a second is in the window of the newest event, its bucket holds all
\* the events offered of it, as f counts them.
HistoryOf(bs, f) ==
  /\ bs = <<>> => \A s \in Seconds : f[s] = 0
  /\ bs # <<>> =>
       \A s \in Seconds : s > Last(bs).second - WindowSecs => Counted(bs, s, f[s])

\* The inductive invariant.
SeriesInv == Events!TypeOK /\ HistoryOf(buckets, offered)

\* Seconds are integers, and totals are counts.
LEMMA SecondsAreNumbers ==
  ASSUME NEW bs \in Seq(Buckets)
  PROVE  /\ Len(bs) \in Nat
         /\ \A i \in 1..Len(bs) : bs[i] \in Buckets /\ bs[i].second \in Seconds /\ bs[i].second \in Int
<1>1. Len(bs) \in Nat /\ \A i \in 1..Len(bs) : bs[i] \in Buckets
  OBVIOUS
<1>2. \A b \in Buckets : b.second \in Seconds /\ b.second \in Int
  BY SeriesAssumption DEF Buckets
<1>3. QED
  BY <1>1, <1>2

\* As many buckets as lie between two of them, as many seconds at least do.
LEMMA SecondsApart ==
  ASSUME NEW bs \in Seq(Buckets), Ordered(bs)
  PROVE  \A i, j \in 1..Len(bs) : i <= j => bs[i].second + (j - i) <= bs[j].second
<1> DEFINE n == Len(bs)
           S == {d \in Nat : \A i \in 1..n : i + d \in 1..n => bs[i].second + d <= bs[i + d].second}
<1>1. n \in Nat /\ \A i \in 1..n : bs[i].second \in Int
  BY SecondsAreNumbers
<1>2. 0 \in S
  <2>1. \A i \in 1..n : i + 0 = i /\ bs[i].second + 0 <= bs[i].second
    BY <1>1
  <2>2. QED
    BY <2>1
<1>3. ASSUME NEW d \in Nat, d \in S
      PROVE  d + 1 \in S
  <2>1. SUFFICES ASSUME NEW i \in 1..n, i + (d + 1) \in 1..n
                 PROVE  bs[i].second + (d + 1) <= bs[i + (d + 1)].second
    <3>1. d + 1 \in Nat
      OBVIOUS
    <3>2. QED
      BY <3>1
  <2>2. i + d \in 1..n /\ i + d < i + (d + 1)
    BY <1>1, <2>1
  <2>3. bs[i].second + d <= bs[i + d].second
    BY <1>3, <2>2
  <2>4. bs[i + d].second < bs[i + (d + 1)].second
    BY <2>1, <2>2 DEF Ordered
  <2> HIDE DEF S
  <2>5. bs[i].second \in Int /\ bs[i + d].second \in Int /\ bs[i + (d + 1)].second \in Int
    BY <1>1, <2>1, <2>2
  <2>6. QED
    BY <2>3, <2>4, <2>5
<1>4. Nat \subseteq S
  <2> HIDE DEF S
  <2>1. QED
    BY <1>2, <1>3, Induction
<1>5. ASSUME NEW i \in 1..n, NEW j \in 1..n, i <= j
      PROVE  bs[i].second + (j - i) <= bs[j].second
  <2>1. j - i \in Nat /\ i + (j - i) = j
    BY <1>1, <1>5
  <2>2. QED
    BY <1>4, <2>1
<1>6. QED
  BY <1>5

\* What is pushed out at the front is no longer in the window.
LEMMA TrimKeeps ==
  ASSUME NEW e \in Seq(Buckets), Ordered(e), e # <<>>, Len(e) <= WindowSecs + 1
  PROVE  LET t == Events!Trimmed(e)
         IN  /\ t \in Seq(Buckets) /\ t # <<>> /\ Len(t) <= WindowSecs
             /\ Ordered(t) /\ Last(t) = Last(e)
             /\ \A s \in Seconds, n \in Nat :
                  (s > Last(e).second - WindowSecs /\ Counted(e, s, n)) => Counted(t, s, n)
<1> DEFINE t == Events!Trimmed(e)
<1>1. WindowSecs \in Nat \ {0} /\ Len(e) \in Nat \ {0} /\ Seconds \subseteq Int
  BY SeriesAssumption, EmptySeq
<1>2. CASE Len(e) <= WindowSecs
  <2>1. t = e
    BY <1>1, <1>2 DEF Events!Trimmed
  <2>2. QED
    BY <1>2, <2>1
<1>3. CASE Len(e) > WindowSecs
  <2>1. Len(e) = WindowSecs + 1
    BY <1>1, <1>3
  <2>2. t = SubSeq(e, 2, Len(e))
    <3>1. Len(e) - WindowSecs + 1 = 2
      BY <1>1, <2>1
    <3>2. QED
      BY <1>3, <3>1 DEF Events!Trimmed
  <2>3. /\ t \in Seq(Buckets) /\ Len(t) = WindowSecs
        /\ \A i \in 1..WindowSecs : t[i] = e[i + 1] /\ i + 1 \in 1..Len(e)
    BY <1>1, <2>1, <2>2
  <2> HIDE DEF t
  <2>4. Ordered(t)
    BY <1>1, <2>1, <2>3 DEF Ordered
  <2>5. t # <<>> /\ Last(t) = Last(e)
    BY <1>1, <2>1, <2>3 DEF Last
  <2>6. e[1].second + WindowSecs <= Last(e).second /\ e[1].second \in Int
    <3>1. 1 \in 1..Len(e) /\ Len(e) \in 1..Len(e) /\ 1 <= Len(e) /\ Len(e) - 1 = WindowSecs
      BY <1>1, <2>1
    <3>2. e[1].second + (Len(e) - 1) <= e[Len(e)].second
      BY <3>1, SecondsApart
    <3>3. QED
      BY <3>1, <3>2, SecondsAreNumbers DEF Last
  <2>7. Last(e).second \in Int
    <3>1. Len(e) \in 1..Len(e)
      BY <1>1, <2>1
    <3>2. QED
      BY <3>1, SecondsAreNumbers DEF Last
  <2>8. ASSUME NEW s \in Seconds, NEW n \in Nat,
               s > Last(e).second - WindowSecs, Counted(e, s, n)
        PROVE  Counted(t, s, n)
    <3>1. CASE n = 0
      <4>1. \A i \in 1..Len(e) : e[i].second # s
        BY <2>8, <3>1 DEF Counted
      <4>2. QED
        BY <2>3, <3>1, <4>1 DEF Counted
    <3>2. CASE n # 0
      <4>1. PICK i \in 1..Len(e) : e[i] = Events!Bucket(s, n)
        BY <2>8, <3>2 DEF Counted
      <4>2. e[i].second = s
        BY <4>1 DEF Events!Bucket
      <4>3. i # 1
        BY <1>1, <2>6, <2>7, <2>8, <4>2
      <4>4. i - 1 \in 1..Len(t) /\ t[i - 1] = e[i]
        BY <1>1, <2>1, <2>3, <4>3
      <4>5. QED
        BY <3>2, <4>1, <4>4 DEF Counted
    <3>3. QED
      BY <3>1, <3>2
  <2>9. QED
    BY <1>1, <2>3, <2>4, <2>5, <2>8 DEF t
<1>4. QED
  BY <1>1, <1>2, <1>3

\* Either the second has its bucket, which counts one more, or a new one is put where
\* its second belongs.
LEMMA PlacedIs ==
  ASSUME Events!TypeOK, NEW s \in Seconds
  PROVE  LET e == Events!Placed(s)
             n == Len(buckets)
         IN  \/ \E i \in 1..n :
                  /\ buckets[i].second = s
                  /\ e = [buckets EXCEPT ![i].total = @ + 1]
             \/ \E i \in 0..n :
                  /\ \A j \in 1..n : IF j <= i THEN buckets[j].second < s ELSE s < buckets[j].second
                  /\ e \in Seq(Buckets) /\ Len(e) = n + 1
                  /\ \A j \in 1..(n + 1) :
                       e[j] = IF j <= i THEN buckets[j]
                              ELSE IF j = i + 1 THEN Events!Bucket(s, 1) ELSE buckets[j - 1]
<1> DEFINE n == Len(buckets)
           before == {0} \cup {j \in 1..n : buckets[j].second <= s}
           i == Events!Position(s)
           e == Events!Placed(s)
<1>1. /\ buckets \in Seq(Buckets) /\ n \in Nat /\ s \in Int
      /\ \A j \in 1..n : buckets[j].second \in Int
      /\ \A j, k \in 1..n : j < k => buckets[j].second < buckets[k].second
  <2>1. buckets \in Seq(Buckets) /\ \A j, k \in 1..n : j < k => buckets[j].second < buckets[k].second
    BY DEF Events!TypeOK, Buckets
  <2>2. QED
    BY <2>1, SecondsAreNumbers, SeriesAssumption
<1>2. i \in before /\ \A j \in before : j <= i
  <2>1. before \subseteq Int /\ before # {} /\ \A j \in before : j <= n
    BY <1>1
  <2>2. i = Max(before)
    BY DEF Events!Position, Events!Max, Max
  <2> HIDE DEF before, i, n
  <2>3. n \in Int
    BY <1>1
  <2>4. QED
    BY <2>1, <2>2, <2>3, MaxIs, Zenon
<1>3. i \in 0..n
  BY <1>1, <1>2
<1>4. \A j \in 1..n : j > i => s < buckets[j].second
  <2>1. SUFFICES ASSUME NEW j \in 1..n, j > i PROVE s < buckets[j].second
    OBVIOUS
  <2>2. j \notin before
    <3> HIDE DEF before, i
    <3>1. QED
      BY <1>2, <1>3, <2>1
  <2>3. QED
    BY <1>1, <2>1, <2>2
<1>5. i # 0 => i \in 1..n /\ buckets[i].second <= s
  BY <1>2
<1> HIDE DEF before, i
<1>6. CASE i > 0 /\ buckets[i].second = s
  <2>1. e = [buckets EXCEPT ![i].total = @ + 1]
    BY <1>6 DEF Events!Placed, i
  <2>2. i \in 1..n
    BY <1>3, <1>6
  <2>3. QED
    BY <1>6, <2>1, <2>2
<1>7. CASE ~(i > 0 /\ buckets[i].second = s)
  <2> DEFINE a == SubSeq(buckets, 1, i)
             b == SubSeq(buckets, i + 1, n)
             x == Events!Bucket(s, 1)
  <2>1. e = a \o <<x>> \o b
    <3>1. e = InsertAt(buckets, i + 1, x)
      BY <1>7 DEF Events!Placed, Events!InsertAt, InsertAt, i
    <3>2. (i + 1) - 1 = i
      BY <1>3
    <3>3. QED
      BY <3>1, <3>2 DEF InsertAt
  <2>2. /\ a \in Seq(Buckets) /\ Len(a) = i /\ \A j \in 1..i : a[j] = buckets[j]
        /\ b \in Seq(Buckets) /\ Len(b) = n - i /\ \A j \in 1..(n - i) : b[j] = buckets[i + j]
    <3>1. \A j \in 1..(n - i) : (i + 1) + j - 1 = i + j
      BY <1>1, <1>3
    <3>2. QED
      BY <1>1, <1>3, <3>1
  <2>3. x \in Buckets
    BY DEF Events!Bucket, Buckets
  <2>4. /\ a \o <<x>> \in Seq(Buckets) /\ Len(a \o <<x>>) = i + 1
        /\ \A j \in 1..(i + 1) : (a \o <<x>>)[j] = IF j <= i THEN buckets[j] ELSE x
    <3> HIDE DEF a, b, x
    <3>1. QED
      BY <1>3, <2>2, <2>3
  <2> DEFINE c == a \o <<x>>
  <2>5. /\ c \o b \in Seq(Buckets) /\ Len(c \o b) = n + 1
        /\ \A j \in 1..(n + 1) :
             (c \o b)[j] = IF j <= i + 1 THEN c[j] ELSE b[j - (i + 1)]
    <3>1. c \in Seq(Buckets) /\ Len(c) = i + 1
      BY <2>4
    <3>2. b \in Seq(Buckets) /\ Len(b) = n - i
      BY <2>2
    <3> HIDE DEF a, b, c, x
    <3>3. c \o b \in Seq(Buckets) /\ Len(c \o b) = Len(c) + Len(b)
      BY <3>1, <3>2
    <3>4. \A j \in 1..(Len(c) + Len(b)) :
            (c \o b)[j] = IF j <= Len(c) THEN c[j] ELSE b[j - Len(c)]
      BY <3>1, <3>2
    <3>5. Len(c) + Len(b) = n + 1
      BY <1>1, <1>3, <3>1, <3>2
    <3>6. QED
      BY <3>1, <3>3, <3>4, <3>5
  <2>6. \A j \in 1..(n + 1) :
          e[j] = IF j <= i THEN buckets[j] ELSE IF j = i + 1 THEN x ELSE buckets[j - 1]
    <3>1. SUFFICES ASSUME NEW j \in 1..(n + 1)
                   PROVE  e[j] = IF j <= i THEN buckets[j] ELSE IF j = i + 1 THEN x ELSE buckets[j - 1]
      OBVIOUS
    <3>2. e[j] = IF j <= i + 1 THEN c[j] ELSE b[j - (i + 1)]
      BY <2>1, <2>5
    <3>3. j <= i + 1 => j \in 1..(i + 1) /\ c[j] = IF j <= i THEN buckets[j] ELSE x
      BY <2>4, <3>1, <1>3
    <3>4. ~(j <= i + 1) => j - (i + 1) \in 1..(n - i) /\ i + (j - (i + 1)) = j - 1
      BY <1>1, <1>3, <3>1
    <3>5. ~(j <= i + 1) => b[j - (i + 1)] = buckets[j - 1]
      BY <2>2, <3>4
    <3> HIDE DEF a, b, c, e, x
    <3>6. QED
      BY <1>1, <1>3, <3>2, <3>3, <3>5
  <2>7. \A j \in 1..n : IF j <= i THEN buckets[j].second < s ELSE s < buckets[j].second
    <3>1. SUFFICES ASSUME NEW j \in 1..n, j <= i PROVE buckets[j].second < s
      BY <1>1, <1>3, <1>4
    <3>2. i \in 1..n /\ buckets[i].second < s
      BY <1>1, <1>3, <1>5, <1>7, <3>1
    <3>3. j = i \/ buckets[j].second < buckets[i].second
      BY <1>1, <1>3, <3>1, <3>2
    <3>4. QED
      BY <1>1, <3>1, <3>2, <3>3
  <2>8. e \in Seq(Buckets) /\ Len(e) = n + 1
    BY <2>1, <2>5
  <2>9. QED
    BY <1>3, <2>6, <2>7, <2>8
<1>8. QED
  BY <1>6, <1>7

\* An event that is not dropped is counted, in a history that may be one bucket
\* too long.
LEMMA CountedOnce ==
  ASSUME SeriesInv, NEW s \in Seconds, ~(s + WindowSecs <= Events!Newest(s))
  PROVE  LET e == Events!Placed(s)
         IN  /\ e \in Seq(Buckets) /\ e # <<>> /\ Ordered(e) /\ Len(e) <= WindowSecs + 1
             /\ HistoryOf(e, [offered EXCEPT ![s] = @ + 1])
<1> DEFINE n == Len(buckets)
           e == Events!Placed(s)
           f == [offered EXCEPT ![s] = @ + 1]
<1>1. /\ buckets \in Seq(Buckets) /\ n \in Nat /\ s \in Int /\ WindowSecs \in Nat \ {0}
      /\ n <= WindowSecs /\ offered \in [Seconds -> Nat]
      /\ \A j \in 1..n : buckets[j] \in Buckets /\ buckets[j].second \in Int
      /\ \A j, k \in 1..n : j < k => buckets[j].second < buckets[k].second
  <2>1. /\ buckets \in Seq(Buckets) /\ n <= WindowSecs /\ offered \in [Seconds -> Nat]
        /\ \A j, k \in 1..n : j < k => buckets[j].second < buckets[k].second
    BY SeriesAssumption DEF SeriesInv, Events!TypeOK, Buckets
  <2>2. QED
    BY <2>1, SecondsAreNumbers, SeriesAssumption
<1>2. f[s] = offered[s] + 1 /\ \A t \in Seconds : f[t] \in Nat /\ (t # s => f[t] = offered[t])
  BY <1>1
<1>3. buckets = <<>> => n = 0 /\ \A t \in Seconds : offered[t] = 0
  BY DEF SeriesInv, HistoryOf
<1>4. buckets # <<>> =>
        /\ n \in 1..n /\ Last(buckets) = buckets[n]
        /\ s > buckets[n].second - WindowSecs
        /\ \A t \in Seconds : t > buckets[n].second - WindowSecs => Counted(buckets, t, offered[t])
  <2>1. SUFFICES ASSUME buckets # <<>>
                 PROVE  /\ n \in 1..n /\ Last(buckets) = buckets[n]
                        /\ s > buckets[n].second - WindowSecs
                        /\ \A t \in Seconds : t > buckets[n].second - WindowSecs
                                                => Counted(buckets, t, offered[t])
    OBVIOUS
  <2>2. n \in 1..n /\ Last(buckets) = buckets[n]
    BY <1>1, <2>1, EmptySeq DEF Last
  <2>3. Events!Newest(s) = buckets[n].second
    BY <2>1, <2>2 DEF Events!Newest, Events!Last, Last
  <2>4. QED
    BY <1>1, <2>1, <2>2, <2>3 DEF SeriesInv, HistoryOf
<1> HIDE DEF n, e, f
<1>5. CASE \E i \in 1..n : /\ buckets[i].second = s
                           /\ e = [buckets EXCEPT ![i].total = @ + 1]
  <2>1. PICK i \in 1..n : buckets[i].second = s /\ e = [buckets EXCEPT ![i].total = @ + 1]
    BY <1>5
  <2>2. buckets # <<>>
    BY <1>1, <1>3, <2>1
  <2>3. /\ e \in Seq(Buckets) /\ Len(e) = n
        /\ \A j \in 1..n : e[j].second = buckets[j].second /\ (j # i => e[j] = buckets[j])
        /\ e[i].total = buckets[i].total + 1
    <3>1. [buckets[i] EXCEPT !.total = @ + 1] \in Buckets
      <4>1. buckets[i] \in Buckets
        BY <1>1, <2>1
      <4>2. QED
        BY <4>1 DEF Buckets
    <3>2. e = [buckets EXCEPT ![i] = [buckets[i] EXCEPT !.total = @ + 1]]
      BY <2>1
    <3>3. e \in Seq(Buckets) /\ Len(e) = n
      BY <1>1, <2>1, <3>1, <3>2 DEF n
    <3>4. DOMAIN buckets = 1..n
      BY <1>1 DEF n
    <3>5. \A j \in 1..n : e[j] = IF j = i THEN [buckets[i] EXCEPT !.total = @ + 1] ELSE buckets[j]
      BY <3>2, <3>4
    <3>6. buckets[i] \in [second : Seconds, total : Nat \ {0}]
      BY <1>1, <2>1 DEF Buckets
    <3>7. QED
      BY <2>1, <3>3, <3>5, <3>6
  <2>4. Ordered(e)
    BY <1>1, <2>3 DEF Ordered
  <2>5. e # <<>> /\ Last(e).second = buckets[n].second
    BY <1>1, <1>4, <2>2, <2>3, EmptySeq DEF Last
  <2>6. ASSUME NEW t \in Seconds, t > buckets[n].second - WindowSecs
        PROVE  Counted(e, t, f[t])
    <3>1. Counted(buckets, t, offered[t])
      BY <1>4, <2>2, <2>6
    <3>2. CASE t = s
      <4>1. offered[s] # 0
        BY <2>1, <3>1, <3>2 DEF Counted, n
      <4>2. PICK j \in 1..n : buckets[j] = Events!Bucket(s, offered[s])
        BY <3>1, <3>2, <4>1 DEF Counted, n
      <4>3. j = i
        BY <1>1, <2>1, <4>2, SMTT(30) DEF Events!Bucket
      <4>4. e[i] = Events!Bucket(s, f[s])
        <5>1. e[i].second = s /\ e[i].total = f[s]
          BY <1>2, <2>1, <2>3, <4>2, <4>3 DEF Events!Bucket
        <5>2. e[i] \in [second : Seconds, total : Nat \ {0}]
          BY <2>1, <2>3 DEF Buckets
        <5>3. QED
          BY <5>1, <5>2 DEF Events!Bucket
      <4>5. f[s] # 0
        BY <1>1, <1>2
      <4>6. QED
        BY <2>1, <2>3, <3>2, <4>4, <4>5 DEF Counted
    <3>3. CASE t # s
      <4>1. f[t] = offered[t]
        BY <1>2, <3>3
      <4>2. CASE offered[t] = 0
        BY <2>3, <3>1, <4>1, <4>2 DEF Counted, n
      <4>3. CASE offered[t] # 0
        <5>1. PICK j \in 1..n : buckets[j] = Events!Bucket(t, offered[t])
          BY <3>1, <4>3 DEF Counted, n
        <5>2. j # i
          BY <2>1, <3>3, <5>1 DEF Events!Bucket
        <5>3. QED
          BY <2>3, <4>1, <4>3, <5>1, <5>2 DEF Counted
      <4>4. QED
        BY <4>2, <4>3
    <3>4. QED
      BY <3>2, <3>3
  <2>7. HistoryOf(e, f)
    BY <2>5, <2>6 DEF HistoryOf
  <2>8. QED
    BY <1>1, <2>3, <2>4, <2>5, <2>7 DEF e, f
<1>6. CASE \E i \in 0..n :
             /\ \A j \in 1..n : IF j <= i THEN buckets[j].second < s ELSE s < buckets[j].second
             /\ e \in Seq(Buckets) /\ Len(e) = n + 1
             /\ \A j \in 1..(n + 1) :
                  e[j] = IF j <= i THEN buckets[j]
                         ELSE IF j = i + 1 THEN Events!Bucket(s, 1) ELSE buckets[j - 1]
  <2>1. PICK i \in 0..n :
          /\ \A j \in 1..n : IF j <= i THEN buckets[j].second < s ELSE s < buckets[j].second
          /\ e \in Seq(Buckets) /\ Len(e) = n + 1
          /\ \A j \in 1..(n + 1) :
               e[j] = IF j <= i THEN buckets[j]
                      ELSE IF j = i + 1 THEN Events!Bucket(s, 1) ELSE buckets[j - 1]
    BY <1>6
  <2>2. \A j \in 1..n : buckets[j].second # s
    BY <1>1, <2>1
  <2>3. /\ i + 1 \in 1..(n + 1) /\ e[i + 1] = Events!Bucket(s, 1)
        /\ \A j \in 1..(n + 1) : j # i + 1 => \E k \in 1..n : e[j] = buckets[k]
        /\ \A k \in 1..n : \E j \in 1..(n + 1) : e[j] = buckets[k]
    <3>1. i + 1 \in 1..(n + 1) /\ e[i + 1] = Events!Bucket(s, 1)
      BY <1>1, <2>1
    <3>2. ASSUME NEW j \in 1..(n + 1), j # i + 1
          PROVE  \E k \in 1..n : e[j] = buckets[k]
      <4>1. CASE j <= i
        BY <1>1, <2>1, <4>1
      <4>2. CASE ~(j <= i)
        <5>1. j - 1 \in 1..n /\ e[j] = buckets[j - 1]
          BY <1>1, <2>1, <3>2, <4>2
        <5>2. QED
          BY <5>1
      <4>3. QED
        BY <4>1, <4>2
    <3>3. ASSUME NEW k \in 1..n
          PROVE  \E j \in 1..(n + 1) : e[j] = buckets[k]
      <4>1. CASE k <= i
        BY <1>1, <2>1, <4>1
      <4>2. CASE ~(k <= i)
        <5>1. k + 1 \in 1..(n + 1) /\ e[k + 1] = buckets[k]
          <6>1. k + 1 \in 1..(n + 1) /\ ~(k + 1 <= i) /\ k + 1 # i + 1 /\ (k + 1) - 1 = k
            BY <1>1, <4>2
          <6>2. QED
            BY <2>1, <6>1
        <5>2. QED
          BY <5>1
      <4>3. QED
        BY <4>1, <4>2
    <3>4. QED
      BY <3>1, <3>2, <3>3
  <2>4. Ordered(e)
    <3>1. SUFFICES ASSUME NEW j \in 1..(n + 1), NEW k \in 1..(n + 1), j < k
                   PROVE  e[j].second < e[k].second
      BY <2>1 DEF Ordered
    <3>2. Events!Bucket(s, 1).second = s
      BY DEF Events!Bucket
    <3>3. CASE k <= i
      <4>1. j \in 1..n /\ k \in 1..n /\ e[j] = buckets[j] /\ e[k] = buckets[k]
        BY <1>1, <2>1, <3>1, <3>3
      <4>2. QED
        BY <1>1, <3>1, <4>1
    <3>4. CASE k = i + 1
      <4>1. j \in 1..n /\ j <= i /\ e[j] = buckets[j] /\ e[k].second = s
        BY <1>1, <2>1, <2>3, <3>1, <3>2, <3>4
      <4>2. QED
        BY <2>1, <4>1
    <3>5. CASE k > i + 1
      <4>1. k - 1 \in 1..n /\ ~(k - 1 <= i) /\ e[k] = buckets[k - 1]
        BY <1>1, <2>1, <3>1, <3>5
      <4>2. s < buckets[k - 1].second
        BY <2>1, <4>1
      <4>3. CASE j <= i
        <5>1. j \in 1..n /\ e[j] = buckets[j] /\ j < k - 1
          BY <1>1, <2>1, <3>1, <3>5, <4>3, SMTT(30)
        <5>2. QED
          BY <1>1, <4>1, <5>1
      <4>4. CASE j = i + 1
        BY <2>3, <3>2, <4>1, <4>2, <4>4
      <4>5. CASE j > i + 1
        <5>1. j - 1 \in 1..n /\ e[j] = buckets[j - 1] /\ j - 1 < k - 1
          BY <1>1, <2>1, <3>1, <4>5
        <5>2. QED
          BY <1>1, <4>1, <5>1
      <4>6. QED
        BY <1>1, <2>1, <3>1, <4>3, <4>4, <4>5
    <3>6. QED
      BY <1>1, <2>1, <3>1, <3>3, <3>4, <3>5
  <2>5. e # <<>> /\ Last(e) = e[n + 1] /\ e[n + 1].second \in Int
    <3>1. n + 1 \in 1..Len(e)
      BY <1>1, <2>1
    <3>2. QED
      BY <2>1, <3>1, EmptySeq, SecondsAreNumbers DEF Last
  <2>6. buckets # <<>> => buckets[n].second <= e[n + 1].second
    <3>1. CASE i = n
      <4>1. e[n + 1].second = s
        BY <2>3, <3>1 DEF Events!Bucket
      <4>2. QED
        BY <1>1, <1>4, <2>1, <3>1, <4>1
    <3>2. CASE i # n
      <4>1. e[n + 1] = buckets[n]
        <5>1. n + 1 \in 1..(n + 1) /\ ~(n + 1 <= i) /\ n + 1 # i + 1 /\ (n + 1) - 1 = n
          BY <1>1, <2>1, <3>2
        <5>2. QED
          BY <2>1, <5>1
      <4>2. QED
        BY <1>1, <1>4, <4>1
    <3>3. QED
      BY <3>1, <3>2
  <2>7. offered[s] = 0
    <3>1. CASE buckets = <<>>
      BY <1>3, <3>1
    <3>2. CASE buckets # <<>>
      <4>1. Counted(buckets, s, offered[s])
        BY <1>4, <3>2
      <4>2. QED
        BY <2>2, <4>1 DEF Counted, n, Events!Bucket
    <3>3. QED
      BY <3>1, <3>2
  <2>8. ASSUME NEW t \in Seconds, t > e[n + 1].second - WindowSecs
        PROVE  Counted(e, t, f[t])
    <3>1. CASE t = s
      <4>1. f[t] = 1
        BY <1>2, <2>7, <3>1
      <4>2. QED
        BY <2>1, <2>3, <3>1, <4>1 DEF Counted
    <3>2. CASE t # s
      <4>1. f[t] = offered[t] /\ Events!Bucket(s, 1).second # t
        BY <1>2, <3>2 DEF Events!Bucket
      <4>2. Counted(buckets, t, offered[t])
        <5>1. CASE buckets = <<>>
          <6>1. 1..Len(buckets) = {}
            BY <1>3, <5>1 DEF n
          <6>2. offered[t] = 0
            BY <1>3, <5>1
          <6>3. QED
            BY <6>1, <6>2 DEF Counted
        <5>2. CASE buckets # <<>>
          <6>1. t \in Int /\ buckets[n].second \in Int
            BY <1>1, <1>4, <5>2, SeriesAssumption
          <6>2. t > buckets[n].second - WindowSecs
            BY <1>1, <2>5, <2>6, <2>8, <5>2, <6>1, SMTT(30)
          <6>3. QED
            BY <1>4, <5>2, <6>2
        <5>3. QED
          BY <5>1, <5>2
      <4>3. CASE offered[t] = 0
        <5>1. \A k \in 1..n : buckets[k].second # t
          BY <4>2, <4>3 DEF Counted, n
        <5>2. \A j \in 1..(n + 1) : e[j].second # t
          BY <2>3, <4>1, <5>1
        <5>3. QED
          BY <2>1, <4>1, <4>3, <5>2 DEF Counted
      <4>4. CASE offered[t] # 0
        <5>1. PICK k \in 1..n : buckets[k] = Events!Bucket(t, offered[t])
          BY <4>2, <4>4 DEF Counted, n
        <5>2. PICK j \in 1..(n + 1) : e[j] = buckets[k]
          BY <2>3
        <5>3. QED
          BY <2>1, <4>1, <4>4, <5>1, <5>2 DEF Counted
      <4>5. QED
        BY <4>3, <4>4
    <3>3. QED
      BY <3>1, <3>2
  <2>9. HistoryOf(e, f)
    BY <2>5, <2>8 DEF HistoryOf
  <2>10. QED
    BY <1>1, <2>1, <2>4, <2>5, <2>9 DEF e, f
<1>7. QED
  BY <1>5, <1>6, PlacedIs DEF SeriesInv, n, e

\* An event that is recorded keeps the history.
LEMMA RecordKeeps ==
  ASSUME SeriesInv, NEW s \in Seconds, Events!Record(s)
  PROVE  SeriesInv'
<1> DEFINE f == [offered EXCEPT ![s] = @ + 1]
<1>1. /\ offered' = f /\ WindowSecs \in Nat \ {0} /\ s \in Int
      /\ offered \in [Seconds -> 0..MaxOffered] /\ offered[s] < MaxOffered /\ MaxOffered \in Nat
  BY SeriesAssumption DEF SeriesInv, Events!TypeOK, Events!Record
<1>2. offered' \in [Seconds -> 0..MaxOffered]
  <2>1. offered[s] + 1 \in 0..MaxOffered
    BY <1>1
  <2>2. QED
    BY <1>1, <2>1
<1>3. CASE s + WindowSecs <= Events!Newest(s)
  <2>1. buckets' = buckets
    BY <1>3 DEF Events!Record
  <2>2. buckets # <<>>
    BY <1>1, <1>3 DEF Events!Newest
  <2>3. Events!Newest(s) = Last(buckets).second
    BY <2>2 DEF Events!Newest, Events!Last, Last
  <2>4. Last(buckets).second \in Int
    <3>1. buckets \in Seq(Buckets)
      BY DEF SeriesInv, Events!TypeOK, Buckets
    <3>2. Len(buckets) \in 1..Len(buckets)
      BY <2>2, <3>1, EmptySeq
    <3>3. QED
      BY <3>1, <3>2, SecondsAreNumbers DEF Last
  <2>5. ASSUME NEW t \in Seconds, t > Last(buckets).second - WindowSecs
        PROVE  Counted(buckets, t, f[t])
    <3>1. t # s
      BY <1>1, <1>3, <2>3, <2>4, <2>5
    <3>2. f[t] = offered[t]
      BY <1>1, <3>1
    <3>3. QED
      BY <2>2, <2>5, <3>2 DEF SeriesInv, HistoryOf
  <2>6. HistoryOf(buckets, f)
    BY <2>2, <2>5 DEF HistoryOf
  <2>7. HistoryOf(buckets', offered')
    BY <1>1, <2>1, <2>6
  <2>8. QED
    BY <1>2, <2>1, <2>7 DEF SeriesInv, Events!TypeOK
<1>4. CASE ~(s + WindowSecs <= Events!Newest(s))
  <2> DEFINE e == Events!Placed(s)
             t == Events!Trimmed(e)
  <2>1. /\ e \in Seq(Buckets) /\ e # <<>> /\ Ordered(e) /\ Len(e) <= WindowSecs + 1
        /\ HistoryOf(e, f)
    BY <1>4, CountedOnce
  <2>2. buckets' = t
    BY <1>4 DEF Events!Record
  <2> HIDE DEF e
  <2>3. /\ t \in Seq(Buckets) /\ t # <<>> /\ Len(t) <= WindowSecs
        /\ Ordered(t) /\ Last(t) = Last(e)
        /\ \A u \in Seconds, n \in Nat :
             (u > Last(e).second - WindowSecs /\ Counted(e, u, n)) => Counted(t, u, n)
    BY <2>1, TrimKeeps
  <2>4. \A u \in Seconds : f[u] \in Nat
    BY <1>1, <1>2
  <2> HIDE DEF f, t
  <2>5. HistoryOf(t, f)
    BY <2>1, <2>3, <2>4 DEF HistoryOf
  <2>6. HistoryOf(buckets', offered')
    BY <1>1, <2>2, <2>5
  <2>7. Events!TypeOK'
    <3>1. buckets' \in Seq(Buckets) /\ Len(buckets') <= WindowSecs /\ Ordered(buckets')
      BY <2>2, <2>3
    <3>2. QED
      BY <1>2, <3>1 DEF Events!TypeOK, Buckets, Ordered
  <2>8. QED
    BY <2>6, <2>7 DEF SeriesInv
<1>5. QED
  BY <1>3, <1>4

\* The buckets are the history in every reachable state.
LEMMA HistoryIsKept == TableSpec => []SeriesInv
<1>1. TableInit => SeriesInv
  <2>1. SUFFICES ASSUME TableInit PROVE SeriesInv
    OBVIOUS
  <2>2. buckets = <<>> /\ offered = [s \in Seconds |-> 0]
    BY <2>1 DEF TableInit, Events!Init
  <2>3. Events!TypeOK
    <3>1. Len(buckets) = 0 /\ buckets \in Seq([second : Seconds, total : Nat \ {0}])
      BY <2>2
    <3>2. QED
      BY <2>2, <3>1, SeriesAssumption DEF Events!TypeOK
  <2>4. QED
    BY <2>2, <2>3 DEF SeriesInv, HistoryOf
<1>2. SeriesInv /\ [TableNext]_tableVars => SeriesInv'
  <2>1. SUFFICES ASSUME SeriesInv, [TableNext]_tableVars PROVE SeriesInv'
    OBVIOUS
  <2>2. CASE Graph
    BY <2>1, <2>2, RecordKeeps DEF Graph, Events!Next
  <2>3. CASE UNCHANGED <<buckets, offered>>
    BY <2>1, <2>3 DEF SeriesInv, Events!TypeOK, HistoryOf, Counted
  <2>4. QED
    BY <2>1, <2>2, <2>3 DEF TableNext, Read, tableVars
<1>3. QED
  BY <1>1, <1>2, PTL DEF TableSpec

\* What the graph shows of a second of the window.
LEMMA TotalIsOffered ==
  ASSUME SeriesInv, buckets # <<>>, NEW t \in Int, t > Last(buckets).second - WindowSecs
  PROVE  Events!TotalAt(t) = Events!Offered(t)
<1> DEFINE n == Len(buckets)
           here == {i \in 1..n : buckets[i].second = t}
<1>1. /\ n \in Nat /\ \A j \in 1..n : buckets[j].second \in Seconds /\ buckets[j].second \in Int
      /\ \A j, k \in 1..n : j < k => buckets[j].second < buckets[k].second
  <2>1. /\ buckets \in Seq(Buckets)
        /\ \A j, k \in 1..n : j < k => buckets[j].second < buckets[k].second
    BY DEF SeriesInv, Events!TypeOK, Buckets
  <2>2. QED
    BY <2>1, SecondsAreNumbers
<1>2. Events!TotalAt(t) = IF here = {} THEN 0 ELSE buckets[Max(here)].total
  BY DEF Events!TotalAt, Events!Max, Max
<1>3. CASE t \notin Seconds
  <2>1. here = {}
    BY <1>1, <1>3
  <2>2. QED
    BY <1>2, <1>3, <2>1 DEF Events!Offered
<1>4. CASE t \in Seconds
  <2>1. Counted(buckets, t, offered[t]) /\ Events!Offered(t) = offered[t]
    BY <1>4 DEF SeriesInv, HistoryOf, Events!Offered
  <2>2. CASE offered[t] = 0
    <3>1. here = {}
      BY <2>1, <2>2 DEF Counted
    <3>2. QED
      BY <1>2, <2>1, <2>2, <3>1
  <2>3. CASE offered[t] # 0
    <3>1. PICK i \in 1..n : buckets[i] = Events!Bucket(t, offered[t])
      BY <2>1, <2>3 DEF Counted
    <3>2. here = {i}
      BY <1>1, <3>1 DEF Events!Bucket
    <3>3. Max({i}) = i
      <4>1. {i} \subseteq Int /\ {i} # {} /\ i \in Int /\ \A x \in {i} : x <= i
        BY <1>1
      <4>2. Max({i}) \in {i}
        BY <4>1, MaxIs, Zenon
      <4>3. QED
        BY <4>2
    <3>4. here # {} /\ Max(here) = i
      BY <3>2, <3>3
    <3>5. buckets[i].total = offered[t]
      BY <3>1 DEF Events!Bucket
    <3> HIDE DEF here
    <3>6. QED
      BY <1>2, <2>1, <3>4, <3>5
  <2>4. QED
    BY <2>2, <2>3
<1>5. QED
  BY <1>3, <1>4

\* A sum of the counts of buckets, and one of the events offered, as DataFacts adds.
LEMMA TotalsAdd ==
  ASSUME NEW D, IsFiniteSet(D), \A i \in D : buckets[i].total \in Nat,
         NEW I \in SUBSET D, NEW g,
         Adds(g, [i \in D |-> buckets[i].total], SUBSET D)
  PROVE  Events!MapThenSumSet(LAMBDA i : buckets[i].total, I) = g[I]
<1> DEFINE F == [i \in D |-> buckets[i].total]
           e == [i \in I |-> buckets[i].total]
           G(k) == [T \in SUBSET I |-> IF T = {} THEN 0 ELSE buckets[Pick(T)].total + k[T \ {Pick(T)}]]
           k == CHOOSE k : k = G(k)
<1>1. IsFiniteSet(I)
  BY FS_Subset
<1>2. e \in [I -> Nat] /\ \A x \in I : F[x] = e[x]
  OBVIOUS
<1> HIDE DEF F, e
<1>3. PICK m \in [SUBSET I -> Nat] : Adds(m, e, SUBSET I)
  BY <1>1, <1>2, SumExists
<1>4. \A T \in SUBSET I : T # {} => Pick(T) \in I /\ e[Pick(T)] = buckets[Pick(T)].total
  BY DEF Pick, e
<1>5. m = G(m)
  <2>1. \A T \in SUBSET I : m[T] = G(m)[T]
    BY <1>3, <1>4 DEF Adds
  <2>2. QED
    BY <2>1
<1>6. k = G(k)
  BY <1>5
<1>7. Adds(k, e, SUBSET I)
  <2> HIDE DEF k
  <2>1. DOMAIN k = SUBSET I
    BY <1>6
  <2>2. \A T \in SUBSET I : k[T] = G(k)[T]
    BY <1>6
  <2>3. QED
    BY <1>4, <2>1, <2>2 DEF Adds
<1>8. Events!MapThenSumSet(LAMBDA i : buckets[i].total, I) = k[I]
  BY DEF Events!MapThenSumSet, Events!MapThenFoldSet, Pick
<1>9. g[I] = k[I]
  <2>1. Adds(g, F, SUBSET D)
    BY DEF F
  <2> HIDE DEF k, G
  <2>2. Agree(F, e, I)
    BY <1>2 DEF Agree
  <2>3. \A U \in SUBSET I : g[U] = k[U]
    BY <1>7, <2>1, <2>2, SumOnce
  <2>4. QED
    BY <2>3
<1>10. QED
  BY <1>8, <1>9

\* The events that were offered are summed over any seconds.
LEMMA OfferedAdd ==
  ASSUME Events!TypeOK, NEW S, IsFiniteSet(S), NEW J \in SUBSET S, NEW g,
         Adds(g, [t \in S |-> Events!Offered(t)], SUBSET S)
  PROVE  Events!MapThenSumSet(Events!Offered, J) = g[J]
<1> DEFINE F == [t \in S |-> Events!Offered(t)]
           e == [t \in J |-> Events!Offered(t)]
           G(k) == [T \in SUBSET J |-> IF T = {} THEN 0 ELSE Events!Offered(Pick(T)) + k[T \ {Pick(T)}]]
           k == CHOOSE k : k = G(k)
<1>1. \A t : Events!Offered(t) \in Nat
  <2>1. offered \in [Seconds -> 0..MaxOffered] /\ 0..MaxOffered \subseteq Nat /\ 0 \in Nat
    BY SeriesAssumption DEF Events!TypeOK
  <2>2. \A t \in Seconds : offered[t] \in Nat
    BY <2>1
  <2>3. QED
    BY <2>1, <2>2 DEF Events!Offered
<1>2. IsFiniteSet(J)
  BY FS_Subset
<1>3. e \in [J -> Nat] /\ \A x \in J : F[x] = e[x]
  BY <1>1
<1> HIDE DEF F, e
<1>4. PICK m \in [SUBSET J -> Nat] : Adds(m, e, SUBSET J)
  BY <1>2, <1>3, SumExists
<1>5. \A T \in SUBSET J : T # {} => Pick(T) \in J /\ e[Pick(T)] = Events!Offered(Pick(T))
  BY DEF Pick, e
<1>6. m = G(m)
  <2>1. \A T \in SUBSET J : m[T] = G(m)[T]
    BY <1>4, <1>5 DEF Adds
  <2>2. QED
    BY <2>1
<1>7. k = G(k)
  BY <1>6
<1>8. Adds(k, e, SUBSET J)
  <2> HIDE DEF k
  <2>1. DOMAIN k = SUBSET J
    BY <1>7
  <2>2. \A T \in SUBSET J : k[T] = G(k)[T]
    BY <1>7
  <2>3. QED
    BY <1>5, <2>1, <2>2 DEF Adds
<1>9. Events!MapThenSumSet(Events!Offered, J) = k[J]
  BY DEF Events!MapThenSumSet, Events!MapThenFoldSet, Pick
<1>10. g[J] = k[J]
  <2>1. Adds(g, F, SUBSET S)
    BY DEF F
  <2> HIDE DEF k, G
  <2>2. Agree(F, e, J)
    BY <1>3 DEF Agree
  <2>3. \A U \in SUBSET J : g[U] = k[U]
    BY <1>2, <1>8, <2>1, <2>2, SumOnce
  <2>4. QED
    BY <2>3
<1>11. QED
  BY <1>9, <1>10

\* A rate counts all events of its seconds, as long as its clock is not behind them.
LEMMA RateIsOffered ==
  ASSUME SeriesInv, buckets # <<>>, NEW now \in Int, now >= Last(buckets).second,
         NEW m \in Nat, m <= WindowSecs
  PROVE  Events!EventsOver(now, m) = Events!MapThenSumSet(Events!Offered, now - m + 1 .. now)
<1> DEFINE n == Len(buckets)
           D == 1..n
           S == now - WindowSecs + 1 .. now
           F == [i \in D |-> buckets[i].total]
           O == [t \in S |-> Events!Offered(t)]
           I(w) == {i \in D : buckets[i].second \in now - w + 1 .. now}
           J(w) == now - w + 1 .. now
<1>1. /\ n \in Nat /\ WindowSecs \in Nat \ {0} /\ Last(buckets).second \in Int
      /\ \A j \in D : buckets[j] \in Buckets /\ buckets[j].second \in Int /\ buckets[j].total \in Nat
      /\ \A j, k \in D : j < k => buckets[j].second < buckets[k].second
      /\ \A t : Events!Offered(t) \in Nat
  <2>1. /\ buckets \in Seq(Buckets)
        /\ \A j, k \in D : j < k => buckets[j].second < buckets[k].second
    BY DEF SeriesInv, Events!TypeOK, Buckets
  <2>2. n \in D
    BY <2>1, EmptySeq
  <2>3. offered \in [Seconds -> 0..MaxOffered] /\ 0..MaxOffered \subseteq Nat /\ 0 \in Nat
    BY SeriesAssumption DEF SeriesInv, Events!TypeOK
  <2>4. \A t : Events!Offered(t) \in Nat
    <3>1. \A t \in Seconds : offered[t] \in Nat
      BY <2>3
    <3>2. QED
      BY <2>3, <3>1 DEF Events!Offered
  <2>5. \A j \in D : buckets[j].total \in Nat
    <3>1. \A j \in D : buckets[j] \in Buckets
      BY <2>1
    <3>2. \A b \in Buckets : b.total \in Nat
      BY DEF Buckets
    <3>3. QED
      BY <3>1, <3>2
  <2>6. QED
    BY <2>1, <2>2, <2>4, <2>5, SecondsAreNumbers, SeriesAssumption DEF Last
<1>2. IsFiniteSet(D) /\ F \in [D -> Nat]
  <2>1. IsFiniteSet(D)
    BY <1>1, FS_Interval
  <2>2. QED
    BY <1>1, <2>1
<1>3. IsFiniteSet(S) /\ O \in [S -> Nat]
  <2>1. now - WindowSecs + 1 \in Int
    BY <1>1
  <2>2. IsFiniteSet(S)
    BY <2>1, FS_Interval
  <2>3. QED
    BY <1>1, <2>2
<1> HIDE DEF D, S
<1>4. PICK g \in [SUBSET D -> Nat] : Adds(g, F, SUBSET D)
  <2> HIDE DEF F
  <2>1. QED
    BY <1>2, SumExists
<1>5. PICK h \in [SUBSET S -> Nat] : Adds(h, O, SUBSET S)
  <2> HIDE DEF O
  <2>1. QED
    BY <1>3, SumExists
<1>6. AddsAny(g, F, D)
  <2> HIDE DEF F
  <2>1. QED
    BY <1>2, <1>4, SumOfAny
<1>7. AddsAny(h, O, S)
  <2> HIDE DEF O
  <2>1. QED
    BY <1>3, <1>5, SumOfAny
<1> DEFINE R == {w \in Nat : w <= WindowSecs => g[I(w)] = h[J(w)]}
<1>8. 0 \in R
  <2>1. I(0) = {} /\ J(0) = {}
    BY <1>1
  <2>2. g[{}] = 0 /\ h[{}] = 0
    BY <1>4, <1>5 DEF Adds
  <2>3. QED
    BY <2>1, <2>2
<1>9. ASSUME NEW w \in Nat, w \in R
      PROVE  w + 1 \in R
  <2>1. SUFFICES ASSUME w + 1 <= WindowSecs PROVE g[I(w + 1)] = h[J(w + 1)]
    <3>1. w + 1 \in Nat
      OBVIOUS
    <3> HIDE DEF I, J
    <3>2. QED
      BY <3>1
  <2> DEFINE t == now - w
  <2>2. g[I(w)] = h[J(w)] /\ t \in Int
    BY <1>1, <1>9, <2>1
  <2>3. t \in S /\ J(w + 1) \in SUBSET S /\ t \in J(w + 1) /\ J(w + 1) \ {t} = J(w)
    BY <1>1, <2>1 DEF S
  <2>4. h[J(w + 1)] = Events!Offered(t) + h[J(w)]
    <3> HIDE DEF J, t
    <3>1. h[J(w + 1)] = O[t] + h[J(w)]
      BY <1>7, <2>3 DEF AddsAny
    <3>2. QED
      BY <2>3, <3>1
  <2>5. Events!Offered(t) = Events!TotalAt(t)
    BY <1>1, <2>1, TotalIsOffered
  <2> DEFINE here == {i \in D : buckets[i].second = t}
  <2>6. Events!TotalAt(t) = IF here = {} THEN 0 ELSE buckets[Max(here)].total
    BY DEF Events!TotalAt, Events!Max, Max, D
  <2>7. \A i \in D : i \in I(w + 1) <=> i \in I(w) \/ i \in here
    BY <1>1
  <2>8. I(w) \subseteq D /\ I(w + 1) \subseteq D /\ here \subseteq I(w + 1) /\ here \cap I(w) = {}
    BY <1>1
  <2>9. CASE here = {}
    <3>1. I(w + 1) = I(w)
      BY <2>7, <2>8, <2>9
    <3>2. h[J(w)] \in Nat
      <4>1. J(w) \in SUBSET S
        BY <2>3
      <4> HIDE DEF J
      <4>2. QED
        BY <4>1
    <3> HIDE DEF I, J, here, t
    <3>3. QED
      BY <2>2, <2>4, <2>5, <2>6, <2>9, <3>1, <3>2
  <2>10. CASE here # {}
    <3>1. PICK i \in D : i \in here
      BY <2>10
    <3>2. here = {i}
      <4>1. \A j \in here : j = i
        BY <1>1, <3>1 DEF D
      <4>2. QED
        BY <3>1, <4>1
    <3>3. Max({i}) = i
      <4>1. {i} \subseteq Int /\ {i} # {} /\ i \in Int /\ \A x \in {i} : x <= i
        BY <1>1 DEF D
      <4>2. Max({i}) \in {i}
        BY <4>1, MaxIs, Zenon
      <4>3. QED
        BY <4>2
    <3>4. I(w + 1) \in SUBSET D /\ i \in I(w + 1) /\ I(w + 1) \ {i} = I(w)
      BY <2>7, <2>8, <3>1, <3>2
    <3> HIDE DEF I, J, here, t
    <3>5. g[I(w + 1)] = buckets[i].total + g[I(w)]
      <4>1. g[I(w + 1)] = F[i] + g[I(w)]
        BY <1>6, <3>4 DEF AddsAny
      <4>2. QED
        BY <4>1
    <3>6. Events!TotalAt(t) = buckets[i].total
      BY <2>6, <2>10, <3>2, <3>3
    <3>7. QED
      BY <2>2, <2>4, <2>5, <3>5, <3>6
  <2>11. QED
    BY <2>9, <2>10
<1>10. Nat \subseteq R
  <2> HIDE DEF R
  <2>1. QED
    BY <1>8, <1>9, Induction
<1>11. g[I(m)] = h[J(m)]
  BY <1>10
<1>12. Events!EventsOver(now, m) = g[I(m)]
  <2>1. I(m) \in SUBSET D
    OBVIOUS
  <2>2. Events!EventsOver(now, m) = Events!MapThenSumSet(LAMBDA i : buckets[i].total, I(m))
    BY DEF Events!EventsOver, D
  <2> HIDE DEF I
  <2>3. QED
    BY <1>1, <1>2, <1>4, <2>1, <2>2, TotalsAdd
<1>13. Events!MapThenSumSet(Events!Offered, J(m)) = h[J(m)]
  <2>1. J(m) \in SUBSET S
    BY <1>1 DEF S
  <2>2. Events!TypeOK
    BY DEF SeriesInv
  <2> HIDE DEF J
  <2>3. QED
    BY <1>3, <1>5, <2>1, <2>2, OfferedAdd
<1>14. QED
  BY <1>11, <1>12, <1>13

\* The graph of any width shows, second by second, every event ever offered, and the
\* rate counts all of them, in whatever order they came.
THEOREM GraphsAreTheHistory == TableSpec => []GraphIsHistory
<1>1. SeriesInv => GraphIsHistory
  <2>1. SUFFICES ASSUME SeriesInv, buckets # <<>>, NEW now \in Events!Clock, NEW w \in 1..WindowSecs
                 PROVE  LET newest == Events!Last(buckets).second
                        IN  /\ \A i \in 1..w :
                                 now - w + i > newest - WindowSecs
                                   => Events!Window(now, w)[i] = Events!Offered(now - w + i)
                            /\ now >= newest =>
                                 Events!EventsOver(now, w)
                                   = Events!MapThenSumSet(Events!Offered, now - w + 1 .. now)
    BY DEF GraphIsHistory, Events!WindowIsHistory
  <2>2. Events!Last(buckets) = Last(buckets)
    BY DEF Events!Last, Last
  <2>3. WindowSecs \in Nat \ {0} /\ now \in Int /\ w \in Nat /\ w <= WindowSecs
    BY SeriesAssumption DEF Events!Clock
  <2>4. ASSUME NEW i \in 1..w, now - w + i > Last(buckets).second - WindowSecs
        PROVE  Events!Window(now, w)[i] = Events!Offered(now - w + i)
    <3>1. Events!Window(now, w)[i] = Events!TotalAt(now - w + i)
      BY DEF Events!Window
    <3>2. now - w + i \in Int
      BY <2>3
    <3>3. QED
      BY <2>1, <2>4, <3>1, <3>2, TotalIsOffered
  <2>5. now >= Last(buckets).second =>
          Events!EventsOver(now, w) = Events!MapThenSumSet(Events!Offered, now - w + 1 .. now)
    BY <2>1, <2>3, RateIsOffered
  <2>6. QED
    BY <2>2, <2>4, <2>5
<1>2. QED
  BY <1>1, HistoryIsKept, PTL

-----------------------------------------------------------------------------
(* The reads of the panes                                                  *)

\* A reply that was read from its cell, or that the refused command left out.
Own(cell, reply) ==
  /\ cell \in DOMAIN held
  /\ \/ reply \in held[cell] /\ (reply = Gone \/ cell.part = "kind" \/ reply.type = Type(cell))
     \/ reply = Failed /\ Refused(cell)

\* What is shown of it.
Shows(cell, shown) ==
  cell \in DOMAIN held /\ (Own(cell, shown) \/ (shown = Gone /\ Refused(cell)))

Lost(c, reply) == reply = Failed /\ c.cell \in hurt
HeldCounts(counts) ==
  \A n \in ToSet(first.names) :
    Subscribers(n) \in DOMAIN held /\ counts[n] \in held[Subscribers(n)]

\* A reply is the one of its command.
Answers(c, reply) ==
  CASE c.op = "PUBSUB_CHANNELS" ->
         Lost(c, reply) \/ (reply.type = "names" /\ reply.names \in Seq(ToSet(Channels)))
    [] c.op = "PUBSUB_NUMSUB" ->
         Lost(c, reply) \/ (reply.type = "counts" /\ HeldCounts(reply.counts))
    [] c.op = "probe" ->
         c.cell \in DOMAIN held /\ (Lost(c, reply) \/ reply \in held[c.cell])
    [] OTHER -> Own(c.cell, reply)

\* A command is about a cell of the read, and for the type that BullMQ keeps in it.
KeyOps == {"HMGET", "LLEN", "LRANGE", "ZCARD", "ZREVRANGE", "CLUSTER_INFO", "CLUSTER_NODES"}
Proper(c) ==
  \/ c.op = "PUBSUB_CHANNELS"
  \/ c.op = "PUBSUB_NUMSUB" /\ ask.read = "channels" /\ ToSet(first.names) \subseteq ToSet(Channels)
  \/ c.op = "probe" /\ c.cell \in CellsOf(ask)
  \/ c.op = "TYPE" /\ c.cell \in CellsOf(ask) /\ c.cell.part = "kind"
  \/ /\ c.op \in KeyOps /\ c.cell \in CellsOf(ask)
     /\ c.cell.part \notin {"kind", "permit"} /\ For(c.op) = Type(c.cell)

WorldInv ==
  /\ ask \in Asks /\ clustered \in BOOLEAN /\ changes \in 0..MaxChanges
  /\ DOMAIN world = CellsOf(ask) /\ DOMAIN held = CellsOf(ask)
  /\ \A cell \in CellsOf(ask) :
       /\ {world[cell]} \cup held[cell] \subseteq Contents(cell)
       /\ phase # "begin" => world[cell] \in held[cell]

LossInv == IsFiniteSet(hurt) /\ Cardinality(hurt) <= MaxLost

PageBatch == <<Ranged(RangeOp(ask.state), PageCell(ask.state), PageRange(ask.offset, ask.limit))>>
Phases == {"begin", "probes", "serial", "types", "cells", "page", "job", "logs",
           "info", "nodes", "names", "counts", "done"}

\* What is on its way in a stage, and what the one before it found.
ProbesStage == phase \in {"probes", "serial"} => ask.read = "probes" /\ batch = ProbeBatch
CellsStage == phase = "cells" => ask.read = "queues" /\ batch = SummaryBatch
TypesStage ==
  phase = "types" =>
    /\ ask.read = "types" /\ batch = TypeBatch(Len(first))
    /\ first \in Seq(ToSet(first)) /\ Len(first) < Len(Keys)
    /\ \A i \in 1..Len(first) : Own(KindOf(Keys[i]), first[i])
PageStage ==
  phase = "page" =>
    /\ ask.read = "page" /\ batch = PageBatch /\ PageRange(ask.offset, ask.limit) # NoBounds
JobStage ==
  /\ phase = "job" => ask.read = "job" /\ batch = <<Command("HMGET", JobHash)>>
  /\ phase = "logs" =>
       /\ ask.read = "job" /\ batch = <<Ranged("LRANGE", JobLog, PageRange(0, LogLimit))>>
       /\ Own(JobHash, first) /\ first \notin {Gone, Failed}
ClusterStage ==
  /\ phase = "info" => ask.read = "cluster" /\ batch = <<Command("CLUSTER_INFO", ClusterInfo)>>
  /\ phase = "nodes" =>
       /\ ask.read = "cluster" /\ batch = <<Command("CLUSTER_NODES", ClusterNodes)>>
       /\ Own(ClusterInfo, first) /\ first # Failed
ChannelsStage ==
  /\ phase = "names" =>
       ask.read = "channels" /\ batch = <<Command("PUBSUB_CHANNELS", Cell("channels", "names"))>>
  /\ phase = "counts" =>
       /\ ask.read = "channels" /\ batch = <<Command("PUBSUB_NUMSUB", Cell("channels", "counts"))>>
       /\ first.names \in Seq(ToSet(Channels))
StageInv ==
  /\ phase \in Phases /\ (phase = "begin" => batch = <<>>)
  /\ ProbesStage /\ CellsStage /\ TypesStage /\ PageStage
  /\ JobStage /\ ClusterStage /\ ChannelsStage

ReplyInv ==
  /\ answered \subseteq DOMAIN batch /\ DOMAIN replies = answered
  /\ \A i \in answered : Answers(batch[i], replies[i])

RowIsOwn(row) ==
  \A p \in DOMAIN row.cells :
    LET cell == Cell(row.owner, p)
        shown == row.cells[p]
    IN IF p = "permit"
       THEN \/ shown = "Available" /\ cell \in hurt
            \/ \E c \in held[cell] : shown = Availability(cell.owner, c.type)
       ELSE Shows(cell, shown)
OwnRows(rows) == \A i \in DOMAIN rows : RowIsOwn(rows[i])
OwnersAre(rows, owners) == owners = [i \in DOMAIN rows |-> rows[i].owner]
Durable(jobs) ==
  \A i \in DOMAIN jobs : jobs[i].waited \in Durations /\ jobs[i].ran \in Durations
OutcomeInv ==
  /\ phase # "done" => result = NoResult
  /\ Durable(result.job)
  /\ (Done /\ ~result.ok) =>
       \E cell \in DOMAIN held \cup hurt :
         Essential(cell) /\ (cell \in hurt \/ \E c \in held[cell] : c.type = "other")
  /\ (Done /\ result.ok) =>
       /\ OwnRows(result.rows)
       /\ ask.read = "queues" => OwnersAre(result.rows, Queues)
       /\ (ask.read = "job" /\ result.rows = <<>>) => Gone \in held[JobHash]
       /\ ask.read = "types" => WantedAreKept
  /\ PageIsThePage

\* What the steps need beyond the properties: which batch each stage has sent, that
\* each reply is the one of its command, and that the outcome is of held contents.
PaneInv == WorldInv /\ LossInv /\ StageInv /\ ReplyInv /\ OutcomeInv

\* What a cell may hold tells by its type what it is.
LEMMA ContentsAre ==
  ASSUME NEW cell, NEW c \in Contents(cell)
  PROVE  /\ c = Gone \/ \E type : \E w \in 0..MaxChanges : c = Content(cell, type, w)
         /\ c.type # "failed"
         /\ c.type = "none" <=> c = Gone
         /\ cell.part \notin {"kind", "permit"} => c = Gone \/ c.type \in {Type(cell), "other"}
         /\ (cell.part \notin {"kind", "permit"} /\ Type(cell) = "fact")
              => c = Gone \/ c.type = Type(cell)
         /\ cell.part = "permit" => c.type \in Permits
         /\ cell.part = "kind" => c.type \in Kinds \cup {"none"}
<1>1. PICK w \in 0..MaxChanges : c \in Left(cell, w)
  BY DEF Contents
<1>2. Gone.type = "none"
  BY DEF Gone
<1>3. \A type : Content(cell, type, w).type = type
  BY DEF Content
<1>4. Type(cell) \in {"hash", "list", "yes", "zset", "fact"}
  BY DEF Type, StateType
<1>5. CASE cell \in Facts
  <2>1. c = Content(cell, "fact", w)
    BY <1>1, <1>5 DEF Left
  <2>2. cell.part \in {"info", "nodes"}
    BY <1>5 DEF Facts, ClusterInfo, ClusterNodes, Cell
  <2>3. Type(cell) = "fact"
    BY <2>2, CellsAssumption DEF Type
  <2>4. QED
    BY <1>1, <1>2, <1>3, <2>1, <2>2, <2>3
<1>6. CASE cell \notin Facts /\ cell.part = "permit"
  <2>1. PICK p \in Permits : c = Content(cell, p, w)
    BY <1>1, <1>6 DEF Left
  <2>2. p \notin {"none", "failed"}
    BY DEF Permits
  <2>3. QED
    BY <1>1, <1>2, <1>3, <1>6, <2>1, <2>2
<1>7. CASE cell \notin Facts /\ cell.part = "kind"
  <2>1. c = Gone \/ \E k \in Kinds : c = Content(cell, k, w)
    BY <1>1, <1>7 DEF Left
  <2>2. \A k \in Kinds : k \notin {"none", "failed"}
    BY CellsAssumption
  <2>3. QED
    BY <1>1, <1>2, <1>3, <1>7, <2>1, <2>2
<1>8. CASE cell \notin Facts /\ cell.part \notin {"kind", "permit"}
  <2>1. \/ c = Gone \/ c = Content(cell, Type(cell), w)
        \/ Type(cell) # "fact" /\ c = Content(cell, "other", w)
    BY <1>1, <1>8 DEF Left
  <2>2. QED
    BY <1>1, <1>2, <1>3, <1>4, <1>8, <2>1
<1>9. QED
  BY <1>5, <1>6, <1>7, <1>8

\* A queue has one command for its meta key and one for each state.
LEMMA SummaryIs ==
  /\ \A i \in DOMAIN SummaryBatch :
       \/ \E q \in ToSet(Queues) : SummaryBatch[i] = Command("HMGET", Cell(q, "meta"))
       \/ \E q \in ToSet(Queues), s \in ToSet(States) :
            SummaryBatch[i] = Command(CountOp(s), Cell(q, s))
  /\ \A i \in DOMAIN Queues :
       /\ Base(i) + 1 \in DOMAIN SummaryBatch
       /\ SummaryBatch[Base(i) + 1] = Command("HMGET", Cell(Queues[i], "meta"))
       /\ \A j \in DOMAIN States :
            /\ Base(i) + 1 + j \in DOMAIN SummaryBatch
            /\ SummaryBatch[Base(i) + 1 + j] = Command(CountOp(States[j]), Cell(Queues[i], States[j]))
<1> DEFINE n == Len(Queues)
           d == Len(States)
           Meta(q) == Command("HMGET", Cell(q, "meta"))
           Count(q, s) == Command(CountOp(s), Cell(q, s))
           E == {Meta(q) : q \in ToSet(Queues)}
                  \cup {Count(q, s) : q \in ToSet(Queues), s \in ToSet(States)}
           Counts(i) == [j \in DOMAIN States |-> Count(Queues[i], States[j])]
           blocks == [i \in DOMAIN Queues |-> <<Meta(Queues[i])>> \o Counts(i)]
<1>1. /\ n \in Nat /\ DOMAIN Queues = 1..n /\ d \in Nat /\ DOMAIN States = 1..d
      /\ \A i \in 1..n : Queues[i] \in ToSet(Queues)
      /\ \A j \in 1..d : States[j] \in ToSet(States)
  BY CellsAssumption DEF ToSet
<1>2. ASSUME NEW i \in 1..n
      PROVE  /\ blocks[i] \in Seq(E) /\ Len(blocks[i]) = PerQueue
             /\ blocks[i][1] = Meta(Queues[i])
             /\ \A j \in 1..d : blocks[i][1 + j] = Count(Queues[i], States[j])
  <2>1. Meta(Queues[i]) \in E /\ \A j \in 1..d : Count(Queues[i], States[j]) \in E
    BY <1>1
  <2> HIDE DEF Meta, Count, E
  <2>2. Counts(i) \in Seq(E) /\ Len(Counts(i)) = d
    BY <1>1, <2>1
  <2>3. blocks[i] = <<Meta(Queues[i])>> \o Counts(i)
    BY <1>1
  <2>4. \A j \in 1..d : Counts(i)[j] = Count(Queues[i], States[j])
    BY <1>1
  <2> HIDE DEF Counts, blocks
  <2>5. QED
    BY <1>1, <2>1, <2>2, <2>3, <2>4 DEF PerQueue
<1> HIDE DEF Meta, Count, E
<1>3. blocks \in Seq(Seq(E)) /\ Len(blocks) = n
  <2>1. DOMAIN blocks = 1..n /\ blocks = [i \in 1..n |-> blocks[i]]
    BY <1>1
  <2> HIDE DEF blocks
  <2>2. blocks \in [1..n -> Seq(E)]
    BY <1>2, <2>1, Zenon
  <2>3. QED
    BY <1>1, <2>2
<1>4. SummaryBatch = FlattenSeq(blocks)
  BY DEF SummaryBatch, Meta, Count
<1> HIDE DEF blocks
<1>5. PerQueue \in Nat /\ PerQueue = 1 + d
  BY <1>1 DEF PerQueue
<1>6. SummaryBatch \in Seq(E)
  BY <1>3, <1>4, FlattenType
<1>7. /\ Len(SummaryBatch) = n * PerQueue
      /\ \A i \in 1..n, k \in 1..PerQueue : SummaryBatch[(i - 1) * PerQueue + k] = blocks[i][k]
  <2>1. \A i \in 1..Len(blocks) : Len(blocks[i]) = PerQueue
    BY <1>2, <1>3
  <2>2. /\ Len(FlattenSeq(blocks)) = Len(blocks) * PerQueue
        /\ \A i \in 1..Len(blocks), k \in 1..PerQueue :
             FlattenSeq(blocks)[(i - 1) * PerQueue + k] = blocks[i][k]
    BY <1>3, <1>5, <2>1, FlattenBlocks, ZenonT(40)
  <2>3. QED
    BY <1>3, <1>4, <2>2, Zenon
<1>8. \A i \in 1..n, k \in 1..PerQueue : (i - 1) * PerQueue + k \in DOMAIN SummaryBatch
  <2>1. \A i \in 1..n, k \in 1..PerQueue : (i - 1) * PerQueue + k \in 1..n * PerQueue
    BY <1>1, <1>5, InBlocks
  <2>2. DOMAIN SummaryBatch = 1..n * PerQueue
    BY <1>6, <1>7
  <2>3. QED
    BY <2>1, <2>2
<1>9. ASSUME NEW i \in 1..n
      PROVE  /\ Base(i) + 1 \in DOMAIN SummaryBatch
             /\ SummaryBatch[Base(i) + 1] = Meta(Queues[i])
             /\ \A j \in 1..d : /\ Base(i) + 1 + j \in DOMAIN SummaryBatch
                                /\ SummaryBatch[Base(i) + 1 + j] = Count(Queues[i], States[j])
  <2>1. 1 \in 1..PerQueue /\ \A j \in 1..d : 1 + j \in 1..PerQueue
    BY <1>1, <1>5
  <2>2. Base(i) = (i - 1) * PerQueue /\ Base(i) \in Int
    BY <1>5 DEF Base
  <2>3. \A j \in 1..d : Base(i) + 1 + j = (i - 1) * PerQueue + (1 + j)
    BY <2>2
  <2>4. QED
    BY <1>2, <1>7, <1>8, <2>1, <2>2, <2>3
<1>10. \A i \in DOMAIN SummaryBatch : SummaryBatch[i] \in E
  BY <1>6
<1>11. QED
  BY <1>1, <1>9, <1>10 DEF Meta, Count, E

\* The types of BullMQ's keys, by their part.
LEMMA TypesAre ==
  ASSUME NEW cell
  PROVE  /\ cell.part \in {"meta", "hash", "kind"} => Type(cell) = "hash"
         /\ cell.part = "logs" => Type(cell) = "list"
         /\ cell.part = "page" => Type(cell) = StateType(cell.owner)
         /\ cell.part \in ToSet(States) => Type(cell) = StateType(cell.part)
         /\ cell.part \in {"info", "nodes", "subscribers"} => Type(cell) = "fact"
  BY CellsAssumption DEF Type

\* What the names of the cells stand for.
LEMMA PartsAre ==
  /\ JobHash.part = "hash" /\ JobLog.part = "logs"
  /\ ClusterInfo.part = "info" /\ ClusterNodes.part = "nodes"
  /\ \A x : /\ PageCell(x).part = "page" /\ PageCell(x).owner = x
            /\ Permit(x).part = "permit" /\ KindOf(x).part = "kind"
            /\ Subscribers(x).part = "subscribers"
            /\ Permit(x).owner = x /\ KindOf(x).owner = x /\ Subscribers(x).owner = x
  /\ \A x, p : Cell(x, p).part = p /\ Cell(x, p).owner = x
  BY DEF JobHash, JobLog, ClusterInfo, ClusterNodes, PageCell, Permit, KindOf, Subscribers, Cell

\* The cells of each read.
LEMMA CellsAre ==
  ASSUME NEW a
  PROVE  /\ a.read = "probes" => CellsOf(a) = {Permit(f) : f \in ToSet(Probes)}
         /\ a.read = "queues" => CellsOf(a) = {Cell(q, p) : q \in ToSet(Queues), p \in QueueParts}
         /\ a.read = "page" => CellsOf(a) = {PageCell(a.state)}
         /\ a.read = "job" => CellsOf(a) = {JobHash, JobLog}
         /\ a.read = "cluster" => CellsOf(a) = {ClusterInfo, ClusterNodes}
         /\ a.read = "types" => CellsOf(a) = {KindOf(k) : k \in ToSet(Keys)}
         /\ a.read = "channels" => CellsOf(a) = {Subscribers(c) : c \in ToSet(Channels)}
<1>1. a.read = "probes" => CellsOf(a) = {Permit(f) : f \in ToSet(Probes)}
  BY DEF CellsOf
<1>2. a.read = "queues" => CellsOf(a) = {Cell(q, p) : q \in ToSet(Queues), p \in QueueParts}
  BY DEF CellsOf
<1>3. a.read = "page" => CellsOf(a) = {PageCell(a.state)}
  BY DEF CellsOf
<1>4. a.read = "job" => CellsOf(a) = {JobHash, JobLog}
  BY DEF CellsOf
<1>5. a.read = "cluster" => CellsOf(a) = {ClusterInfo, ClusterNodes}
  BY DEF CellsOf
<1>6. a.read = "types" => CellsOf(a) = {KindOf(k) : k \in ToSet(Keys)}
  BY DEF CellsOf
<1>7. a.read = "channels" => CellsOf(a) = {Subscribers(c) : c \in ToSet(Channels)}
  BY DEF CellsOf
<1>8. QED
  BY <1>1, <1>2, <1>3, <1>4, <1>5, <1>6, <1>7

\* The fields of a command.
LEMMA CommandsAre ==
  /\ \A op, cell : Command(op, cell).op = op /\ Command(op, cell).cell = cell
  /\ \A op, cell, bounds : /\ Ranged(op, cell, bounds).op = op
                           /\ Ranged(op, cell, bounds).cell = cell
                           /\ Ranged(op, cell, bounds).bounds = bounds
  BY DEF Command, Ranged

\* The types are read of keys that are there.
LEMMA TypeBatchIs ==
  ASSUME NEW n \in Nat, n < Len(Keys)
  PROVE  /\ Len(TypeBatch(n)) \in Nat /\ Len(TypeBatch(n)) > 0
         /\ DOMAIN TypeBatch(n) = 1..Len(TypeBatch(n)) /\ n + Len(TypeBatch(n)) <= Len(Keys)
         /\ \A i \in DOMAIN TypeBatch(n) :
              /\ n + i \in DOMAIN Keys /\ Keys[n + i] \in ToSet(Keys)
              /\ TypeBatch(n)[i] = Command("TYPE", KindOf(Keys[n + i]))
<1>1. Len(Keys) \in Nat /\ DOMAIN Keys = 1..Len(Keys) /\ MaxTyped \in Nat \ {0}
  BY CellsAssumption, LimitsAssumption
<1>2. PICK m \in Int : m = Min({MaxTyped, Len(Keys) - n})
  BY <1>1, MinOfTwo
<1>3. m \in Nat /\ m > 0 /\ m <= Len(Keys) - n
  BY <1>1, <1>2, MinOfTwo
<1>4. TypeBatch(n) = [i \in 1..m |-> Command("TYPE", KindOf(Keys[n + i]))]
  BY <1>2 DEF TypeBatch
<1>5. Len(TypeBatch(n)) = m /\ DOMAIN TypeBatch(n) = 1..m
  BY <1>3, <1>4
<1>6. \A i \in 1..m : n + i \in 1..Len(Keys)
  BY <1>1, <1>3
<1>7. \A i \in 1..m : Keys[n + i] \in ToSet(Keys)
  BY <1>1, <1>6 DEF ToSet
<1>8. n + m <= Len(Keys)
  BY <1>1, <1>3
<1>9. QED
  BY <1>1, <1>3, <1>4, <1>5, <1>6, <1>7, <1>8

\* A command on a key is sent to a key of its type.
LEMMA KeyOpIsProper ==
  ASSUME NEW c, NEW op \in KeyOps, NEW cell \in CellsOf(ask), c.op = op, c.cell = cell,
         cell.part \notin {"kind", "permit"}, For(op) = Type(cell)
  PROVE  Proper(c)
  BY DEF Proper

\* The commands that any type answers.
LEMMA OtherOpsAreProper ==
  ASSUME NEW c
  PROVE  /\ c.op = "PUBSUB_CHANNELS" => Proper(c)
         /\ (c.op = "PUBSUB_NUMSUB" /\ ask.read = "channels" /\ ToSet(first.names) \subseteq ToSet(Channels))
              => Proper(c)
         /\ (c.op = "probe" /\ c.cell \in CellsOf(ask)) => Proper(c)
         /\ (c.op = "TYPE" /\ c.cell \in CellsOf(ask) /\ c.cell.part = "kind") => Proper(c)
  BY DEF Proper

\* The batch of one command.
LEMMA OneCommand ==
  ASSUME NEW x, NEW s, s = <<x>>, NEW i \in DOMAIN s
  PROVE  i = 1 /\ s[i] = x
  OBVIOUS

\* Every command of every stage is about the read.
LEMMA BatchIsProper ==
  ASSUME StageInv, NEW i \in DOMAIN batch, phase # "done"
  PROVE  Proper(batch[i])
<1>1. CASE phase \in {"probes", "serial"}
  <2>1. ask.read = "probes" /\ batch = ProbeBatch
    BY <1>1 DEF StageInv, ProbesStage
  <2>2. batch[i] = Command("probe", Permit(Probes[i])) /\ Probes[i] \in ToSet(Probes)
    BY <2>1 DEF ProbeBatch, ToSet
  <2>3. Permit(Probes[i]) \in CellsOf(ask)
    BY <2>1, <2>2, CellsAre
  <2>4. batch[i].op = "probe" /\ batch[i].cell = Permit(Probes[i])
    BY <2>2 DEF Command
  <2>5. QED
    BY <2>3, <2>4, OtherOpsAreProper
<1>2. CASE phase = "cells"
  <2>1. ask.read = "queues" /\ batch = SummaryBatch
    BY <1>2 DEF StageInv, CellsStage
  <2>2. ASSUME NEW q \in ToSet(Queues), batch[i] = Command("HMGET", Cell(q, "meta"))
        PROVE  Proper(batch[i])
    <3>1. Cell(q, "meta") \in CellsOf(ask)
      BY <2>1, CellsAre DEF QueueParts
    <3>2. Cell(q, "meta").part = "meta"
      BY DEF Cell
    <3>3. For("HMGET") = Type(Cell(q, "meta"))
      BY <3>2, TypesAre DEF For
    <3>4. batch[i].op = "HMGET" /\ batch[i].cell = Cell(q, "meta")
      BY <2>2 DEF Command
    <3>5. "HMGET" \in KeyOps
      BY DEF KeyOps
    <3>6. QED
      BY <3>1, <3>2, <3>3, <3>4, <3>5, KeyOpIsProper
  <2>3. ASSUME NEW q \in ToSet(Queues), NEW s \in ToSet(States),
               batch[i] = Command(CountOp(s), Cell(q, s))
        PROVE  Proper(batch[i])
    <3>1. Cell(q, s) \in CellsOf(ask)
      BY <2>1, CellsAre DEF QueueParts
    <3>2. Cell(q, s).part = s /\ s \notin {"kind", "permit"}
      BY CellsAssumption DEF Cell
    <3>3. CountOp(s) \in {"LLEN", "ZCARD"} /\ For(CountOp(s)) = StateType(s)
      BY DEF CountOp, For, StateType
    <3>4. For(CountOp(s)) = Type(Cell(q, s))
      BY <3>2, <3>3, TypesAre
    <3>5. batch[i].op = CountOp(s) /\ batch[i].cell = Cell(q, s)
      BY <2>3 DEF Command
    <3>6. CountOp(s) \in KeyOps
      BY <3>3 DEF KeyOps
    <3>7. QED
      BY <3>1, <3>2, <3>4, <3>5, <3>6, KeyOpIsProper
  <2>4. QED
    BY <2>1, <2>2, <2>3, SummaryIs
<1>3. CASE phase = "types"
  <2>1. ask.read = "types" /\ batch = TypeBatch(Len(first)) /\ Len(first) \in Nat /\ Len(first) < Len(Keys)
    BY <1>3 DEF StageInv, TypesStage
  <2>2. PICK k \in ToSet(Keys) : batch[i] = Command("TYPE", KindOf(k))
    BY <2>1, TypeBatchIs
  <2>3. KindOf(k) \in CellsOf(ask)
    BY <2>1, CellsAre
  <2>4. batch[i].op = "TYPE" /\ batch[i].cell = KindOf(k) /\ KindOf(k).part = "kind"
    BY <2>2 DEF Command, KindOf, Cell
  <2>5. QED
    BY <2>3, <2>4, OtherOpsAreProper
<1>4. CASE phase = "page"
  <2>1. ask.read = "page" /\ batch = PageBatch
    BY <1>4 DEF StageInv, PageStage
  <2>2. batch[i] = Ranged(RangeOp(ask.state), PageCell(ask.state), PageRange(ask.offset, ask.limit))
    BY <2>1, OneCommand DEF PageBatch
  <2>3. batch[i].op = RangeOp(ask.state) /\ batch[i].cell = PageCell(ask.state)
    BY <2>2 DEF Ranged
  <2>4. PageCell(ask.state) \in CellsOf(ask)
    BY <2>1, CellsAre
  <2>5. RangeOp(ask.state) \in {"LRANGE", "ZREVRANGE"} /\ For(RangeOp(ask.state)) = StateType(ask.state)
    BY DEF RangeOp, For, StateType
  <2>6. For(RangeOp(ask.state)) = Type(PageCell(ask.state))
    BY <2>5, PartsAre, TypesAre
  <2>7. RangeOp(ask.state) \in KeyOps
    BY <2>5 DEF KeyOps
  <2>8. PageCell(ask.state).part \notin {"kind", "permit"}
    BY PartsAre
  <2>9. QED
    BY <2>3, <2>4, <2>6, <2>7, <2>8, KeyOpIsProper
<1>5. CASE phase \in {"job", "logs"}
  <2>1. ask.read = "job" /\ \/ batch = <<Command("HMGET", JobHash)>>
                            \/ batch = <<Ranged("LRANGE", JobLog, PageRange(0, LogLimit))>>
    BY <1>5 DEF StageInv, JobStage
  <2>2. \/ batch[i] = Command("HMGET", JobHash)
        \/ batch[i] = Ranged("LRANGE", JobLog, PageRange(0, LogLimit))
    BY <2>1, OneCommand
  <2>3. \/ batch[i].op = "HMGET" /\ batch[i].cell = JobHash
        \/ batch[i].op = "LRANGE" /\ batch[i].cell = JobLog
    BY <2>2 DEF Command, Ranged
  <2>4. JobHash \in CellsOf(ask) /\ JobLog \in CellsOf(ask)
    BY <2>1, CellsAre
  <2>5. /\ For("HMGET") = Type(JobHash) /\ For("LRANGE") = Type(JobLog)
        /\ "HMGET" \in KeyOps /\ "LRANGE" \in KeyOps
    BY PartsAre, TypesAre DEF For, KeyOps
  <2>6. JobHash.part \notin {"kind", "permit"} /\ JobLog.part \notin {"kind", "permit"}
    BY PartsAre
  <2>7. QED
    BY <2>3, <2>4, <2>5, <2>6, KeyOpIsProper
<1>6. CASE phase \in {"info", "nodes"}
  <2>1. ask.read = "cluster" /\ \/ batch = <<Command("CLUSTER_INFO", ClusterInfo)>>
                                \/ batch = <<Command("CLUSTER_NODES", ClusterNodes)>>
    BY <1>6 DEF StageInv, ClusterStage
  <2>2. batch[i] = Command("CLUSTER_INFO", ClusterInfo) \/ batch[i] = Command("CLUSTER_NODES", ClusterNodes)
    BY <2>1, OneCommand
  <2>3. \/ batch[i].op = "CLUSTER_INFO" /\ batch[i].cell = ClusterInfo
        \/ batch[i].op = "CLUSTER_NODES" /\ batch[i].cell = ClusterNodes
    BY <2>2 DEF Command
  <2>4. ClusterInfo \in CellsOf(ask) /\ ClusterNodes \in CellsOf(ask)
    BY <2>1, CellsAre
  <2>5. /\ For("CLUSTER_INFO") = Type(ClusterInfo) /\ For("CLUSTER_NODES") = Type(ClusterNodes)
        /\ "CLUSTER_INFO" \in KeyOps /\ "CLUSTER_NODES" \in KeyOps
    BY PartsAre, TypesAre DEF For, KeyOps
  <2>6. ClusterInfo.part \notin {"kind", "permit"} /\ ClusterNodes.part \notin {"kind", "permit"}
    BY PartsAre
  <2>7. QED
    BY <2>3, <2>4, <2>5, <2>6, KeyOpIsProper
<1>7. CASE phase = "names"
  <2>1. batch = <<Command("PUBSUB_CHANNELS", Cell("channels", "names"))>>
    BY <1>7 DEF StageInv, ChannelsStage
  <2>2. batch[i].op = "PUBSUB_CHANNELS"
    BY <2>1, OneCommand DEF Command
  <2>3. QED
    BY <2>2, OtherOpsAreProper
<1>8. CASE phase = "counts"
  <2>1. /\ ask.read = "channels" /\ batch = <<Command("PUBSUB_NUMSUB", Cell("channels", "counts"))>>
        /\ first.names \in Seq(ToSet(Channels))
    BY <1>8 DEF StageInv, ChannelsStage
  <2>2. batch[i] = Command("PUBSUB_NUMSUB", Cell("channels", "counts"))
    BY <2>1, OneCommand
  <2>3. batch[i].op = "PUBSUB_NUMSUB"
    BY <2>2 DEF Command
  <2>4. ToSet(first.names) \subseteq ToSet(Channels)
    BY <2>1 DEF ToSet
  <2>5. QED
    BY <2>1, <2>3, <2>4, OtherOpsAreProper
<1>9. phase # "begin"
  BY DEF StageInv
<1>10. QED
  BY <1>1, <1>2, <1>3, <1>4, <1>5, <1>6, <1>7, <1>8, <1>9 DEF StageInv, Phases

\* What it is to answer each kind of command.
LEMMA AnswersOf ==
  ASSUME NEW c, NEW reply
  PROVE  /\ c.op = "PUBSUB_CHANNELS" =>
              (Answers(c, reply) <=> Lost(c, reply)
                 \/ (reply.type = "names" /\ reply.names \in Seq(ToSet(Channels))))
         /\ c.op = "PUBSUB_NUMSUB" =>
              (Answers(c, reply) <=> Lost(c, reply)
                 \/ (reply.type = "counts" /\ HeldCounts(reply.counts)))
         /\ c.op = "probe" =>
              (Answers(c, reply) <=>
                 c.cell \in DOMAIN held /\ (Lost(c, reply) \/ reply \in held[c.cell]))
         /\ (c.op = "TYPE" \/ c.op \in KeyOps) => (Answers(c, reply) <=> Own(c.cell, reply))
  BY DEF Answers, KeyOps

\* What the server answers to a command of the read is what the cell holds now.
LEMMA AnswersAreHeld ==
  ASSUME WorldInv, phase # "begin", NEW c, Proper(c)
  PROVE  Answers(c, Answer(c))
<1>0. \A cell \in CellsOf(ask) :
        cell \in DOMAIN held /\ world[cell] \in held[cell] /\ world[cell] \in Contents(cell)
  BY DEF WorldInv
<1>1. CASE c.op = "PUBSUB_CHANNELS"
  <2> DEFINE positions == {i \in DOMAIN Channels : world[Subscribers(Channels[i])] # Gone}
  <2>1. Listed \in Seq(ToSet(Channels))
    <3>1. Channels \in Seq(ToSet(Channels))
      BY CellsAssumption
    <3>2. Listed = Kept(Channels, positions)
      BY DEF Listed
    <3> HIDE DEF positions
    <3>3. Kept(Channels, positions) \in Seq(ToSet(Channels))
      BY <3>1, ChosenIs DEF Kept
    <3>4. QED
      BY <3>2, <3>3
  <2>2. Answer(c) = [type |-> "names", names |-> Listed]
    BY <1>1 DEF Answer
  <2>3. Answer(c).type = "names" /\ Answer(c).names = Listed
    BY <2>2
  <2>4. QED
    BY <1>1, <2>1, <2>3, AnswersOf
<1>2. CASE c.op = "PUBSUB_NUMSUB" /\ ask.read = "channels" /\ ToSet(first.names) \subseteq ToSet(Channels)
  <2> DEFINE counts == [n \in ToSet(first.names) |-> world[Subscribers(n)]]
  <2>1. Answer(c) = [type |-> "counts", counts |-> counts]
    BY <1>2 DEF Answer
  <2>2. Answer(c).type = "counts" /\ Answer(c).counts = counts
    BY <2>1
  <2>3. \A n \in ToSet(first.names) : Subscribers(n) \in CellsOf(ask)
    BY <1>2, CellsAre
  <2>4. \A n \in ToSet(first.names) : counts[n] = world[Subscribers(n)]
    OBVIOUS
  <2> HIDE DEF counts
  <2>5. HeldCounts(counts)
    BY <1>0, <2>3, <2>4 DEF HeldCounts
  <2>6. QED
    BY <1>2, <2>2, <2>5, AnswersOf
<1>3. CASE c.op = "probe" /\ c.cell \in CellsOf(ask)
  <2>1. Answer(c) = world[c.cell]
    BY <1>3 DEF Answer
  <2>2. QED
    BY <1>0, <1>3, <2>1, AnswersOf
<1>4. CASE c.op = "TYPE" /\ c.cell \in CellsOf(ask) /\ c.cell.part = "kind"
  <2>1. Answer(c) = world[c.cell]
    BY <1>4 DEF Answer
  <2>2. Own(c.cell, world[c.cell])
    BY <1>0, <1>4 DEF Own
  <2>3. QED
    BY <1>4, <2>1, <2>2, AnswersOf
<1>5. CASE /\ c.op \in KeyOps /\ c.cell \in CellsOf(ask)
           /\ c.cell.part \notin {"kind", "permit"} /\ For(c.op) = Type(c.cell)
  <2>1. Answer(c) = IF world[c.cell] # Gone /\ world[c.cell].type # Type(c.cell) THEN Failed
                    ELSE world[c.cell]
    BY <1>5 DEF Answer, KeyOps
  <2>2. world[c.cell] = Gone \/ world[c.cell].type \in {Type(c.cell), "other"}
    BY <1>0, <1>5, ContentsAre
  <2>3. Own(c.cell, Answer(c))
    <3>1. CASE world[c.cell] # Gone /\ world[c.cell].type # Type(c.cell)
      <4>1. Answer(c) = Failed
        BY <2>1, <3>1
      <4>2. world[c.cell].type = "other"
        BY <2>2, <3>1
      <4>3. Refused(c.cell)
        BY <1>0, <1>5, <4>2 DEF Refused
      <4>4. QED
        BY <1>0, <1>5, <4>1, <4>3 DEF Own
    <3>2. CASE ~(world[c.cell] # Gone /\ world[c.cell].type # Type(c.cell))
      <4>1. Answer(c) = world[c.cell]
        BY <2>1, <3>2
      <4>2. QED
        BY <1>0, <1>5, <3>2, <4>1 DEF Own
    <3>3. QED
      BY <3>1, <3>2
  <2>4. QED
    BY <1>5, <2>3, AnswersOf
<1>6. QED
  BY <1>1, <1>2, <1>3, <1>4, <1>5 DEF Proper

\* A command that failed.
LEMMA FailureAnswers ==
  WorldInv => \A c : Proper(c) /\ c.cell \in hurt => Answers(c, Failed)
<1>1. SUFFICES ASSUME WorldInv, NEW c, Proper(c), c.cell \in hurt
               PROVE  Answers(c, Failed)
  OBVIOUS
<1>2. Lost(c, Failed) /\ Refused(c.cell)
  BY <1>1 DEF Lost, Refused
<1>3. \A cell \in CellsOf(ask) : cell \in DOMAIN held
  BY <1>1 DEF WorldInv
<1>4. c.cell \in DOMAIN held => Own(c.cell, Failed)
  BY <1>2 DEF Own
<1>5. QED
  BY <1>1, <1>2, <1>3, <1>4, AnswersOf DEF Proper

\* The same of the next state.
LEMMA FailureAnswersNext ==
  (WorldInv => \A c : Proper(c) /\ c.cell \in hurt => Answers(c, Failed))'
  BY FailureAnswers, PTL

-----------------------------------------------------------------------------
(* Writes, answers and losses                                              *)

\* What was held, or lost, since the read began stays so.
Grows ==
  /\ DOMAIN held' = DOMAIN held /\ hurt \subseteq hurt'
  /\ \A cell \in DOMAIN held : held[cell] \subseteq held'[cell]

\* What was refused or lost stays so.
LEMMA RefusedStays ==
  ASSUME Grows, NEW cell \in DOMAIN held, Refused(cell)
  PROVE  Refused(cell)'
  BY DEF Grows, Refused

\* What was read of a cell stays a content it held.
LEMMA OwnStays ==
  ASSUME Grows, NEW cell, NEW reply, Own(cell, reply)
  PROVE  Own(cell, reply)'
<1>1. cell \in DOMAIN held
  BY DEF Own
<1>2. CASE reply \in held[cell] /\ (reply = Gone \/ cell.part = "kind" \/ reply.type = Type(cell))
  <2>1. cell \in DOMAIN held' /\ reply \in held'[cell]
    BY <1>1, <1>2 DEF Grows
  <2>2. QED
    BY <1>2, <2>1 DEF Own
<1>3. CASE reply = Failed /\ Refused(cell)
  <2>1. cell \in DOMAIN held' /\ Refused(cell)'
    BY <1>1, <1>3, RefusedStays DEF Grows
  <2>2. QED
    BY <1>3, <2>1 DEF Own
<1>4. QED
  BY <1>2, <1>3 DEF Own

\* And so a reply stays the one of its command.
LEMMA AnswersStay ==
  ASSUME Grows, first' = first, NEW c, NEW reply, Answers(c, reply)
  PROVE  Answers(c, reply)'
<1>1. Lost(c, reply) => Lost(c, reply)'
  BY DEF Lost, Grows
<1>2. ASSUME NEW counts, HeldCounts(counts)
      PROVE  HeldCounts(counts)'
  BY <1>2 DEF HeldCounts, Grows
<1>3. c.cell \in DOMAIN held /\ reply \in held[c.cell] =>
        c.cell \in DOMAIN held' /\ reply \in held'[c.cell]
  BY DEF Grows
<1>4. c.cell \in DOMAIN held => c.cell \in DOMAIN held'
  BY DEF Grows
<1>5. Own(c.cell, reply) => Own(c.cell, reply)'
  BY OwnStays
<1>6. CASE c.op = "PUBSUB_CHANNELS"
  BY <1>1, <1>6 DEF Answers
<1>7. CASE c.op = "PUBSUB_NUMSUB"
  BY <1>1, <1>2, <1>7 DEF Answers
<1>8. CASE c.op = "probe"
  BY <1>1, <1>3, <1>4, <1>8 DEF Answers
<1>9. CASE c.op \notin {"PUBSUB_CHANNELS", "PUBSUB_NUMSUB", "probe"}
  BY <1>5, <1>9 DEF Answers
<1>10. QED
  BY <1>6, <1>7, <1>8, <1>9

\* A step of another actor leaves the stage as it is.
LEMMA StageStays ==
  ASSUME StageInv, Grows, ask' = ask, phase' = phase, batch' = batch, first' = first
  PROVE  StageInv'
<1>1. phase' \in Phases /\ (phase' = "begin" => batch' = <<>>)
  BY DEF StageInv
<1>2. ProbesStage'
  BY DEF StageInv, ProbesStage, ProbeBatch
<1>3. CellsStage'
  BY DEF StageInv, CellsStage, SummaryBatch
<1>4. TypesStage'
  <2>1. ASSUME phase = "types", NEW i \in 1..Len(first)
        PROVE  Own(KindOf(Keys[i]), first[i])'
    BY <2>1, OwnStays DEF StageInv, TypesStage
  <2>2. QED
    BY <2>1 DEF StageInv, TypesStage
<1>5. PageStage'
  BY DEF StageInv, PageStage, PageBatch
<1>6. JobStage'
  <2>1. Own(JobHash, first) => Own(JobHash, first)'
    BY OwnStays
  <2>2. QED
    BY <2>1 DEF StageInv, JobStage
<1>7. ClusterStage'
  <2>1. Own(ClusterInfo, first) => Own(ClusterInfo, first)'
    BY OwnStays
  <2>2. QED
    BY <2>1 DEF StageInv, ClusterStage
<1>8. ChannelsStage'
  BY DEF StageInv, ChannelsStage
<1>9. QED
  BY <1>1, <1>2, <1>3, <1>4, <1>5, <1>6, <1>7, <1>8 DEF StageInv

\* And the replies.
LEMMA RepliesStay ==
  ASSUME ReplyInv, Grows, batch' = batch, first' = first, answered' = answered, replies' = replies
  PROVE  ReplyInv'
<1>1. \A i \in answered : Answers(batch[i], replies[i])'
  BY AnswersStay DEF ReplyInv
<1>2. QED
  BY <1>1 DEF ReplyInv

\* The fields of a result.
LEMMA ResultsAre ==
  /\ NoResult.ok = FALSE /\ NoResult.rows = <<>> /\ NoResult.page = <<>> /\ NoResult.job = <<>>
  /\ \A rows : /\ Rows(rows).ok = TRUE /\ Rows(rows).rows = rows
               /\ Rows(rows).page = <<>> /\ Rows(rows).job = <<>>
  BY DEF NoResult, Rows

\* Before the read is done there is no outcome.
LEMMA NoOutcomeYet ==
  ASSUME phase' # "done", result' = NoResult
  PROVE  OutcomeInv'
<1>1. Durable(result'.job)
  BY ResultsAre DEF Durable
<1>2. ~Done'
  BY DEF Done
<1>3. PageIsThePage'
  BY <1>2 DEF PageIsThePage
<1>4. QED
  BY <1>1, <1>2, <1>3 DEF OutcomeInv

\* A write of another client.
LEMMA ChangeKeeps ==
  ASSUME PaneInv, Change
  PROVE  PaneInv'
<1>1. PICK cell \in CellsOf(ask) : \E c \in Left(cell, changes + 1) :
        /\ world[cell] # c /\ world' = [world EXCEPT ![cell] = c]
        /\ held' = IF phase = "begin" THEN held ELSE [held EXCEPT ![cell] = @ \cup {c}]
  BY DEF Change
<1>2. PICK c \in Left(cell, changes + 1) :
        /\ world' = [world EXCEPT ![cell] = c]
        /\ held' = IF phase = "begin" THEN held ELSE [held EXCEPT ![cell] = @ \cup {c}]
  BY <1>1
<1>3. /\ changes < MaxChanges /\ changes' = changes + 1 /\ phase # "done"
      /\ UNCHANGED <<ask, clustered, phase, batch, answered, replies, first, result, hurt>>
  BY DEF Change, askVars, stageVars
<1>4. changes' \in 0..MaxChanges
  BY <1>3, LimitsAssumption DEF PaneInv, WorldInv
<1>5. c \in Contents(cell)
  BY <1>3, <1>4 DEF Contents
<1>6. DOMAIN world = CellsOf(ask) /\ DOMAIN held = CellsOf(ask)
  BY DEF PaneInv, WorldInv
<1>7. /\ DOMAIN world' = CellsOf(ask)
      /\ \A d \in CellsOf(ask) : world'[d] = IF d = cell THEN c ELSE world[d]
  BY <1>2, <1>6
<1>8. /\ DOMAIN held' = CellsOf(ask)
      /\ \A d \in CellsOf(ask) :
           held'[d] = IF phase # "begin" /\ d = cell THEN held[d] \cup {c} ELSE held[d]
  BY <1>2, <1>6
<1>9. Grows
  BY <1>3, <1>6, <1>8 DEF Grows
<1>10. WorldInv'
  <2>1. ask' \in Asks /\ clustered' \in BOOLEAN
    BY <1>3 DEF PaneInv, WorldInv
  <2>2. ASSUME NEW d \in CellsOf(ask)
        PROVE  /\ {world'[d]} \cup held'[d] \subseteq Contents(d)
               /\ phase # "begin" => world'[d] \in held'[d]
    <3>1. /\ {world[d]} \cup held[d] \subseteq Contents(d)
          /\ phase # "begin" => world[d] \in held[d]
      BY DEF PaneInv, WorldInv
    <3>2. QED
      BY <1>5, <1>7, <1>8, <3>1
  <2>3. QED
    BY <1>3, <1>4, <1>7, <1>8, <2>1, <2>2 DEF WorldInv
<1>11. LossInv'
  BY <1>3 DEF PaneInv, LossInv
<1>12. StageInv' /\ ReplyInv'
  BY <1>3, <1>9, StageStays, RepliesStay DEF PaneInv
<1>13. OutcomeInv'
  <2>1. result' = NoResult /\ phase' # "done"
    BY <1>3 DEF PaneInv, OutcomeInv
  <2>2. QED
    BY <2>1, NoOutcomeYet
<1>14. QED
  BY <1>10, <1>11, <1>12, <1>13 DEF PaneInv

\* A reply is put where its command is.
LEMMA TakeKeeps ==
  ASSUME PaneInv, NEW i \in Unanswered, phase # "done", NEW reply, Take(i, reply),
         hurt \subseteq hurt', LossInv', Answers(batch[i], reply)'
  PROVE  PaneInv'
<1>1. /\ answered' = answered \cup {i} /\ i \in DOMAIN batch
      /\ DOMAIN replies' = DOMAIN replies \cup {i}
      /\ \A j \in DOMAIN replies' : replies'[j] = IF j = i THEN reply ELSE replies[j]
      /\ UNCHANGED <<ask, clustered, world, changes, held, phase, batch, first, result>>
  BY DEF Take, Slot, Unanswered, askVars, worldVars
<1>2. Grows
  BY <1>1 DEF Grows
<1>3. WorldInv'
  BY <1>1 DEF PaneInv, WorldInv
<1>4. StageInv'
  BY <1>1, <1>2, StageStays DEF PaneInv
<1>5. ReplyInv'
  <2>1. answered \subseteq DOMAIN batch /\ DOMAIN replies = answered
    BY DEF PaneInv, ReplyInv
  <2>2. ASSUME NEW j \in answered'
        PROVE  Answers(batch[j], replies[j])'
    <3>1. CASE j = i
      <4>1. replies'[j] = reply /\ batch'[j] = batch'[i]
        BY <1>1, <2>1, <3>1
      <4>2. QED
        BY <4>1
    <3>2. CASE j # i
      <4>1. j \in answered /\ replies'[j] = replies[j] /\ batch'[j] = batch[j]
        BY <1>1, <2>1, <3>2
      <4>2. Answers(batch[j], replies[j])
        BY <4>1 DEF PaneInv, ReplyInv
      <4>3. \A c, r : Answers(c, r) => Answers(c, r)'
        BY <1>1, <1>2, AnswersStay
      <4>4. QED
        BY <4>1, <4>2, <4>3
    <3>3. QED
      BY <3>1, <3>2
  <2>3. answered' \subseteq DOMAIN batch' /\ DOMAIN replies' = answered'
    BY <1>1, <2>1
  <2>4. QED
    BY <2>2, <2>3 DEF ReplyInv
<1>6. OutcomeInv'
  <2>1. result' = NoResult /\ phase' # "done"
    BY <1>1 DEF PaneInv, OutcomeInv
  <2>2. QED
    BY <2>1, NoOutcomeYet
<1>7. QED
  BY <1>3, <1>4, <1>5, <1>6 DEF PaneInv

\* A loss is counted.
LEMMA LossesAreCounted ==
  ASSUME LossInv, NEW cell, Lose, hurt' = hurt \cup {cell}
  PROVE  LossInv'
<1>1. /\ IsFiniteSet(hurt \cup {cell}) /\ Cardinality(hurt) \in Nat
      /\ Cardinality(hurt \cup {cell}) <= Cardinality(hurt) + 1
  <2>1. IsFiniteSet(hurt) /\ Cardinality(hurt) \in Nat
    BY FS_CardinalityType DEF LossInv
  <2>2. QED
    BY <2>1, FS_AddElement
<1>2. Cardinality(hurt \cup {cell}) \in Nat
  BY <1>1, FS_CardinalityType
<1>3. Cardinality(hurt \cup {cell}) <= MaxLost
  BY <1>1, <1>2, LimitsAssumption DEF Lose
<1>4. QED
  BY <1>1, <1>3 DEF LossInv

\* The server answers a command.
LEMMA ExecuteKeeps ==
  ASSUME PaneInv, Execute
  PROVE  PaneInv'
<1>1. PICK i \in Unanswered : Ready(i) /\ Take(i, Answer(batch[i])) /\ UNCHANGED hurt
  BY DEF Execute
<1>2. phase # "done" /\ i \in DOMAIN batch
  BY <1>1 DEF Ready, Unanswered
<1>3. phase # "begin"
  BY <1>2 DEF PaneInv, StageInv
<1>4. Proper(batch[i])
  BY <1>2, BatchIsProper DEF PaneInv
<1>5. Answers(batch[i], Answer(batch[i]))
  BY <1>3, <1>4, AnswersAreHeld DEF PaneInv
<1>6. PICK reply : reply = Answer(batch[i])
  OBVIOUS
<1>7. /\ UNCHANGED <<ask, clustered, world, changes, held, phase, batch, first, result>>
      /\ Take(i, reply) /\ hurt' = hurt /\ Answers(batch[i], reply)
  BY <1>1, <1>5, <1>6 DEF Take, askVars, worldVars
<1>8. Grows
  BY <1>7 DEF Grows
<1>9. Answers(batch[i], reply)'
  <2>1. \A c : Answers(c, reply) => Answers(c, reply)'
    BY <1>7, <1>8, AnswersStay
  <2>2. QED
    BY <1>7, <2>1
<1>10. LossInv'
  BY <1>7 DEF PaneInv, LossInv
<1>11. QED
  BY <1>2, <1>7, <1>9, <1>10, TakeKeeps

\* A command is refused or lost.
LEMMA FailKeeps ==
  ASSUME PaneInv, Fail
  PROVE  PaneInv'
<1>1. PICK i \in Unanswered :
        Ready(i) /\ Lose /\ Take(i, Failed) /\ hurt' = hurt \cup {batch[i].cell}
  BY DEF Fail
<1>2. phase # "done" /\ i \in DOMAIN batch
  BY <1>1 DEF Ready, Unanswered
<1>3. Proper(batch[i])
  BY <1>2, BatchIsProper DEF PaneInv
<1>4. UNCHANGED <<ask, clustered, world, changes, held, phase, batch, first, result>>
  BY <1>1 DEF Take, askVars, worldVars
<1>5. LossInv'
  BY <1>1, LossesAreCounted DEF PaneInv
<1>6. Answers(batch[i], Failed)'
  <2>1. batch[i].cell \in hurt'
    BY <1>1
  <2>2. Proper(batch[i])'
    BY <1>3, <1>4 DEF Proper
  <2>3. WorldInv'
    BY <1>4 DEF PaneInv, WorldInv
  <2>4. (batch[i].cell \in hurt)'
    BY <1>4, <2>1
  <2>5. QED
    BY <2>2, <2>3, <2>4, FailureAnswersNext
<1>7. QED
  BY <1>1, <1>2, <1>5, <1>6, TakeKeeps

-----------------------------------------------------------------------------
(* The first commands of a read                                            *)

\* What may be asked.
LEMMA AsksAre ==
  ASSUME NEW a \in Asks
  PROVE  /\ a.read \in {"probes", "queues", "types", "page", "job", "cluster", "channels"}
         /\ a.read = "types" => a.wanted \in Kinds \cup {"any"}
         /\ a.read = "page" => a.state \in ToSet(States) /\ a.offset \in Size /\ a.limit \in Size
  BY DEF Asks

\* The commands on the allowlist are sent.
LEMMA SendsAre ==
  ASSUME NEW stage, NEW cmds, NEW found, Send(stage, cmds, found),
         \A i \in DOMAIN cmds : cmds[i].op \in ReadOnlyCommands
  PROVE  Start(stage, cmds, found)
  BY DEF Send

\* One of them.
LEMMA SendsOne ==
  ASSUME NEW stage, NEW c, NEW found, Send(stage, <<c>>, found), c.op \in ReadOnlyCommands
  PROVE  Start(stage, <<c>>, found)
<1>1. \A i \in DOMAIN <<c>> : <<c>>[i].op \in ReadOnlyCommands
  OBVIOUS
<1>2. QED
  BY <1>1, SendsAre

\* A stage starts with no reply.
LEMMA StartKeeps ==
  ASSUME PaneInv, NEW stage, NEW cmds, NEW found, Start(stage, cmds, found),
         phase # "done", stage # "done", WorldInv', LossInv', StageInv'
  PROVE  PaneInv'
<1>1. phase' = stage /\ answered' = {} /\ replies' = <<>> /\ result' = result
  BY DEF Start
<1>2. ReplyInv'
  BY <1>1 DEF ReplyInv
<1>3. OutcomeInv'
  BY <1>1, NoOutcomeYet DEF PaneInv, OutcomeInv
<1>4. QED
  BY <1>2, <1>3 DEF PaneInv

\* A read returns with the outcome it states.
LEMMA ReturnKeeps ==
  ASSUME PaneInv, NEW r, Return(r), WorldInv', LossInv', OutcomeInv', Grows \/ batch = <<>>
  PROVE  PaneInv'
<1>1. phase' = "done" /\ UNCHANGED <<batch, answered, replies, first>>
  BY DEF Return
<1>2. StageInv'
  BY <1>1 DEF StageInv, Phases, ProbesStage, CellsStage, TypesStage, PageStage, JobStage,
              ClusterStage, ChannelsStage
<1>3. ReplyInv'
  <2>1. CASE Grows
    BY <1>1, <2>1, RepliesStay DEF PaneInv
  <2>2. CASE batch = <<>>
    <3>1. answered = {} /\ DOMAIN replies = {}
      BY <2>2 DEF PaneInv, ReplyInv
    <3>2. QED
      BY <1>1, <3>1 DEF ReplyInv
  <2>3. QED
    BY <2>1, <2>2
<1>4. QED
  BY <1>2, <1>3 DEF PaneInv

\* A read that found nothing.
LEMMA NothingFound ==
  ASSUME phase' = "done", result' = Rows(<<>>),
         ask'.read = "queues" => Queues = <<>>,
         ask'.read = "types" => Keys = <<>>,
         ask'.read = "job" => Gone \in held'[JobHash],
         ask'.read = "page" => NoPage(ask')
  PROVE  OutcomeInv'
<1>1. result'.ok = TRUE /\ result'.rows = <<>> /\ result'.page = <<>> /\ result'.job = <<>>
  BY ResultsAre
<1>2. PageIsThePage'
  BY <1>1 DEF PageIsThePage
<1>3. WantedAreKept' \/ Keys # <<>>
  <2>1. SUFFICES ASSUME Keys = <<>> PROVE WantedAreKept'
    OBVIOUS
  <2>2. ToSet(Keys) = {}
    BY <2>1 DEF ToSet
  <2>3. [i \in DOMAIN result'.rows |-> result'.rows[i].owner] = <<>>
    BY <1>1
  <2>4. QED
    BY <1>1, <2>1, <2>2, <2>3 DEF WantedAreKept
<1>4. Queues = <<>> => OwnersAre(result'.rows, Queues)
  BY <1>1 DEF OwnersAre
<1>5. OwnRows(result.rows)' /\ Durable(result'.job)
  BY <1>1 DEF OwnRows, Durable
<1>6. QED
  BY <1>1, <1>2, <1>3, <1>4, <1>5 DEF OutcomeInv, Done

\* A page is refused if it has no bounds.
LEMMA RefusedPage ==
  ASSUME NEW a \in Asks, a.read = "page"
  PROVE  PageRange(a.offset, a.limit) = NoBounds <=> NoPage(a)
<1>1. a.offset \in Size /\ a.limit \in Size
  BY AsksAre
<1>2. QED
  BY <1>1, RefusalIsNeeded DEF NoPage

\* The allowlist has TYPE.
LEMMA TypesAreSent ==
  ASSUME NEW n \in Nat, n < Len(Keys), NEW found, Send("types", TypeBatch(n), found)
  PROVE  Start("types", TypeBatch(n), found)
<1>1. \A i \in DOMAIN TypeBatch(n) : TypeBatch(n)[i].op = "TYPE"
  BY TypeBatchIs DEF Command
<1>2. \A i \in DOMAIN TypeBatch(n) : TypeBatch(n)[i].op \in ReadOnlyCommands
  BY <1>1 DEF ReadOnlyCommands
<1>3. QED
  BY <1>2, SendsAre

\* And the commands of the table.
LEMMA SummaryIsSent ==
  ASSUME NEW found, Send("cells", SummaryBatch, found)
  PROVE  Start("cells", SummaryBatch, found)
<1>1. \A i \in DOMAIN SummaryBatch : SummaryBatch[i].op \in ReadOnlyCommands
  BY SummaryIs DEF Command, CountOp, ReadOnlyCommands
<1>2. QED
  BY <1>1, SendsAre

\* The read begins: each cell has held what it holds now.
LEMMA BeginKeeps ==
  ASSUME PaneInv, Begin
  PROVE  PaneInv'
<1>1. /\ phase = "begin" /\ held' = [cell \in CellsOf(ask) |-> {world[cell]}]
      /\ UNCHANGED <<ask, clustered, world, changes, hurt>>
  BY DEF Begin, askVars
<1>2. WorldInv'
  <2>1. \A cell \in CellsOf(ask) : held'[cell] = {world[cell]} /\ world[cell] \in Contents(cell)
    BY <1>1 DEF PaneInv, WorldInv
  <2>2. QED
    BY <1>1, <2>1 DEF PaneInv, WorldInv
<1>3. LossInv'
  BY <1>1 DEF PaneInv, LossInv
<1>4. batch = <<>> /\ ask \in Asks
  BY <1>1 DEF PaneInv, StageInv, WorldInv
<1>5. ASSUME Return(Rows(<<>>)), ask.read = "queues" => Queues = <<>>,
             ask.read = "types" => Keys = <<>>, ask.read = "page" => NoPage(ask),
             ask.read # "job"
      PROVE  PaneInv'
  <2>1. phase' = "done" /\ result' = Rows(<<>>) /\ ask' = ask
    BY <1>1, <1>5 DEF Return
  <2>2. OutcomeInv'
    BY <1>5, <2>1, NothingFound
  <2>3. QED
    BY <1>2, <1>3, <1>4, <1>5, <2>2, ReturnKeeps
<1>6. ASSUME NEW stage, NEW cmds, NEW found, Start(stage, cmds, found), stage # "done", StageInv'
      PROVE  PaneInv'
  BY <1>1, <1>2, <1>3, <1>6, StartKeeps
<1>7. CASE ask.read = "probes"
  <2>1. PICK stage \in {"probes", "serial"} : Start(stage, ProbeBatch, Gone)
    BY <1>7 DEF Begin
  <2>2. phase' = stage /\ batch' = ProbeBatch /\ ask' = ask
    BY <1>1, <2>1 DEF Start
  <2>3. StageInv'
    BY <1>7, <2>2 DEF StageInv, Phases, ProbesStage, ProbeBatch, CellsStage, TypesStage, PageStage,
                      JobStage, ClusterStage, ChannelsStage
  <2>4. stage # "done"
    BY <2>1
  <2>5. QED
    BY <1>6, <2>1, <2>3, <2>4
<1>8. CASE ask.read = "queues"
  <2>1. IF Queues = <<>> THEN Return(Rows(<<>>)) ELSE Send("cells", SummaryBatch, Gone)
    BY <1>8 DEF Begin
  <2>2. CASE Queues = <<>>
    BY <1>5, <1>8, <2>1, <2>2
  <2>3. CASE Queues # <<>>
    <3>1. Start("cells", SummaryBatch, Gone)
      BY <2>1, <2>3, SummaryIsSent
    <3>2. phase' = "cells" /\ batch' = SummaryBatch /\ ask' = ask
      BY <1>1, <3>1 DEF Start
    <3>3. StageInv'
      BY <1>8, <3>2 DEF StageInv, Phases, ProbesStage, CellsStage, TypesStage, PageStage,
                        JobStage, ClusterStage, ChannelsStage, SummaryBatch
    <3>4. QED
      BY <1>6, <3>1, <3>3
  <2>4. QED
    BY <2>2, <2>3
<1>9. CASE ask.read = "types"
  <2>1. IF Keys = <<>> THEN Return(Rows(<<>>)) ELSE Send("types", TypeBatch(0), <<>>)
    BY <1>9 DEF Begin
  <2>2. CASE Keys = <<>>
    BY <1>5, <1>9, <2>1, <2>2
  <2>3. CASE Keys # <<>>
    <3>0. 0 < Len(Keys) /\ Len(<<>>) = 0 /\ <<>> \in Seq(ToSet(<<>>))
      BY <2>3, CellsAssumption
    <3>1. Start("types", TypeBatch(0), <<>>)
      BY <2>1, <2>3, <3>0, TypesAreSent
    <3>2. phase' = "types" /\ batch' = TypeBatch(0) /\ ask' = ask /\ first' = <<>>
      BY <1>1, <3>1 DEF Start
    <3>3. TypesStage'
      BY <1>9, <3>0, <3>2 DEF TypesStage
    <3>4. StageInv'
      BY <1>9, <3>2, <3>3 DEF StageInv, Phases, ProbesStage, CellsStage, PageStage,
                        JobStage, ClusterStage, ChannelsStage
    <3>5. QED
      BY <1>6, <3>1, <3>4
  <2>4. QED
    BY <2>2, <2>3
<1>10. CASE ask.read = "page"
  <2> DEFINE bounds == PageRange(ask.offset, ask.limit)
             cmd == Ranged(RangeOp(ask.state), PageCell(ask.state), bounds)
  <2>1. IF bounds = NoBounds THEN Return(Rows(<<>>)) ELSE Send("page", <<cmd>>, Gone)
    BY <1>10 DEF Begin
  <2>2. CASE bounds = NoBounds
    <3>1. NoPage(ask)
      BY <1>4, <1>10, <2>2, RefusedPage
    <3>2. QED
      BY <1>5, <1>10, <2>1, <2>2, <3>1
  <2>3. CASE bounds # NoBounds
    <3>1. cmd.op \in ReadOnlyCommands
      BY DEF Ranged, RangeOp, ReadOnlyCommands
    <3>2. Start("page", <<cmd>>, Gone)
      BY <2>1, <2>3, <3>1, SendsOne
    <3>3. phase' = "page" /\ batch' = <<cmd>> /\ ask' = ask
      BY <1>1, <3>2 DEF Start
    <3>4. PageStage'
      BY <1>10, <2>3, <3>3 DEF PageStage, PageBatch
    <3>5. StageInv'
      BY <3>3, <3>4 DEF StageInv, Phases, ProbesStage, CellsStage, TypesStage,
                        JobStage, ClusterStage, ChannelsStage
    <3>6. QED
      BY <1>6, <3>2, <3>5
  <2>4. QED
    BY <2>2, <2>3
<1>11. CASE ask.read = "job"
  <2>1. Send("job", <<Command("HMGET", JobHash)>>, Gone)
    BY <1>11 DEF Begin
  <2>2. Command("HMGET", JobHash).op \in ReadOnlyCommands
    BY DEF Command, ReadOnlyCommands
  <2>3. Start("job", <<Command("HMGET", JobHash)>>, Gone)
    BY <2>1, <2>2, SendsOne
  <2>4. phase' = "job" /\ batch' = <<Command("HMGET", JobHash)>> /\ ask' = ask
    BY <1>1, <2>3 DEF Start
  <2>5. StageInv'
    BY <1>11, <2>4 DEF StageInv, Phases, ProbesStage, CellsStage, TypesStage, PageStage,
                      JobStage, ClusterStage, ChannelsStage
  <2>6. QED
    BY <1>6, <2>3, <2>5
<1>12. CASE ask.read = "cluster"
  <2>1. Send("info", <<Command("CLUSTER_INFO", ClusterInfo)>>, Gone)
    BY <1>12 DEF Begin
  <2>2. Command("CLUSTER_INFO", ClusterInfo).op \in ReadOnlyCommands
    BY DEF Command, ReadOnlyCommands
  <2>3. Start("info", <<Command("CLUSTER_INFO", ClusterInfo)>>, Gone)
    BY <2>1, <2>2, SendsOne
  <2>4. phase' = "info" /\ batch' = <<Command("CLUSTER_INFO", ClusterInfo)>> /\ ask' = ask
    BY <1>1, <2>3 DEF Start
  <2>5. StageInv'
    BY <1>12, <2>4 DEF StageInv, Phases, ProbesStage, CellsStage, TypesStage, PageStage,
                      JobStage, ClusterStage, ChannelsStage
  <2>6. QED
    BY <1>6, <2>3, <2>5
<1>13. CASE ask.read = "channels"
  <2> DEFINE cmd == Command("PUBSUB_CHANNELS", Cell("channels", "names"))
  <2>1. Send("names", <<cmd>>, Gone)
    BY <1>13 DEF Begin
  <2>2. cmd.op \in ReadOnlyCommands
    BY DEF Command, ReadOnlyCommands
  <2>3. Start("names", <<cmd>>, Gone)
    BY <2>1, <2>2, SendsOne
  <2>4. phase' = "names" /\ batch' = <<cmd>> /\ ask' = ask
    BY <1>1, <2>3 DEF Start
  <2>5. StageInv'
    BY <1>13, <2>4 DEF StageInv, Phases, ProbesStage, CellsStage, TypesStage, PageStage,
                      JobStage, ClusterStage, ChannelsStage
  <2>6. QED
    BY <1>6, <2>3, <2>5
<1>14. QED
  BY <1>4, <1>7, <1>8, <1>9, <1>10, <1>11, <1>12, <1>13, AsksAre

-----------------------------------------------------------------------------
(* Outcomes                                                                *)

\* What the steps that finish a stage leave alone.
LEMMA StaysKeep ==
  ASSUME PaneInv, phase # "begin", UNCHANGED <<askVars, worldVars>>, hurt \subseteq hurt'
  PROVE  WorldInv' /\ Grows /\ ask' = ask /\ held' = held
<1>1. UNCHANGED <<ask, clustered, world, changes, held>>
  BY DEF askVars, worldVars
<1>2. QED
  BY <1>1 DEF PaneInv, WorldInv, Grows

\* Without a loss.
LEMMA StaysAll ==
  ASSUME PaneInv, phase # "begin", Stays
  PROVE  /\ WorldInv' /\ LossInv' /\ Grows
         /\ ask' = ask /\ held' = held /\ hurt' = hurt
<1>1. UNCHANGED <<askVars, worldVars>> /\ hurt' = hurt /\ hurt \subseteq hurt'
  BY DEF Stays
<1>2. WorldInv' /\ Grows /\ ask' = ask /\ held' = held
  BY <1>1, StaysKeep
<1>3. LossInv'
  BY <1>1 DEF PaneInv, LossInv
<1>4. QED
  BY <1>1, <1>2, <1>3

\* Of a batch that is complete every command has its reply.
LEMMA CompleteIs ==
  ASSUME ReplyInv, Complete, NEW i \in DOMAIN batch
  PROVE  Answers(batch[i], Reply(i))
<1>1. i \in answered /\ DOMAIN replies = answered
  BY DEF ReplyInv, Complete, Unanswered
<1>2. Reply(i) = replies[i]
  BY <1>1 DEF Reply
<1>3. QED
  BY <1>1, <1>2 DEF ReplyInv

\* No cell holds the error.
LEMMA FailedIsNone ==
  ASSUME WorldInv, NEW cell \in DOMAIN held
  PROVE  Failed \notin held[cell]
<1>1. Failed.type = "failed"
  BY DEF Failed
<1>2. held[cell] \subseteq Contents(cell)
  BY DEF WorldInv
<1>3. QED
  BY <1>1, <1>2, ContentsAre

\* An error says that the command was refused or lost.
LEMMA FailedIsRefused ==
  ASSUME WorldInv, NEW cell, Own(cell, Failed)
  PROVE  cell \in DOMAIN held /\ Refused(cell)
  BY FailedIsNone DEF Own

\* What was read may be shown, and so may the default for an error.
LEMMA ShownIs ==
  ASSUME WorldInv, NEW cell, NEW reply, Own(cell, reply)
  PROVE  Shows(cell, Shown(reply)) /\ Shows(cell, reply)
<1>1. cell \in DOMAIN held
  BY DEF Own
<1>2. CASE reply = Failed
  BY <1>1, <1>2, FailedIsRefused DEF Shows, Shown
<1>3. CASE reply # Failed
  BY <1>1, <1>3 DEF Shows, Shown
<1>4. QED
  BY <1>2, <1>3

\* What may be shown stays so.
LEMMA ShowsStays ==
  ASSUME Grows, NEW cell, NEW shown, Shows(cell, shown)
  PROVE  Shows(cell, shown)'
<1>1. cell \in DOMAIN held /\ cell \in DOMAIN held'
  BY DEF Shows, Grows
<1>2. Own(cell, shown) => Own(cell, shown)'
  BY OwnStays
<1>3. Refused(cell) => Refused(cell)'
  BY <1>1, RefusedStays
<1>4. QED
  BY <1>1, <1>2, <1>3 DEF Shows

\* The outcomes of a read.
LEMMA RowsFound ==
  ASSUME NEW rows, phase' = "done", result'.ok = TRUE, result'.rows = rows,
         OwnRows(rows)', Durable(result'.job),
         ask'.read = "queues" => OwnersAre(rows, Queues),
         ask'.read = "types" => WantedAreKept',
         ask'.read = "job" => rows # <<>>,
         PageIsThePage'
  PROVE  OutcomeInv'
<1>1. OwnRows(result.rows)' /\ (ask'.read = "queues" => OwnersAre(result'.rows, Queues))
  BY DEF OwnRows
<1>2. QED
  BY <1>1 DEF OutcomeInv, Done

\* The page is only of the read of a page.
LEMMA NoPageAsked ==
  ASSUME ask'.read # "page" \/ result'.ok = FALSE
  PROVE  PageIsThePage'
  BY DEF PageIsThePage

\* A read that failed failed with a command that it cannot do without.
LEMMA ReadFailed ==
  ASSUME phase' = "done", result' = Err, NEW cell, Essential(cell),
         cell \in hurt' \/ (cell \in DOMAIN held' /\ Refused(cell)')
  PROVE  OutcomeInv'
<1>1. result'.ok = FALSE /\ Durable(result'.job)
  BY ResultsAre DEF Err, Durable
<1>2. PageIsThePage'
  BY <1>1, NoPageAsked
<1>3. Essential(Pipeline)
  BY DEF Essential, Pipeline, Cell
<1>4. \E c \in DOMAIN held' \cup hurt' :
        Essential(c) /\ (c \in hurt' \/ \E d \in held'[c] : d.type = "other")
  BY <1>3 DEF Refused
<1>5. QED
  BY <1>1, <1>2, <1>4 DEF OutcomeInv

\* The fields of a row.
LEMMA RowsAre ==
  ASSUME NEW owner, NEW cells
  PROVE  Row(owner, cells).owner = owner /\ Row(owner, cells).cells = cells
  BY DEF Row

-----------------------------------------------------------------------------
(* The ends of the stages                                                  *)

\* Each feature is what the answer to its own probe says.
LEMMA FinishProbesKeeps ==
  ASSUME PaneInv, FinishProbes
  PROVE  PaneInv'
<1>1. PICK rows : rows = [i \in DOMAIN Probes |->
                           Row(Probes[i], [permit |-> Availability(Probes[i], Reply(i).type)])]
  OBVIOUS
<1>2. phase \in {"probes", "serial"} /\ Complete /\ Return(Rows(rows)) /\ Stays
  BY <1>1 DEF FinishProbes
<1>3. /\ WorldInv' /\ LossInv' /\ Grows
      /\ ask' = ask /\ held' = held /\ hurt' = hurt
  BY <1>2, StaysAll
<1>4. ask.read = "probes" /\ batch = ProbeBatch
  BY <1>2 DEF PaneInv, StageInv, ProbesStage
<1>5. phase' = "done" /\ result'.ok = TRUE /\ result'.rows = rows /\ result'.job = <<>>
  BY <1>2, ResultsAre DEF Return
<1>6. ASSUME NEW i \in DOMAIN rows
      PROVE  RowIsOwn(rows[i])'
  <2> DEFINE shown == Availability(Probes[i], Reply(i).type)
             cell == Permit(Probes[i])
  <2>1. i \in DOMAIN Probes /\ rows[i] = Row(Probes[i], [permit |-> shown])
    BY <1>1
  <2>2. i \in DOMAIN batch /\ batch[i].op = "probe" /\ batch[i].cell = cell
    BY <1>4, <2>1 DEF ProbeBatch, Command
  <2>3. cell \in DOMAIN held /\ (Lost(batch[i], Reply(i)) \/ Reply(i) \in held[cell])
    <3>1. Answers(batch[i], Reply(i))
      BY <1>2, <2>2, CompleteIs DEF PaneInv
    <3> HIDE DEF cell
    <3>2. QED
      BY <2>2, <3>1, AnswersOf
  <2>4. Lost(batch[i], Reply(i)) => shown = "Available" /\ cell \in hurt
    <3>1. SUFFICES ASSUME Lost(batch[i], Reply(i)) PROVE shown = "Available" /\ cell \in hurt
      OBVIOUS
    <3>2. Reply(i).type = "failed" /\ cell \in hurt
      BY <2>2, <3>1 DEF Lost, Failed
    <3>3. QED
      BY <3>2 DEF Availability
  <2>5. \/ shown = "Available" /\ cell \in hurt
        \/ \E c \in held[cell] : shown = Availability(Probes[i], c.type)
    BY <2>3, <2>4
  <2>6. Cell(Probes[i], "permit") = cell /\ cell.owner = Probes[i]
    BY PartsAre DEF Permit
  <2>7. /\ rows[i].owner = Probes[i] /\ DOMAIN rows[i].cells = {"permit"}
        /\ rows[i].cells["permit"] = shown
    BY <2>1, RowsAre
  <2> HIDE DEF shown, cell
  <2>8. QED
    BY <1>3, <2>5, <2>6, <2>7 DEF RowIsOwn
<1>7. OutcomeInv'
  <2>1. PageIsThePage'
    BY <1>3, <1>4, NoPageAsked
  <2>2. OwnRows(rows)' /\ Durable(result'.job)
    BY <1>5, <1>6 DEF OwnRows, Durable
  <2>3. QED
    BY <1>3, <1>4, <1>5, <2>1, <2>2, RowsFound
<1>8. QED
  BY <1>2, <1>3, <1>7, ReturnKeeps

\* Each cell of the table is shown from the slot of its own command.
LEMMA FinishCellsKeeps ==
  ASSUME PaneInv, FinishCells
  PROVE  PaneInv'
<1>1. PICK rows : rows = [i \in DOMAIN Queues |-> QueueRow(i)]
  OBVIOUS
<1>2. phase = "cells" /\ Complete /\ Return(Rows(rows)) /\ Stays
  BY <1>1 DEF FinishCells
<1>3. /\ WorldInv' /\ LossInv' /\ Grows
      /\ ask' = ask /\ held' = held /\ hurt' = hurt
  BY <1>2, StaysAll
<1>4. ask.read = "queues" /\ batch = SummaryBatch
  BY <1>2 DEF PaneInv, StageInv, CellsStage
<1>5. phase' = "done" /\ result'.ok = TRUE /\ result'.rows = rows /\ result'.job = <<>>
  BY <1>2, ResultsAre DEF Return
<1>6. ASSUME NEW n \in DOMAIN batch, NEW cell, NEW op \in KeyOps, batch[n] = Command(op, cell)
      PROVE  Shows(cell, Shown(Reply(n)))'
  <2>1. batch[n].op = op /\ batch[n].cell = cell
    BY <1>6 DEF Command
  <2>2. Answers(batch[n], Reply(n))
    BY <1>2, CompleteIs DEF PaneInv
  <2>3. Own(cell, Reply(n))
    BY <2>1, <2>2, AnswersOf
  <2>4. PICK shown : shown = Shown(Reply(n))
    OBVIOUS
  <2>5. Shows(cell, shown)
    BY <2>3, <2>4, ShownIs DEF PaneInv
  <2>6. Shows(cell, shown)'
    BY <1>3, <2>5, ShowsStays
  <2>7. Shown(Reply(n))' = Shown(Reply(n))
    BY <1>2 DEF Return, Reply, Shown
  <2>8. QED
    BY <2>4, <2>6, <2>7
<1>7. ASSUME NEW i \in DOMAIN Queues
      PROVE  RowIsOwn(rows[i])' /\ rows[i].owner = Queues[i]
  <2>1. rows[i] = QueueRow(i)
    BY <1>1
  <2>2. /\ rows[i].owner = Queues[i] /\ DOMAIN rows[i].cells = QueueParts
        /\ \A p \in QueueParts : rows[i].cells[p] =
             IF p = "meta" THEN Shown(Reply(Base(i) + 1))
             ELSE Shown(Reply(Base(i) + 1 + CHOOSE j \in DOMAIN States : States[j] = p))
    BY <2>1, RowsAre DEF QueueRow
  <2>3. \A n : Shown(Reply(n))' = Shown(Reply(n))
    BY <1>2 DEF Return, Reply, Shown
  <2>4. ASSUME NEW p \in QueueParts
        PROVE  p # "permit" /\ Shows(Cell(Queues[i], p), rows[i].cells[p])'
    <3>1. CASE p = "meta"
      <4>1. /\ Base(i) + 1 \in DOMAIN batch
            /\ batch[Base(i) + 1] = Command("HMGET", Cell(Queues[i], "meta"))
        BY <1>4, SummaryIs
      <4>2. "HMGET" \in KeyOps
        BY DEF KeyOps
      <4>3. Shows(Cell(Queues[i], "meta"), Shown(Reply(Base(i) + 1)))'
        BY <1>6, <4>1, <4>2
      <4>4. QED
        BY <2>2, <2>3, <3>1, <4>3
    <3>2. CASE p # "meta"
      <4>1. p \in ToSet(States)
        BY <3>2 DEF QueueParts
      <4>2. PICK j \in DOMAIN States : /\ j = CHOOSE k \in DOMAIN States : States[k] = p
                                       /\ States[j] = p
        BY <4>1 DEF ToSet
      <4>3. /\ Base(i) + 1 + j \in DOMAIN batch
            /\ batch[Base(i) + 1 + j] = Command(CountOp(p), Cell(Queues[i], p))
        BY <1>4, <4>2, SummaryIs
      <4>4. CountOp(p) \in KeyOps
        BY DEF KeyOps, CountOp
      <4>5. Shows(Cell(Queues[i], p), Shown(Reply(Base(i) + 1 + j)))'
        BY <1>6, <4>3, <4>4
      <4>6. rows[i].cells[p] = Shown(Reply(Base(i) + 1 + j))
        BY <2>2, <3>2, <4>2
      <4>7. p # "permit"
        BY <4>1, CellsAssumption
      <4>8. QED
        BY <2>3, <4>5, <4>6, <4>7
    <3>3. QED
      BY <3>1, <3>2
  <2>5. RowIsOwn(rows[i])'
    BY <2>2, <2>4 DEF RowIsOwn
  <2>6. QED
    BY <2>2, <2>5
<1>8. DOMAIN rows = DOMAIN Queues /\ OwnersAre(rows, Queues)
  <2>1. DOMAIN rows = DOMAIN Queues
    BY <1>1
  <2>2. Queues = [i \in DOMAIN Queues |-> Queues[i]]
    BY CellsAssumption
  <2>3. QED
    BY <1>7, <2>1, <2>2 DEF OwnersAre
<1>9. OutcomeInv'
  <2>1. PageIsThePage'
    BY <1>3, <1>4, NoPageAsked
  <2>2. OwnRows(rows)' /\ Durable(result'.job)
    BY <1>5, <1>7, <1>8 DEF OwnRows, Durable
  <2>3. QED
    BY <1>3, <1>4, <1>5, <1>8, <2>1, <2>2, RowsFound
<1>10. QED
  BY <1>2, <1>3, <1>9, ReturnKeeps

\* The rows of the keys whose type was wanted.
IsTyped(rows, kinds) ==
  LET wanted(i) == ask.wanted \in {"any", kinds[i].type}
      row(i) == Row(Keys[i], [kind |-> kinds[i]])
  IN /\ \A n \in DOMAIN rows : \E i \in 1..Len(Keys) : wanted(i) /\ rows[n] = row(i)
     /\ \A i \in 1..Len(Keys) : wanted(i) => \E n \in DOMAIN rows : rows[n] = row(i)
     /\ ask.wanted = "any" =>
          DOMAIN rows = 1..Len(Keys) /\ \A n \in 1..Len(Keys) : rows[n] = row(n)

\* The rows of a batch are those of its wanted keys.
LEMMA TypedIs ==
  ASSUME NEW kinds, kinds \in Seq(ToSet(kinds)), Len(kinds) = Len(Keys)
  PROVE  IsTyped(Typed(kinds), kinds)
<1> DEFINE all == [i \in DOMAIN kinds |-> Row(Keys[i], [kind |-> kinds[i]])]
           positions == {i \in DOMAIN kinds : ask.wanted \in {"any", kinds[i].type}}
           rows == Typed(kinds)
           m == Len(Keys)
<1>1. Len(kinds) = m /\ m \in Nat /\ DOMAIN kinds = 1..m
  BY CellsAssumption
<1>2. \A i \in 1..m : all[i] = Row(Keys[i], [kind |-> kinds[i]])
  BY <1>1
<1>3. all \in Seq(ToSet(all)) /\ Len(all) = m
  BY <1>1 DEF ToSet
<1>4. \A i \in 1..m : i \in positions <=> ask.wanted \in {"any", kinds[i].type}
  BY <1>1
<1>5. ask.wanted = "any" => 1..m \subseteq positions
  BY <1>4
<1>6. rows = FlattenSeq([i \in DOMAIN all |-> IF i \in positions THEN <<all[i]>> ELSE <<>>])
  BY DEF Typed, Kept
<1> HIDE DEF all, positions, rows
<1>7. rows \in Seq(ToSet(all)) /\ Chosen(all, positions, rows, m)
  BY <1>3, <1>6, ChosenIs
<1>8. \A n \in DOMAIN rows : \E i \in 1..m :
        ask.wanted \in {"any", kinds[i].type} /\ rows[n] = Row(Keys[i], [kind |-> kinds[i]])
  BY <1>2, <1>4, <1>7, ZenonT(40) DEF Chosen
<1>9. \A i \in 1..m : ask.wanted \in {"any", kinds[i].type} =>
        \E n \in DOMAIN rows : rows[n] = Row(Keys[i], [kind |-> kinds[i]])
  BY <1>2, <1>4, <1>7, SMTT(30) DEF Chosen
<1>10. ask.wanted = "any" =>
         DOMAIN rows = 1..m /\ \A n \in 1..m : rows[n] = Row(Keys[n], [kind |-> kinds[n]])
  <2>1. SUFFICES ASSUME ask.wanted = "any"
                 PROVE  DOMAIN rows = 1..m /\ \A n \in 1..m : rows[n] = Row(Keys[n], [kind |-> kinds[n]])
    OBVIOUS
  <2>2. Len(rows) = m /\ \A n \in 1..m : rows[n] = all[n]
    BY <1>5, <1>7, <2>1 DEF Chosen
  <2>3. DOMAIN rows = 1..m
    BY <1>7, <2>2
  <2>4. QED
    BY <1>2, <2>2, <2>3
<1>11. QED
  BY <1>8, <1>9, <1>10 DEF rows, IsTyped

\* The types of some keys, each read from its own key or not at all.
OwnKinds(kinds) == \A i \in DOMAIN kinds : Own(KindOf(Keys[i]), kinds[i])

\* And each is of its own key.
LEMMA TypedAreOwn ==
  \A kinds :
    /\ WorldInv /\ ask.read = "types" /\ OwnKinds(kinds)
    /\ kinds \in Seq(ToSet(kinds)) /\ Len(kinds) = Len(Keys) /\ result.rows = Typed(kinds)
    => OwnRows(result.rows) /\ WantedAreKept
<1>1. SUFFICES ASSUME NEW kinds, WorldInv, ask.read = "types", OwnKinds(kinds),
                      kinds \in Seq(ToSet(kinds)), Len(kinds) = Len(Keys), result.rows = Typed(kinds)
               PROVE  OwnRows(result.rows) /\ WantedAreKept
  OBVIOUS
<1>2. PICK rows : rows = result.rows
  OBVIOUS
<1> DEFINE m == Len(Keys)
           Typing(i) == Row(Keys[i], [kind |-> kinds[i]])
           Wanted(i) == ask.wanted \in {"any", kinds[i].type}
           shown == [i \in DOMAIN rows |-> rows[i].owner]
<1>3. /\ m \in Nat /\ DOMAIN Keys = 1..m /\ DOMAIN kinds = 1..m
      /\ Keys = [i \in 1..m |-> Keys[i]]
  BY <1>1, CellsAssumption
<1>4. /\ \A n \in DOMAIN rows : \E i \in 1..m : Wanted(i) /\ rows[n] = Typing(i)
      /\ \A i \in 1..m : Wanted(i) => \E n \in DOMAIN rows : rows[n] = Typing(i)
      /\ ask.wanted = "any" => DOMAIN rows = 1..m /\ \A n \in 1..m : rows[n] = Typing(n)
  <2>1. IsTyped(rows, kinds)
    BY <1>1, <1>2, TypedIs, Zenon
  <2>2. QED
    BY <2>1 DEF IsTyped
<1>5. ASSUME NEW i \in 1..m
      PROVE  /\ Typing(i).owner = Keys[i] /\ DOMAIN Typing(i).cells = {"kind"}
             /\ Typing(i).cells["kind"] = kinds[i] /\ Typing(i).cells.kind = kinds[i]
             /\ Cell(Keys[i], "kind") = KindOf(Keys[i])
             /\ Own(KindOf(Keys[i]), kinds[i])
  BY <1>1, <1>3, RowsAre DEF KindOf, OwnKinds
<1> HIDE DEF Typing
<1>6. OwnRows(rows)
  <2>1. SUFFICES ASSUME NEW n \in DOMAIN rows PROVE RowIsOwn(rows[n])
    BY DEF OwnRows
  <2>2. PICK i \in 1..m : rows[n] = Typing(i)
    BY <1>4
  <2>3. Shows(KindOf(Keys[i]), kinds[i])
    BY <1>1, <1>5, ShownIs
  <2>4. QED
    BY <1>5, <2>2, <2>3 DEF RowIsOwn
<1>7. DOMAIN shown = DOMAIN rows /\ \A n \in DOMAIN rows : shown[n] = rows[n].owner
  OBVIOUS
<1>8. CASE ask.wanted = "any"
  <2>1. DOMAIN rows = 1..m /\ \A n \in 1..m : rows[n].owner = Keys[n]
    BY <1>4, <1>5, <1>8
  <2>2. shown = Keys
    BY <1>3, <2>1
  <2>3. QED
    BY <1>2, <1>6, <1>8, <2>2 DEF WantedAreKept
<1>9. CASE ask.wanted # "any"
  <2>1. ASSUME NEW n \in DOMAIN rows
        PROVE  rows[n].cells.kind.type = ask.wanted
    <3>1. PICK i \in 1..m : Wanted(i) /\ rows[n] = Typing(i)
      BY <1>4
    <3>2. kinds[i].type = ask.wanted
      BY <1>9, <3>1
    <3>3. rows[n].cells.kind = kinds[i]
      BY <1>5, <3>1
    <3>4. QED
      BY <3>2, <3>3
  <2>2. ASSUME NEW k \in ToSet(Keys)
        PROVE  \/ k \in ToSet(shown) \/ Refused(KindOf(k))
               \/ \E c \in held[KindOf(k)] : c.type # ask.wanted
    <3>1. PICK i \in 1..m : Keys[i] = k
      BY <1>3 DEF ToSet
    <3>2. CASE kinds[i].type = ask.wanted
      <4>1. PICK n \in DOMAIN rows : rows[n] = Typing(i)
        BY <1>4, <3>2
      <4>2. shown[n] = k /\ n \in DOMAIN shown
        BY <1>5, <1>7, <3>1, <4>1
      <4> HIDE DEF shown
      <4>3. QED
        BY <4>2 DEF ToSet
    <3>3. CASE kinds[i].type # ask.wanted
      BY <1>5, <3>1, <3>3 DEF Own
    <3>4. QED
      BY <3>2, <3>3
  <2>3. QED
    BY <1>2, <1>6, <1>9, <2>1, <2>2 DEF WantedAreKept
<1>10. QED
  BY <1>8, <1>9

\* The same of the next state.
LEMMA TypedAreOwnNext ==
  (\A kinds :
    /\ WorldInv /\ ask.read = "types" /\ OwnKinds(kinds)
    /\ kinds \in Seq(ToSet(kinds)) /\ Len(kinds) = Len(Keys) /\ result.rows = Typed(kinds)
    => OwnRows(result.rows) /\ WantedAreKept)'
  BY TypedAreOwn, PTL

\* A sequence is one of its own elements.
LEMMA SeqOfItself ==
  ASSUME NEW X, NEW s \in Seq(X)
  PROVE  s \in Seq(ToSet(s))
  BY DEF ToSet

\* The types of all keys are shown, or those of the next chunk are read.
LEMMA TypesReadKeeps ==
  ASSUME PaneInv, phase = "types", NEW kinds, TypesRead(kinds),
         kinds \in Seq(ToSet(kinds)), Len(kinds) <= Len(Keys), OwnKinds(kinds)',
         WorldInv', LossInv', Grows, ask' = ask
  PROVE  PaneInv'
<1>1. ask.read = "types" /\ ask'.read = "types"
  BY DEF PaneInv, StageInv, TypesStage
<1>2. CASE Len(kinds) = Len(Keys)
  <2>1. PICK rows : rows = Typed(kinds)
    OBVIOUS
  <2>2. Return(Rows(rows))
    BY <1>2, <2>1 DEF TypesRead
  <2>3. phase' = "done" /\ result'.ok = TRUE /\ result'.rows = rows /\ result'.job = <<>>
    BY <2>2, ResultsAre DEF Return
  <2>4. Typed(kinds)' = Typed(kinds)
    BY DEF Typed
  <2>5. OwnRows(rows)' /\ WantedAreKept'
    <3>1. OwnRows(result.rows)' /\ WantedAreKept'
      BY <1>1, <1>2, <2>1, <2>3, <2>4, TypedAreOwnNext
    <3>2. QED
      BY <2>3, <3>1 DEF OwnRows
  <2>6. PageIsThePage' /\ Durable(result'.job)
    BY <1>1, <2>3, NoPageAsked DEF Durable
  <2>7. OutcomeInv'
    BY <1>1, <2>3, <2>5, <2>6, RowsFound
  <2>8. QED
    BY <2>2, <2>7, ReturnKeeps
<1>3. CASE Len(kinds) # Len(Keys)
  <2>1. Len(kinds) \in Nat /\ Len(kinds) < Len(Keys)
    BY <1>3, CellsAssumption
  <2>2. Start("types", TypeBatch(Len(kinds)), kinds)
    <3>1. Send("types", TypeBatch(Len(kinds)), kinds)
      BY <1>3 DEF TypesRead
    <3>2. QED
      BY <2>1, <3>1, TypesAreSent
  <2>3. phase' = "types" /\ batch' = TypeBatch(Len(kinds)) /\ first' = kinds
    BY <2>2 DEF Start
  <2>4. \A i \in 1..Len(kinds) : Own(KindOf(Keys[i]), kinds[i])'
    BY DEF OwnKinds
  <2>5. TypesStage'
    BY <1>1, <2>1, <2>3, <2>4 DEF TypesStage
  <2>6. StageInv'
    BY <2>3, <2>5 DEF StageInv, Phases, ProbesStage, CellsStage, PageStage,
                      JobStage, ClusterStage, ChannelsStage
  <2>7. QED
    BY <2>2, <2>6, StartKeeps
<1>4. QED
  BY <1>2, <1>3

\* One slot to a key: the types of a chunk follow those read before.
OwnFrom(n, kinds) == \A i \in DOMAIN kinds : Own(KindOf(Keys[n + i]), kinds[i])

\* The types of a chunk are put behind those read before, at their own keys.
LEMMA TypesFollow ==
  ASSUME PaneInv, phase = "types", NEW n, n = Len(first),
         NEW new, new \in Seq(ToSet(new)), Len(new) = Len(batch), OwnFrom(n, new)',
         TypesRead(first \o new), WorldInv', LossInv', Grows, ask' = ask
  PROVE  PaneInv'
<1>1. PICK f : f = first
  OBVIOUS
<1>2. /\ f \in Seq(ToSet(f)) /\ Len(f) = n /\ n \in Nat /\ n < Len(Keys)
      /\ batch = TypeBatch(n)
      /\ \A i \in 1..n : Own(KindOf(Keys[i]), f[i])
  BY <1>1 DEF PaneInv, StageInv, TypesStage
<1>3. Len(batch) \in Nat /\ n + Len(batch) <= Len(Keys)
  BY <1>2, TypeBatchIs
<1>4. PICK kinds : kinds = f \o new
  OBVIOUS
<1>5. /\ kinds \in Seq(ToSet(f) \cup ToSet(new)) /\ Len(kinds) = n + Len(new)
      /\ DOMAIN kinds = 1..n + Len(new) /\ DOMAIN new = 1..Len(new) /\ Len(new) \in Nat
      /\ \A i \in 1..n + Len(new) : kinds[i] = IF i <= n THEN f[i] ELSE new[i - n]
  <2>1. f \in Seq(ToSet(f) \cup ToSet(new)) /\ new \in Seq(ToSet(f) \cup ToSet(new))
    BY <1>2
  <2>2. \A x, y \in Seq(ToSet(f) \cup ToSet(new)) :
          /\ x \o y \in Seq(ToSet(f) \cup ToSet(new)) /\ Len(x \o y) = Len(x) + Len(y)
          /\ \A i \in 1..Len(x) + Len(y) :
               (x \o y)[i] = IF i <= Len(x) THEN x[i] ELSE y[i - Len(x)]
    OBVIOUS
  <2>3. /\ kinds \in Seq(ToSet(f) \cup ToSet(new)) /\ Len(kinds) = Len(f) + Len(new)
        /\ \A i \in 1..Len(f) + Len(new) :
             kinds[i] = IF i <= Len(f) THEN f[i] ELSE new[i - Len(f)]
    BY <1>4, <2>1, <2>2, Zenon
  <2>4. QED
    BY <1>2, <2>3
<1>6. kinds \in Seq(ToSet(kinds))
  BY <1>5, SeqOfItself
<1>7. OwnKinds(kinds)'
  <2>1. SUFFICES ASSUME NEW i \in DOMAIN kinds PROVE Own(KindOf(Keys[i]), kinds[i])'
    BY DEF OwnKinds
  <2>2. CASE i <= n
    <3>1. i \in 1..n /\ kinds[i] = f[i]
      BY <1>2, <1>5, <2>2
    <3>2. Own(KindOf(Keys[i]), f[i])
      BY <1>2, <3>1
    <3>3. QED
      BY <3>1, <3>2, OwnStays
  <2>3. CASE ~(i <= n)
    <3>1. i - n \in DOMAIN new /\ kinds[i] = new[i - n] /\ n + (i - n) = i
      BY <1>2, <1>5, <2>3
    <3>2. Own(KindOf(Keys[n + (i - n)]), new[i - n])'
      BY <3>1 DEF OwnFrom
    <3>3. QED
      BY <3>1, <3>2
  <2>4. QED
    BY <2>2, <2>3
<1>8. Len(kinds) <= Len(Keys)
  BY <1>3, <1>5
<1>9. TypesRead(kinds)
  BY <1>1, <1>4
<1>10. QED
  BY <1>6, <1>7, <1>8, <1>9, TypesReadKeeps

\* A chunk of types has been read.
LEMMA FinishTypesKeeps ==
  ASSUME PaneInv, FinishTypes
  PROVE  PaneInv'
<1>1. PICK new : new = [i \in DOMAIN batch |-> Reply(i)]
  OBVIOUS
<1>2. phase = "types" /\ Complete /\ TypesRead(first \o new) /\ Stays
  BY <1>1 DEF FinishTypes
<1>3. /\ WorldInv' /\ LossInv' /\ Grows /\ ask' = ask
  BY <1>2, StaysAll
<1>4. PICK n \in Nat : n = Len(first) /\ n < Len(Keys) /\ batch = TypeBatch(n)
  BY <1>2 DEF PaneInv, StageInv, TypesStage
<1>5. DOMAIN batch = 1..Len(batch) /\ Len(batch) \in Nat
  BY <1>4, TypeBatchIs
<1>6. new \in Seq(ToSet(new)) /\ Len(new) = Len(batch) /\ DOMAIN new = DOMAIN batch
  BY <1>1, <1>5 DEF ToSet
<1>7. OwnFrom(n, new)'
  <2>1. SUFFICES ASSUME NEW i \in DOMAIN new PROVE Own(KindOf(Keys[n + i]), new[i])'
    BY DEF OwnFrom
  <2>2. i \in DOMAIN batch /\ new[i] = Reply(i)
    BY <1>1, <1>6
  <2>3. batch[i].op = "TYPE" /\ batch[i].cell = KindOf(Keys[n + i])
    BY <1>4, <2>2, TypeBatchIs DEF Command
  <2>4. Answers(batch[i], Reply(i))
    BY <1>2, <2>2, CompleteIs DEF PaneInv
  <2>5. Own(KindOf(Keys[n + i]), new[i])
    BY <2>2, <2>3, <2>4, AnswersOf
  <2>6. QED
    BY <1>3, <2>5, OwnStays
<1>8. QED
  BY <1>2, <1>3, <1>4, <1>6, <1>7, TypesFollow

\* A pipeline came back with another number of replies.
LEMMA MisalignedKeeps ==
  ASSUME PaneInv, Misaligned
  PROVE  PaneInv'
<1>1. /\ phase \in {"cells", "probes", "types"} /\ Lose
      /\ hurt' = hurt \cup {Pipeline} /\ UNCHANGED <<askVars, worldVars>>
  BY DEF Misaligned
<1>2. WorldInv' /\ Grows /\ ask' = ask /\ held' = held
  <2>1. hurt \subseteq hurt' /\ phase # "begin"
    BY <1>1
  <2>2. QED
    BY <1>1, <2>1, StaysKeep
<1>3. LossInv'
  BY <1>1, LossesAreCounted DEF PaneInv
<1>4. Pipeline \in hurt'
  BY <1>1
<1>5. CASE phase = "cells"
  <2>1. Return(Err)
    BY <1>5 DEF Misaligned
  <2>2. phase' = "done" /\ result' = Err
    BY <2>1 DEF Return
  <2>3. Essential(Pipeline)
    BY DEF Essential, Pipeline, Cell
  <2>4. OutcomeInv'
    BY <1>4, <2>2, <2>3, ReadFailed
  <2>5. QED
    BY <1>2, <1>3, <2>1, <2>4, ReturnKeeps
<1>6. CASE phase = "probes"
  <2>1. Start("serial", batch, Gone)
    BY <1>6 DEF Misaligned
  <2>2. phase' = "serial" /\ batch' = batch
    BY <2>1 DEF Start
  <2>3. ask'.read = "probes" /\ batch' = ProbeBatch
    BY <1>2, <1>6, <2>2 DEF PaneInv, StageInv, ProbesStage
  <2>4. StageInv'
    BY <2>2, <2>3 DEF StageInv, Phases, ProbesStage, ProbeBatch, CellsStage, TypesStage, PageStage,
                      JobStage, ClusterStage, ChannelsStage
  <2>5. QED
    BY <1>2, <1>3, <1>6, <2>1, <2>4, StartKeeps
<1>7. CASE phase = "types"
  <2>1. PICK new : new = [i \in DOMAIN batch |-> Failed]
    OBVIOUS
  <2>2. TypesRead(first \o new)
    BY <1>7, <2>1 DEF Misaligned
  <2>3. PICK n \in Nat : n = Len(first) /\ n < Len(Keys) /\ batch = TypeBatch(n)
    BY <1>7 DEF PaneInv, StageInv, TypesStage
  <2>4. DOMAIN batch = 1..Len(batch) /\ Len(batch) \in Nat
    BY <2>3, TypeBatchIs
  <2>5. new \in Seq(ToSet(new)) /\ Len(new) = Len(batch) /\ DOMAIN new = DOMAIN batch
    BY <2>1, <2>4 DEF ToSet
  <2>6. OwnFrom(n, new)'
    <3>1. SUFFICES ASSUME NEW i \in DOMAIN new PROVE Own(KindOf(Keys[n + i]), new[i])'
      BY DEF OwnFrom
    <3>2. Keys[n + i] \in ToSet(Keys) /\ new[i] = Failed
      BY <2>1, <2>3, <2>5, TypeBatchIs
    <3>3. ask.read = "types"
      BY <1>7 DEF PaneInv, StageInv, TypesStage
    <3>4. KindOf(Keys[n + i]) \in CellsOf(ask)
      BY <3>2, <3>3, CellsAre
    <3>5. KindOf(Keys[n + i]) \in DOMAIN held'
      BY <1>2, <3>4 DEF PaneInv, WorldInv
    <3>6. QED
      BY <1>4, <3>2, <3>5 DEF Own, Refused
  <2>7. QED
    BY <1>2, <1>3, <1>7, <2>2, <2>3, <2>5, <2>6, TypesFollow
<1>8. QED
  BY <1>1, <1>5, <1>6, <1>7

\* The reads of one command.
LEMMA OneReply ==
  ASSUME PaneInv, Complete, NEW c, batch = <<c>>, c.op \in KeyOps
  PROVE  Own(c.cell, Reply(1))
<1>1. 1 \in DOMAIN batch /\ batch[1] = c
  OBVIOUS
<1>2. Answers(batch[1], Reply(1))
  BY <1>1, CompleteIs DEF PaneInv
<1>3. QED
  BY <1>1, <1>2, AnswersOf

\* The one command of a read was refused.
LEMMA ReadIsRefused ==
  ASSUME PaneInv, NEW cell, Own(cell, Failed), Essential(cell), Return(Err),
         WorldInv', LossInv', Grows
  PROVE  PaneInv'
<1>1. cell \in DOMAIN held /\ Refused(cell)
  BY FailedIsRefused DEF PaneInv
<1>2. cell \in DOMAIN held' /\ Refused(cell)'
  BY <1>1, RefusedStays DEF Grows
<1>3. phase' = "done" /\ result' = Err
  BY DEF Return
<1>4. OutcomeInv'
  BY <1>2, <1>3, ReadFailed
<1>5. QED
  BY <1>4, ReturnKeeps

\* The one command of a read was answered.
LEMMA RowsReturned ==
  ASSUME PaneInv, NEW r, NEW rows, Return(r), r.ok = TRUE, r.rows = rows, rows # <<>>,
         Durable(r.job), OwnRows(rows)', ask' = ask, ask.read \in {"cluster", "job", "channels"},
         WorldInv', LossInv', Grows
  PROVE  PaneInv'
<1>1. phase' = "done" /\ result' = r
  BY DEF Return
<1>2. PageIsThePage'
  BY NoPageAsked
<1>3. OutcomeInv'
  BY <1>1, <1>2, RowsFound
<1>4. QED
  BY <1>3, ReturnKeeps

\* One row is a row.
LEMMA SomeRow ==
  ASSUME NEW x
  PROVE  <<x>> # <<>>
<1>1. Len(<<x>>) = 1 /\ Len(<<>>) = 0
  OBVIOUS
<1>2. QED
  BY <1>1

\* A row is its own if each of its cells is.
LEMMA OneRow ==
  ASSUME NEW owner, NEW cells,
         \A p \in DOMAIN cells : p # "permit" /\ Shows(Cell(owner, p), cells[p])'
  PROVE  OwnRows(<<Row(owner, cells)>>)'
<1>1. PICK row : row = Row(owner, cells) /\ row.owner = owner /\ row.cells = cells
  BY RowsAre
<1>2. RowIsOwn(row)'
  BY <1>1 DEF RowIsOwn
<1>3. OwnRows(<<row>>)'
  BY <1>2 DEF OwnRows
<1>4. QED
  BY <1>1, <1>3

\* The state of the cluster has been read.
LEMMA FinishInfoKeeps ==
  ASSUME PaneInv, FinishInfo
  PROVE  PaneInv'
<1>1. PICK reply : reply = Reply(1)
  OBVIOUS
<1>2. /\ phase = "info" /\ Complete /\ Stays
      /\ IF reply = Failed THEN Return(Err)
         ELSE IF ask.enabled THEN Send("nodes", <<Command("CLUSTER_NODES", ClusterNodes)>>, reply)
         ELSE Return(Rows(<<Row("cluster", [info |-> reply])>>))
  BY <1>1 DEF FinishInfo
<1>3. /\ WorldInv' /\ LossInv' /\ Grows
      /\ ask' = ask /\ held' = held /\ hurt' = hurt
  BY <1>2, StaysAll
<1>4. ask.read = "cluster" /\ batch = <<Command("CLUSTER_INFO", ClusterInfo)>>
  BY <1>2 DEF PaneInv, StageInv, ClusterStage
<1>5. Own(ClusterInfo, reply)
  <2>1. /\ Command("CLUSTER_INFO", ClusterInfo).op \in KeyOps
        /\ Command("CLUSTER_INFO", ClusterInfo).cell = ClusterInfo
    BY CommandsAre DEF KeyOps
  <2>2. QED
    BY <1>1, <1>2, <1>4, <2>1, OneReply
<1>6. CASE reply = Failed
  <2>1. Essential(ClusterInfo)
    BY PartsAre DEF Essential
  <2>2. QED
    BY <1>2, <1>3, <1>5, <1>6, <2>1, ReadIsRefused
<1>7. CASE reply # Failed /\ ask.enabled
  <2>1. Send("nodes", <<Command("CLUSTER_NODES", ClusterNodes)>>, reply)
    BY <1>2, <1>7
  <2>2. Command("CLUSTER_NODES", ClusterNodes).op \in ReadOnlyCommands
    BY DEF Command, ReadOnlyCommands
  <2>3. Start("nodes", <<Command("CLUSTER_NODES", ClusterNodes)>>, reply)
    BY <2>1, <2>2, SendsOne
  <2>4. phase' = "nodes" /\ batch' = <<Command("CLUSTER_NODES", ClusterNodes)>> /\ first' = reply
    BY <2>3 DEF Start
  <2>5. ClusterStage'
    <3>1. Own(ClusterInfo, reply)'
      BY <1>3, <1>5, OwnStays
    <3>2. QED
      BY <1>3, <1>4, <1>7, <2>4, <3>1 DEF ClusterStage
  <2>6. StageInv'
    BY <2>4, <2>5 DEF StageInv, Phases, ProbesStage, CellsStage, TypesStage, PageStage,
                      JobStage, ChannelsStage
  <2>7. QED
    BY <1>2, <1>3, <2>3, <2>6, StartKeeps
<1>8. CASE reply # Failed /\ ~ask.enabled
  <2>1. PICK cells : cells = [info |-> reply]
    OBVIOUS
  <2>2. Return(Rows(<<Row("cluster", cells)>>))
    BY <1>2, <1>8, <2>1
  <2>3. Shows(ClusterInfo, reply)'
    BY <1>3, <1>5, ShownIs, ShowsStays DEF PaneInv
  <2>4. DOMAIN cells = {"info"} /\ cells["info"] = reply /\ Cell("cluster", "info") = ClusterInfo
    BY <2>1 DEF ClusterInfo
  <2>5. OwnRows(<<Row("cluster", cells)>>)'
    BY <2>3, <2>4, OneRow
  <2>6. PICK rows : rows = <<Row("cluster", cells)>> /\ rows # <<>>
    BY SomeRow
  <2>7. Rows(rows).ok = TRUE /\ Rows(rows).rows = rows /\ Durable(Rows(rows).job)
    BY ResultsAre DEF Durable
  <2>8. Return(Rows(rows)) /\ OwnRows(rows)'
    BY <2>2, <2>5, <2>6
  <2>9. QED
    BY <1>3, <1>4, <2>6, <2>7, <2>8, RowsReturned
<1>9. QED
  BY <1>6, <1>7, <1>8

\* And its nodes.
LEMMA FinishNodesKeeps ==
  ASSUME PaneInv, FinishNodes
  PROVE  PaneInv'
<1>1. PICK cells : cells = [info |-> first, nodes |-> Shown(Reply(1))]
  OBVIOUS
<1>2. /\ phase = "nodes" /\ Complete /\ Stays
      /\ Return(Rows(<<Row("cluster", cells)>>))
  BY <1>1 DEF FinishNodes
<1>3. /\ WorldInv' /\ LossInv' /\ Grows
      /\ ask' = ask /\ held' = held /\ hurt' = hurt
  BY <1>2, StaysAll
<1>4. /\ ask.read = "cluster" /\ batch = <<Command("CLUSTER_NODES", ClusterNodes)>>
      /\ Own(ClusterInfo, first)
  BY <1>2 DEF PaneInv, StageInv, ClusterStage
<1>5. Own(ClusterNodes, Reply(1))
  <2>1. /\ Command("CLUSTER_NODES", ClusterNodes).op \in KeyOps
        /\ Command("CLUSTER_NODES", ClusterNodes).cell = ClusterNodes
    BY CommandsAre DEF KeyOps
  <2>2. QED
    BY <1>2, <1>4, <2>1, OneReply
<1>6. PICK info, nodes : info = first /\ nodes = Shown(Reply(1))
  OBVIOUS
<1>7. Shows(ClusterInfo, info)' /\ Shows(ClusterNodes, nodes)'
  <2>1. Shows(ClusterInfo, info) /\ Shows(ClusterNodes, nodes)
    BY <1>4, <1>5, <1>6, ShownIs DEF PaneInv
  <2>2. QED
    BY <1>3, <2>1, ShowsStays
<1>8. /\ DOMAIN cells = {"info", "nodes"} /\ cells["info"] = info /\ cells["nodes"] = nodes
      /\ Cell("cluster", "info") = ClusterInfo /\ Cell("cluster", "nodes") = ClusterNodes
  BY <1>1, <1>6 DEF ClusterInfo, ClusterNodes
<1>9. OwnRows(<<Row("cluster", cells)>>)'
  BY <1>7, <1>8, OneRow
<1>10. PICK rows : rows = <<Row("cluster", cells)>> /\ rows # <<>>
  BY SomeRow
<1>11. Rows(rows).ok = TRUE /\ Rows(rows).rows = rows /\ Durable(Rows(rows).job)
  BY ResultsAre DEF Durable
<1>12. Return(Rows(rows)) /\ OwnRows(rows)'
  BY <1>2, <1>9, <1>10
<1>13. QED
  BY <1>3, <1>4, <1>10, <1>11, <1>12, RowsReturned

\* The names of the channels have been read, and some are kept.
LEMMA FinishNamesKeeps ==
  ASSUME PaneInv, FinishNames
  PROVE  PaneInv'
<1> DEFINE cmd == Command("PUBSUB_NUMSUB", Cell("channels", "counts"))
           Found(x) == [type |-> "names", names |-> x]
<1>1. PICK reply, names :
        /\ reply = Reply(1)
        /\ names = SubSeq(reply.names, 1, Min({Len(reply.names), ChannelLimit}))
  OBVIOUS
<1>2. /\ phase = "names" /\ Complete /\ Stays
      /\ IF reply = Failed THEN Return(Err)
         ELSE IF names = <<>> THEN Return(Rows(<<>>)) ELSE Send("counts", <<cmd>>, Found(names))
  BY <1>1 DEF FinishNames
<1>3. /\ WorldInv' /\ LossInv' /\ Grows
      /\ ask' = ask /\ held' = held /\ hurt' = hurt
  BY <1>2, StaysAll
<1>4. /\ ask.read = "channels"
      /\ batch = <<Command("PUBSUB_CHANNELS", Cell("channels", "names"))>>
  BY <1>2 DEF PaneInv, StageInv, ChannelsStage
<1>5. \/ reply = Failed /\ Cell("channels", "names") \in hurt
      \/ reply.type = "names" /\ reply.names \in Seq(ToSet(Channels))
  <2>1. /\ 1 \in DOMAIN batch /\ batch[1].op = "PUBSUB_CHANNELS"
        /\ batch[1].cell = Cell("channels", "names")
    BY <1>4 DEF Command
  <2>2. Answers(batch[1], reply)
    BY <1>1, <1>2, <2>1, CompleteIs DEF PaneInv
  <2>3. QED
    BY <2>1, <2>2, AnswersOf DEF Lost
<1>6. CASE reply = Failed
  <2>1. Cell("channels", "names") \in hurt
    BY <1>5, <1>6 DEF Failed
  <2>2. Essential(Cell("channels", "names"))
    BY DEF Essential, Cell
  <2>3. Return(Err)
    BY <1>2, <1>6
  <2>4. phase' = "done" /\ result' = Err /\ Cell("channels", "names") \in hurt'
    BY <1>3, <2>1, <2>3 DEF Return
  <2>5. OutcomeInv'
    BY <2>2, <2>4, ReadFailed
  <2>6. QED
    BY <1>3, <2>3, <2>5, ReturnKeeps
<1>7. CASE reply # Failed
  <2>1. reply.names \in Seq(ToSet(Channels))
    BY <1>5, <1>7
  <2>2. names \in Seq(ToSet(Channels))
    <3>1. PICK k : k = Min({Len(reply.names), ChannelLimit})
      OBVIOUS
    <3>2. k \in Nat /\ k <= Len(reply.names)
      BY <2>1, <3>1, MinOfTwo, LimitsAssumption
    <3>3. names = SubSeq(reply.names, 1, k)
      BY <1>1, <3>1
    <3>4. QED
      BY <2>1, <3>2, <3>3
  <2>3. CASE names = <<>>
    <3>1. Return(Rows(<<>>))
      BY <1>2, <1>7, <2>3
    <3>2. phase' = "done" /\ result' = Rows(<<>>)
      BY <3>1 DEF Return
    <3>3. OutcomeInv'
      BY <1>3, <1>4, <3>2, NothingFound
    <3>4. QED
      BY <1>3, <3>1, <3>3, ReturnKeeps
  <2>4. CASE names # <<>>
    <3>1. Send("counts", <<cmd>>, Found(names))
      BY <1>2, <1>7, <2>4
    <3>2. cmd.op \in ReadOnlyCommands
      BY DEF Command, ReadOnlyCommands
    <3>3. Start("counts", <<cmd>>, Found(names))
      BY <3>1, <3>2, SendsOne
    <3>4. phase' = "counts" /\ batch' = <<cmd>> /\ first'.names = names
      BY <3>3 DEF Start
    <3>5. ChannelsStage'
      BY <1>3, <1>4, <2>2, <3>4 DEF ChannelsStage
    <3>6. StageInv'
      BY <3>4, <3>5 DEF StageInv, Phases, ProbesStage, CellsStage, TypesStage, PageStage,
                        JobStage, ClusterStage
    <3>7. QED
      BY <1>2, <1>3, <3>3, <3>6, StartKeeps
  <2>5. QED
    BY <2>3, <2>4
<1>8. QED
  BY <1>6, <1>7

\* The counts of those channels have been read,
LEMMA CountsAreHeld ==
  ASSUME PaneInv, phase = "counts", Complete, Reply(1) # Failed
  PROVE  Reply(1).type = "counts" /\ HeldCounts(Reply(1).counts)
<1>1. batch = <<Command("PUBSUB_NUMSUB", Cell("channels", "counts"))>>
  BY DEF PaneInv, StageInv, ChannelsStage
<1>2. 1 \in DOMAIN batch /\ batch[1].op = "PUBSUB_NUMSUB"
  BY <1>1 DEF Command
<1>3. Answers(batch[1], Reply(1))
  BY <1>2, CompleteIs DEF PaneInv
<1>4. QED
  BY <1>2, <1>3, AnswersOf DEF Lost

\* or were lost.
LEMMA CountsAreLost ==
  ASSUME PaneInv, phase = "counts", Complete, Reply(1) = Failed
  PROVE  Cell("channels", "counts") \in hurt
<1>1. batch = <<Command("PUBSUB_NUMSUB", Cell("channels", "counts"))>>
  BY DEF PaneInv, StageInv, ChannelsStage
<1>2. /\ 1 \in DOMAIN batch /\ batch[1].op = "PUBSUB_NUMSUB"
      /\ batch[1].cell = Cell("channels", "counts")
  BY <1>1 DEF Command
<1>3. Answers(batch[1], Reply(1))
  BY <1>2, CompleteIs DEF PaneInv
<1>4. Reply(1).type # "counts"
  BY DEF Failed
<1>5. QED
  BY <1>2, <1>3, <1>4, AnswersOf DEF Lost

\* How many subscribe to a channel is a fact of the server.
LEMMA SubscribersAreShown ==
  ASSUME WorldInv, NEW n, NEW shown, Subscribers(n) \in DOMAIN held,
         shown \in held[Subscribers(n)]
  PROVE  Shows(Subscribers(n), shown)
<1>1. shown \in Contents(Subscribers(n))
  BY DEF WorldInv
<1>2. Subscribers(n).part = "subscribers" /\ Type(Subscribers(n)) = "fact"
  BY PartsAre, TypesAre
<1>3. shown = Gone \/ shown.type = Type(Subscribers(n))
  BY <1>1, <1>2, ContentsAre
<1>4. QED
  BY <1>3 DEF Shows, Own

\* Each count is that of its own channel.
LEMMA FinishCountsKeeps ==
  ASSUME PaneInv, FinishCounts
  PROVE  PaneInv'
<1>1. PICK names, counts : names = first.names /\ counts = Reply(1).counts
  OBVIOUS
<1>2. PICK rows : rows = [i \in DOMAIN names |-> Row(names[i], [subscribers |-> counts[names[i]]])]
  OBVIOUS
<1>3. /\ phase = "counts" /\ Complete /\ Stays
      /\ Return(IF Reply(1) = Failed THEN Err ELSE Rows(rows))
  BY <1>1, <1>2 DEF FinishCounts
<1>4. /\ WorldInv' /\ LossInv' /\ Grows
      /\ ask' = ask /\ held' = held /\ hurt' = hurt
  BY <1>3, StaysAll
<1>5. ask.read = "channels" /\ names \in Seq(ToSet(Channels))
  BY <1>1, <1>3 DEF PaneInv, StageInv, ChannelsStage
<1>6. CASE Reply(1) = Failed
  <2>1. Cell("channels", "counts") \in hurt
    BY <1>3, <1>6, CountsAreLost
  <2>2. Essential(Cell("channels", "counts"))
    BY DEF Essential, Cell
  <2>3. Return(Err)
    BY <1>3, <1>6
  <2>4. phase' = "done" /\ result' = Err /\ Cell("channels", "counts") \in hurt'
    BY <1>4, <2>1, <2>3 DEF Return
  <2>5. OutcomeInv'
    BY <2>2, <2>4, ReadFailed
  <2>6. QED
    BY <1>4, <2>3, <2>5, ReturnKeeps
<1>7. CASE Reply(1) # Failed
  <2>1. HeldCounts(counts)
    BY <1>1, <1>3, <1>7, CountsAreHeld
  <2>2. ASSUME NEW i \in DOMAIN rows
        PROVE  RowIsOwn(rows[i])'
    <3>1. PICK n : n = names[i] /\ n \in ToSet(first.names)
      BY <1>1, <1>2 DEF ToSet
    <3>2. PICK shown : shown = counts[n]
      OBVIOUS
    <3>3. Subscribers(n) \in DOMAIN held /\ shown \in held[Subscribers(n)]
      BY <2>1, <3>1, <3>2 DEF HeldCounts
    <3>4. Shows(Subscribers(n), shown)'
      BY <1>4, <3>3, SubscribersAreShown, ShowsStays DEF PaneInv
    <3>5. rows[i] = Row(n, [subscribers |-> shown])
      BY <1>2, <3>1, <3>2
    <3>6. /\ rows[i].owner = n /\ DOMAIN rows[i].cells = {"subscribers"}
          /\ rows[i].cells["subscribers"] = shown
      BY <3>5, RowsAre
    <3>7. Cell(n, "subscribers") = Subscribers(n)
      BY DEF Subscribers
    <3>8. QED
      BY <3>4, <3>6, <3>7 DEF RowIsOwn
  <2>3. OwnRows(rows)'
    BY <2>2 DEF OwnRows
  <2>4. phase' = "done" /\ result'.ok = TRUE /\ result'.rows = rows /\ Durable(result'.job)
    BY <1>3, <1>7, ResultsAre DEF Return, Durable
  <2>5. PageIsThePage'
    BY <1>4, <1>5, NoPageAsked
  <2>6. OutcomeInv'
    BY <1>4, <1>5, <2>3, <2>4, <2>5, RowsFound
  <2>7. QED
    BY <1>3, <1>4, <2>6, ReturnKeeps
<1>8. QED
  BY <1>6, <1>7

\* The hash of a job has been read.
LEMMA FinishJobKeeps ==
  ASSUME PaneInv, FinishJob
  PROVE  PaneInv'
<1> DEFINE cmd == Ranged("LRANGE", JobLog, PageRange(0, LogLimit))
<1>1. PICK reply : reply = Reply(1)
  OBVIOUS
<1>2. /\ phase = "job" /\ Complete /\ Stays
      /\ IF reply = Failed THEN Return(Err)
         ELSE IF reply = Gone THEN Return(Rows(<<>>)) ELSE Send("logs", <<cmd>>, reply)
  BY <1>1 DEF FinishJob
<1>3. /\ WorldInv' /\ LossInv' /\ Grows
      /\ ask' = ask /\ held' = held /\ hurt' = hurt
  BY <1>2, StaysAll
<1>4. ask.read = "job" /\ batch = <<Command("HMGET", JobHash)>>
  BY <1>2 DEF PaneInv, StageInv, JobStage
<1>5. Own(JobHash, reply)
  <2>1. /\ Command("HMGET", JobHash).op \in KeyOps
        /\ Command("HMGET", JobHash).cell = JobHash
    BY CommandsAre DEF KeyOps
  <2>2. QED
    BY <1>1, <1>2, <1>4, <2>1, OneReply
<1>6. CASE reply = Failed
  <2>1. Essential(JobHash)
    BY PartsAre DEF Essential
  <2>2. QED
    BY <1>2, <1>3, <1>5, <1>6, <2>1, ReadIsRefused
<1>7. CASE reply = Gone /\ reply # Failed
  <2>1. Return(Rows(<<>>))
    BY <1>2, <1>7
  <2>2. Gone \in held'[JobHash]
    BY <1>3, <1>5, <1>7 DEF Own
  <2>3. phase' = "done" /\ result' = Rows(<<>>)
    BY <2>1 DEF Return
  <2>4. OutcomeInv'
    BY <1>3, <1>4, <2>2, <2>3, NothingFound
  <2>5. QED
    BY <1>3, <2>1, <2>4, ReturnKeeps
<1>8. CASE reply \notin {Gone, Failed}
  <2>1. Send("logs", <<cmd>>, reply)
    BY <1>2, <1>8
  <2>2. cmd.op \in ReadOnlyCommands
    BY DEF Ranged, ReadOnlyCommands
  <2>3. Start("logs", <<cmd>>, reply)
    BY <2>1, <2>2, SendsOne
  <2>4. phase' = "logs" /\ batch' = <<cmd>> /\ first' = reply
    BY <2>3 DEF Start
  <2>5. JobStage'
    <3>1. Own(JobHash, reply)'
      BY <1>3, <1>5, OwnStays
    <3>2. QED
      BY <1>3, <1>4, <1>8, <2>4, <3>1 DEF JobStage
  <2>6. StageInv'
    BY <2>4, <2>5 DEF StageInv, Phases, ProbesStage, CellsStage, TypesStage, PageStage,
                      ClusterStage, ChannelsStage
  <2>7. QED
    BY <1>2, <1>3, <2>3, <2>6, StartKeeps
<1>9. QED
  BY <1>6, <1>7, <1>8

\* The stamps of a job are apart a duration, or no duration at all.
LEMMA ElapsedIsADuration ==
  ASSUME NEW a \in {{}} \cup {{stamp} : stamp \in I64},
         NEW b \in {{}} \cup {{stamp} : stamp \in I64}
  PROVE  Elapsed(a, b) \in Durations
<1>1. MaxInt \in Nat
  BY WidthsAssumption
<1>2. CASE a = {} \/ b = {}
  <2>1. {y - x : x \in a, y \in b} = {}
    BY <1>2
  <2>2. Elapsed(a, b) = {}
    BY <2>1 DEF Elapsed
  <2>3. QED
    BY <2>2 DEF Durations
<1>3. CASE a # {} /\ b # {}
  <2>1. PICK x \in I64, y \in I64 : a = {x} /\ b = {y}
    BY <1>3
  <2>2. Elapsed(a, b) = IF x <= y /\ y - x <= MaxInt THEN {y - x} ELSE {}
    BY <2>1, ElapsedIs
  <2>3. x \in Int /\ y \in Int
    BY <1>1, WidthsAssumption DEF I64
  <2>4. x <= y /\ y - x <= MaxInt => y - x \in 0..MaxInt
    BY <1>1, <2>3
  <2>5. QED
    BY <2>2, <2>4 DEF Durations
<1>4. QED
  BY <1>2, <1>3

\* Whatever its stamps are, its durations fit.
LEMMA DecodedIsDurable ==
  ASSUME WorldInv, NEW c, c \in held[JobHash], JobHash \in DOMAIN held, c # Gone
  PROVE  Durable(<<Decoded(JobHashes[c.write + 1])>>)
<1>1. c \in Contents(JobHash)
  BY DEF WorldInv
<1>2. PICK w \in 0..MaxChanges : \E type : c = Content(JobHash, type, w)
  BY <1>1, ContentsAre
<1>3. c.write = w
  BY <1>2 DEF Content
<1>4. PICK hash : hash = JobHashes[w + 1]
  OBVIOUS
<1>5. {hash.timestamp, hash.processedOn, hash.finishedOn}
        \subseteq {{}} \cup {{stamp} : stamp \in I64}
  BY <1>4, WritesAssumption
<1>6. PICK job : job = Decoded(hash)
  OBVIOUS
<1>7. /\ job.waited = Elapsed(hash.timestamp, hash.processedOn)
      /\ job.ran = Elapsed(hash.processedOn, hash.finishedOn)
  BY <1>6 DEF Decoded
<1>8. job.waited \in Durations /\ job.ran \in Durations
  BY <1>5, <1>7, ElapsedIsADuration
<1>9. Durable(<<job>>)
  BY <1>8 DEF Durable
<1>10. QED
  BY <1>3, <1>4, <1>6, <1>9

\* And its log.
LEMMA FinishLogsKeeps ==
  ASSUME PaneInv, FinishLogs
  PROVE  PaneInv'
<1>1. PICK cells, job, r :
        /\ cells = [hash |-> first, logs |-> Shown(Reply(1))]
        /\ job = <<Decoded(JobHashes[first.write + 1])>>
        /\ r = [Rows(<<Row("job", cells)>>) EXCEPT !.job = job]
  OBVIOUS
<1>2. phase = "logs" /\ Complete /\ Stays /\ Return(r)
  BY <1>1 DEF FinishLogs
<1>3. /\ WorldInv' /\ LossInv' /\ Grows
      /\ ask' = ask /\ held' = held /\ hurt' = hurt
  BY <1>2, StaysAll
<1>4. /\ ask.read = "job" /\ batch = <<Ranged("LRANGE", JobLog, PageRange(0, LogLimit))>>
      /\ Own(JobHash, first) /\ first \notin {Gone, Failed}
  BY <1>2 DEF PaneInv, StageInv, JobStage
<1>5. Own(JobLog, Reply(1))
  <2>1. /\ Ranged("LRANGE", JobLog, PageRange(0, LogLimit)).op \in KeyOps
        /\ Ranged("LRANGE", JobLog, PageRange(0, LogLimit)).cell = JobLog
    BY CommandsAre DEF KeyOps
  <2>2. QED
    BY <1>2, <1>4, <2>1, OneReply
<1>6. PICK hash, logs : hash = first /\ logs = Shown(Reply(1))
  OBVIOUS
<1>7. Shows(JobHash, hash)' /\ Shows(JobLog, logs)'
  <2>1. Shows(JobHash, hash) /\ Shows(JobLog, logs)
    BY <1>4, <1>5, <1>6, ShownIs DEF PaneInv
  <2>2. QED
    BY <1>3, <2>1, ShowsStays
<1>8. /\ DOMAIN cells = {"hash", "logs"} /\ cells["hash"] = hash /\ cells["logs"] = logs
      /\ Cell("job", "hash") = JobHash /\ Cell("job", "logs") = JobLog
  BY <1>1, <1>6 DEF JobHash, JobLog
<1>9. OwnRows(<<Row("job", cells)>>)'
  BY <1>7, <1>8, OneRow
<1>10. PICK rows : rows = <<Row("job", cells)>> /\ rows # <<>>
  BY SomeRow
<1>11. r.ok = TRUE /\ r.rows = rows /\ r.job = job
  BY <1>1, <1>10, ResultsAre DEF Rows, NoResult
<1>12. Durable(job)
  <2>1. JobHash \in DOMAIN held /\ first \in held[JobHash]
    BY <1>4 DEF Own
  <2>2. QED
    BY <1>1, <1>4, <2>1, DecodedIsDurable DEF PaneInv
<1>13. Return(r) /\ OwnRows(rows)' /\ Durable(r.job)
  BY <1>2, <1>9, <1>10, <1>11, <1>12
<1>14. QED
  BY <1>3, <1>4, <1>10, <1>11, <1>13, RowsReturned

\* The ids of a content are a sequence.
LEMMA IdsAre ==
  ASSUME NEW cell, NEW c \in Contents(cell)
  PROVE  Ids(c) \in Seq(ToSet(Ids(c)))
<1>1. CASE c = Gone
  <2>1. Ids(c) = <<>>
    BY <1>1 DEF Ids
  <2>2. <<>> \in Seq(ToSet(<<>>))
    OBVIOUS
  <2>3. QED
    BY <2>1, <2>2
<1>2. CASE c # Gone
  <2>1. PICK w \in 0..MaxChanges : \E type : c = Content(cell, type, w)
    BY <1>2, ContentsAre
  <2>2. c.write = w
    BY <2>1 DEF Content
  <2>3. PICK ids : ids = JobIds[w + 1]
    OBVIOUS
  <2>4. ids \in Seq(ToSet(ids))
    BY <2>3, WritesAssumption
  <2>5. Ids(c) = ids \/ Ids(c) = Reverse(ids)
    BY <1>2, <2>2, <2>3 DEF Ids
  <2>6. Reverse(ids) \in Seq(ToSet(ids))
    BY <2>4 DEF Reverse
  <2>7. QED
    BY <2>4, <2>5, <2>6, SeqOfItself
<1>3. QED
  BY <1>1, <1>2

\* What lies between the bounds of a page is the page.
LEMMA BetweenIs ==
  ASSUME NEW offset \in Size, NEW limit \in Size, NEW bounds, NEW c,
         bounds = PageRange(offset, limit), bounds # NoBounds,
         Ids(c) \in Seq(ToSet(Ids(c)))
  PROVE  Between(c, bounds) = SubSeq(Ids(c), offset + 1, Min({Len(Ids(c)), offset + limit}))
<1>1. PICK ids : ids = Ids(c) /\ ids \in Seq(ToSet(ids))
  OBVIOUS
<1>2. PICK n \in Nat : n = Len(ids)
  BY <1>1
<1>3. offset \in Nat /\ limit \in Nat
  BY WidthsAssumption DEF Size
<1>4. limit > 0
  BY <1>3, RefusalIsNeeded
<1>5. PICK found : found = Positions(bounds, n)
  OBVIOUS
<1>6. found = {p \in 0..(n - 1) : offset <= p /\ p < offset + limit}
  BY <1>5, RangeIsThePage
<1>7. Between(c, bounds) = IF found = {} THEN <<>> ELSE SubSeq(ids, Min(found) + 1, Max(found) + 1)
  BY <1>1, <1>2, <1>5 DEF Between
<1>8. PICK k : k = Min({n, offset + limit}) /\ k = IF n <= offset + limit THEN n ELSE offset + limit
  BY <1>3, MinOfTwo
<1>9. CASE found = {}
  <2>1. n <= offset
    BY <1>3, <1>4, <1>6, <1>9
  <2>2. k \in Nat /\ k < offset + 1
    BY <1>3, <1>8, <2>1
  <2>3. SubSeq(ids, offset + 1, k) = <<>>
    BY <1>1, <1>3, <2>2
  <2>4. QED
    BY <1>1, <1>2, <1>7, <1>8, <1>9, <2>3
<1>10. CASE found # {}
  <2>1. /\ found \subseteq Int /\ offset \in Int /\ n \in Int
        /\ \A x \in found : offset <= x
        /\ \A x \in found : x <= n
    BY <1>3, <1>6
  <2>2. offset \in found /\ k - 1 \in found /\ k \in Nat
    BY <1>3, <1>4, <1>6, <1>8, <1>10
  <2>3. Min(found) \in found /\ \A x \in found : Min(found) <= x
    BY <1>10, <2>1, MinIs, Zenon
  <2>4. Max(found) \in found /\ \A x \in found : x <= Max(found)
    BY <1>10, <2>1, MaxIs, Zenon
  <2>5. Min(found) = offset
    <3>1. Min(found) \in Int /\ offset <= Min(found) /\ Min(found) <= offset
      BY <2>1, <2>2, <2>3, Zenon
    <3>2. QED
      BY <1>3, <3>1
  <2>6. \A x \in found : x <= k - 1
    BY <1>3, <1>6, <1>8
  <2>7. Max(found) = k - 1
    <3>1. Max(found) \in Int /\ k - 1 <= Max(found) /\ Max(found) <= k - 1
      BY <2>1, <2>2, <2>4, <2>6, Zenon
    <3>2. QED
      BY <2>2, <3>1
  <2>8. Max(found) + 1 = k
    BY <2>2, <2>7
  <2>9. QED
    BY <1>1, <1>2, <1>7, <1>8, <1>10, <2>5, <2>8
<1>11. QED
  BY <1>9, <1>10

\* A page that was read is a page of what the state's key held.
LEMMA PageReturned ==
  ASSUME phase' = "done", result'.ok = TRUE, result'.rows = <<>>, result'.job = <<>>,
         ask' = ask, ask.read = "page", NEW cell, cell = PageCell(ask.state),
         NEW c \in held'[cell], c.type # "other",
         NEW page, result'.page = page, IsPage(page, c), ~NoPage(ask)
  PROVE  OutcomeInv'
<1>1. /\ PageCell(ask.state)' = cell /\ ask'.read = "page"
      /\ NoPage(ask)' = NoPage(ask) /\ IsPage(result.page, c)' = IsPage(page, c)
  BY DEF NoPage, IsPage
<1>2. PageIsThePage'
  BY <1>1 DEF PageIsThePage
<1>3. OwnRows(<<>>)' /\ Durable(result'.job)
  BY DEF OwnRows, Durable
<1>4. QED
  BY <1>2, <1>3, RowsFound

\* The page of a state has been read.
LEMMA FinishPageKeeps ==
  ASSUME PaneInv, FinishPage
  PROVE  PaneInv'
<1>1. PICK reply, page, r, cell :
        /\ reply = Reply(1) /\ page = Between(reply, batch[1].bounds)
        /\ r = [Rows(<<>>) EXCEPT !.page = page] /\ cell = PageCell(ask.state)
  OBVIOUS
<1>2. phase = "page" /\ Complete /\ Stays /\ Return(IF reply = Failed THEN Err ELSE r)
  BY <1>1 DEF FinishPage
<1>3. /\ WorldInv' /\ LossInv' /\ Grows
      /\ ask' = ask /\ held' = held /\ hurt' = hurt
  BY <1>2, StaysAll
<1>4. PICK offset, limit, bounds, cmd :
        /\ offset = ask.offset /\ limit = ask.limit /\ bounds = PageRange(offset, limit)
        /\ cmd = Ranged(RangeOp(ask.state), cell, bounds)
  OBVIOUS
<1>5. ask.read = "page" /\ batch = <<cmd>> /\ bounds # NoBounds
  BY <1>1, <1>2, <1>4 DEF PaneInv, StageInv, PageStage, PageBatch
<1>6. ask \in Asks /\ offset \in Size /\ limit \in Size
  BY <1>4, <1>5, AsksAre DEF PaneInv, WorldInv
<1>7. cmd.op \in KeyOps /\ cmd.cell = cell /\ cmd.bounds = bounds
  BY <1>4, CommandsAre DEF KeyOps, RangeOp
<1>8. Own(cell, reply)
  BY <1>1, <1>2, <1>5, <1>7, OneReply
<1>9. cell.part = "page" /\ Type(cell) = StateType(cell.owner)
  BY <1>1, PartsAre, TypesAre
<1>10. CASE reply = Failed
  <2>1. Essential(cell)
    BY <1>9 DEF Essential
  <2>2. QED
    BY <1>2, <1>3, <1>8, <1>10, <2>1, ReadIsRefused
<1>11. CASE reply # Failed
  <2>1. cell \in DOMAIN held /\ reply \in held[cell] /\ (reply = Gone \/ reply.type = Type(cell))
    BY <1>8, <1>9, <1>11 DEF Own
  <2>2. reply.type # "other"
    BY <1>9, <2>1 DEF Gone, StateType
  <2>3. reply \in Contents(cell)
    BY <2>1 DEF PaneInv, WorldInv
  <2>4. Ids(reply) \in Seq(ToSet(Ids(reply)))
    BY <2>3, IdsAre
  <2>5. page = SubSeq(Ids(reply), offset + 1, Min({Len(Ids(reply)), offset + limit}))
    <3>1. batch[1] = cmd
      BY <1>5
    <3>2. page = Between(reply, bounds)
      BY <1>1, <1>7, <3>1
    <3>3. bounds = PageRange(offset, limit) /\ bounds # NoBounds
      BY <1>4, <1>5
    <3>4. Between(reply, bounds)
            = SubSeq(Ids(reply), offset + 1, Min({Len(Ids(reply)), offset + limit}))
      BY <1>6, <2>4, <3>3, BetweenIs, Zenon
    <3>5. QED
      BY <3>2, <3>4, Zenon
  <2>6. IsPage(page, reply)
    BY <1>4, <2>5 DEF IsPage
  <2>7. Return(r)
    BY <1>2, <1>11
  <2>8. /\ phase' = "done" /\ result'.ok = TRUE /\ result'.rows = <<>> /\ result'.job = <<>>
        /\ result'.page = page
    BY <1>1, <2>7, ResultsAre DEF Return, Rows, NoResult
  <2>9. ~NoPage(ask)
    BY <1>4, <1>5, <1>6, RefusedPage
  <2>10. OutcomeInv'
    <3>1. reply \in held'[cell] /\ ask' = ask
      BY <1>3, <2>1
    <3>2. QED
      BY <1>1, <1>5, <2>2, <2>6, <2>8, <2>9, <3>1, PageReturned
  <2>11. QED
    BY <1>3, <2>7, <2>10, ReturnKeeps
<1>12. QED
  BY <1>10, <1>11

-----------------------------------------------------------------------------
(* The theorems                                                            *)

\* Nothing has been read yet.
LEMMA InitHolds ==
  ASSUME Init
  PROVE  PaneInv
<1>1. /\ ask \in Asks /\ clustered \in BOOLEAN /\ changes = 0 /\ hurt = {}
      /\ held = [cell \in CellsOf(ask) |-> {}]
      /\ phase = "begin" /\ batch = <<>> /\ answered = {} /\ replies = <<>> /\ result = NoResult
      /\ \A cell \in CellsOf(ask) : world[cell] \in Left(cell, 0)
  BY DEF Init
<1>2. WorldInv
  <2>1. 0 \in 0..MaxChanges
    BY LimitsAssumption
  <2>2. \A cell \in CellsOf(ask) : world[cell] \in Contents(cell) /\ held[cell] = {}
    BY <1>1, <2>1 DEF Contents
  <2>3. DOMAIN world = CellsOf(ask)
    BY DEF Init
  <2>4. DOMAIN held = CellsOf(ask)
    BY <1>1
  <2>5. QED
    BY <1>1, <2>1, <2>2, <2>3, <2>4 DEF WorldInv
<1>3. LossInv
  <2>1. IsFiniteSet({}) /\ Cardinality({}) = 0
    BY FS_EmptySet
  <2>2. QED
    BY <1>1, <2>1, LimitsAssumption DEF LossInv
<1>4. StageInv
  BY <1>1 DEF StageInv, Phases, ProbesStage, CellsStage, TypesStage, PageStage, JobStage,
              ClusterStage, ChannelsStage
<1>5. ReplyInv
  BY <1>1 DEF ReplyInv
<1>6. OutcomeInv
  <2>1. ~Done /\ Durable(result.job)
    BY <1>1, ResultsAre DEF Done, Durable
  <2>2. QED
    BY <1>1, <2>1 DEF OutcomeInv, PageIsThePage
<1>7. QED
  BY <1>2, <1>3, <1>4, <1>5, <1>6 DEF PaneInv

\* Every step of a read keeps the invariant.
LEMMA NextKeeps ==
  ASSUME PaneInv, Next
  PROVE  PaneInv'
<1>1. CASE Change
  BY <1>1, ChangeKeeps
<1>2. CASE Begin
  BY <1>2, BeginKeeps
<1>3. CASE Execute
  BY <1>3, ExecuteKeeps
<1>4. CASE Fail
  BY <1>4, FailKeeps
<1>5. CASE Misaligned
  BY <1>5, MisalignedKeeps
<1>6. CASE FinishProbes
  BY <1>6, FinishProbesKeeps
<1>7. CASE FinishTypes
  BY <1>7, FinishTypesKeeps
<1>8. CASE FinishCells
  BY <1>8, FinishCellsKeeps
<1>9. CASE FinishPage
  BY <1>9, FinishPageKeeps
<1>10. CASE FinishJob
  BY <1>10, FinishJobKeeps
<1>11. CASE FinishLogs
  BY <1>11, FinishLogsKeeps
<1>12. CASE FinishInfo
  BY <1>12, FinishInfoKeeps
<1>13. CASE FinishNodes
  BY <1>13, FinishNodesKeeps
<1>14. CASE FinishNames
  BY <1>14, FinishNamesKeeps
<1>15. CASE FinishCounts
  BY <1>15, FinishCountsKeeps
<1>16. QED
  BY <1>1, <1>2, <1>3, <1>4, <1>5, <1>6, <1>7, <1>8, <1>9, <1>10, <1>11, <1>12, <1>13,
     <1>14, <1>15 DEF Next

\* And so does a step of the history.
LEMMA RestKeeps ==
  ASSUME PaneInv, UNCHANGED vars
  PROVE  PaneInv'
<1>1. UNCHANGED <<ask, clustered, world, changes, held, phase, batch, answered, replies, first,
                  result, hurt>>
  BY DEF vars, askVars, worldVars, stageVars
<1>2. Grows
  BY <1>1 DEF Grows
<1>3. WorldInv' /\ LossInv'
  BY <1>1 DEF PaneInv, WorldInv, LossInv
<1>4. StageInv' /\ ReplyInv'
  BY <1>1, <1>2, StageStays, RepliesStay DEF PaneInv
<1>5. OutcomeInv'
  <2>1. OwnRows(result.rows)' <=> OwnRows(result.rows)
    BY <1>1 DEF OwnRows, RowIsOwn, Shows, Own, Refused
  <2>2. WantedAreKept' <=> WantedAreKept
    BY <1>1 DEF WantedAreKept, Refused
  <2>3. PageIsThePage' <=> PageIsThePage
    BY <1>1 DEF PageIsThePage, Done, NoPage, IsPage
  <2>4. QED
    BY <1>1, <2>1, <2>2, <2>3 DEF PaneInv, OutcomeInv, Done
<1>6. QED
  BY <1>3, <1>4, <1>5 DEF PaneInv

\* The invariant of the reads.
LEMMA PanesAreKept == TableSpec => []PaneInv
<1>1. TableInit => PaneInv
  BY InitHolds DEF TableInit
<1>2. PaneInv /\ [TableNext]_tableVars => PaneInv'
  <2>1. SUFFICES ASSUME PaneInv, [TableNext]_tableVars PROVE PaneInv'
    OBVIOUS
  <2>2. Next \/ UNCHANGED vars
    BY <2>1 DEF TableNext, Read, Graph, tableVars
  <2>3. QED
    BY <2>1, <2>2, NextKeeps, RestKeeps
<1>3. QED
  BY <1>1, <1>2, PTL DEF TableSpec

\* Nothing is read, sent or lost that is not of the read, and no duration overflows.
THEOREM TablesAreTyped == TableSpec => []TableTypeOK
<1>1. PaneInv => TypeOK
  <2>1. SUFFICES ASSUME PaneInv PROVE TypeOK
    OBVIOUS
  <2>2. /\ ask \in Asks /\ clustered \in BOOLEAN
        /\ DOMAIN world = CellsOf(ask) /\ DOMAIN held = CellsOf(ask) /\ changes \in 0..MaxChanges
        /\ \A cell \in CellsOf(ask) : {world[cell]} \cup held[cell] \subseteq Contents(cell)
    BY <2>1 DEF PaneInv, WorldInv
  <2>3. /\ answered \subseteq DOMAIN batch /\ DOMAIN replies \subseteq DOMAIN batch
        /\ Cardinality(hurt) <= MaxLost
    BY <2>1 DEF PaneInv, ReplyInv, LossInv
  <2>4. \A i \in DOMAIN result.job : {result.job[i].waited, result.job[i].ran} \subseteq Durations
    BY <2>1 DEF PaneInv, OutcomeInv, Durable
  <2>5. QED
    BY <2>2, <2>3, <2>4 DEF TypeOK
<1>2. QED
  BY <1>1, PanesAreKept, HistoryIsKept, WidthIsKept, PTL DEF TableTypeOK, SeriesInv

\* Whatever a pane shows in a cell was in that cell of the server, and of its type,
\* after the read began, for any number of queues, keys and channels, in one pipeline or
\* over a cluster, whatever else is written and whichever commands are lost meanwhile.
THEOREM CellsAreOwn == TableSpec => []CellsAreTheirOwn
<1>1. PaneInv => CellsAreTheirOwn
  <2>1. SUFFICES ASSUME PaneInv, Done PROVE CellsAreTheirOwn
    BY DEF CellsAreTheirOwn
  <2>2. CASE ~result.ok
    BY <2>1, <2>2 DEF PaneInv, OutcomeInv, CellsAreTheirOwn
  <2>3. CASE result.ok
    <3>1. /\ OwnRows(result.rows)
          /\ ask.read = "queues" => Queues = [i \in DOMAIN result.rows |-> result.rows[i].owner]
          /\ (ask.read = "job" /\ result.rows = <<>>) => Gone \in held[JobHash]
          /\ ask.read = "types" => WantedAreKept
      BY <2>1, <2>3 DEF PaneInv, OutcomeInv, OwnersAre
    <3>2. ASSUME NEW i \in DOMAIN result.rows, NEW p \in DOMAIN result.rows[i].cells,
                 NEW cell, cell = Cell(result.rows[i].owner, p),
                 NEW shown, shown = result.rows[i].cells[p]
          PROVE  IF p = "permit"
                 THEN \/ shown = "Available" /\ cell \in hurt
                      \/ \E c \in held[cell] : shown = Availability(cell.owner, c.type)
                 ELSE CASE shown = Gone -> Gone \in held[cell] \/ Refused(cell)
                        [] shown = Failed -> Refused(cell)
                        [] OTHER -> shown \in held[cell] /\ (p # "kind" => shown.type = Type(cell))
      <4>1. IF p = "permit"
            THEN \/ shown = "Available" /\ cell \in hurt
                 \/ \E c \in held[cell] : shown = Availability(cell.owner, c.type)
            ELSE Shows(cell, shown)
        BY <3>1, <3>2 DEF OwnRows, RowIsOwn
      <4>2. CASE p = "permit"
        BY <4>1, <4>2
      <4>3. CASE p # "permit" /\ shown = Gone
        <5>1. Gone # Failed
          BY DEF Gone, Failed
        <5>2. Gone \in held[cell] \/ Refused(cell)
          BY <4>1, <4>3, <5>1 DEF Shows, Own
        <5>3. QED
          BY <4>3, <5>1, <5>2
      <4>4. CASE p # "permit" /\ shown = Failed
        <5>1. Failed # Gone
          BY DEF Gone, Failed
        <5>2. Own(cell, Failed)
          BY <4>1, <4>4, <5>1 DEF Shows
        <5>3. Refused(cell)
          BY <2>1, <5>2, FailedIsRefused DEF PaneInv
        <5>4. QED
          BY <4>4, <5>1, <5>3
      <4>5. CASE p # "permit" /\ shown \notin {Failed, Gone}
        <5>1. cell.part = p
          BY <3>2, PartsAre
        <5>2. Own(cell, shown)
          BY <4>1, <4>5 DEF Shows
        <5>3. shown \in held[cell] /\ (p # "kind" => shown.type = Type(cell))
          BY <4>5, <5>1, <5>2 DEF Own
        <5>4. QED
          BY <4>5, <5>3
      <4>6. QED
        BY <4>2, <4>3, <4>4, <4>5
    <3>3. QED
      BY <2>3, <3>1, <3>2 DEF CellsAreTheirOwn
  <2>4. QED
    BY <2>2, <2>3
<1>2. QED
  BY <1>1, PanesAreKept, PTL

\* A page of jobs is the page asked for of what the state's key held, for every offset
\* and limit of the machine's integers.
THEOREM PagesAreThePage == TableSpec => []PageIsThePage
<1>1. PaneInv => PageIsThePage
  BY DEF PaneInv, OutcomeInv
<1>2. QED
  BY <1>1, PanesAreKept, PTL

=============================================================================
