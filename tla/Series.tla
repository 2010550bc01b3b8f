------------------------------- MODULE Series -------------------------------
(***************************************************************************)
(* The rolling per-second history of one queue's events: Series::record,   *)
(* window and rate (lenses/keylens-bullmq/src/events.rs).  Of the counters *)
(* of a bucket only the total is kept; completed, failed and added are     *)
(* counted beside it in the same bucket.                                   *)
(***************************************************************************)
EXTENDS Integers, Sequences, SequencesExt, FiniteSetsExt

CONSTANTS
  Seconds,    \* the seconds events may carry
  WindowSecs, \* WINDOW_SECS
  MaxOffered  \* bound: events offered of one second

VARIABLES
  buckets, \* Series.buckets
  offered  \* history: the events ever offered of each second

vars == <<buckets, offered>>

Bucket(second, total) == [second |-> second, total |-> total]

(* The last bucket that is not after the second, zero without one.         *)
Position(second) ==
  Max({0} \cup {i \in 1 .. Len(buckets) : buckets[i].second <= second})

Placed(second) ==
  LET i == Position(second)
  IN  IF i > 0 /\ buckets[i].second = second
      THEN [buckets EXCEPT ![i].total = @ + 1]
      ELSE InsertAt(buckets, i + 1, Bucket(second, 1))

(* pop_front until WINDOW_SECS are left.                                   *)
Trimmed(bs) ==
  IF Len(bs) > WindowSecs THEN SubSeq(bs, Len(bs) - WindowSecs + 1, Len(bs)) ELSE bs

Newest(second) == IF buckets = <<>> THEN second ELSE Last(buckets).second

(* Mutant: the events of the oldest second of the window are dropped.      *)
RecordYounger(second) ==
  /\ offered[second] < MaxOffered
  /\ buckets' = IF second + WindowSecs <= Newest(second) + 1 /\ buckets # <<>>
                THEN buckets ELSE Trimmed(Placed(second))
  /\ offered' = [offered EXCEPT ![second] = @ + 1]

Record(second) ==
  /\ offered[second] < MaxOffered
  /\ buckets' = IF second + WindowSecs <= Newest(second)
                THEN buckets ELSE Trimmed(Placed(second))
  /\ offered' = [offered EXCEPT ![second] = @ + 1]

Init == buckets = <<>> /\ offered = [s \in Seconds |-> 0]
Next == \E s \in Seconds : Record(s)
Spec == Init /\ [][Next]_vars

-----------------------------------------------------------------------------
(* What the queue table draws.                                             *)

TotalAt(second) ==
  LET here == {i \in 1 .. Len(buckets) : buckets[i].second = second}
  IN  IF here = {} THEN 0 ELSE buckets[Max(here)].total

Window(now, width) == [i \in 1 .. width |-> TotalAt(now - width + i)]

(* rate times secs.                                                        *)
EventsOver(now, secs) ==
  MapThenSumSet(LAMBDA i : buckets[i].total,
    {i \in 1 .. Len(buckets) : buckets[i].second \in now - secs + 1 .. now})

-----------------------------------------------------------------------------
(* Properties.                                                             *)

\* The buckets are in the order of time, one to a second, so that the newest is the
\* last (record inserts out of order events), and no more than the window holds.
TypeOK ==
  /\ buckets \in Seq([second : Seconds, total : Nat \ {0}])
  /\ Len(buckets) <= WindowSecs
  /\ \A i, j \in 1 .. Len(buckets) : i < j => buckets[i].second < buckets[j].second
  /\ offered \in [Seconds -> 0 .. MaxOffered]

Offered(second) == IF second \in Seconds THEN offered[second] ELSE 0

\* The clock of the screen, before, at and after the newest event.
Clock == Seconds \cup {s + WindowSecs : s \in Seconds}

\* The graph shows, second by second, every event ever offered, in whatever order
\* they came and whether the clock of the screen is behind the newest of them or
\* ahead, where it is flat, and a rate counts all of them: what is dropped or pushed
\* out has "fallen out of the window" of the newest event "entirely".
WindowIsHistory ==
  buckets # <<>> =>
    LET newest == Last(buckets).second
    IN  \A now \in Clock, width \in 1 .. WindowSecs :
          /\ \A i \in 1 .. width :
               now - width + i > newest - WindowSecs
                 => Window(now, width)[i] = Offered(now - width + i)
          /\ now >= newest =>
               EventsOver(now, width) = MapThenSumSet(Offered, now - width + 1 .. now)

=============================================================================
