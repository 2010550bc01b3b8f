----------------------------- MODULE QueueTable -----------------------------
(***************************************************************************)
(* What the queue table is drawn from: the counts that are read            *)
(* (PaneReads), the history of the events (Series), and the columns that   *)
(* fit in the pane (layout, queues.rs).                                    *)
(***************************************************************************)
EXTENDS PaneReads

CONSTANTS
  Seconds, WindowSecs, MaxOffered, \* of Series
  Widths,             \* the widths of the pane
  MinName, MaxName,   \* what the width of the name column is clamped to
  StatusW, Col, RateW, \* the widths of the status, a count and the rate
  RequiredCols, OptionalCols, \* how many counts are always shown, and only if they fit
  SparkMin, SparkMax  \* bounds of the graph

ASSUME SeriesAssumption ==
  /\ Seconds \subseteq Int
  /\ WindowSecs \in Nat \ {0} /\ MaxOffered \in Nat

ASSUME LayoutAssumption ==
  /\ Widths \subseteq Nat /\ {MinName, MaxName, StatusW, Col, RateW} \subseteq Nat
  /\ {RequiredCols, OptionalCols, SparkMin, SparkMax} \subseteq Nat \ {0}
  /\ MinName <= MaxName /\ SparkMin <= SparkMax /\ SparkMax <= WindowSecs

VARIABLES buckets, offered, \* of Series
          width             \* the width of the pane

Events == INSTANCE Series

tableVars == <<vars, buckets, offered, width>>

-----------------------------------------------------------------------------
(* The layout *)

\* The longest name is clamped, and keeps a gap to the status.
NameW(longest) == Min({Max({longest, MinName}), MaxName}) + 2
Used(nameW) == 2 + nameW + StatusW + RequiredCols * Col

(* Mutant: one more column is shown than fits.                             *)
ColumnsOneMore(nameW) ==
  Min({k \in 0..OptionalCols : k = OptionalCols \/ Used(nameW) + k * Col > width})

\* Optional columns are added until the first that does not fit.
Columns(nameW) ==
  Min({k \in 0..OptionalCols : k = OptionalCols \/ Used(nameW) + (k + 1) * Col > width})

\* What is left for the graph, beside its gap and the rate.
Spare(nameW) == width - (Used(nameW) + Columns(nameW) * Col + 2 + RateW)
SparkW(nameW) == IF Spare(nameW) >= SparkMin THEN Min({Spare(nameW), SparkMax}) ELSE 0

RowW(nameW) ==
  Used(nameW) + Columns(nameW) * Col
    + (IF SparkW(nameW) > 0 THEN 2 + SparkW(nameW) + RateW ELSE 0)

-----------------------------------------------------------------------------

TableInit == Init /\ Events!Init /\ width \in Widths
Read == Next /\ UNCHANGED <<buckets, offered, width>>
Graph == Events!Next /\ UNCHANGED <<vars, width>>
TableNext == Read \/ Graph
TableSpec == TableInit /\ [][TableNext]_tableVars

-----------------------------------------------------------------------------
(* Properties *)

\* The read, the history (one bucket to a second, in order) and the width.
TableTypeOK == TypeOK /\ Events!TypeOK /\ width \in Widths

\* The graph of any width shows every event offered, see Series.
GraphIsHistory == Events!WindowIsHistory

\* Whatever the names are, a row with its graph is never wider than a pane that the
\* required columns fit in, so that nothing is clipped off its right end, and a graph
\* is never smaller than its least size and reaches no further back than the history.
\* It leaves open what goes in a pane too narrow for all: layout keeps the optional
\* columns and drops the graph, its comment and the README have it the other way round.
TableFits ==
  \A longest \in 0..(MaxName + 1) :
    LET nameW == NameW(longest)
    IN /\ RowW(nameW) <= width \/ RowW(nameW) = Used(nameW)
       /\ SparkW(nameW) \in {0} \cup SparkMin..WindowSecs

=============================================================================
