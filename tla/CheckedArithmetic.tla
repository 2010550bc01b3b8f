-------------------------- MODULE CheckedArithmetic --------------------------
(***************************************************************************)
(* The arithmetic at the edges of the machine's integers: the bounds of a  *)
(* page, which Redis would take for something else if they were negative,  *)
(* and the time between two stamps that anybody may have written.          *)
(*                                                                         *)
(* An Option is the set of its value: empty, or with one element.          *)
(***************************************************************************)
EXTENDS Integers

CONSTANTS MaxInt,  \* i64::MAX
          MaxSize, \* usize::MAX
          Page     \* PAGE_BOUND, the entries of a page of the value pane

ASSUME WidthsAssumption ==
  /\ MaxInt \in Nat \ {0} /\ MaxSize = 2 * MaxInt + 1
  /\ Page \in 1..MaxInt

I64 == -(MaxInt + 1)..MaxInt
Size == 0..MaxSize

-----------------------------------------------------------------------------
(* Pages *)

\* The inclusive bounds of a page, and no bounds.
Bounds(start, stop) == [start |-> start, stop |-> stop]
NoBounds == Bounds(-1, -1)

(* Mutant: the bounds are cast, so that large ones turn negative.          *)
Cast(n) == ((n + MaxInt + 1) % (2 * (MaxInt + 1))) - (MaxInt + 1)
PageRangeCast(offset, limit) ==
  IF limit = 0 THEN NoBounds ELSE Bounds(Cast(offset), Cast(offset + limit - 1))

\* limit - 1 is subtracted first, and every step is checked.
PageRange(offset, limit) ==
  IF limit # 0 /\ {offset, limit, offset + (limit - 1)} \subseteq I64
  THEN Bounds(offset, offset + (limit - 1)) ELSE NoBounds

PageBounds(offset) ==
  IF {offset, offset + (Page - 1)} \subseteq I64
  THEN Bounds(offset, offset + (Page - 1)) ELSE NoBounds

\* The positions, from 0, that LRANGE, ZRANGE or ZREVRANGE returns of a collection:
\* a negative bound counts from its end.
FromEnd(bound, length) == IF bound < 0 THEN length + bound ELSE bound
Positions(bounds, length) ==
  {p \in 0..(length - 1) :
     FromEnd(bounds.start, length) <= p /\ p <= FromEnd(bounds.stop, length)}

-----------------------------------------------------------------------------
(* Time *)

(* Mutant: a difference that does not fit wraps around.                    *)
ElapsedWrapping(from, to) ==
  {Cast(d) : d \in {e \in {b - a : a \in from, b \in to} : e >= 0}}

\* Between two stamps, when there are both, in this order, and not too far apart.
Elapsed(from, to) == {d \in {b - a : a \in from, b \in to} : d >= 0 /\ d \in I64}

=============================================================================
