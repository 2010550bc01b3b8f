---------------------------- MODULE KeyTreeRows ----------------------------
(***************************************************************************)
(* What the rows of the key tree should be, as a function of the keys in   *)
(* it and of the paths expanded: the specification KeyTreeView's           *)
(* translation of keylens-ui/src/tree.rs is checked against.               *)
(*                                                                         *)
(* A key is the sequence of its segments: splitting on ':' and joining     *)
(* with ':' are inverse to each other on non-empty strings, so a path is   *)
(* the sequence of segments its text splits into.  Segments are naturals   *)
(* in their lexicographic order, and Empty is the empty one.  A node of    *)
(* the trie is a non-empty prefix of a key.  Nothing here is recursive:    *)
(* what the walk emits is characterised by sets of nodes.                  *)
(***************************************************************************)
EXTENDS Naturals, Sequences, SequencesExt, FiniteSets

Empty == 0

Nodes(keys) == UNION {{SubSeq(k, 1, n) : n \in 1 .. Len(k)} : k \in keys}

Children(keys, p) ==
  {q \in Nodes(keys) : Len(q) = Len(p) + 1 /\ IsPrefix(p, q)}

IsBranch(keys, p) == Children(keys, p) # {}

(* The nodes with a row: a chain of single children folds into its last    *)
(* node, or into the first that is a key.                                  *)
RowNodes(keys) == {p \in Nodes(keys) : p \in keys \/ Cardinality(Children(keys, p)) # 1}

Above(keys, p) == {q \in RowNodes(keys) : IsStrictPrefix(q, p)}

(* A row shows when every row above it is expanded.                        *)
Shown(keys, expanded) == {p \in RowNodes(keys) : Above(keys, p) \subseteq expanded}

-----------------------------------------------------------------------------
(* Order of the rows.                                                      *)

(* A set in a strict order, as pairs: each element comes after those       *)
(* before it.                                                              *)
Ordered(S, before) ==
  [i \in 1 .. Cardinality(S) |->
     CHOOSE p \in S : Cardinality({q \in S : <<q, p>> \in before}) = i - 1]

(* The row of p's line of descent on the level where it parts from q's.    *)
Parting(keys, p, q) ==
  CHOOSE r \in Above(keys, p) \cup {p} :
    /\ ~IsPrefix(r, q)
    /\ \A s \in Above(keys, p) : IsStrictPrefix(s, r) => IsPrefix(s, q)

LexBefore(p, q) ==
  \E i \in DOMAIN p \cap DOMAIN q :
    /\ p[i] < q[i]
    /\ \A j \in 1 .. i - 1 : p[j] = q[j]

(* Parents first; on one level branches before leaves, each in order.      *)
RowBefore(keys, p, q) ==
  \/ IsStrictPrefix(p, q)
  \/ /\ ~IsPrefix(q, p)
     /\ LET a == Parting(keys, p, q)
            b == Parting(keys, q, p)
        IN  \/ IsBranch(keys, a) /\ ~IsBranch(keys, b)
            \/ (IsBranch(keys, a) <=> IsBranch(keys, b)) /\ LexBefore(a, b)

RowOf(keys, expanded, p) ==
  [path |-> p, key |-> p \in keys, branch |-> IsBranch(keys, p),
   open |-> IsBranch(keys, p) /\ p \in expanded]

Rows(keys, expanded) ==
  LET shown  == Shown(keys, expanded)
      sorted == Ordered(shown, {pq \in shown \X shown : RowBefore(keys, pq[1], pq[2])})
  IN  [i \in DOMAIN sorted |-> RowOf(keys, expanded, sorted[i])]

=============================================================================
