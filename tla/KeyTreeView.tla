---------------------------- MODULE KeyTreeView ----------------------------
(***************************************************************************)
(* The key tree and the rows the App shows of it: KeyTree::rows, toggle,   *)
(* expand_all and collapse_all (keylens-ui/src/tree.rs) translated as they *)
(* recurse, and what App::apply, rebuild, handle_keys_view_key and         *)
(* collapse_or_parent (keylens/src/app.rs) do with rows and cursor.        *)
(* KeyTreeRows says without recursion what the rows should be.  Labels,    *)
(* depths, counts and types of a row are left out; the tree is compact, as *)
(* the App has it.  A key may end with the separator or hold it twice in a *)
(* row; one that begins with it does not get back its path in walk's rows  *)
(* (an empty prefix is taken for the root), and RowsAreOfTheTree would be  *)
(* false of it.                                                            *)
(***************************************************************************)
EXTENDS KeyTreeRows

CONSTANTS
  Universe,   \* the keys that may exist
  BatchSize,  \* bound: keys of a batch
  ExpandLimit \* the keys E still expands

ASSUME UniverseAssumption ==
  /\ Universe \subseteq Seq(Nat) \ {<<>>, <<Empty>>}
  /\ BatchSize \in Nat /\ ExpandLimit \in Nat

VARIABLES
  keys,     \* the keys of App.tree
  expanded, \* KeyTree.expanded
  rows,     \* App.rows
  selected  \* App.selected, from one

treeVars == <<keys, expanded, rows, selected>>

-----------------------------------------------------------------------------
(* tree.rs.                                                                *)

(* Mutant: a key does not stop the fold.                                   *)
FoldedThrough(ks, p) ==
  LET fold[q \in Nodes(ks)] ==
        IF Cardinality(Children(ks, q)) = 1
        THEN fold[CHOOSE c \in Children(ks, q) : TRUE] ELSE q
  IN  fold[p]

(* The chain of single children from p to the node that gets the row.      *)
Folded(ks, p) ==
  LET fold[q \in Nodes(ks)] ==
        IF q \notin ks /\ Cardinality(Children(ks, q)) = 1
        THEN fold[CHOOSE c \in Children(ks, q) : TRUE] ELSE q
  IN  fold[p]

EmptyText(text) == text \in {<<>>, <<Empty>>}
Join(prefix, segment) ==
  IF EmptyText(prefix) THEN <<segment>> ELSE Append(prefix, segment)

InOrder(nodes) == Ordered(nodes, {pq \in nodes \X nodes : Last(pq[1]) < Last(pq[2])})

(* The children of a node as walk lists them: what folds into a branch     *)
(* comes first, and partition keeps the order of the segments.             *)
Listed(ks, node) ==
  InOrder({c \in Children(ks, node) : IsBranch(ks, Folded(ks, c))})
    \o InOrder({c \in Children(ks, node) : ~IsBranch(ks, Folded(ks, c))})

(* The row of a child, and the rows below it if it is open.                *)
Emitted(ks, open, below, prefix, child) ==
  LET target == Folded(ks, child)
      path   == Join(prefix, Last(child)) \o SubSeq(target, Len(child) + 1, Len(target))
      opened == IsBranch(ks, target) /\ path \in open
  IN  <<[path |-> path, key |-> target \in ks, branch |-> IsBranch(ks, target), open |-> opened]>>
        \o (IF opened THEN below[target][path] ELSE <<>>)

Places(ks) == Nodes(ks) \cup {<<>>}

(* KeyTree::walk, for each node and the path it is called with.            *)
Walk(ks, open, node, prefix) ==
  LET walk[n \in Places(ks)] ==
        [p \in Seq(Nat) |->
           LET listed == Listed(ks, n)
           IN  FlattenSeq([i \in DOMAIN listed |-> Emitted(ks, open, walk, p, listed[i])])]
  IN  walk[node][prefix]

CollectBranches(ks, node, prefix) ==
  LET collect[n \in Places(ks)] ==
        [p \in Seq(Nat) |->
           UNION {LET path == Join(p, Last(c)) IN {path} \cup collect[c][path] :
                    c \in {d \in Children(ks, n) : IsBranch(ks, d)}}]
  IN  collect[node][prefix]

Toggled(path) ==
  IF path \notin Nodes(keys) \/ ~IsBranch(keys, path) THEN expanded
  ELSE IF path \in expanded THEN expanded \ {path} ELSE expanded \cup {path}

-----------------------------------------------------------------------------
(* app.rs.                                                                 *)

(* Mutant: the cursor stays on its line.                                   *)
RebuildInPlace(from) ==
  /\ rows' = Walk(keys', expanded', <<>>, <<>>)
  /\ selected' = IF from <= Len(rows') THEN from ELSE IF rows' = <<>> THEN 1 ELSE Len(rows')

(* Mutant: the cursor may be left behind the last row.                     *)
RebuildUnclamped(from) ==
  /\ rows' = Walk(keys', expanded', <<>>, <<>>)
  /\ LET same == {i \in DOMAIN rows' : from \in DOMAIN rows /\ rows'[i].path = rows[from].path}
     IN  selected' = IF same = {} THEN from ELSE CHOOSE i \in same : \A j \in same : i <= j

(* The cursor, coming from a row, goes to the first row of the same path.  *)
Rebuild(from) ==
  /\ rows' = Walk(keys', expanded', <<>>, <<>>)
  /\ LET same == {i \in DOMAIN rows' : from \in DOMAIN rows /\ rows'[i].path = rows[from].path}
         line == IF same = {} THEN from ELSE CHOOSE i \in same : \A j \in same : i <= j
     IN  selected' = IF line <= Len(rows') THEN line ELSE IF rows' = <<>> THEN 1 ELSE Len(rows')

Batches == {b \in SUBSET Universe : IsFiniteSet(b) /\ Cardinality(b) <= BatchSize}

(* Update::Batch; a reset looks for the path of what was the first row.    *)
AddBatch(batch) ==
  /\ keys' = keys \cup batch
  /\ UNCHANGED expanded
  /\ Rebuild(selected)
ResetTo(batch) ==
  /\ keys' = batch
  /\ UNCHANGED expanded
  /\ Rebuild(1)

OnRow     == selected \in DOMAIN rows
CursorRow == rows[selected]

(* Mutant: the rows are as before until the next batch.                    *)
EnterUnseen ==
  /\ OnRow /\ CursorRow.branch
  /\ expanded' = Toggled(CursorRow.path)
  /\ UNCHANGED <<keys, rows, selected>>

(* Enter, Space, Right or l on a branch; on a leaf they fetch the key.     *)
Enter ==
  /\ OnRow /\ CursorRow.branch
  /\ expanded' = Toggled(CursorRow.path)
  /\ UNCHANGED keys
  /\ Rebuild(selected)

(* collapse_or_parent *)
Left ==
  /\ OnRow
  /\ IF CursorRow.open
     THEN /\ expanded' = Toggled(CursorRow.path)
          /\ UNCHANGED keys
          /\ Rebuild(selected)
     ELSE /\ Len(CursorRow.path) > 1
          /\ LET parents == {i \in DOMAIN rows : rows[i].path = Front(CursorRow.path)}
             IN  /\ parents # {}
                 /\ selected' = CHOOSE i \in parents : \A j \in parents : i <= j
          /\ UNCHANGED <<keys, expanded, rows>>

ExpandAll ==
  /\ Cardinality(keys) <= ExpandLimit
  /\ expanded' = expanded \cup CollectBranches(keys, <<>>, <<>>)
  /\ UNCHANGED keys
  /\ Rebuild(selected)

CollapseAll ==
  /\ expanded' = {}
  /\ UNCHANGED keys
  /\ Rebuild(selected)

(* j, k, Page Up and Down, Home and End.                                   *)
MoveSelected ==
  /\ rows # <<>>
  /\ selected' \in {IF selected + d > Len(rows) THEN Len(rows)
                    ELSE IF selected + d < 1 THEN 1 ELSE selected + d :
                      d \in {1, 10}}
                   \cup {IF selected > d THEN selected - d ELSE 1 : d \in {1, 10}}
                   \cup {1, Len(rows)}
  /\ UNCHANGED <<keys, expanded, rows>>

TreeInit == keys = {} /\ expanded = {} /\ rows = <<>> /\ selected = 1

TreeNext ==
  \/ \E b \in Batches : AddBatch(b) \/ ResetTo(b)
  \/ Enter \/ Left \/ ExpandAll \/ CollapseAll \/ MoveSelected

TreeSpec == TreeInit /\ [][TreeNext]_treeVars

-----------------------------------------------------------------------------
(* Properties.                                                             *)

TreeTypeOK ==
  /\ keys \subseteq Universe /\ expanded \subseteq Seq(Nat)
  /\ selected \in Nat \ {0}
  /\ rows # <<>> => selected \in DOMAIN rows

(* Whatever was inserted, expanded and collapsed in whatever order, the    *)
(* rows on the screen are those of the tree as it is: each branch above    *)
(* its own, branches before leaves, a chain without a choice in one row    *)
(* (KeyTree::walk, and a rebuild after each change).                       *)
RowsAreOfTheTree == rows = Rows(keys, expanded)

(* What it needs for every set of keys: none begins with the separator.    *)
NoLeadingSeparator == \A k \in Universe : Head(k) # Empty

(* With every branch expanded each key has exactly one row, which fetches  *)
(* it (KeyTree::expand_all, Row.path).                                     *)
EveryKeyHasItsRow ==
  CollectBranches(keys, <<>>, <<>>) \subseteq expanded =>
    \A k \in keys : \E i \in DOMAIN rows :
      /\ rows[i].key /\ rows[i].path = k
      /\ \A j \in DOMAIN rows : rows[j].path = k => j = i

(* A batch that arrives while the user reads does not move the cursor off  *)
(* its row as long as the row is there (App::rebuild: "keeping the cursor  *)
(* on the same path where possible").                                      *)
BatchKeepsCursor ==
  [][ \A b \in Batches :
        AddBatch(b) /\ OnRow /\ (\E i \in DOMAIN rows' : rows'[i].path = CursorRow.path)
          => rows'[selected'].path = CursorRow.path ]_treeVars

=============================================================================
