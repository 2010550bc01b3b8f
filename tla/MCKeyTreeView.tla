--------------------------- MODULE MCKeyTreeView ---------------------------
(* KeyTreeView over keys that are also branches, chains that fold and      *)
(* unfold, and an empty last or middle segment.                            *)
EXTENDS KeyTreeView

MCKeys == {<<1>>, <<1, 2, 1>>, <<1, 0>>, <<2, 1, 1>>, <<2, 1, 2>>, <<2, 0, 1>>}

=============================================================================
