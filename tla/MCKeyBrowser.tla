---------------------------- MODULE MCKeyBrowser ----------------------------
(* KeyBrowser with two interchangeable keys: a selection, and the one it   *)
(* supersedes.                                                             *)
EXTENDS KeyBrowser, TLC

CONSTANTS k1, k2

KeySymmetry == Permutations({k1, k2})

=============================================================================
