---------------------------- MODULE MCDetailRead ----------------------------
EXTENDS DetailRead, TLC

\* One type read through GETRANGE, one through a cursor, and the one with groups.
MCKinds == <<"string", "hash", "stream">>
CONSTANTS g, h
MCSymmetry == Permutations({g, h})

\* What the commands about groups do depends on what was read of the key and not on
\* how: they are followed where no command of the read failed.
OneFailingPart == Inspecting => refused = {} /\ lost = 0
=============================================================================
