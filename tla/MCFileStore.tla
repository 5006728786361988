---------------------------- MODULE MCFileStore ----------------------------
(* Model values for the TLC runs of FileStore. *)
EXTENDS FileStore, TLC

CONSTANTS p1, p2, k1, k2, b1, b2

MCProcs == {p1, p2}
MCKeys == {k1, k2}
MCBodies == {b1, b2}

Symmetry ==
    Permutations(MCProcs) \cup Permutations(MCKeys) \cup Permutations(MCBodies)

=============================================================================
