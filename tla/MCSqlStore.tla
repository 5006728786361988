----------------------------- MODULE MCSqlStore -----------------------------
(* Model values and symmetry for the TLC runs of SqlStore. *)
EXTENDS SqlStore, TLC

CONSTANTS p1, p2, k1, k2, b1, b2

MCProcs == {p1, p2}
MCKeys == {k1, k2}
MCBodies == {b1, b2}
MCExpires == {0, 2}

Symmetry ==
    Permutations(MCProcs) \cup Permutations(MCKeys) \cup Permutations(MCBodies)

=============================================================================
