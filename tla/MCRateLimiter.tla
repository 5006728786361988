--------------------------- MODULE MCRateLimiter ---------------------------
(* Model values for the TLC run of RateLimiter. *)
EXTENDS RateLimiter, TLC

CONSTANTS p1, p2, i1, i2

MCProcs == {p1, p2}
MCIPs == {i1, i2}
MCSizes == {1}

Symmetry == Permutations(MCProcs) \cup Permutations(MCIPs)

=============================================================================
