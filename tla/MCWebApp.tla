------------------------------ MODULE MCWebApp ------------------------------
(* Model values and symmetry for the TLC runs of WebApp. *)
EXTENDS WebApp, TLC

CONSTANTS k1, k2, k3, blank, t1, t2

TwoKeys == {k1, k2}
ThreeKeys == {k1, k2, k3}
MCTexts == {blank, t1, t2}

Symmetry == Permutations({k1, k2, k3} \cap Keys) \cup Permutations({t1, t2})

=============================================================================
