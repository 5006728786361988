--------------------------- MODULE MCPasteService ---------------------------
(* Model values for the TLC runs of PasteService. *)
EXTENDS PasteService, TLC

CONSTANTS main, h1, h2, k1, k2, about, text, b1

OneHandler == {main, h1}
TwoHandlers == {main, h1, h2}
MCKeys == {about, k1}
MoreKeys == {about, k1, k2}
MCDrawn == {k1}
MoreDrawn == {k1, k2}
OneBody == {text}
MCBodies == {text, b1}
MCTexts == {b1}
NoExpiry == {0}
OneExpiry == {1}
TwoTicks == {2}

Symmetry == Permutations({h1, h2})

=============================================================================
