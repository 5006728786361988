---------------------------- MODULE MCAdminAuth ----------------------------
(* Model values and symmetry for the TLC runs of AdminAuth. *)
EXTENDS AdminAuth, TLC

CONSTANTS p1, p2, b1, b2, alice, bob

OneProc == {p1}
MCProcs == {p1, p2}
OneBrowser == {b1}
MCBrowsers == {b1, b2}
MCUsers == {alice, bob}
MCAdmins == {alice}
Local == [oidc |-> FALSE, rpLogout |-> FALSE]
OidcWithLogout == [oidc |-> TRUE, rpLogout |-> TRUE]
OidcOnly == {OidcWithLogout}
BothModes == {Local, OidcWithLogout}

Symmetry == Permutations(MCProcs) \cup Permutations(MCBrowsers)

=============================================================================
