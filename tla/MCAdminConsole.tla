--------------------------- MODULE MCAdminConsole ---------------------------
(* Model values for the TLC runs of AdminConsole. *)
EXTENDS AdminConsole

CONSTANTS about, k1

MCKeys == {about, k1}
MCFilters == {MCKeys, {about}}

=============================================================================
