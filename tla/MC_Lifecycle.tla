---------------------------- MODULE MC_Lifecycle ----------------------------
(* Two dashboards configured for the same product.                        *)
EXTENDS Lifecycle

CONSTANTS d1, d2

MCDashboards == {d1, d2}
=============================================================================
