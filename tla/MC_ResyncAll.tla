---------------------------- MODULE MC_ResyncAll ----------------------------
(* Two groups: one may resync while the loop visits the other.            *)
EXTENDS ResyncAll

CONSTANTS g1, g2

MCGroups == {g1, g2}
=============================================================================
