---------------------------- MODULE MC_HAReactorH ----------------------------
(* The reactor with the promotion history, on the bounds of MC_HAReactor.  *)
EXTENDS HAReactorH

CONSTANTS a1, a2

MCAddrs == {a1, a2}
=============================================================================
