---------------------------- MODULE MC_HAReactor ----------------------------
(* One group with servers a1 and a2; the fetcher's ten attempts as in the  *)
(* code; two failovers and two operator calls.                             *)
EXTENDS HAReactor

CONSTANTS a1, a2

MCAddrs == {a1, a2}
=============================================================================
