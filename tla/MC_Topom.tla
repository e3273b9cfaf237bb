---------------------------- MODULE MC_Topom ----------------------------
(* Instantiates Topom for TLC: two groups, three server addresses, one    *)
(* address r1 a sentinel may report that shares the run-id of a2 (an     *)
(* address reused after a failover), one sentinel.                         *)
EXTENDS Topom, TLC

CONSTANTS g1, g2, a1, a2, a3, r1, s1

MCGroups      == {g1, g2}
MCOneGroup    == {g1}
MCAddrs       == {a1, a2, a3}
MCTwoAddrs    == {a1, a2}
MCTwoReports  == {a1, a2, r1}
MCTwoRunId    == (a1 :> 1) @@ (a2 :> 2) @@ (r1 :> 2)
MCReportAddrs == {a1, a2, a3, r1}
MCSentinels   == {s1}
MCRunId       == (a1 :> 1) @@ (a2 :> 2) @@ (a3 :> 3) @@ (r1 :> 2)

GroupSymmetry == Permutations(MCGroups)

\* lg, laddr and reported are locals of the running handler: every handler
\* assigns them before it reads them, so states that differ only in them
\* while the lock is free behave alike.
Locals == IF pc = "Idle" THEN <<>> ELSE <<lg, laddr, reported>>

StateView == <<store, cache, sstore, scache, watched, haMasters, syncFailed,
               pc, pending, up, crashes, Locals>>
=============================================================================
