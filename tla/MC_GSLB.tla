------------------------------- MODULE MC_GSLB -------------------------------
(* The two supported GSLBs and two load-balancer addresses: enough for a   *)
(* GSLB to gain and lose a server, and for lvs to be added before haproxy  *)
(* and copy its record.                                                    *)
EXTENDS GSLB

CONSTANTS h1, h2

MCNames == {"haproxy", "lvs"}
MCLBs   == {h1, h2}
=============================================================================
