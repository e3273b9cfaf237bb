------------------------- MODULE MC_SentinelMasters -------------------------
(* Three sentinels (majority two), two groups, two addresses and two      *)
(* epochs: enough for a stale sentinel to report an older master, for two  *)
(* sentinels to disagree at the same epoch, and for one or two to fail.    *)
EXTENDS SentinelMasters, TLC

CONSTANTS s1, s2, s3, g1, g2, a1, a2

MCSentinels == {s1, s2, s3}
MCGroups    == {g1, g2}
MCAddrs     == {a1, a2}
MCEpochs    == {1, 2}
=============================================================================
