----------------------------- MODULE HAReactorH -----------------------------
(***************************************************************************)
(* HAReactor with a history variable: promotedSinceFetch records that an  *)
(* operator GroupPromoteServer ran after the fetcher's last successful     *)
(* Masters call.  It is set by the promotion, cleared by a fetch that      *)
(* returns an answer, and left alone by every other step, so it does not   *)
(* constrain the reactor: every behaviour of HAReactor is one of this      *)
(* module with the history added.                                          *)
(***************************************************************************)
EXTENDS HAReactor

VARIABLES
  promotedSinceFetch  \* a promotion ran after the masters map was fetched

varsH == <<vars, promotedSinceFetch>>

InitH ==
  /\ Init
  /\ promotedSinceFetch = FALSE

NextH ==
  \/ OperatorPromote /\ promotedSinceFetch' = TRUE
  \/ /\ FetchMasters
     /\ promotedSinceFetch' = (fetch' # "apply" /\ promotedSinceFetch)
  \/ /\ \/ Failover \/ Subscribed \/ SubscribeFails \/ SubscribeRetry
        \/ TakeTrigger \/ ApplyMasters \/ ApplyOrphan \/ ResyncSentinels
     /\ UNCHANGED promotedSinceFetch

SpecH == InitH /\ [][NextH]_varsH

\* Spec 5(3): switchMasters takes s.mutex, so it cannot race with an
\* operator handler.  The fetcher's switchMasters never changes the
\* dashboard master on the strength of a masters map fetched before an
\* operator promotion that has since run: it never undoes the promotion.
ReactorKeepsPromotion ==
  [][ApplyMasters /\ promotedSinceFetch => dashMaster' = dashMaster]_varsH
=============================================================================
