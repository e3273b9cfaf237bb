------------------------------ MODULE HAReactor ------------------------------
(***************************************************************************)
(* The HA reactor of reWatchSentinels (topom/sentinel.go) for one group    *)
(* of two servers, against the sentinels and the operator.                 *)
(*                                                                         *)
(* reWatchSentinels cancels the previous monitor and starts two            *)
(* goroutines: the subscriber loops on Subscribe(servers, 15m, callback),  *)
(* calling callback (a non-blocking send on the one-slot trigger channel)  *)
(* when a majority has subscribed and when Subscribe returns true after a  *)
(* +switch-master; on false it waits 10s.  The fetcher, for each trigger,  *)
(* calls Masters up to ten times until two succeed, 5s apart, and applies  *)
(* each answer with switchMasters under s.mutex, checking IsCanceled only  *)
(* before it waits for the lock.                                           *)
(*                                                                         *)
(* The sentinels monitor the group (monitored) with master sentMaster; a   *)
(* failover moves it to the other server and is published to the          *)
(* subscribed connections.  The operator's GroupPromoteServer swaps the    *)
(* dashboard master and removes the group from the sentinels              *)
(* (RemoveGroups, whose failure is only logged); ResyncSentinels          *)
(* re-monitors the dashboard master (MonitorGroups may fail on some        *)
(* sentinels) and, when it succeeds, calls reWatchSentinels.               *)
(***************************************************************************)
EXTENDS Naturals, Bags

CONSTANTS
  Addrs,         \* the group's two servers
  None,          \* no master reported for the group
  MaxTries,      \* the fetcher's attempts per trigger (10 in the code)
  MaxFailovers,  \* bound on sentinel failovers
  MaxOps         \* bound on operator promotions and sentinel resyncs

ASSUME MaxTries \in Nat \ {0} /\ MaxFailovers \in Nat /\ MaxOps \in Nat

VARIABLES
  dashMaster,  \* servers[0] of the group in the dashboard
  monitored,   \* the sentinels monitor the group
  sentMaster,  \* the master the sentinels hold for it
  failovers,   \* failovers so far
  ops,         \* operator calls so far
  sub,         \* subscriber: "subscribing", "subscribed" or "delay"
  trigger,     \* a value waits in the trigger channel
  fetch,       \* fetcher: "wait" (for range trigger), "fetch" or "apply"
  tries,       \* loop index i of the fetcher
  wins,        \* successful Masters calls of this round
  fetched,     \* the master of the group in the fetched masters map
  orphans      \* bag of masters fetched by canceled fetchers past IsCanceled

vars == <<dashMaster, monitored, sentMaster, failovers, ops, sub, trigger,
          fetch, tries, wins, fetched, orphans>>
sentinelVars == <<monitored, sentMaster, failovers>>
fetchVars    == <<fetch, tries, wins, fetched, orphans>>

Other(a) == CHOOSE b \in Addrs : b # a

(***************************************************************************)
(* Sentinels                                                               *)
(***************************************************************************)
\* a failover; a subscribed worker sees +switch-master of this product and
\* Subscribe returns true, the loop calls callback() and subscribes again.
\* Before the majority has subscribed, a worker that already has may see it.
Failover ==
  /\ monitored /\ failovers < MaxFailovers
  /\ sentMaster' = Other(sentMaster)
  /\ failovers' = failovers + 1
  /\ \/ sub \in {"subscribed", "subscribing"}
        /\ sub' = "subscribing" /\ trigger' = TRUE
     \/ sub # "subscribed" /\ UNCHANGED <<sub, trigger>>
  /\ UNCHANGED <<monitored, dashMaster, ops, fetchVars>>

(***************************************************************************)
(* Subscriber goroutine                                                    *)
(***************************************************************************)
\* mutant: onMajoritySubscribed is not passed the callback
SubscribedNoCallback ==
  /\ sub = "subscribing"
  /\ sub' = "subscribed"
  /\ UNCHANGED <<trigger, dashMaster, ops, sentinelVars, fetchVars>>

\* the counter of subscribed workers reaches the majority: callback()
Subscribed ==
  /\ sub = "subscribing"
  /\ sub' = "subscribed"
  /\ trigger' = TRUE
  /\ UNCHANGED <<dashMaster, ops, sentinelVars, fetchVars>>

\* Subscribe returns false: lost majority or the 15 minute deadline
SubscribeFails ==
  /\ sub \in {"subscribing", "subscribed"}
  /\ sub' = "delay"
  /\ UNCHANGED <<trigger, dashMaster, ops, sentinelVars, fetchVars>>

\* delayUntil(retryAt) has passed
SubscribeRetry ==
  /\ sub = "delay"
  /\ sub' = "subscribing"
  /\ UNCHANGED <<trigger, dashMaster, ops, sentinelVars, fetchVars>>

(***************************************************************************)
(* Fetcher goroutine                                                       *)
(***************************************************************************)
\* for range trigger
TakeTrigger ==
  /\ fetch = "wait" /\ trigger
  /\ trigger' = FALSE
  /\ fetch' = "fetch" /\ tries' = 0 /\ wins' = 0
  /\ UNCHANGED <<fetched, orphans, dashMaster, ops, sub, sentinelVars>>

\* the loop goes on while i != 10 and success != 2
NextRound(i, w) == IF i = MaxTries \/ w = 2 THEN "wait" ELSE "fetch"

\* mutant: the loop index is not bounded by ten
FetchMastersUnbounded ==
  /\ fetch = "fetch"
  /\ \/ tries' = tries + 1 /\ fetch' = "fetch" /\ UNCHANGED fetched
     \/ fetched' = (IF monitored THEN sentMaster ELSE None)
        /\ fetch' = "apply" /\ UNCHANGED tries
  /\ UNCHANGED <<wins, orphans, dashMaster, ops, sub, trigger, sentinelVars>>

\* Masters(servers, 5s): an error ends this iteration; an answer holds the
\* sentinels' master of the group, if they monitor it
FetchMasters ==
  /\ fetch = "fetch"
  /\ \/ tries' = tries + 1 /\ fetch' = NextRound(tries + 1, wins) /\ UNCHANGED fetched
     \/ fetched' = (IF monitored THEN sentMaster ELSE None)
        /\ fetch' = "apply" /\ UNCHANGED tries
  /\ UNCHANGED <<wins, orphans, dashMaster, ops, sub, trigger, sentinelVars>>

\* switchMasters(masters) under s.mutex: trySwitchGroupMaster swaps the
\* reported master to servers[0]; then success += 1 and the next
\* iteration
Switch(m) == IF m = None THEN dashMaster ELSE m

ApplyMasters ==
  /\ fetch = "apply"
  /\ dashMaster' = Switch(fetched)
  /\ tries' = tries + 1 /\ wins' = wins + 1
  /\ fetch' = NextRound(tries + 1, wins + 1)
  /\ UNCHANGED <<fetched, orphans, ops, sub, trigger, sentinelVars>>

\* a fetcher of a canceled monitor that passed IsCanceled before the cancel
\* gets the lock: it switches, then its loop sees the cancel and ends
ApplyOrphan ==
  /\ \E m \in BagToSet(orphans) :
       /\ dashMaster' = Switch(m)
       /\ orphans' = orphans (-) SetToBag({m})
  /\ UNCHANGED <<fetch, tries, wins, fetched, ops, sub, trigger, sentinelVars>>

(***************************************************************************)
(* Operator calls, under s.mutex                                           *)
(***************************************************************************)
\* GroupPromoteServer of the replica: the sentinel part removes the group
\* from the sentinels (RemoveGroups may fail) and the servers are swapped
OperatorPromote ==
  /\ ops < MaxOps
  /\ ops' = ops + 1
  /\ dashMaster' = Other(dashMaster)
  /\ monitored' \in {FALSE, monitored}
  /\ UNCHANGED <<sentMaster, failovers, sub, trigger, fetchVars>>

\* ResyncSentinels: RemoveGroupsAll (failure logged), then MonitorGroups
\* with the dashboard masters, which may fail after removing or adding the
\* group on the sentinels and then returns; on success
\* reWatchSentinels cancels the monitor and starts new goroutines; the old
\* fetcher stops, but one holding an answer may be past IsCanceled already
ResyncSentinels ==
  /\ ops < MaxOps
  /\ ops' = ops + 1
  /\ \/ /\ \/ UNCHANGED <<monitored, sentMaster>>
           \/ monitored' = FALSE /\ UNCHANGED sentMaster
           \/ monitored' = TRUE /\ sentMaster' = dashMaster
        /\ UNCHANGED <<sub, trigger, fetchVars>>
     \/ /\ monitored' = TRUE /\ sentMaster' = dashMaster
        /\ sub' = "subscribing" /\ trigger' = FALSE
        /\ fetch' = "wait" /\ UNCHANGED <<tries, wins, fetched>>
        /\ \/ orphans' = orphans
           \/ fetch = "apply" /\ orphans' = orphans (+) SetToBag({fetched})
  /\ UNCHANGED <<dashMaster, failovers>>

(***************************************************************************)
(* Specification                                                           *)
(***************************************************************************)
Init ==
  /\ dashMaster \in Addrs
  /\ monitored = TRUE /\ sentMaster = dashMaster /\ failovers = 0
  /\ ops = 0
  /\ sub = "subscribing" /\ trigger = FALSE
  /\ fetch = "wait" /\ tries = 0 /\ wins = 0 /\ fetched = None /\ orphans = EmptyBag

Next ==
  \/ Failover
  \/ Subscribed \/ SubscribeFails \/ SubscribeRetry
  \/ TakeTrigger \/ FetchMasters \/ ApplyMasters \/ ApplyOrphan
  \/ OperatorPromote \/ ResyncSentinels

\* Goroutines that can run do run, and the 15 minute deadline of Subscribe
\* comes (weak fairness); a majority of sentinels answers infinitely often
\* when asked infinitely often (strong fairness of the successful step).
Fairness ==
  /\ WF_vars(SubscribeRetry) /\ WF_vars(TakeTrigger) /\ WF_vars(ApplyMasters)
  /\ WF_vars(ApplyOrphan)
  /\ WF_vars(sub = "subscribed" /\ SubscribeFails)
  /\ SF_vars(Subscribed)
  /\ SF_vars(FetchMasters /\ fetch' = "apply")
  /\ WF_vars(FetchMasters)

Spec == Init /\ [][Next]_vars /\ Fairness

(***************************************************************************)
(* Properties                                                              *)
(***************************************************************************)
TypeOK ==
  /\ dashMaster \in Addrs /\ sentMaster \in Addrs /\ monitored \in BOOLEAN
  /\ failovers \in 0..MaxFailovers /\ ops \in 0..MaxOps
  /\ sub \in {"subscribing", "subscribed", "delay"} /\ trigger \in BOOLEAN
  /\ fetch \in {"wait", "fetch", "apply"}
  /\ tries \in 0..MaxTries /\ wins \in 0..2
  /\ fetched \in Addrs \cup {None}
  /\ IsABag(orphans) /\ BagToSet(orphans) \subseteq Addrs \cup {None}

\* After a failover the dashboard follows the sentinels: whenever they
\* monitor the group with another master than servers[0], eventually the
\* dashboard has their master, or they stop monitoring it, or fail over
\* again; a failed fetch round, a missed +switch-master or a resubscribe
\* never leaves it behind for good.
ReactorConverges ==
  \A a \in Addrs :
    (monitored /\ sentMaster = a /\ dashMaster # a)
      ~> (dashMaster = a \/ ~monitored \/ sentMaster # a)

=============================================================================
