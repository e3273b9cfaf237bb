------------------------------ MODULE Lifecycle ------------------------------
(***************************************************************************)
(* The lifecycle of the dashboards of one product (cmd/dashboard/main.go,  *)
(* topom/service.go Start/Close, dao/mapper/topom_mapper.go).              *)
(*                                                                         *)
(* main builds the mappers and the service, starts the HTTP server and the *)
(* signal goroutine, and calls service.Start.  Start loops: it checks the  *)
(* done channel, then tries topomMapper.Create, the Create-if-absent of    *)
(* /products/<product>/topom that makes the dashboard the product's       *)
(* leader; on success it sets online and starts the HA reactor and the    *)
(* stats loop.  A signal or a server error calls Close: it closes done,   *)
(* waits for the stats loop, deletes the topom path and clears online.    *)
(* main then shuts the server down and waits until IsOnline is false.     *)
(*                                                                         *)
(* node is the owner of the stored registration: the dashboard whose      *)
(* Create wrote it (its Pid and AdminAddr), or None.  phase[d] is where    *)
(* dashboard d's main goroutine is: "down" (no process), "check" (Start at *)
(* the select on done), "create" (Create in flight), "running" (Start      *)
(* returned after registering, main waits on errChan), "exiting" (main    *)
(* waits for IsOnline to turn false).                                      *)
(***************************************************************************)
EXTENDS Naturals

CONSTANTS
  Dashboards,     \* dashboard processes configured for the same product
  None,           \* no registration stored
  StoreMayFail,   \* a store Create or Delete may fail (transport error)
  MaxLaunches,    \* bound on process starts, the first ones included
  MaxCrashes      \* bound on processes killed without Close

ASSUME StoreMayFail \in BOOLEAN /\ MaxLaunches \in Nat /\ MaxCrashes \in Nat

VARIABLES
  node,       \* owner of the stored topom registration, or None
  phase,      \* phase[d]: where d's main goroutine is
  online,     \* online[d]: service.online of d's process
  closed,     \* closed[d]: service.closed of d's process (done is closed)
  launches,   \* processes started so far
  crashes     \* processes killed so far

vars == <<node, phase, online, closed, launches, crashes>>

Phases == {"down", "check", "create", "running", "exiting"}

Alive(d) == phase[d] # "down"

\* main: the mappers and the service are built, the server and signal
\* goroutines run, and Start passes its closed and started checks
Launch(d) ==
  /\ phase[d] = "down" /\ launches < MaxLaunches
  /\ phase' = [phase EXCEPT ![d] = "check"]
  /\ online' = [online EXCEPT ![d] = FALSE]
  /\ closed' = [closed EXCEPT ![d] = FALSE]
  /\ launches' = launches + 1
  /\ UNCHANGED <<node, crashes>>

\* Start, top of the loop: select on done; a closed done returns nil
StartCheck(d) ==
  /\ phase[d] = "check"
  /\ phase' = [phase EXCEPT ![d] = IF closed[d] THEN "exiting" ELSE "create"]
  /\ UNCHANGED <<node, online, closed, launches, crashes>>

\* topomMapper.Create: the store's Create fails when the path exists
CreateTopom(d) == node = None /\ node' = d

\* Start: Create succeeds, online is latched, reWatchSentinels and doStats
\* start (whether or not done was closed while Create was in flight);
\* or Create fails and the loop goes round after the 2s sleep
StartCreate(d) ==
  /\ phase[d] = "create"
  /\ \/ /\ CreateTopom(d)
        /\ online' = [online EXCEPT ![d] = TRUE]
        /\ phase' = [phase EXCEPT ![d] = "running"]
     \/ /\ node # None \/ StoreMayFail
        /\ phase' = [phase EXCEPT ![d] = "check"]
        /\ UNCHANGED <<node, online>>
  /\ UNCHANGED <<closed, launches, crashes>>

\* topomMapper.Delete: deletes the product's topom path, whoever wrote it
DeleteTopom == node' = None

\* Close, from the signal goroutine or the server goroutine: the CAS on
\* closed, close(done), wg.Wait, then the delete; online is cleared only
\* when the delete succeeds
Close(d) ==
  /\ phase[d] \in {"check", "create", "running"} /\ ~closed[d]
  /\ closed' = [closed EXCEPT ![d] = TRUE]
  /\ \/ DeleteTopom /\ online' = [online EXCEPT ![d] = FALSE]
     \/ StoreMayFail /\ UNCHANGED <<node, online>>
  /\ UNCHANGED <<phase, launches, crashes>>

\* main: Start returned nil and errChan delivered the reason, so the server
\* is shut down and main polls IsOnline
MainShutdown(d) ==
  /\ phase[d] = "running" /\ closed[d]
  /\ phase' = [phase EXCEPT ![d] = "exiting"]
  /\ UNCHANGED <<node, online, closed, launches, crashes>>

\* main: for service.IsOnline() { sleep } ends, the process exits
Exit(d) ==
  /\ phase[d] = "exiting" /\ ~online[d]
  /\ phase' = [phase EXCEPT ![d] = "down"]
  /\ UNCHANGED <<node, online, closed, launches, crashes>>

\* SIGKILL (os.Kill cannot be caught) or a host failure: no Close runs and
\* the registration stays in the store
Crash(d) ==
  /\ Alive(d) /\ crashes < MaxCrashes
  /\ phase' = [phase EXCEPT ![d] = "down"]
  /\ online' = [online EXCEPT ![d] = FALSE]
  /\ crashes' = crashes + 1
  /\ UNCHANGED <<node, closed, launches>>

Init ==
  /\ node = None
  /\ phase = [d \in Dashboards |-> "down"]
  /\ online = [d \in Dashboards |-> FALSE]
  /\ closed = [d \in Dashboards |-> FALSE]
  /\ launches = 0
  /\ crashes = 0

Next ==
  \E d \in Dashboards :
    \/ Launch(d) \/ StartCheck(d) \/ StartCreate(d) \/ Close(d)
    \/ MainShutdown(d) \/ Exit(d) \/ Crash(d)

\* Every started process runs main and Start to the end: its own steps are
\* weakly fair.  The store answers a Create on a free path infinitely often
\* when asked infinitely often: strong fairness on a successful Create (it
\* is enabled only intermittently, between the failed attempts).  Launch,
\* Close (a signal) and Crash come from the operator: no fairness.
Fairness ==
  \A d \in Dashboards :
    /\ WF_vars(StartCheck(d)) /\ WF_vars(MainShutdown(d)) /\ WF_vars(Exit(d))
    /\ WF_vars(StartCreate(d))
    /\ SF_vars(StartCreate(d) /\ node' = d)

Spec == Init /\ [][Next]_vars

LiveSpec == Spec /\ Fairness

(***************************************************************************)
(* Properties                                                              *)
(***************************************************************************)
TypeOK ==
  /\ node \in Dashboards \cup {None}
  /\ phase \in [Dashboards -> Phases]
  /\ online \in [Dashboards -> BOOLEAN]
  /\ closed \in [Dashboards -> BOOLEAN]
  /\ launches \in 0..MaxLaunches /\ crashes \in 0..MaxCrashes

\* A dashboard leads while it is online and its done channel is open: its
\* HA reactor and stats loop run (they return once done is closed).
Leading(d) == online[d] /\ ~closed[d]

\* The topom registration makes one dashboard the product's leader: only
\* one process at a time passes Start's Create and runs the HA reactor and
\* the stats loop (service.Start, topomMapper.Create), whatever Close,
\* crash and restart steps the dashboards of the product take.
SingleLeader ==
  \A d, e \in Dashboards : Leading(d) /\ Leading(e) => d = e

\* A dashboard waits for the registration while it loops in Start.
Waiting(d) == phase[d] \in {"check", "create"} /\ ~closed[d]

\* The registration is the product's lease on leadership: a dashboard that
\* waits in Start's Create loop eventually leads, or another dashboard
\* leads, or it stops waiting (it is closed or killed).  A registration
\* left behind by a killed process, by a Create that lands after Close, or
\* by a failed delete in Close would block every waiting dashboard.
WaiterEventuallyLed ==
  \A d \in Dashboards :
    Waiting(d) ~> (~Waiting(d) \/ \E e \in Dashboards : Leading(e))
=============================================================================
