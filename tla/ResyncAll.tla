------------------------------ MODULE ResyncAll ------------------------------
(***************************************************************************)
(* service.ResyncGroupAll (topom/group.go): under s.mutex, range over the  *)
(* groups map that groupMapper.Info returns (the mapper's own map) and for *)
(* each group fut.Add() and start a goroutine that sets OutOfSync = false, *)
(* Updates the group and runs resyncGroup; the goroutine calls fut.Done    *)
(* only when one of these fails.  Then fut.Wait() and return the first     *)
(* error.                                                                  *)
(*                                                                         *)
(* sync2.Future (a dependency, not in the repository) is a WaitGroup plus  *)
(* a map: Add is wg.Add(1), Done(k, v) stores v and calls wg.Done(), Wait  *)
(* waits for the WaitGroup.  The model keeps the pending set of the        *)
(* WaitGroup and the set of groups whose Done carried an error.            *)
(*                                                                         *)
(* groupMapper.Update writes m.groups[name] after a successful store       *)
(* write.  While the main goroutine is still ranging over that map this is *)
(* a data race; the Go runtime may detect it and abort the process         *)
(* ("concurrent map iteration and map write") or not: a nondeterministic   *)
(* choice.                                                                 *)
(***************************************************************************)
EXTENDS FiniteSets

CONSTANTS Groups, StoreMayFail

VARIABLES
  spawned,   \* groups the range loop has visited (fut.Add, go func)
  worker,    \* worker[g]: "none", "run", "updated", "ok" or "done"
  pending,   \* groups added to the WaitGroup and not Done
  errs,      \* groups whose fut.Done carried an error
  pc         \* "loop", "wait", "returned" or "fatal"

vars == <<spawned, worker, pending, errs, pc>>

\* m.groups[g.Name] = g in groupMapper.Update: races with the range loop
MapWrite ==
  IF pc = "loop" THEN pc' \in {"loop", "fatal"} ELSE UNCHANGED pc

\* fut.Add(); go func(g)
Spawn(g) ==
  /\ pc = "loop" /\ g \notin spawned
  /\ spawned' = spawned \cup {g}
  /\ pending' = pending \cup {g}
  /\ worker' = [worker EXCEPT ![g] = "run"]
  /\ UNCHANGED <<errs, pc>>

\* the range loop ends; fut.Wait()
EndLoop ==
  /\ pc = "loop" /\ spawned = Groups
  /\ pc' = "wait"
  /\ UNCHANGED <<spawned, worker, pending, errs>>

\* fut.Done of an error
DoneErr(g) ==
  /\ worker' = [worker EXCEPT ![g] = "done"]
  /\ pending' = pending \ {g}
  /\ errs' = errs \cup {g}

\* g.OutOfSync = false; groupMapper.Update(g): an error is Done at once
WorkerUpdate(g) ==
  /\ worker[g] = "run" /\ pc \in {"loop", "wait"}
  /\ \/ StoreMayFail /\ DoneErr(g) /\ UNCHANGED pc
     \/ worker' = [worker EXCEPT ![g] = "updated"] /\ MapWrite /\ UNCHANGED <<pending, errs>>
  /\ UNCHANGED spawned

\* resyncGroup(g): success returns nil and nothing calls fut.Done; a failed
\* SetMaster sets OutOfSync and Updates (a map write when the store write
\* succeeds), and the error is Done
WorkerResync(g) ==
  /\ worker[g] = "updated" /\ pc \in {"loop", "wait"}
  /\ \/ worker' = [worker EXCEPT ![g] = "ok"] /\ UNCHANGED <<pending, errs, pc>>
     \/ DoneErr(g) /\ MapWrite
     \/ StoreMayFail /\ DoneErr(g) /\ UNCHANGED pc
  /\ UNCHANGED spawned

\* fut.Wait() returns once the WaitGroup is zero; the first error in map
\* order (any of errs) or nil is returned and s.mutex released
Return ==
  /\ pc = "wait" /\ pending = {}
  /\ pc' = "returned"
  /\ UNCHANGED <<spawned, worker, pending, errs>>

Init ==
  /\ spawned = {} /\ worker = [g \in Groups |-> "none"]
  /\ pending = {} /\ errs = {} /\ pc = "loop"

Next ==
  \/ \E g \in Groups : Spawn(g) \/ WorkerUpdate(g) \/ WorkerResync(g)
  \/ EndLoop \/ Return

\* every goroutine that can run eventually runs
Spec == Init /\ [][Next]_vars /\ WF_vars(Next)

TypeOK ==
  /\ spawned \subseteq Groups /\ pending \subseteq spawned /\ errs \subseteq spawned
  /\ worker \in [Groups -> {"none", "run", "updated", "ok", "done"}]
  /\ pc \in {"loop", "wait", "returned", "fatal"}

\* Spec 4.7: ResyncGroupAll returns (the first error, or nil) and releases
\* s.mutex; until it does, every handler, the stats loop and the HA
\* reactor wait for the lock.  A runtime abort on the map race is no
\* return either.
ResyncAllReturns == <>(pc = "returned")
=============================================================================
