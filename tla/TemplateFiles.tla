---------------------------- MODULE TemplateFiles ----------------------------
(***************************************************************************)
(* The template-file mirror of one dashboard                              *)
(* (topom/dao/mapper/template_file_mapper.go) over the store's            *)
(* /cache-manager/template-files/<name> entries (coordinate/etcd/client.go *)
(* Update and Delete).                                                     *)
(*                                                                         *)
(* NewTemplateFileMapper reads every stored entry into m.tfs, writes the  *)
(* ones the directory lacks to disk, and starts the monitor goroutine.     *)
(* Every interval doMonitor globs the directory and reads each file; one  *)
(* failed read ends the cycle.  Then, under the mutex, it deletes from the *)
(* store the names of m.tfs that are gone, updates the names that are new *)
(* or changed, and replaces m.tfs with what it read, less the names whose *)
(* update failed.  m.delete logs a failed delete; doMonitor drops it.    *)
(*                                                                         *)
(* File contents are model values.  The MD5 field is md5.Sum(data) of a   *)
(* reset hash, that is data followed by the digest of nothing, so         *)
(* comparing it compares the data: tfs keeps the data only.              *)
(***************************************************************************)
EXTENDS Naturals, FiniteSets

CONSTANTS
  Files,          \* base names matched by the scan glob
  Contents,       \* file contents
  Unreadable,     \* {} or a value for a file Lstat sees but Open/Read fail
                  \* on (a dangling symlink, a file without read permission)
  Absent,         \* no such file, no such store entry
  StoreMayFail,   \* a store Update or Delete may fail
  MaxEdits,       \* bound on operator changes to the directory
  MaxRestarts     \* bound on process restarts

ASSUME StoreMayFail \in BOOLEAN /\ MaxEdits \in Nat /\ MaxRestarts \in Nat

VARIABLES
  disk,       \* disk[f]: the file f of the scanned directory
  store,      \* store[f]: the entry /template-files/f
  tfs,        \* tfs[f]: m.tfs, the mapper's snapshot (Info serves it)
  pc,         \* the monitor: "down" (no process), "idle", "sync"
  scanned,    \* scanned[f]: doMonitor's local tfs, read from disk
  toDelete,   \* names the delete loop has still to visit
  toUpdate,   \* names the update loop has still to visit
  edits,      \* operator changes so far
  restarts    \* process starts after the first

vars == <<disk, store, tfs, pc, scanned, toDelete, toUpdate, edits, restarts>>

Stored == Contents \cup {Absent}

DiskStates == Stored \cup Unreadable

(***************************************************************************)
(* Operations                                                              *)
(***************************************************************************)

\* getMatchFiles: the glob finds the file (Lstat succeeds on a dangling
\* symlink and on a file without read permission)
Matched(f) == disk[f] # Absent

\* templateFileMapper.init: List and Read every entry into tfs; a name the
\* glob does not find is written to the directory; then the monitor
\* goroutine starts
Start ==
  /\ pc = "down" /\ restarts < MaxRestarts
  /\ tfs' = store
  /\ disk' = [f \in Files |-> IF ~Matched(f) THEN store[f] ELSE disk[f]]
  /\ pc' = "idle"
  /\ restarts' = restarts + 1
  /\ UNCHANGED <<store, scanned, toDelete, toUpdate, edits>>

\* doMonitor, first half: getMatchFiles and a read of every file, without
\* the mutex.  An unreadable file returns the error and the cycle ends.
Scan ==
  /\ pc = "idle"
  /\ \/ /\ \E f \in Files : disk[f] \in Unreadable
        /\ UNCHANGED <<pc, scanned, toDelete, toUpdate>>
     \/ /\ \A f \in Files : disk[f] \in Stored
        /\ scanned' = disk
        /\ toDelete' = {f \in Files : tfs[f] # Absent /\ ~Matched(f)}
        /\ toUpdate' = {f \in Files : Matched(f) /\ disk[f] # tfs[f]}
        /\ pc' = "sync"
  /\ UNCHANGED <<disk, store, tfs, edits, restarts>>

\* client.Update: a Set that ignores whether the entry exists
StoreUpdate(f, c) == store' = [store EXCEPT ![f] = c]

\* client.Delete: a missing entry is not an error
StoreDelete(f) == store' = [store EXCEPT ![f] = Absent]

\* the delete loop, one name of m.tfs missing from the scan (Go's map
\* order): the error of m.delete is discarded
DeleteStep(f) ==
  /\ pc = "sync" /\ f \in toDelete
  /\ \/ StoreDelete(f)
     \/ StoreMayFail /\ UNCHANGED store
  /\ toDelete' = toDelete \ {f}
  /\ UNCHANGED <<disk, tfs, pc, scanned, toUpdate, edits, restarts>>

\* the update loop, after the delete loop: a failed update removes the
\* name from the scan, so the next cycle sees it as new and retries
UpdateStep(f) ==
  /\ pc = "sync" /\ toDelete = {} /\ f \in toUpdate
  /\ \/ StoreUpdate(f, scanned[f]) /\ UNCHANGED scanned
     \/ StoreMayFail /\ scanned' = [scanned EXCEPT ![f] = Absent]
                     /\ UNCHANGED store
  /\ toUpdate' = toUpdate \ {f}
  /\ UNCHANGED <<disk, tfs, pc, toDelete, edits, restarts>>

\* m.tfs = tfs, the mutex is released and the monitor sleeps
Commit ==
  /\ pc = "sync" /\ toDelete = {} /\ toUpdate = {}
  /\ tfs' = scanned
  /\ pc' = "idle"
  /\ UNCHANGED <<disk, store, scanned, toDelete, toUpdate, edits, restarts>>

\* The process ends (a kill, or main returning and closing done): the
\* snapshot and the cycle in progress are lost, the directory and the
\* store keep what was written
Stop ==
  /\ pc # "down"
  /\ pc' = "down"
  /\ UNCHANGED <<disk, store, tfs, scanned, toDelete, toUpdate, edits, restarts>>

\* The operator creates, changes, removes or breaks a file of the directory
Edit(f, c) ==
  /\ edits < MaxEdits /\ disk[f] # c
  /\ disk' = [disk EXCEPT ![f] = c]
  /\ edits' = edits + 1
  /\ UNCHANGED <<store, tfs, pc, scanned, toDelete, toUpdate, restarts>>

Init ==
  /\ disk \in [Files -> Stored]
  /\ store \in [Files -> Stored]
  /\ tfs = [f \in Files |-> Absent]
  /\ pc = "down"
  /\ scanned = [f \in Files |-> Absent]
  /\ toDelete = {} /\ toUpdate = {}
  /\ edits = 0 /\ restarts = 0

Next ==
  \/ Start \/ Scan \/ Commit \/ Stop
  \/ \E f \in Files : DeleteStep(f) \/ UpdateStep(f)
  \/ \E f \in Files, c \in DiskStates : Edit(f, c)

\* The monitor goroutine keeps running while the process lives: its steps
\* are weakly fair.  The store answers a write eventually: a successful
\* Update or Delete of a name, when one is attempted again and again, is
\* strongly fair.  Start, Stop and Edit are the operator's: no fairness.
Fairness ==
  /\ WF_vars(Scan) /\ WF_vars(Commit)
  /\ \A f \in Files :
       /\ WF_vars(DeleteStep(f)) /\ WF_vars(UpdateStep(f))
       /\ SF_vars(DeleteStep(f) /\ store'[f] = Absent)
       /\ SF_vars(UpdateStep(f) /\ scanned' = scanned)

Spec == Init /\ [][Next]_vars

LiveSpec == Spec /\ Fairness

(***************************************************************************)
(* Properties                                                              *)
(***************************************************************************)
TypeOK ==
  /\ disk \in [Files -> DiskStates]
  /\ store \in [Files -> Stored] /\ tfs \in [Files -> Stored]
  /\ scanned \in [Files -> Stored]
  /\ pc \in {"down", "idle", "sync"}
  /\ toDelete \subseteq Files /\ toUpdate \subseteq Files
  /\ edits \in 0..MaxEdits /\ restarts \in 0..MaxRestarts

\* The store mirrors a readable file or a removal of the running dashboard.
Mirrored(f) == store[f] = disk[f]

\* The mirror converges (the S6 scenario of the spec, under failures):
\* while the dashboard runs, a readable file, or a file removed from the
\* directory, eventually has the same content, or no entry, in the store,
\* unless it changes first.  A delete whose error doMonitor drops, or
\* another file that cannot be read, would leave it different for good.
MirrorConverges ==
  \A f \in Files, c \in Stored :
    (disk[f] = c /\ pc # "down") ~> (Mirrored(f) \/ disk[f] # c \/ pc = "down")
=============================================================================
