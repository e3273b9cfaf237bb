-------------------------------- MODULE Topom --------------------------------
(***************************************************************************)
(* The topology manager of pikamgr (src/topom): the group records, the     *)
(* sentinel record and the master switch of the HA reactor, all mutated    *)
(* under the single service mutex.                                         *)
(*                                                                         *)
(* Every handler is a sequence of steps, one per write to the metadata     *)
(* store, so that a crash of the process can fall between two writes.      *)
(* Variable pc names the handler step that holds the service mutex;        *)
(* "Idle" means the mutex is free.                                         *)
(*                                                                         *)
(* Two copies of every record are kept: store (the metadata store, C1) and *)
(* cache (the mapper's in-memory map, C3).  The mappers hand out the       *)
(* cached *dao.Group / *dao.Sentinel itself, and the handlers mutate that  *)
(* object before calling Update; so a failed Update leaves the mutation in *)
(* the cache ("aliased" writes).  A record built afresh (CreateGroup, the  *)
(* last write of a promotion) leaves the cache untouched when it fails.    *)
(***************************************************************************)
EXTENDS Integers, Sequences, FiniteSets, SequencesExt

CONSTANTS
  Groups,         \* group names (model values)
  Addrs,          \* Pika server addresses an operator may add to a group
  ReportAddrs,    \* addresses a sentinel may report as a master (\supseteq Addrs)
  RunId,          \* RunId[a]: run-id of the Pika instance reachable at a
  Sentinels,      \* sentinel addresses an operator may add
  StoreMayFail,   \* a metadata-store write may fail (transport error)
  MaxCrashes,     \* bound on crashes of the dashboard process
  Absent          \* model value: no record under this path / no report

ASSUME Addrs \subseteq ReportAddrs /\ Absent \notin ReportAddrs
ASSUME RunId \in [ReportAddrs -> Nat]
ASSUME StoreMayFail \in BOOLEAN /\ MaxCrashes \in Nat

\* Promoting.State values (dao/group.go)
ActionNothing   == "nothing"
ActionPreparing == "preparing"
ActionPrepared  == "prepared"
ActionFinished  == "finished"
PStates == {ActionNothing, ActionPreparing, ActionPrepared, ActionFinished}

VARIABLES
  store,      \* [Groups -> group record or Absent]: group records in the store
  cache,      \* [Groups -> group record or Absent]: groupMapper.groups
  sstore,     \* the sentinel record in the store
  scache,     \* sentinelMapper.sentinel
  watched,    \* the sentinel set the HA reactor was last started on
  haMasters,  \* groups that have an entry in s.ha.masters
  syncFailed, \* servers whose last SetMaster of a resync failed (Redis side)
  pc,         \* handler step holding s.mutex, or "Idle"
  lg,         \* the group the running handler works on
  laddr,      \* the address argument of the running handler
  reported,   \* the masters map switchMasters is applying
  pending,    \* groups switchMasters has still to visit
  up,         \* the dashboard process is running
  crashes     \* crashes so far

groupVars == <<store, cache>>
sentVars  == <<sstore, scache, watched>>
haVars    == <<haMasters, reported, pending>>
argVars   == <<lg, laddr>>
procVars  == <<up, crashes>>
vars == <<groupVars, sentVars, haVars, argVars, procVars, syncFailed, pc>>

(***************************************************************************)
(* Records and helpers                                                     *)
(***************************************************************************)
\* A dao.Group, less the name, ports and createTime that no decision reads.
Group(servers, pidx, pstate, oos) ==
  [servers |-> servers, pidx |-> pidx, pstate |-> pstate, oos |-> oos]

\* A dao.Sentinel; the order of Servers is never read.
Sentinel(servers, oos) == [servers |-> servers, oos |-> oos]

ServerSeqs == UNION {[1..n -> Addrs] : n \in 0..Cardinality(Addrs)}
GroupRecs  == [servers : ServerSeqs, pidx : 0..Cardinality(Addrs),
               pstate : PStates, oos : BOOLEAN]

Members(r) == Range(r.servers)

\* dao.Group.GetServerIndex: 0-based index of addr, or -1
GetServerIndex(r, addr) ==
  IF addr \in Members(r) THEN SelectInSeq(r.servers, LAMBDA a : a = addr) - 1
                         ELSE -1

\* g.Servers[0], g.Servers[i] = g.Servers[i], g.Servers[0]
SwapMaster(r, i) ==
  [r EXCEPT !.servers = [r.servers EXCEPT ![1] = r.servers[i + 1],
                                          ![i + 1] = r.servers[1]]]

AllMembers == UNION {Members(cache[g]) : g \in {h \in Groups : cache[h] # Absent}}

Idle == pc = "Idle" /\ up

At(step) == pc = step /\ up

(***************************************************************************)
(* Store writes.  WriteGroup is groupMapper.Update of the aliased object:  *)
(* on success store and cache take rec; on failure only the cache does and *)
(* the handler goes on at fail (it returns, or logs and continues).        *)
(***************************************************************************)
WriteGroup(g, rec, next, fail) ==
  \/ /\ store' = [store EXCEPT ![g] = rec]
     /\ cache' = [cache EXCEPT ![g] = rec]
     /\ pc' = next
  \/ /\ StoreMayFail
     /\ cache' = [cache EXCEPT ![g] = rec]
     /\ UNCHANGED store
     /\ pc' = fail

\* groupMapper.Create/Remove or Update of a record built afresh: the cache
\* changes only after the store did
WriteFreshGroup(g, rec, next) ==
  \/ /\ store' = [store EXCEPT ![g] = rec]
     /\ cache' = [cache EXCEPT ![g] = rec]
     /\ pc' = next
  \/ /\ StoreMayFail
     /\ UNCHANGED <<store, cache>>
     /\ pc' = "Idle"

\* sentinelMapper.Update of the aliased *dao.Sentinel; a failure returns
WriteSentinel(rec, next) ==
  \/ /\ sstore' = rec
     /\ scache' = rec
     /\ pc' = next
  \/ /\ StoreMayFail
     /\ scache' = rec
     /\ UNCHANGED sstore
     /\ pc' = "Idle"

(***************************************************************************)
(* Group handlers (topom/group.go)                                         *)
(***************************************************************************)
CreateGroup(g) ==
  /\ Idle
  /\ cache[g] = Absent
  /\ WriteFreshGroup(g, Group(<<>>, 0, ActionNothing, FALSE), "Idle")
  /\ UNCHANGED <<sentVars, haVars, argVars, procVars, syncFailed>>

RemoveGroup(g) ==
  /\ Idle
  /\ cache[g] # Absent
  /\ cache[g].servers = <<>>
  /\ WriteFreshGroup(g, Absent, "Idle")
  /\ UNCHANGED <<sentVars, haVars, argVars, procVars, syncFailed>>

\* outOfSyncBySentinel: mark the sentinel record out of sync if it has servers
OutOfSyncBySentinel(next) ==
  IF scache.servers # {} THEN WriteSentinel([scache EXCEPT !.oos = TRUE], next)
                         ELSE pc' = next /\ UNCHANGED <<sstore, scache>>

\* mutant: the outOfSyncBySentinel call is missing
AddGroupServerUnflagged(g, addr) ==
  /\ Idle
  /\ addr \notin AllMembers
  /\ cache[g] # Absent
  /\ pc' = "AddServer" /\ UNCHANGED <<sstore, scache>>
  /\ lg' = g /\ laddr' = addr
  /\ UNCHANGED <<groupVars, watched, haVars, procVars, syncFailed>>

AddGroupServer(g, addr) ==
  /\ Idle
  /\ addr \notin AllMembers
  /\ cache[g] # Absent
  /\ OutOfSyncBySentinel("AddServer")
  /\ lg' = g /\ laddr' = addr
  /\ UNCHANGED <<groupVars, watched, haVars, procVars, syncFailed>>

\* g.Servers = append(g.Servers, addr); Update (refreshGSLBBackendInfo is GSLB)
AddServerWrite ==
  /\ At("AddServer")
  /\ WriteGroup(lg, [cache[lg] EXCEPT !.servers = Append(@, laddr)], "Idle", "Idle")
  /\ UNCHANGED <<sentVars, haVars, argVars, procVars, syncFailed>>

DelGroupServer(g, addr) ==
  /\ Idle
  /\ cache[g] # Absent
  /\ GetServerIndex(cache[g], addr) # -1
  /\ ~(GetServerIndex(cache[g], addr) = 0 /\ Len(cache[g].servers) > 1)
  /\ OutOfSyncBySentinel("DelServer")
  /\ lg' = g /\ laddr' = addr
  /\ UNCHANGED <<groupVars, watched, haVars, procVars, syncFailed>>

\* mutant: an emptied group keeps its OutOfSync flag
DelServerWriteKeepingFlag ==
  /\ At("DelServer")
  /\ LET r    == cache[lg]
         rest == Remove(r.servers, laddr)
     IN WriteGroup(lg, [r EXCEPT !.servers = rest,
                                 !.oos = r.oos \/ GetServerIndex(r, laddr) # 0], "Idle", "Idle")
  /\ syncFailed' = syncFailed \ {laddr}
  /\ UNCHANGED <<sentVars, haVars, argVars, procVars>>

\* The removed server no longer belongs to the group whose resync it failed.
DelServerWrite ==
  /\ At("DelServer")
  /\ LET r    == cache[lg]
         rest == Remove(r.servers, laddr)
         oos  == IF rest = <<>> THEN FALSE
                 ELSE r.oos \/ GetServerIndex(r, laddr) # 0
     IN WriteGroup(lg, [r EXCEPT !.servers = rest, !.oos = oos], "Idle", "Idle")
  /\ syncFailed' = syncFailed \ {laddr}
  /\ UNCHANGED <<sentVars, haVars, argVars, procVars>>

ResyncGroup(g) ==
  /\ Idle
  /\ cache[g] # Absent
  /\ WriteGroup(g, [cache[g] EXCEPT !.oos = FALSE],
                IF cache[g].servers = <<>> THEN "Idle" ELSE "Resync", "Idle")
  /\ lg' = g
  /\ UNCHANGED <<sentVars, haVars, laddr, procVars, syncFailed>>

\* resyncGroup: SetMaster on every server ("NO:ONE" on servers[0]), each of
\* which may fail; a failure goes on to mark the group out of sync
ResyncSetMaster(at, ret) ==
  /\ At(at)
  /\ \E failed \in SUBSET Members(cache[lg]) :
        /\ syncFailed' = (syncFailed \ Members(cache[lg])) \cup failed
        /\ pc' = IF failed = {} THEN ret ELSE at \o "Oos"
  /\ UNCHANGED <<groupVars, sentVars, haVars, argVars, procVars>>

\* g.OutOfSync = true; groupMapper.Update(g); the error is only returned
ResyncMarkOos(at, ret) ==
  /\ At(at \o "Oos")
  /\ WriteGroup(lg, [cache[lg] EXCEPT !.oos = TRUE], ret, ret)
  /\ UNCHANGED <<sentVars, haVars, argVars, procVars, syncFailed>>

(***************************************************************************)
(* GroupPromoteServer: the promotion state machine; each case falls        *)
(* through to the next, one store write per case.                          *)
(***************************************************************************)
PromoteResume == [s \in PStates |->
  CASE s = ActionPreparing -> "PromotePrepared"
    [] s = ActionPrepared  -> "PromoteSentinel"
    [] s = ActionFinished  -> "PromoteCommit"
    [] OTHER               -> "Idle"]

\* mutant: the index == -1 check is missing
GroupPromoteServerUnknownAddr(g, addr) ==
  /\ Idle
  /\ cache[g] # Absent
  /\ LET r == cache[g]
         i == GetServerIndex(r, addr)
     IN /\ IF r.pstate # ActionNothing THEN i = r.pidx ELSE i # 0
        /\ IF r.pstate = ActionNothing
             THEN WriteGroup(g, [r EXCEPT !.pidx = i, !.pstate = ActionPreparing],
                             "PromotePrepared", "Idle")
             ELSE pc' = PromoteResume[r.pstate] /\ UNCHANGED groupVars
  /\ lg' = g /\ laddr' = addr
  /\ UNCHANGED <<sentVars, haVars, procVars, syncFailed>>

GroupPromoteServer(g, addr) ==
  /\ Idle
  /\ cache[g] # Absent
  /\ LET r == cache[g]
         i == GetServerIndex(r, addr)
     IN /\ i # -1
        /\ IF r.pstate # ActionNothing THEN i = r.pidx ELSE i # 0
        /\ IF r.pstate = ActionNothing
             THEN WriteGroup(g, [r EXCEPT !.pidx = i, !.pstate = ActionPreparing],
                             "PromotePrepared", "Idle")
             ELSE pc' = PromoteResume[r.pstate] /\ UNCHANGED groupVars
  /\ lg' = g /\ laddr' = addr
  /\ UNCHANGED <<sentVars, haVars, procVars, syncFailed>>

PromotePrepared ==
  /\ At("PromotePrepared")
  /\ WriteGroup(lg, [cache[lg] EXCEPT !.pstate = ActionPrepared], "PromoteSentinel", "Idle")
  /\ UNCHANGED <<sentVars, haVars, argVars, procVars, syncFailed>>

\* if len(sentinel.Servers) > 0: OutOfSync = true; Update; RemoveGroups
\* (errors only logged); delete(s.ha.masters, g.Name)
PromoteSentinel ==
  /\ At("PromoteSentinel")
  /\ IF scache.servers # {}
       THEN /\ WriteSentinel([scache EXCEPT !.oos = TRUE], "PromoteSwap")
            /\ haMasters' = IF pc' = "PromoteSwap" THEN haMasters \ {lg} ELSE haMasters
       ELSE pc' = "PromoteSwap" /\ UNCHANGED <<sstore, scache, haMasters>>
  /\ UNCHANGED <<groupVars, watched, reported, pending, argVars, procVars, syncFailed>>

\* swap servers[0] and servers[Promoting.Index]; Index = 0; State = finished
PromoteSwap ==
  /\ At("PromoteSwap")
  /\ LET r == cache[lg]
     IN WriteGroup(lg, [SwapMaster(r, r.pidx) EXCEPT !.pidx = 0, !.pstate = ActionFinished],
                   "PromoteResync", "Idle")
  /\ UNCHANGED <<sentVars, haVars, argVars, procVars, syncFailed>>

\* The finished case: a new dao.Group with the Name, Servers, ports and
\* CreateTime of g; Promoting and OutOfSync take their zero values.
PromoteCommit ==
  /\ At("PromoteCommit")
  /\ WriteFreshGroup(lg, Group(cache[lg].servers, 0, ActionNothing, FALSE), "Idle")
  /\ UNCHANGED <<sentVars, haVars, argVars, procVars, syncFailed>>

(***************************************************************************)
(* Sentinel record handlers (topom/sentinel.go)                            *)
(***************************************************************************)
\* FlushConfig must succeed (else nothing changes); append; OutOfSync = true
AddSentinel(s) ==
  /\ Idle
  /\ s \notin scache.servers
  /\ WriteSentinel(Sentinel(scache.servers \cup {s}, TRUE), "Idle")
  /\ UNCHANGED <<groupVars, watched, haVars, argVars, procVars, syncFailed>>

DelSentinel(s) ==
  /\ Idle
  /\ s \in scache.servers
  /\ WriteSentinel([scache EXCEPT !.oos = TRUE], "DelSentinel")
  /\ laddr' = s
  /\ UNCHANGED <<groupVars, watched, haVars, lg, procVars, syncFailed>>

\* RemoveGroupsAll on the sentinel; on failure return unless force
DelSentinelRemove ==
  /\ At("DelSentinel")
  /\ \E removed, force \in BOOLEAN :
        IF removed \/ force
          THEN WriteSentinel([scache EXCEPT !.servers = @ \ {laddr}], "Idle")
          ELSE pc' = "Idle" /\ UNCHANGED <<sstore, scache>>
  /\ UNCHANGED <<groupVars, watched, haVars, argVars, procVars, syncFailed>>

\* mark out of sync; RemoveGroupsAll (errors logged); MonitorGroups next
ResyncSentinels ==
  /\ Idle
  /\ WriteSentinel([scache EXCEPT !.oos = TRUE], "MonitorGroups")
  /\ UNCHANGED <<groupVars, watched, haVars, argVars, procVars, syncFailed>>

\* mutant: the flag is cleared without reWatchSentinels
MonitorGroupsWithoutReWatch ==
  /\ At("MonitorGroups")
  /\ \/ pc' = "Idle" /\ UNCHANGED <<sentVars, haMasters>>
     \/ /\ UNCHANGED <<watched, haMasters>>
        /\ WriteSentinel([scache EXCEPT !.oos = FALSE], "Idle")
  /\ UNCHANGED <<groupVars, reported, pending, argVars, procVars, syncFailed>>

\* MonitorGroups fails (return) or reWatchSentinels and clear the flag
MonitorGroups ==
  /\ At("MonitorGroups")
  /\ \/ pc' = "Idle" /\ UNCHANGED <<sentVars, haMasters>>
     \/ /\ watched' = scache.servers
        /\ haMasters' = IF scache.servers = {} THEN {} ELSE haMasters
        /\ WriteSentinel([scache EXCEPT !.oos = FALSE], "Idle")
  /\ UNCHANGED <<groupVars, reported, pending, argVars, procVars, syncFailed>>

(***************************************************************************)
(* HA reactor: switchMasters / trySwitchGroupMaster (topom/sentinel.go).   *)
(* The masters map comes from the sentinels the reactor watches; here any  *)
(* report is possible.  s.ha.masters is kept as the set of its keys.       *)
(***************************************************************************)
\* index of the reported master: by address, else by equal run-id
\* (ridSeen: the InfoCache fetched the run-ids within its timeout)
SwitchIndex(r, addr, ridSeen) ==
  IF addr \in Members(r) THEN GetServerIndex(r, addr)
  ELSE IF ridSeen /\ \E a \in Members(r) : RunId[a] = RunId[addr]
       THEN SelectInSeq(r.servers, LAMBDA a : RunId[a] = RunId[addr]) - 1
       ELSE -1

SwitchMasters(masters) ==
  /\ Idle
  /\ watched # {}
  /\ haMasters' = {g \in Groups : masters[g] # Absent}
  /\ pending' = haMasters'
  /\ reported' = masters
  /\ pc' = IF pending' = {} THEN "Idle" ELSE "Switch"
  /\ UNCHANGED <<groupVars, sentVars, argVars, procVars, syncFailed>>

\* one iteration of the loop over masters: a missing group, an unknown
\* address or a master already at index 0 changes nothing; errors are
\* logged and the loop goes on
TrySwitchGroupMaster(g) ==
  /\ At("Switch")
  /\ g \in pending
  /\ pending' = pending \ {g}
  /\ LET next == IF pending' = {} THEN "Idle" ELSE "Switch"
     IN \E ridSeen \in BOOLEAN :
          IF cache[g] = Absent \/ SwitchIndex(cache[g], reported[g], ridSeen) \in {-1, 0}
            THEN pc' = next /\ UNCHANGED groupVars
            ELSE WriteGroup(g, [SwapMaster(cache[g], SwitchIndex(cache[g], reported[g], ridSeen))
                                  EXCEPT !.oos = TRUE], next, next)
  /\ UNCHANGED <<sentVars, haMasters, reported, argVars, procVars, syncFailed>>

(***************************************************************************)
(* Crash and restart of the dashboard.  A restart builds the mappers from  *)
(* the store (groupMapper.init, sentinelMapper.init) and Start calls       *)
(* reWatchSentinels(sentinel.Servers); s.ha.masters starts empty.  The     *)
(* Redis side (syncFailed) survives.                                       *)
(***************************************************************************)
Crash ==
  /\ up /\ crashes < MaxCrashes
  /\ up' = FALSE
  /\ crashes' = crashes + 1
  /\ pc' = "Idle"
  /\ UNCHANGED <<groupVars, sentVars, haVars, argVars, syncFailed>>

Restart ==
  /\ ~up
  /\ up' = TRUE
  /\ cache' = store
  /\ scache' = sstore
  /\ watched' = sstore.servers
  /\ haMasters' = {}
  /\ pending' = {}
  /\ UNCHANGED <<store, sstore, reported, argVars, crashes, syncFailed, pc>>

(***************************************************************************)
(* Specification                                                           *)
(***************************************************************************)
Init ==
  /\ store = [g \in Groups |-> Absent]
  /\ cache = store
  /\ sstore = Sentinel({}, FALSE)
  /\ scache = sstore
  /\ watched = {}
  /\ haMasters = {}
  /\ syncFailed = {}
  /\ pc = "Idle"
  /\ lg \in Groups
  /\ laddr \in Addrs
  /\ reported = [g \in Groups |-> Absent]
  /\ pending = {}
  /\ up = TRUE
  /\ crashes = 0

Next ==
  \/ \E g \in Groups : CreateGroup(g) \/ RemoveGroup(g) \/ ResyncGroup(g)
  \/ \E g \in Groups, a \in Addrs :
        AddGroupServer(g, a) \/ DelGroupServer(g, a) \/ GroupPromoteServer(g, a)
  \/ AddServerWrite \/ DelServerWrite
  \/ ResyncSetMaster("Resync", "Idle") \/ ResyncMarkOos("Resync", "Idle")
  \/ PromotePrepared \/ PromoteSentinel \/ PromoteSwap
  \/ ResyncSetMaster("PromoteResync", "PromoteCommit")
  \/ ResyncMarkOos("PromoteResync", "PromoteCommit")
  \/ PromoteCommit
  \/ \E s \in Sentinels : AddSentinel(s) \/ DelSentinel(s)
  \/ DelSentinelRemove \/ ResyncSentinels \/ MonitorGroups
  \/ \E m \in [Groups -> ReportAddrs \cup {Absent}] : SwitchMasters(m)
  \/ \E g \in Groups : TrySwitchGroupMaster(g)
  \/ Crash \/ Restart

Spec == Init /\ [][Next]_vars

(***************************************************************************)
(* Properties                                                              *)
(***************************************************************************)
TypeOK ==
  /\ store \in [Groups -> GroupRecs \cup {Absent}]
  /\ cache \in [Groups -> GroupRecs \cup {Absent}]
  /\ sstore \in [servers : SUBSET Sentinels, oos : BOOLEAN]
  /\ scache \in [servers : SUBSET Sentinels, oos : BOOLEAN]
  /\ watched \subseteq Sentinels
  /\ haMasters \subseteq Groups /\ pending \subseteq Groups
  /\ reported \in [Groups -> ReportAddrs \cup {Absent}]
  /\ syncFailed \subseteq Addrs
  /\ lg \in Groups /\ laddr \in Addrs \cup Sentinels
  /\ up \in BOOLEAN /\ crashes \in 0..MaxCrashes

Stored == {g \in Groups : store[g] # Absent}

\* Spec invariant 1 (dao.Group): a group with no servers is never out of
\* sync, in the store, whatever failed or crashed between DelGroupServer,
\* resyncGroup and trySwitchGroupMaster.
EmptyGroupInSync ==
  \A g \in Stored : store[g].servers = <<>> => ~store[g].oos

\* Every change of a group's members or master in the dashboard's group
\* records (the masters MonitorGroups hands to the sentinels) made by an
\* operator handler (AddGroupServer, DelGroupServer, GroupPromoteServer)
\* happens while the sentinel record is marked out of sync or has no
\* sentinels.  The HA reactor's switch follows the sentinels and is exempt,
\* and so is the reload of a restarting dashboard (up is FALSE before it).
Master(r) == IF r.servers = <<>> THEN Absent ELSE r.servers[1]

TopologyChanged(g) ==
  /\ cache[g] # Absent /\ cache'[g] # Absent
  /\ Members(cache[g]) # Members(cache'[g]) \/ Master(cache[g]) # Master(cache'[g])

TopologyChangeFlagged ==
  [][up /\ pc # "Switch" =>
       \A g \in Groups : TopologyChanged(g) => scache.oos \/ scache.servers = {}]_cache

\* ResyncSentinels clears OutOfSync only after reWatchSentinels, and every
\* change of the sentinel set raises it: whenever the record in the
\* running dashboard says in sync, the HA reactor watches exactly its
\* sentinels.
SentinelInSyncWatched ==
  up /\ ~scache.oos => watched = scache.servers

\* OutOfSync is "cleared only by an explicit resync" (spec): once the
\* dashboard is idle, a group whose servers had a failed SetMaster in the
\* last resync is marked out of sync.
NoHiddenSyncFailure ==
  pc = "Idle" => \A g \in Stored : Members(store[g]) \cap syncFailed # {} => store[g].oos

\* The server a stored promotion targets (servers[Promoting.Index]) stays
\* the same until the promotion finishes: the promotion that resumes after
\* a failed write or a restart swaps in the server the operator chose.
InPromotion(r) == r # Absent /\ r.pstate \in {ActionPreparing, ActionPrepared}

Target(r) == IF r.pidx < Len(r.servers) THEN r.servers[r.pidx + 1] ELSE Absent

PromotionTargetKept ==
  [][\A g \in Groups : InPromotion(store[g]) /\ InPromotion(store'[g])
                         => Target(store'[g]) = Target(store[g])]_store

====
