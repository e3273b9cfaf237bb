-------------------------------- MODULE GSLB --------------------------------
(***************************************************************************)
(* The GSLB projector (topom/gslb.go) with its mapper                      *)
(* (dao/mapper/gslb_mapper.go) and the stats loop that drives it           *)
(* (doStats in topom/service.go, refreshRedisStats in topom/stats.go).     *)
(*                                                                         *)
(* store and cache are the stored and cached GSLB records: the servers     *)
(* (the load balancers' addresses), the monitors and the backends.         *)
(* gslbMapper.Info returns the cached map itself, so AddGSLB and DelGSLB   *)
(* change the cached record before Update, whose DeepEqual then compares   *)
(* the record with itself; refreshGSLBBackendInfo builds fresh records.   *)
(*                                                                         *)
(* The group topology is a version number topo; haproxyBackends of        *)
(* topology t under stats snapshot v is the value <<t, v>>, and            *)
(* lvsBackends copies the cached haproxy backends and servers.  stats is  *)
(* the version whose servers s.stats.servers holds (None: the empty map). *)
(***************************************************************************)
EXTENDS Naturals, Sequences, FiniteSets

LOCAL Seqs == INSTANCE SequencesExt

CONSTANTS
  Names,        \* GSLB names an operator may use
  LBs,          \* addresses of GSLB servers
  Haproxy, Lvs, \* the two names getGSLBBackends supports
  None, Absent,
  StoreMayFail, \* whether a store write or delete may fail
  MaxTopo,      \* bound on topology changes
  MaxOps,       \* bound on AddGSLB / DelGSLB calls
  MaxCrashes    \* bound on dashboard restarts

VARIABLES
  store, cache, \* GSLB records, or Absent
  topo,         \* version of the group topology
  stats,        \* s.stats.servers: the version probed, or None
  probed,       \* version the current stats cycle probes
  swaps,        \* versions whose swap goroutine waits for s.mutex
  phase,        \* doStats: "start", "probing", "project" or "sleep"
  ops, crashes

vars == <<store, cache, topo, stats, probed, swaps, phase, ops, crashes>>
gslbVars  == <<store, cache>>
statsVars == <<stats, probed, swaps, phase>>

Record(srv, mon, be) == [servers |-> srv, monitors |-> mon, backends |-> be]

(***************************************************************************)
(* refreshGSLBBackendInfo                                                  *)
(***************************************************************************)
\* lvsBackends("haproxy"): nothing if the haproxy GSLB is not cached,
\* else its backends with every port rewritten to each haproxy server
LvsOf(c) ==
  IF c[Haproxy] = Absent THEN [monitors |-> {}, backends |-> None]
  ELSE [monitors |-> c[Haproxy].servers,
        backends |-> IF c[Haproxy].backends = None THEN None
                     ELSE <<c[Haproxy].backends, c[Haproxy].servers>>]

\* getGSLBBackends(name) under topology t: [ok, monitors, backends]
Backends(n, c, t) ==
  CASE n = Haproxy /\ stats = None -> [ok |-> FALSE]
    [] n = Haproxy -> [ok |-> TRUE, monitors |-> {}, backends |-> <<t, stats>>]
    [] n = Lvs -> [ok |-> TRUE, monitors |-> LvsOf(c).monitors, backends |-> LvsOf(c).backends]
    [] OTHER -> [ok |-> FALSE]

\* mutant: Update compares only the name of the record
UpdateComparingNames(st, c, n, g, failed) == [store |-> st, cache |-> c]

\* gslbMapper.Update(g): nothing if DeepEqual with the cached record,
\* else the store write and, on success, the cache
Update(st, c, n, g, failed) ==
  IF c[n] = g \/ failed THEN [store |-> st, cache |-> c]
  ELSE [store |-> [st EXCEPT ![n] = g], cache |-> [c EXCEPT ![n] = g]]

\* the range over the cached map in the order o; writes to the names in F
\* fail and are only logged; the first getGSLBBackends error returns
RECURSIVE Refresh(_, _, _, _, _)
Refresh(o, F, st, c, t) ==
  IF Len(o) = 0 THEN [store |-> st, cache |-> c]
  ELSE LET n == Head(o)
           b == Backends(n, c, t)
       IN IF ~b.ok THEN [store |-> st, cache |-> c]
          ELSE LET u == Update(st, c, n, Record(c[n].servers, b.monitors, b.backends), n \in F)
               IN Refresh(Tail(o), F, u.store, u.cache, t)

Cached(c) == {n \in Names : c[n] # Absent}

Failing == IF StoreMayFail THEN SUBSET Names ELSE {{}}

\* refreshGSLBBackendInfo on the cached map c and the store st under
\* topology t, in some map order, with the writes to the names in one of
\* the sets Fs failing
RefreshThen(st, c, t, Fs) ==
  \E o \in Seqs!SetToSeqs(Cached(c)), F \in Fs :
    LET r == Refresh(o, F, st, c, t)
    IN store' = r.store /\ cache' = r.cache

(***************************************************************************)
(* Operator calls, under s.mutex                                           *)
(***************************************************************************)
Named(c, n) == IF c[n] = Absent THEN Record({}, {}, None) ELSE c[n]

\* AddGSLB: a new GSLB is put into the cached map, the address appended to
\* the cached record, Update(g) of that record, then the projection
AddGSLB(n, a) ==
  /\ ops < MaxOps /\ ops' = ops + 1
  /\ a \notin Named(cache, n).servers
  /\ LET c == [cache EXCEPT ![n] = [Named(cache, n) EXCEPT !.servers = @ \cup {a}]]
         u == Update(store, c, n, c[n], FALSE)
     IN RefreshThen(u.store, u.cache, topo, Failing)
  /\ UNCHANGED <<topo, statsVars, crashes>>

\* DelGSLB: the address removed from the cached record, Update(g); a GSLB
\* left without servers is deleted (store, then cache), then the projection
DelGSLB(n, a) ==
  /\ ops < MaxOps /\ ops' = ops + 1
  /\ cache[n] # Absent /\ a \in cache[n].servers
  /\ LET c == [cache EXCEPT ![n].servers = @ \ {a}]
         u == Update(store, c, n, c[n], FALSE)
     IN \/ u.cache[n].servers # {}
           /\ RefreshThen(u.store, u.cache, topo, Failing)
        \/ u.cache[n].servers = {} /\ StoreMayFail
           /\ store' = u.store /\ cache' = u.cache
        \/ u.cache[n].servers = {}
           /\ RefreshThen([u.store EXCEPT ![n] = Absent], [u.cache EXCEPT ![n] = Absent], topo, Failing)
  /\ UNCHANGED <<topo, statsVars, crashes>>

\* a group handler (AddGroupServer, DelGroupServer, a promotion or
\* trySwitchGroupMaster) changes the topology and projects
TopologyChange ==
  /\ topo < MaxTopo /\ topo' = topo + 1
  /\ RefreshThen(store, cache, topo + 1, Failing)
  /\ UNCHANGED <<statsVars, ops, crashes>>

(***************************************************************************)
(* doStats                                                                 *)
(***************************************************************************)
\* refreshRedisStats under s.mutex: probe the servers of the current groups
Probe ==
  /\ phase = "start"
  /\ phase' = "probing" /\ probed' = topo
  /\ UNCHANGED <<gslbVars, topo, stats, swaps, ops, crashes>>

\* every probe answered or timed out: fut.Wait returns, both in doStats
\* and in the goroutine that swaps the map in
ProbesDone ==
  /\ phase = "probing"
  /\ phase' = "project" /\ swaps' = swaps \cup {probed}
  /\ UNCHANGED <<gslbVars, topo, stats, probed, ops, crashes>>

\* a swap goroutine gets s.mutex: s.stats.servers = stats
Swap(v) ==
  /\ stats' = v /\ swaps' = swaps \ {v}
  /\ UNCHANGED <<gslbVars, topo, probed, phase, ops, crashes>>

\* refreshGSLBBackendInfo under s.mutex, then time.After(timeout)
ProjectWith(Fs) ==
  /\ phase = "project" /\ phase' = "start"
  /\ RefreshThen(store, cache, topo, Fs)
  /\ UNCHANGED <<topo, stats, probed, swaps, ops, crashes>>

Project == ProjectWith(Failing)

\* the dashboard restarts: the mapper's init keeps the stored GSLBs that
\* have servers, s.stats.servers starts empty, doStats starts again
Restart ==
  /\ crashes < MaxCrashes /\ crashes' = crashes + 1
  /\ cache' = [n \in Names |-> IF store[n] # Absent /\ store[n].servers # {}
                                THEN store[n] ELSE Absent]
  /\ stats' = None /\ swaps' = {} /\ phase' = "start" /\ probed' = 0
  /\ UNCHANGED <<store, topo, ops>>

Init ==
  /\ store = [n \in Names |-> Absent] /\ cache = [n \in Names |-> Absent]
  /\ topo = 0 /\ stats = None /\ probed = 0 /\ swaps = {} /\ phase = "start"
  /\ ops = 0 /\ crashes = 0

Next ==
  \/ \E n \in Names, a \in LBs : AddGSLB(n, a) \/ DelGSLB(n, a)
  \/ TopologyChange
  \/ Probe \/ ProbesDone \/ Project
  \/ \E v \in swaps : Swap(v)
  \/ Restart

\* The stats loop and its swap goroutines run (weak fairness); the store
\* accepts the projection's writes infinitely often when asked infinitely
\* often (strong fairness of a projection without failed writes).
Fairness ==
  /\ WF_vars(Probe) /\ WF_vars(ProbesDone) /\ WF_vars(Project)
  /\ \A v \in 0..MaxTopo : WF_vars(v \in swaps /\ Swap(v))
  /\ SF_vars(ProjectWith({{}}))

Spec == Init /\ [][Next]_vars /\ Fairness

(***************************************************************************)
(* Properties                                                              *)
(***************************************************************************)
\* The stored projection is current: the haproxy backends are those of the
\* current topology under its own stats, and stored lvs backends are the
\* rewrite of the cached haproxy GSLB.
Current ==
  /\ cache[Haproxy] # Absent =>
       store[Haproxy] # Absent /\ store[Haproxy].backends = <<topo, topo>>
  /\ store[Lvs] # Absent /\ cache[Lvs] # Absent =>
       store[Lvs].backends = LvsOf(cache).backends

\* Spec 4.6/4.9: once the topology and the GSLB servers stop changing, the
\* stats loop brings the stored backend tables up to date and keeps them
\* so, whatever the map order of the projection, the order in which swap
\* goroutines get the lock, failed writes and restarts.
ProjectionEventuallyCurrent == <>[]Current

\* Spec 4.3: a mapper writes through to the store before its cache.  Every
\* GSLB the dashboard holds is stored with the same servers, so an AddGSLB
\* or DelGSLB that returned survives a restart.
GSLBWriteThrough ==
  \A n \in Names :
    cache[n] # Absent => store[n] # Absent /\ store[n].servers = cache[n].servers

=============================================================================
