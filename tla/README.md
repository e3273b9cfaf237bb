# TLA+ models of pikamgr's topology manager

This directory holds TLA+ models of the dashboard ("topom") of pikamgr, the
control plane of a Pika fleet, and the TLC configurations that check them.
Every action is translated from the Go code under `src/`; `PROJECT.json`
maps each definition to the lines it models.

## The system

| Part | Code | Model |
|---|---|---|
| C1 metadata store (etcd / ZooKeeper) | `coordinate/` | abstracted: an atomic per-path store whose writes may fail; the etcd `Update` and `Delete` in `TemplateFiles` |
| C3 group / sentinel mappers | `topom/dao/mapper/{group,sentinel}_mapper.go` | `Topom`: `store`/`cache`, `sstore`/`scache` |
| C3 GSLB mapper | `topom/dao/mapper/gslb_mapper.go` | `GSLB` |
| C3 topom mapper | `topom/dao/mapper/topom_mapper.go` | `Lifecycle` (`CreateTopom`, `DeleteTopom`) |
| C3 template-file mapper | `topom/dao/mapper/template_file_mapper.go` | `TemplateFiles` |
| C5 sentinel fan-out client | `topom/client/redis/sentinel.go` | `SentinelMasters` refines `MastersQuorum`; product names in `SentinelNames`; `Subscribe` is abstracted in `HAReactor` |
| C6 stats pipeline | `topom/stats.go` | `GSLB` (probe, swap, projection of `doStats`) |
| C7 group FSM | `topom/group.go` | `Topom`; `ResyncGroupAll` in `ResyncAll` |
| C8 HA reactor | `topom/sentinel.go` | `Topom` (record handlers, rewatch, switch); `HAReactor` (subscriber, fetcher, trigger); `HAReactorH` (promotion history) |
| C9 GSLB projector | `topom/gslb.go` | `GSLB` |
| C10 service coordinator | `topom/service.go`, `cmd/dashboard/main.go` | `Topom` (lock, restart); `Lifecycle` (Start, Close, IsOnline, several dashboards of one product) |

How they interact: every operator call takes the single service mutex
`s.mutex`. It reads the cached records from a mapper (`Info()`), mutates
them, and writes them through to the metadata store (`Update`). It may also
talk to Pika servers (`SetMaster`) and to sentinels (`MonitorGroups`,
`RemoveGroups`) while it holds the lock. Concurrently:
  * the HA reactor subscribes to the sentinels, fetches their master
    reports without the lock, and applies them under the lock
    (`switchMasters`);
  * the stats loop probes every server, swaps in the stats map, and projects
    GSLB backends under the lock.

Two facts of the code shape the model:

* **Aliased cache.**
  * `groupMapper.Info` and `sentinelMapper.Info` return the cached map and
    pointer themselves.
  * A handler mutates the cached `*dao.Group` / `*dao.Sentinel` and then calls
    `Update`. When the store write fails, the cache keeps the mutation, although
    spec §4.3 says the cache is updated only after the store.
  * Records built afresh are the exception: `Create`, `Remove` and the final
    promotion commit change the cache only on success.
* **One write per step.** A handler may make several store writes. A crash (or
  a failed write that returns) between two of them leaves a partial state that
  the next call, or a restart, sees.

## Module `Topom`

Topom models state as follows:

* `store[g]` and `cache[g]` are the stored and cached group records. A record is
  servers (a sequence of addresses), `Promoting.Index` (`pidx`),
  `Promoting.State` (`pstate`) and `OutOfSync` (`oos`). Ports, names and
  creation time are left out: no decision reads them, and the port-conflict
  rejection is a stutter.
* `sstore` and `scache` are the sentinel record (a set of sentinels plus
  `OutOfSync`).
* `watched` is the sentinel set `reWatchSentinels` was last called with.
* `haMasters` is the key set of `s.ha.masters`.
* `syncFailed` is a history variable: the servers whose last `SetMaster`
  failed.
* `pc` is the handler holding `s.mutex` and the step it is at ("Idle" when the
  lock is free). `lg`, `laddr`, `reported` and `pending` are that handler's
  locals.
* `up` and `crashes` are the process.

Every handler is split at its store writes. Each step is one action:

| Handler | Actions |
|---|---|
| CreateGroup, RemoveGroup | `CreateGroup`, `RemoveGroup` |
| AddGroupServer | `AddGroupServer` (guards, outOfSyncBySentinel) → `AddServerWrite` |
| DelGroupServer | `DelGroupServer` → `DelServerWrite` |
| ResyncGroup / resyncGroup | `ResyncGroup` → `ResyncSetMaster` → `ResyncMarkOos` |
| GroupPromoteServer | `GroupPromoteServer` → `PromotePrepared` → `PromoteSentinel` → `PromoteSwap` → `ResyncSetMaster`/`ResyncMarkOos` ("PromoteResync") → `PromoteCommit`; a call on a stored promotion resumes at the case of its state (`PromoteResume`) |
| AddSentinel | `AddSentinel` |
| DelSentinel | `DelSentinel` → `DelSentinelRemove` |
| ResyncSentinels | `ResyncSentinels` → `MonitorGroups` |
| switchMasters | `SwitchMasters` → `TrySwitchGroupMaster` per reported group |
| process | `Crash`, `Restart` (the mappers' `init`, then `Start`'s `reWatchSentinels`) |

Two kinds of write are modelled:

* `WriteGroup` / `WriteSentinel` are `Update` of the aliased object. On success
  both copies change. On failure only the cache does, and the handler returns,
  or logs and goes on, as the code does.
* `WriteFreshGroup` is `Create`, `Remove`, or `Update` of a record built afresh.

Calls to Pika and to sentinels have the outcomes the code distinguishes:

* `SetMaster` fails for any subset of the servers.
* `MonitorGroups` and `RemoveGroupsAll` succeed or fail.
* `GetRunId` answers within its timeout or not.

## Runs

All runs use `MC_Topom.tla`, with these settings:

* three Pika addresses `a1..a3` (two, `a1` and `a2`, in `topom_faults`);
* a reported address `r1` that shares `a2`'s run-id, the address-reuse case of
  trySwitchGroupMaster;
* one sentinel `s1`;
* one group (`MCOneGroup`).

The bounds are enough for the following:

* Three servers allow a promotion of a non-adjacent index, a deletion below it,
  and a swap by the reactor.
* The view `StateView` drops the handler locals while the lock is free. Every
  handler assigns them before it reads them.
* `topom_faults` keeps one group. With two groups (under `GroupSymmetry`) the
  state space did not finish within ten minutes, even with no crash. The
  properties it checks are about a single group's members, master and
  sentinel record. Two groups are checked against the sentinels in
  `sentinel_masters`.

| Run | Config | Expect | Shows |
|---|---|---|---|
| topom_faults | store writes may fail, one crash, two addresses | pass | `TypeOK`, `EmptyGroupInSync`, `SentinelInSyncWatched`, `TopologyChangeFlagged` under failed writes and a crash between any two steps |
| topom_hiddenoos | no failure, no crash | violation | `NoHiddenSyncFailure`: the promotion commit clears OutOfSync set by its failed resync |
| topom_promotarget | one crash | violation | `PromotionTargetKept`: DelGroupServer moves the target of a stored promotion |

The properties are these:

* `TopologyChangeFlagged` (action): an operator handler changes a group's
  members or master only while the sentinel record is out of sync (or empty).
  MonitorGroups reads the masters from the cache, so the property is stated
  over the cache.
  * A failed store write whose change a later write of the same aliased
    record persists is therefore not a violation. The sentinels were told
    about it.
  * The restart's reload is not an operator change and is exempt. After a
    failed write, the reload replaces the aliased cache with the stored
    record. The aliasing itself is the `gslb_writethrough` finding's root
    cause; in the group mapper it lets a failed `Del` write followed by an
    `Add` put one address in two groups of the store, and that reload is
    where the sentinels would see it.
* `SentinelInSyncWatched`: an in-sync sentinel record means the HA reactor
  watches exactly its sentinels.
* `EmptyGroupInSync`: spec invariant 1, in the store.

No Topom run assumes fairness: its properties are safety properties.

## Module `SentinelMasters` and its abstraction `MastersQuorum`

`Sentinel.Masters` (`client/redis/sentinel.go:338`) starts one goroutine
per sentinel. Each goroutine sends its masters map, or nil, on a buffered
channel. The caller folds the maps in arrival order and keeps, for each
group, the entry with the strictly higher config-epoch. It counts the
replies that were maps (`voted`). It returns:

* when every worker has answered: the map, if `voted` reached
  `1 + n/2`, and otherwise "lost majority";
* when the context is done: a deadline returns the same way, and a cancel
  returns "canceled".

In the model:

* `reports[s]` is what sentinel `s` would answer: per group, an entry
  (address, epoch) or `None`, for the entries `mastersDispatch` skips.
* `Receive(s)` is a worker's send and the caller's receive as one step. The
  channel is FIFO and the caller reads nothing else, so only the order of
  the replies matters.
* `Expire` and `Cancel` set the context error. `ContextDone` and
  `AllAnswered` are the two ways the call returns.

`MastersQuorum` says what the call promises: it answers once, and the answer
is "lost majority", "canceled", or, for some set `R` of at least a majority
of sentinels, the freshest entry per group among `R`. `SentinelMasters`
implements it: `Quorum == INSTANCE MastersQuorum WITH answer <- result`,
checked as the property `MastersRefinesQuorum`.

Fairness: the call is a single goroutine waiting on a channel and a timer.
The deadline always fires (WF on `Expire`), and a select that is ready
proceeds (WF on `ContextDone` and `AllAnswered`). So the abstract WF on
`Answer` holds.

The bounds: three sentinels (majority two), two groups, two addresses and
two epochs. These allow a stale sentinel with an older master, two
sentinels that disagree at the same epoch, and one or two failures.

## Module `ResyncAll`

`ResyncGroupAll` (`group.go:99`) works as follows, under `s.mutex`:

* It ranges over the map `groupMapper.Info` returns, which is the mapper's
  own map.
* For each group it calls `fut.Add()` and starts a goroutine. The goroutine
  clears `OutOfSync`, calls `Update` and runs `resyncGroup`.
* It then calls `fut.Wait()` and returns the first error.

`sync2.Future` is a dependency outside the repository. Its `Add` is
`wg.Add(1)`, `Done` stores a value and calls `wg.Done()`, and `Wait` is
`wg.Wait()`. The worker calls `fut.Done` only when a step fails.

The model keeps the visited groups (`spawned`), each worker's step, the
WaitGroup's pending set and the groups that reported an error. A worker's
`Update` writes the mapper's map (`groupMapper.Update`). If the range loop
is still running, this is a concurrent map iteration and write. The Go
runtime may abort the process or not, a nondeterministic choice (`pc =
"fatal"`).

`MC_ResyncAll_hang.cfg` checks that the call returns. It does not: TLC's
trace is the hang. An abort on the map race would be the other way it fails
to return. This configuration is kept beside the module but is not one of
the runs listed in `PROJECT.json`. The hang happens on the first call that
resyncs a group without error, so a single unit test of `ResyncGroupAll`
reaches it; the listed runs are kept for cases a test does not reach. To
reproduce it: `tlc -config MC_ResyncAll_hang.cfg MC_ResyncAll`.

## Module `HAReactor`

The reactor (`sentinel.go:149-215`) for one group of two servers, against
the sentinels and the operator. The state is:

* `dashMaster`: the group's `servers[0]`;
* `monitored`, `sentMaster`: whether the sentinels monitor the group, and
  with which master;
* `sub`: the subscriber goroutine. It is subscribing, subscribed (the
  majority callback has run), or in its 10 s delay after `Subscribe`
  returned false.
* `trigger`: the one-slot channel, written by non-blocking sends;
* `fetch`, `tries`, `wins`, `fetched`: the fetcher's loop. It makes at
  most ten attempts and stops after two successes. `fetched` is the master
  from the last answer, waiting for `s.mutex`.
* `orphans`: answers of fetchers whose monitor was canceled after their
  `IsCanceled` check. Each still gets the lock and switches.

The actions are:

* `Failover`: the sentinels move the master. A subscribed worker sees
  `+switch-master`, so `Subscribe` returns true and `callback()` fills the
  trigger. A worker may also see it before the majority has subscribed.
* `Subscribed`, `SubscribeFails`, `SubscribeRetry`: the subscriber.
* `TakeTrigger`, `FetchMasters`, `ApplyMasters`, `ApplyOrphan`: the
  fetcher.
* `OperatorPromote`: `GroupPromoteServer`'s sentinel part and swap.
  `RemoveGroups` may fail.
* `ResyncSentinels`: `RemoveGroupsAll`, then `MonitorGroups`, which may
  leave the sentinels with the old entry, none, or the new one. On success
  the monitor is rewatched.

Fairness for `ReactorConverges`:

* Goroutines that can run do run (WF).
* The 15-minute `Subscribe` deadline ends a subscription (WF on the failure
  of a subscribed `Subscribe`).
* A majority of sentinels answers when asked infinitely often (SF on a
  successful subscribe and a successful `Masters`). Without that no
  dashboard can follow the sentinels.

The bounds: `MaxTries = 10` as in the code; two failovers; two operator
calls. Two calls let a promotion and a rewatch happen in either order around
a fetch.

| Run | Config | Expect | Shows |
|---|---|---|---|
| sentinel_masters | `MC_SentinelMasters.cfg` | pass | `TypeOK`, `MastersRefinesQuorum` |
| ha_converges | `MC_HAReactor.cfg` | pass | `TypeOK`, `ReactorConverges`: the dashboard follows every failover |
| ha_stale_switch | `MC_HAReactor_stale.cfg` (`MC_HAReactorH`) | violation | `ReactorKeepsPromotion`: a fetch made before a promotion undoes it |

### History extension `HAReactorH`

`HAReactorH` extends `HAReactor` with one history variable,
`promotedSinceFetch`. `OperatorPromote` sets it. A `Masters` call that
returns an answer clears it. Every other step leaves it alone, so it adds no
constraint to the reactor.

`ReactorKeepsPromotion` (an action property) says that `switchMasters`
never changes the dashboard master on a map fetched before a promotion that
has since run. Only an operator promotion can break it; sentinel failovers
that overtake a fetch cannot, because the pending trigger corrects those.

TLC's trace has three steps:

1. The fetcher's `Masters` returns `a1`.
2. `GroupPromoteServer` makes `a2` `servers[0]`, and `RemoveGroups` succeeds.
3. `switchMasters` takes `s.mutex` and swaps `a1` back to `servers[0]`.

The group is then no longer monitored, so no later fetch corrects it.

## Module `SentinelNames`

Several products may share the sentinels. The client names a group's
monitor `NodeName = <product>-<group>` (`sentinel.go:44`). It reads back
the `SENTINEL masters` entries that `isSameProduct` accepts: the product
followed by `-` and a non-empty rest, which is taken as the group name.

Names are sequences of the characters `a` and `-`, so prefix tests and
concatenation are those of the code. The model's state and actions:

* `monitors[n]` is the product whose `MonitorGroups` created the monitor
  named `n`.
* `MonitorGroups`, `RemoveGroups` and `RemoveGroupsAll` of each product
  are actions.
* `actor` records the product of the last call.

`ProductIsolation` says a call of one product never removes or takes over
another product's monitor. `validateProduct` accepts `-` in product names,
and the default product is `codis-demo`. With products `a` and `a-a`, the
run `names_nested` violates the property in two steps: `a-a` monitors its
group `a` as `a-a-a`, and `RemoveGroupsAll` of `a` (from `ResyncSentinels`)
removes it. A collision needs one product name to be another followed by
`-`. Without that, the prefixes differ at or before the `-`.

## Module `GSLB`

This module covers the GSLB records, their mapper, and the stats loop that
reprojects them.

* `store` and `cache` hold the GSLB records: servers, monitors and
  backends.
* The group topology is a version `topo`. A group handler's change is
  `TopologyChange`, which also projects.
* `haproxyBackends` is the value `<<topo, stats>>`: the backends computed
  from the topology under the stats snapshot `stats`. With no stats it is
  an error.
* `lvsBackends` is the copy of the cached haproxy record (`LvsOf`).
* `Refresh` is `refreshGSLBBackendInfo` as a RECURSIVE operator over one
  map order:
  * a `getGSLBBackends` error returns at once;
  * otherwise a fresh record goes through `Update`, which writes only when
    the record differs from the cached one;
  * a failed write is only logged.
* `RefreshThen` picks any order (`SetToSeqs`) and any set of failing
  writes.
* `AddGSLB` and `DelGSLB` change the cached record, as the code does with
  the object `Info` returned, and then call `Update` on it.
* `doStats` is `Probe` (`refreshRedisStats` under the lock), `ProbesDone`
  (the futures' `Wait`), `Swap(v)` (a swap goroutine gets the lock; these
  may be left over from earlier cycles) and `Project`.
* `Restart` reloads the cache from the stored records that have servers.

Fairness: the stats loop and the swap goroutines run. Go's mutex hands the
lock to a waiter that has waited over 1 ms, so no swap is starved: WF for
each pending swap. The store accepts a projection's writes infinitely often
when asked infinitely often: SF on a projection without failures. The run
uses two GSLBs (`haproxy`, `lvs`), two addresses, two topology changes, two
GSLB calls and one restart.

| Run | Config | Expect | Shows |
|---|---|---|---|
| names_nested | `MC_SentinelNames_nested.cfg` | violation | `ProductIsolation`: `RemoveGroupsAll` of `a` removes `a-a`'s monitors |
| gslb_projection | `MC_GSLB.cfg` | pass | `ProjectionEventuallyCurrent`: once changes stop, the stored haproxy and lvs backends become and stay current, whatever the map order, swap order, failed writes and restart |
| gslb_writethrough | `MC_GSLB_writethrough.cfg` | violation | `GSLBWriteThrough`: `AddGSLB` leaves a GSLB in the cache that is not stored |

## Module `Lifecycle`

Several dashboards may be configured for one product. The module follows
them through `main` (`cmd/dashboard/main.go`), `service.Start`,
`service.Close` and the topom mapper.

The state:

* `node` is the owner of the stored registration
  `/products/<product>/topom`, or `None`. The owner is the dashboard whose
  `Create` wrote it, identified by its Pid and AdminAddr.
* `phase[d]` is where dashboard `d`'s main goroutine is:
  * `down`: no process;
  * `check`: `Start` at the select on `done`;
  * `create`: `topomMapper.Create` in flight;
  * `running`: registered, with main waiting on `errChan`;
  * `exiting`: main polls `IsOnline`.
* `online[d]` and `closed[d]` are the service's atomic flags.

The actions:

* `Launch(d)`: `main` builds the service, starts the server and signal
  goroutines, and calls `Start`.
* `StartCheck(d)`: the select on `done` at the top of `Start`'s loop.
* `StartCreate(d)`: the store's `Create`-if-absent.
  * On success, `online` is latched and the HA reactor and stats loop start.
  * On failure, the loop goes round again.
* `Close(d)`: the signal or server goroutine closes `done` and deletes the
  registration. The delete may fail, and then `online` stays set.
* `MainShutdown(d)` and `Exit(d)`: the rest of `main`.
* `Crash(d)`: SIGKILL. No `Close` runs, and the registration stays in the
  store.

A dashboard leads (`Leading`) while it is online and its `done` is open.
Those are the conditions under which its HA reactor and stats loop run.
`SingleLeader` says at most one dashboard leads.

The run `lifecycle_leader` uses two dashboards, three process starts, and no
failure or crash. It violates `SingleLeader` in ten steps:

1. `d1` registers.
2. `d2` starts and waits in `Start`.
3. `d2` is stopped. Its `Close` deletes the registration, which is `d1`'s.
4. `d2` exits and is started again, and its `Create` succeeds.

| Run | Config | Expect | Shows |
|---|---|---|---|
| lifecycle_leader | `MC_Lifecycle_leader.cfg` | violation | `SingleLeader`: two dashboards of a product lead at once |
| lifecycle_live | `MC_Lifecycle_live.cfg` | violation | `WaiterEventuallyLed`: a waiting dashboard never leads and nobody else does |

`WaiterEventuallyLed` is checked under `LiveSpec`, which adds this fairness:

* Weak fairness on each process's own steps (`StartCheck`, `StartCreate`,
  `MainShutdown`, `Exit`). A started process keeps running its goroutines.
* Strong fairness on a successful `Create`. The path is free only between
  failed attempts, and the store is assumed to answer a `Create` on a free
  path eventually.
* No fairness on `Launch`, `Close` or `Crash`. They come from the operator.

The run `lifecycle_live` allows failed store writes, three process starts and
one crash. TLC's counterexample is a lasso:

1. `d2` waits in `Start` and sends `Create`.
2. `d2` is stopped while `Create` is in flight. `Close`'s delete finds nothing.
3. `Create` succeeds. `Start` latches `online` without checking `done` again.
4. `main` of `d2` polls `IsOnline` forever, and the registration stays.
5. `d1` retries `Create` forever.

A killed process (the registration is a plain `Create`, not an ephemeral
node) or a failed delete in `Close` leaves the same stuck registration.

## Module `TemplateFiles`

Every dashboard mirrors a local directory of template files into the global
store prefix `/cache-manager/template-files` (`template_file_mapper.go`).
The spec puts this mirror out of its core but describes it (§4.3, scenario
S6). The model follows one dashboard.

The state:

* `disk[f]`: the file `f` the scan glob matches. It is a content, `Absent`,
  or a member of `Unreadable`: a file that `Lstat` accepts and `Open` or
  `Read` reject (a dangling symlink, a file without read permission).
* `store[f]`: the entry `/template-files/f`.
* `tfs[f]`: the mapper's snapshot `m.tfs`, which `Info` serves.
* `pc`: the monitor goroutine (`down`, `idle`, `sync`), and the cycle's
  `scanned`, `toDelete` and `toUpdate`.

The MD5 field is `md5.Sum(data)` on a reset hash. That is the data followed
by the digest of nothing, not the digest of the data. Comparing two such
fields compares the data, so the model keeps the data only.

The actions:

* `Start`: `init` reads every entry into `m.tfs` and writes each entry the
  glob does not find to disk.
* `Scan`: `doMonitor` reads every file. One unreadable file ends the cycle.
* `DeleteStep(f)`: a name of `m.tfs` missing from the scan is deleted. The
  delete's error is dropped.
* `UpdateStep(f)`: after the delete loop, a new or changed name is written.
  A failed write removes the name from the scan, so the next cycle retries.
* `Commit`: `m.tfs` becomes the scan.
* `Stop`: the process ends. `Edit(f, c)`: the operator changes the directory.

The delete and update loops take one name per step, in any order (Go's map
order). A `Stop` may fall between two store writes.

`MirrorConverges` says: while the dashboard runs, a readable file, or a
removed file, eventually has the same content, or no entry, in the store,
unless it changes first. It is checked under `LiveSpec`:

* weak fairness on the monitor's steps;
* strong fairness on a successful `Update` or `Delete` of a name. The store
  eventually accepts a write that is tried again and again.
* no fairness on `Start`, `Stop` and `Edit`, which come from the operator.

| Run | Config | Expect | Shows |
|---|---|---|---|
| tf_mirror | `MC_TemplateFiles_mirror.cfg` | violation | `MirrorConverges`: a file of the directory never reaches the store |

The run uses two files, two contents, one unreadable state, failing store
writes, two directory changes and two process starts. In TLC's trace a file
becomes unreadable, and from then on no cycle mirrors anything.

The same property fails in a second way. With `Unreadable <- MCNoUnreadable`
in the configuration, TLC's trace is a removed file whose delete fails once.
The name leaves `m.tfs`, so no later cycle deletes it. With no store failure
and no unreadable file, the property holds (11,193 states).

`init` also restores to disk every stored entry the glob does not find. A
file removed while the dashboard was down comes back at restart instead of
being deleted from the store. The spec intends this: a new node inherits the
fleet's templates. The property allows it, because the directory changes.

## Findings

| Finding | Run | Where | What happens | What the spec says |
|---|---|---|---|---|
| Failed resync is hidden | `topom_hiddenoos` | `group.go:294` | The promotion commit writes a fresh record without `OutOfSync` | The commit changes no other fields, and the flag is cleared only by an explicit resync. |
| Promotion target moves | `topom_promotarget` | `group.go:197` | `DelGroupServer` does not check `Promoting`, unlike force-full-sync | After a stopped promotion, the target moves or falls out of range. |
| Resync-all hangs | `MC_ResyncAll_hang.cfg` (not a listed run) | `group.go:116` | A worker calls `fut.Done` only on error, so `Wait` blocks forever with `s.mutex` held | The groups are resynced in parallel and the first error is returned (§4.7). |
| Stale switch undoes a promotion | `ha_stale_switch` | `sentinel.go:198` | Masters fetched before a promotion are applied after it; the group goes back to the old master, and with the monitor removed nothing corrects it | `switchMasters` takes `s.mutex`, so it cannot race with operator handlers (§5(3)). |
| Product prefix collision | `names_nested` | `client/redis/sentinel.go:48` | `isSameProduct` accepts another product's names when that product is this one followed by `-` | The client rejects entries of other products (§3). |
| GSLB changes not persisted | `gslb_writethrough` | `gslb_mapper.go:83` | `Update`'s DeepEqual compares the cached record with itself and skips the write | Mappers write through to the store before the cache (§4.3); `DelGSLB` makes two writes (implementation notes, item 4). |
| Registration outlives its dashboard | `lifecycle_live` | `service.go:155` | A `Create` that lands after `Close` latches `online`; `main` hangs on `IsOnline` and the registration blocks every other dashboard. A crash or a failed delete does the same. | The registration is ephemeral and `IsOnline` is false after `Close` (§4.10). |
| Mirror stalls or forgets a delete | `tf_mirror` | `template_file_mapper.go:163` | One unreadable file ends every cycle before any write. A failed delete (line 174) is dropped with its name, so it is never retried. | Every scan mirrors additions, updates and deletions (§4.3, S6); a failed mutation leaves the cache untouched (§4.3). |
| Close deletes the leader's registration | `lifecycle_leader` | `topom_mapper.go:77` | `Close` deletes the topom path without checking that this process created it; a dashboard that never registered removes the leader's registration | Only one writer per product can hold the path at a time (§4.10, Lifecycle). |

## Plan

Later modules, each with its own runs:

1. **Sentinel epochs**: per-sentinel state in `HAReactor`. Re-monitoring
   resets the config-epoch, so a sentinel that missed `MonitorGroups` wins
   `Masters` with its old entry.
2. An unsupported GSLB name (`AddGSLB` accepts any) makes every projection
   that meets it return early. Its effect depends on Go's random map order,
   which TLC cannot express as fairness.

## Not modelled

* The HTTP handlers, configuration, logging and the front-end proxy. They call
  the modelled operations or are I/O.
* The Redis client, which is not under `src/`.
* Path formatting.
* Several dashboards writing the one global `/template-files` prefix.
  `TemplateFiles` follows one dashboard (see its section).
* The front-end proxy (`cmd/fe/main.go`). Its route table is reloaded only
  when a browser calls `/list`, and a failed reload empties it. Which calls
  arrive is up to the browser, so no fairness of the code bounds how stale
  a route gets. `PROJECT.json` lists the stale route as a hazard.
* Composing `Lifecycle` with the handlers of `Topom`, which would show a
  waiting dashboard mutating the product beside the leader (`main.go:100`).
  Both modules already have two violation runs each, and the project keeps
  twelve runs.
