# TLA+ models of the SONiC switch state service

This directory holds TLA+ specifications of the parts of sonic-swss that move
state between processes: the queues, caches, threads and restart procedures
between the sync daemons, APP_DB and orchagent.  TLC checks them on small
instances, and TLAPS proves the main safety properties for every value of the
constants.

    tlc -workers 2 -config MCConsumerSync.cfg MCConsumerSync
    tlapm OrchProofs.tla

`PROJECT.json` lists the components, the runs, the mutants each property is
tested with, the source lines of every definition, the hazards and the findings.

## 1. The system

    zebra --FPM--> fpmsyncd --(redis | coalescer, ZMQ)--> orchagent --> syncd (SAI)
    kernel -netlink-> neighsyncd, fdbsyncd, natsyncd ... -> APP_DB -> orchagent
    CONFIG_DB -> cfgmgr daemons -> APP_DB

| Part | State | Operations | Hard behaviour |
|---|---|---|---|
| `ConsumerBase`, `RetryCache` (orchagent/orch.cpp, retrycache.h) | `m_toSync`, a multimap of pending tasks; tasks parked on a missing object and the two indices over them | `addToSync`, `refillToSync`, `drain`, `addToRetry`, `notifyRetry`, `retryToSync` | updates of one key in several places at once; a quota per turn; notifications between failure and parking |
| `RingBuffer`, `OrchDaemon` main loop (orch.cpp, orchdaemon.cpp; option -R) | ring, idle flag, condition variable, two threads | `push`, `pop`, `notify`, `processAnyTask`, `start`, `flush`, `warmRestartCheck`, destructor | shared fields without a lock, lost wake-ups, busy waiting |
| `RouteSendCoalescer` (fpmsyncd) | two last-writer-wins maps, a chunk in flight, episodes, timers | `upsertKco`, `drainOnce`, `drainTable`, `evaluateAssertThresholds`, `stop` | new routes during a send, re-merge after failure, two tables sharing a thread, hand-over at a warm restart |
| `AppRestartAssist` (warmrestart; neighsyncd, fdbsyncd, natsyncd) | cache of restored rows with a mark per entry | `readTablesToMap`, `insertToMap`, `reconcile` | announcements in any number before the timer, restart in the middle of reconciliation |
| `WarmStartHelper` (warmrestart; fpmsyncd) | restoration vector and refresh map per table | `checkAndStart`, `runRestoration`, `insertRefreshMap`, `reconcile` | lost connections, two timers, several tables behind one helper |
| `ZmqRouteConsumer` (orchagent/zmqrouteorch.cpp) | staging map under a mutex, wake-up of the main loop | poll-thread callback, `execute`, `drain` | poll thread against main loop; four places that merge in different ways |
| `RouteOrch`, `EntityBulker` (routeorch.cpp, bulker.h), next hops of NeighOrch, VRFs of VRFOrch | routes, groups, reference counts, a bulk under way, the ASIC | `doTask`, `addRoute`, `addRoutePost`, `removeRoute`, `removeRoutePost`, `addNextHopGroup`, `removeNextHopGroup`, neighbour tasks, ports up and down | requests judged before the bulk in front of them is executed, regrouping, limits, removals that must wait for references |
| `P4Orch` and its managers (p4orch) | tables of the managers, OID mapper, watch ports | `doTask`, `drain` of each manager, port changes, warm restart | bulk calls that fail in the middle, cross references, ports flapping between requests |
| `FdbOrch`, bridge ports of PortsOrch | MAC cache, saved entries, counters, STATE_DB | FDB_TABLE tasks, notifications, flushes, port and VLAN changes | the ASIC learns, moves, ages and flushes by itself |
| System LAGs (portsorch.cpp, lagids.lua) | ids shared by line cards in CHASSIS_APP_DB | `addLag`, `removeLag`, the script, notifications of other cards | several orchagents on one free list, SAI failures, refused DELs |
| `MuxOrch` (muxorch.cpp, neighorch.cpp) | cables, neighbours, tunnel routes, routes and counts | cable configuration and state, neighbours, FDB, routes | five tables in any order, a change of state that fails half way |
| `ResponsePublisher` | queue, thread, pending batch | `publish`, `flush`, asynchronous batch | two ways to publish one key |
| NhgOrch, Srv6Orch, BfdOrch, MacMoveGuard | objects and reference counts, sessions | one handler per table | removals that must wait, notifications racing configuration |
| `OrchDaemon::warmRestoreAndSyncUp` | pending tasks of all orchs | bake, three rounds of `doTask`, validation, apply view | dependencies between restored tables |
| other orchs, cfgmgr, other daemons | object life cycles around SAI calls and shell commands | one handler per table | they share the consumer modelled in ConsumerSync |

What makes them correct: a consumer applies what its producers asked for last,
whatever waits where; the ring keeps order and keeps the two threads apart; the
coalescer neither drops a route nor lets an old one overtake a new one; a warm
restart ends with what the kernel or zebra holds and leaves alone what did not
change; what an orch believes to be in the ASIC is there, and nothing is removed
that something else still uses; everything that waits is served in the end.

## 2. Modules

| Module | Models |
|---|---|
| `RetryCache` | the retry cache as a value with the operations of the class (no state of its own) |
| `ConsumerSync` | one consumer: SyncMap, retry cache, main-loop turns, a handler that parks |
| `OrchRing` | the ring buffer, the ring thread and the main loop |
| `RouteSendCoalescer` | the maps, the send thread and the main thread of fpmsyncd |
| `AppTable` | external: a ProducerStateTable and the rows behind it, from its use in the daemons |
| `AppRestartAssist` | the restart cache with neighsyncd or fdbsyncd as its client, over `AppTable` |
| `WarmStartHelper` | the helper with fpmsyncd as its client, over `AppTable` |
| `RouteRegister` | what the way of a route promises: a register per prefix that shows whole requests and never goes back |
| `RoutePath` | the way of a route from RouteSync to RouteOrch's handler over ZMQ or Redis; implements `RouteRegister` |
| `SaiHelper` | how orchagent reads the status of a SAI call |
| `EntityBulker` | the bulker as a value, with the SAI table behind it |
| `RouteOrch` | routes, next-hop groups, next hops and VRFs, over `EntityBulker` |
| `P4Orch` | P4Orch with the managers of interfaces, neighbours, tunnels, next hops, groups and routes, over `EntityBulker` |
| `FdbOrch` | FdbOrch, the ports of a VLAN and an ASIC that learns |
| `SystemLag` | the LAGs of a chassis and the allocator of their ids |
| `MuxOrch` | one switch of a dual-ToR pair: cables, neighbours, tunnel routes, routes |
| `MC*` | constants for TLC |
| `OrchProofs` | theorems and proofs about `ConsumerSync` and `OrchRing` |
| other `*Proofs` | theorems and proofs about the module of that name |

### ConsumerSync

`m_toSync` maps a key to the sequence of its tasks, in order of insertion (the
multimap's equal range).  A turn of the main loop is a sequence of steps: `Pops`
(one entry of a batch goes through `addToSync`), `RefillToSync`, or `DoTask` with
`RetryToSync` and `ReAdd`; then `StartDrain`, one step per task (`TaskSuccess`,
`TaskCached`, `TaskNeedRetry`) and `EndDrain`.  Between turns other orchs create
objects (`NotifyRetry`) and remove them (`ObjectRemoved`, once nothing refers to
them).  A list of fields is a function to values; merging keeps the newer value
of each field.  The code compares a new SET with a parked one by their lists,
order included: whether the order is the same is left open (`sameOrder`).
`applied` is what the handler has accepted, merged over the SETs since the last
DEL; `intent` is the same for what the producers sent.

The handler is the one of the tables that use the cache (MY_SID entries on a VRF
or next hop, routes on a PIC context): success, parked, or `task_need_retry`.
`DelRetries` says whether the handler may leave a DEL in the map; Srv6Orch's does
when removing the object fails (lines 2150 and 2886).  Such a DEL runs after a SET that
was behind it and removes what was just asked for: the history `due` is `intent` less
exactly those SETs, which `TaskSuccess` takes out when the walk has left a DEL of the key
behind (`Overtakes`).

### OrchRing

A step is one access to a shared field.  Batches are numbered as they are pushed.
`goal` is what the main thread wants an empty and idle ring for; `Continue` gives
the next goal, which is the control flow of `start()`.  `notify()` wakes the ring
thread only when it already waits, since the mutex is not taken.  The fields are
plain, so a target may show the store of the idle flag late: `in_order` is chosen
at the start, and `StoreVisible` delivers a delayed store.  `pending` abstracts
the contents of all `m_toSync` maps.

### RouteSendCoalescer

An operation is the number of the upsert that brought it, so SET and DEL need not be
told apart: last writer wins by number. A step is a critical section of `m_mutex` or a
send, which succeeds or throws. Timestamps are ages in ticks, and a tick may come at any
time. Before the process exits the depth is sampled under the lock, counted and recorded
without it (`EvaluateAssertThresholds`, `WriteAssertRecord`, `ExitProcess`), with
upserts in between, which `late` names. At a warm restart the main thread stops the send
thread and then writes directly (`DirectSet`).

### AppRestartAssist and WarmStartHelper

Both keep the source of truth (`kernel`, `zebra`), the rows of APP_DB, the
operations staged in redis and not popped by orchagent, and the state of the
daemon.  The daemon can go down at any point and starts again; what was staged is
cleared by the start.  `steady`, `early`, `readded`, `missed` are history
variables that the properties refer to and no guard reads.

In `WarmStartHelper` a row is addressed by table and key, and a field is a list
of tokens (a comma separated value), since the comparison of rows sorts them.
`Context` is the table name the caller passes to `insertRefreshMap`.  A lost
connection and a death of the daemon are one action that may also lose what was
not flushed.  The operations of one key are taken to reach redis together.

### RoutePath and RouteRegister

Four places hold requests between fpmsyncd and RouteOrch, and they merge in two
ways: the coalescing map of fpmsyncd and `m_ingress` keep the newest request of a
key as a whole, a state table in Redis and `m_toSync` merge field by field.  A
route is three fields, so that a forgotten one can be seen.  Requests are numbered
per prefix; `at` is the number of the one that is programmed.  The refinement maps
what is programmed to the register's `shown`.  Over Redis `m_toSync` mixes the
fields of two requests (see section 5), so there only their order is compared.
`Send` is the coalescer without its failures, which RouteSendCoalescer models.

### RouteOrch and EntityBulker

`doTask` is cut into the steps of its loops (`phase`): requests are turned into
bulker calls one by one, the bulk is flushed, results are looked at one by one, and
groups without references are reaped.  A next-hop group key is a set of next hops.
SAI serves a request when its table allows it, and may refuse those of `Refusals`.
`NothingDangles` says that every object a route or group of the ASIC names exists;
`AsicAsBelieved` that between two `doTask`s the ASIC holds `m_syncdRoutes`, and
`Settled` that a route is what its last task asked for when no task is left.

What the code gets wrong after a refusal is kept in history variables.  `torn` are the
routes of which SAI executed some settings of an update and refused others, until an
update is executed as a whole; `stranded` the groups made for an update that was refused;
`asked` is given up when a SET is done while a refused DEL in front of it stays, for the
DEL will undo it.  `PostSetSpins` is the loop of `doTask` that does not advance.

### P4Orch

A batch is one step: the requests are grouped by table, each manager validates,
programs and answers its requests, and after the first failure the rest are
answered "not executed".  The handlers are operators over a record of the state.
SAI may refuse one call of a batch, any one.  `critical` remembers objects for which
the code itself raises a critical state (a failed roll-back), `dropped` those that a
refused request left torn; `ObjectsAsBelieved` leaves both out.  `verdict` tells how the
last batch was answered: each request once, and nothing changed by those behind the first
failure, except where the code is known to go on (`GoesOn`, section 5).

### FdbOrch, SystemLag, MuxOrch

In `FdbOrch` the ASIC takes steps of its own and tells of them through a queue, in
order; a flush marks cached entries when it is asked for and removes them when it is
notified.  In `SystemLag` every access to CHASSIS_APP_DB by a card is a step, and
the other cards run between them.  In `MuxOrch` a request is one step, since the
code runs it to the end in one thread; one SAI call of a change of state may fail
and the roll-back runs.  A handler is a chain of operators over a record `Now` of the
whole state.  A loop of the code over the neighbours of a cable is one operator over
the set of them: what it does for one neighbour does not touch another, and `Reached`
says how far a loop gets that stops at a failure.

The three have a variable `excused`: what happened to a MAC, a LAG or a neighbour
that the code is known not to cope with.  A property leaves out exactly the objects
concerned, and the definitions of the excuses say which step puts one there
(`Excuses` in FdbOrch; `Excuse` in MuxOrch; the failed creation, and the SET
behind a refused DEL, in SystemLag).  Section 5 lists them.

## 3. Runs

| Run | Instance | Shows |
|---|---|---|
| `consumer_sync` | 2 keys, 2 dependencies, retry quota 1 | `Golden`, `CacheIndexed`, `NoLostResolution`, `EventuallyApplied` |
| `ring` | 3 slots, 5 batches, both memory orders | `Serialised`, `Fifo`, `NobodyWaitsForEver` (batches are run, busy loops end) |
| `coalescer` | 2 keys, 2 tables, chunks of 1 | `NothingDropped`, `NoStaleWrite`, `ReportsTrue` (`LossCounted`, `EpisodeOwesWork`), `EventuallyDelivered` |
| `assist` | neighsyncd, 2 entries, 2 restarts, 3 changes | `ConvergedUnlessReadded`, `Hitless` |
| `helper` | a prefix and a SID, 2 lost connections, 2 changes | `Reconciles`, `Hitless` |
| `route_path` | 2 prefixes, 3 requests, both transports | `Consistent` (`NewestUnderway`, `NoLostWakeup`), `DatabaseExact`, `ImplementsRegister`, `EventuallyShown` |
| `routes` | default route, 2 routes in 2 VRFs, 3 next hops, 1 group allowed, bulks of 2, 1 refused call per flush | `AsicAsBelieved`, `Settled`, `NothingDangles`, `Consistent` (`GroupsCounted`, `GroupsServe`, `NextHopsCounted`) |
| `routes_swap` | default route and a route that falls back to it, 2 next hops | violates `NextHopsCounted` |
| `p4` | an object or two of each manager, batches of up to 2 requests, 1 refused call per batch | `Consistent` (`RefCounts`), `ObjectsAsBelieved`, `StopsAtFailure`, `DatabaseRestores`, `WatchPortsFollowed` |
| `fdb` | 1 MAC, 2 ports and a tunnel, up to 4 changes and 5 steps of the ASIC, few of one with many of the other | `Consistent` (`VlanCountExact`, `TunnelCountExact`, `StateDbExact`), `Agreement` (with `NoGhosts`), `StaticSurvives` |
| `lag` | 2 cards with a LAG each, 2 ids, 1 card of the previous image | `IdsUnique`, `Consistent` (`FreeListSound`, `FullMeansFull`, `NoIdKept`), `RowsTruthful`, `Converges` |
| `mux` | 2 ports, 2 neighbours, 2 routes, 9 requests, 1 failure | `Consistent` (`OneOwner`, `NoTunnelLeft`), `Steered`, `RoutesFollow`, `RefExact` |

`Consistent` is, in each module, the conjunction of `TypeOK` and the named parts that
are about the module's own bookkeeping; `PROJECT.json` has mutants for the parts.  The
types of ConsumerSync, OrchRing, RouteSendCoalescer and AppRestartAssist, and
`SyncMapShape`, are proved (section 4) and not repeated in the runs.  `routes_swap` ends in a
violation: a member of a group swapped for the default route's next hop keeps its
reference for ever once the group is removed, because the list of the swapped
members is emptied before their references are given back (routeorch.cpp 1758 and
1835).

**Bounds.**  Two keys let tasks of different keys interleave and let a quota of
one leave a key behind; two dependencies let a SET change what it waits for.  Three
slots and five batches fill the ring and wrap it around more than once.  Chunks of
one operation make a sweep of two keys take two sends, so that one can fail after
the other.  Two restarts let the second hit the first in the middle of
reconciliation; three changes let an entry appear, go and come back.  The lists of
`helper` have two members, enough to be permuted, and entries with and without a
second field.  Three requests in `route_path` let one be programmed, one wait in
`m_toSync` and one be on its way.  `routes` has one group fewer than its routes ask
for, so that a route waits with a temporary next hop, and a bulk is smaller than the
number of tasks, so that it is flushed in the middle; `MaxKeys`
and `MaxTasks` bound the keys and the tasks that wait together (a DEL and a SET of one key
and a task of another fit), `Flapping` the next hops that go away, and a neighbour is
announced when it comes and when it goes, not again.  In a flush one call may be refused: a
creation of the first route as existing, any setting of the default route or of the second
route, which moves between groups, for want of room.  Two cards and two ids of
which an old card may hold one make the free list run empty.  Nine requests let a
neighbour of `mux` get a cable, an entry, a route, a MAC, move, and change state and
back.  Four changes of `fdb` let a port leave, a request be saved for it, a newer one be
applied elsewhere and the port come back; five steps of the ASIC and as many
notifications let an ageing that is sent again move behind a LEARN and a MOVE; `MaxSteps`
bounds both together (from 4 changes and no step of the ASIC, or 3 and 2, to 1 and 5), as neither
case needs many of both.

Some bounds are state constraints, which stop the exploration and not the check:
`OneExcuse` follows `fdb` up to the second excused event; `SecondMacEarly`,
`SecondGroupAlone` and `TornWithoutTunnels` explore the second MAC address, the second
group and a torn route of `p4` only with part of the other objects, and `SecondMetaLast`
not what comes after an update of the second route. The batches of `p4` are the pairs
whose objects depend on each other or are of one table, two groups and two routes
included: the second group also changes its watch port only, which needs no call of SAI.
None of these runs checks a temporal property.

Where the deadlock check is off (`assist`, `helper`, `route_path`, `fdb`, `lag`, `mux`),
the changes of the environment are bounded and the system then waits; no other run
switches it off.  In `routes` it is a check of its own: a task that no branch of
`doTask` would take ends the run.

**Fairness.**  `ConsumerSync`: a turn that has begun ends, `doTask()` is called
again and again (the select loop times out), and a transient failure does not
last for ever (strong fairness of `TaskSuccess`).  Nothing is assumed of the
producers or of other orchs; `EventuallyApplied` has their quiescence as its
premise.  `OrchRing`: both threads run, a store becomes visible in the end, and the
periodic flush, which the main loop does by the clock, comes round (strong
fairness, since other events may come first).  `RouteSendCoalescer`: the send thread
runs and sends of the tables in `Healthy` succeed now and then; of the other table
nothing is assumed.  `RoutePath`: the threads run, a burst ends (the poll loop times
out), the select loop comes round to every consumer that has something (strong
fairness), and what a route waits for comes.  `SystemLag`: each card keeps retrying
what waits (`doTask()` after every select) and reading its notifications, and the users
of a LAG whose removal waits let it go in the end (their own tables delete it too);
SAI failures are bounded.

## 4. Proofs

| Theorem | States |
|---|---|
| `OrchProofs!ConsumerSyncInvariants` | types, `SyncMapShape`, `CacheIndexed` |
| `OrchProofs!NoResolutionIsLost` | `NoLostResolution` |
| `OrchProofs!GoldenStatus` | `Golden`, also when handlers leave tasks behind |
| `OrchProofs!RingFifo` | types and `Fifo`, for every ring size and memory order |
| `OrchProofs!RingSerialised` | `Serialised` |
| `RouteSendCoalescerProofs!CoalescerDropsNothing` | `NothingDropped` |
| `RouteSendCoalescerProofs!CoalescerNoStaleWrite` | the action property `NoStaleWrite` |
| `AppRestartAssistProofs!NeighReconciles` | `ConvergedUnlessReadded`, for clients that write whole entries through the cache |
| `RouteSendCoalescerProofs!CoalescerSendsInBudget` | `SendsInBudget`: what a send carries, against the batch size and the budget of the cycle |
| `RouteSendCoalescerProofs!CoalescerReportsTrue` | `ReportsTrue` |
| `AppRestartAssistProofs!NeighHitless` | `Hitless`, for the same clients |
| `WarmStartHelperProofs!SpecTypeOK` | `TypeOK` |
| `WarmStartHelperProofs!SpecReconciles`, `SpecHitless` | `Reconciles` and `Hitless`, for keys of registered tables |
| `RoutePathProofs!SpecConsistent` | `TypeOK`, `NewestUnderway`, `NoLostWakeup` |
| `RoutePathProofs!SpecDatabaseExact` | `DatabaseExact` |
| `RoutePathProofs!SpecImplementsRegister` | the refinement of `RouteRegister`, over both transports |
| `SystemLagProofs!SpecConsistent` | `TypeOK`, `FreeListSound`, `FullMeansFull`, `NoIdKept` |
| `SystemLagProofs!SpecIdsUnique`, `SpecRowsTruthful` | `IdsUnique`, `RowsTruthful` |
| `FdbOrchProofs!FdbConsistent` | `TypeOK`, `VlanCountExact`, `TunnelCountExact`, `StateDbExact` |
| `FdbOrchProofs!FdbAgreement`, `FdbStaticSurvives` | `Agreement` with `NoGhosts`; `StaticSurvives` |
| `MuxOrchProofs!MuxConsistent` | `TypeOK`, `OneOwner`, `NoTunnelLeft` |
| `MuxOrchProofs!MuxSteered`, `MuxRoutesFollow`, `MuxRefExact` | `Steered`, `RoutesFollow`, `RefExact` |

*ConsumerSync.*  The invariant couples the two containers: a queued SET and a
parked task of one key exclude each other, so a key is parked at most once, so
unbinding a key from its constraint never strands a second task.  `TurnOK` keeps
the drain's iterators inside their ranges and the retried tasks out of the cache.
`Golden` then follows from an algebra of tasks: a merge followed by an application
equals the two applications, and a DEL absorbs what came before it.  A SET applied past a
DEL that stays in front is the one case in which the two orders differ; the outcome
of the key is then no entry at all, which is what `due` becomes in that step.

*OrchRing.*  `Flags` says that the idle flag is down exactly while the ring thread
pops and runs, that the thread leaves its wait only for a batch or to exit, and
that what the main thread has read stays true until it acts: the buffer can only
fill by its own hand, and a ring thread that is idle over an empty buffer does not
become busy.  With `Fifo` (pushed = done + taken + queued) this gives `Serialised`.

*RouteSendCoalescer.*  `Freshest` is the strengthening: what is pending is the last
operation asked for; what is in flight is, if nothing is pending; what was
delivered is, if neither is there.  `FlightNewer` orders the chunk against what was
delivered, and `OwnsAlone` says that the main thread writes only when the send
thread is gone.
For the reports a second invariant, `Reports`, is needed: a chunk is never
empty and never larger than the budget (`FirstFacts`); what waits is strictly newer
than what is in flight (`Strict`), so the routes counted at the end are exactly the
ones not delivered; what was there when the depth was sampled (`Old`) stays as many until
the exit (`Counted`); and `Episode` follows a failed send through the rest of its
cycle, to show that an episode that stays open has work in a map.

*AppRestartAssist.*  `Marks` gives each mark its meaning in terms of the row, and
`Agree` says that what was announced is what reconciliation will leave (`Outcome`).
Two hypotheses are about the client: every entry has all the fields
(`FullEntries`), and the client is neighsyncd's kind.

*WarmStartHelper.*  The invariant follows each row from one phase to the next
(`KeyInv`): while restoring, the restoration vector is the row and the refresh map
holds what zebra sent (`Untouched`); during `reconcile()` a row is untouched or done
(`InStep`), and afterwards all are done.  Rows no key is written to are absent
(`Foreign`).  The lemmas `CompareSame` and `SameCompare` show that the comparison of
sorted token lists in `compareAllFV` finds a difference exactly when two rows
differ as bags of tokens.  `OnlyRegistered`, the one hypothesis, is what label routes do not
satisfy (section 5).

*RoutePath.*  Over ZMQ (`Zmq`) every place of the way holds whole requests
(`Carried`), the places are in the order of the requests (`InOrder`), and the newest
one is in the last place that is not empty (`Newest`).  Over Redis (`Redis`) the state
table, with its mark that the hash is to be deleted first, stands for the last request
until it is popped, and the hash of the table from then on.  `Queues` bounds `m_toSync` to a DEL
and a SET behind it.  The refinement follows step by step: only `TaskSuccess` changes
what is shown, and only to a later request.

*SystemLag.*  `Ids` ties the list, the set and the table of lagids.lua together: each
id is listed once, is not listed while a LAG has it, and the set is what the table and
the old cards hold.  `OwnLag` says how far a card is with its own LAG and what table,
row and ASIC hold at each of the steps between two accesses to CHASSIS_APP_DB; a
card works only on LAGs it owns, so no other card interferes with that.

*MuxOrch.*  The invariant, `Good(Now)`, is a conjunction over the neighbours that are
not excused (`NInv`), so that a request has to be followed only for the neighbours it
touches; `SameAt` and `Untouched` deal with the others.  It adds to the properties what
the next request finds: the entry in `mux_nexthop_tb_` names a port only while the neighbour
is at its cable (`Named`), the FDB and the server subnet agree with that cable (`Belongs`),
an active cable holds the neighbour's own next hop or a null one and a standby cable the
tunnel's (`Serving`, `Standing`), and no next hop of NeighOrch is null (`Entry`).  One
lemma per operator says what it changes, one per handler (`CableAdds`, `CableRemoves`,
`EnabledDoes`, `DisabledDoes`) what becomes of a neighbour.  A change of state that fails
is where the argument is: whichever call fails, `enable` leaves a neighbour with a count
between zero and its routes (`AtMost`), which `disable` takes back to zero since the count
does not go below; and `disable` leaves it uncounted (`Uncounted`), which `enable` counts
from zero again, except for the routes the loop had not reached, which are the excuse.

*FdbOrch.*  A handler is a chain of calls that each change the cache, a counter or a
row, and in the middle of it nothing adds up.  So the proof keeps books: `VlanOff`,
`TunnelOff` and `CrmOff` say by how much a counter differs from what it should be,
`RowOk` and `PeerRowOk` whether the rows of a MAC are right, and one lemma per call says
how far it moves them (`Ledger`); a handler is right when its calls add up to nothing.
The two miscounts of the code (`strays`, `torn`) can happen to a MAC any number of
times, so each occurrence is an element of its own, and the counters are exact up to
their number.  The invariant (`Good`) adds that entries at the tunnel are of a VTEP and
at the bridge port it has now (`TunnelsOk`): this is why the tunnel can go when its
counter is zero, and what a MAC aged at the tunnel in place of a port that is gone
destroys (`stale`).  The two loops, over the entries a flush removes and over the
saved entries of a port that joins, are folds; the fold is unfolded once
(`FlushFold`, `SavedFold`) and followed by induction over the subsets of what it runs over
(`FiniteInduct`): before each step of the first the entries still to go are
there, of the second the port is a member.

`Agreement` speaks of the time when no notification is on the way; what holds while some
are is the second invariant (`Durable`, which adds `Lasting`).  `InStep` relates one MAC's
cached entry, its entry in the ASIC and the queue.  When nothing about the MAC is on the
way (`Idle`), either both entries are there and equal, or neither, or a flush on the way
will find the cached one marked.  Otherwise `QueueOk` says that the ASIC's entry is what the
last notification about the MAC tells (gone after AGED; where LEARNED or MOVE says), that a
LEARNED comes after whatever was before has been aged, that no flush is behind a
notification about the MAC, and what the last but one is; and `Busy` that the cache can
take them: a LEARNED finds no entry, or one that a flush before it takes away.  The queue
is an ordered set, since a notification that is sent again moves to the end
(`QueuedOrder`); the proof looks at what is before what (`Before`), never at positions.
Each step of the ASIC is followed through the three cases (`LearntInStep`, `MovedInStep`,
`AgedInStep`), and so is the notification that is taken off (`PoppedFacts`).  Two calls of a
handler change what `InStep` of other MACs rests on: a flush, and a bridge port that comes
or goes.  Whoever was on the way is excused at that point (`Crosses`); of the others
`flushFDBEntriesSound`, `BridgePortGoneSound` and `PortsSound` show that they stay in step: a
bridge port goes only when no entry in the ASIC is at it, so neither is a cached one that
is not about to be flushed.

For `StaticSurvives`, `Fixed` says that a static entry of FDB_TABLE has no leave to move
in the ASIC, and that a MOVE on the way is behind an AGED, which puts the entry back
before the MOVE is handled; `AnswerOk` that what is asked for is cached, saved or
excused, and `NotLearnt` that nothing saved is of a learnt MAC. A port that joins
empties its saved entries before it tries them one by one, so between two tries what is
asked for may be nowhere but in the list still to be tried (`Tried`). Three excuses are
there because attempts to prove this failed without them: an AGED that moved behind
later notifications (`reordered`), a saved request that is older than the one applied
elsewhere (`superseded`; TLC finds both with the bounds of `fdb`), and notifications
that cross a flush which a handler asks for in the middle of its own work (`Crosses` in
`flush_fdb_entries`).

The proofs assume only the named `ASSUME`s on the constants: those of `RoutePath` say
that a route names next hops or a group, never both (the branches at routesync.cpp
2831 and 2841), those of `SystemLag` and `WarmStartHelper` that ids are positive and
fields finitely many, those of `MuxOrch` that addresses are ordered, routes finitely many
and the names for no port not ports, and those of `FdbOrch` that MACs are finitely many,
the names for no port and for any MAC are neither, and only VXLAN_FDB_TABLE has remote VTEPs.

Only model-checked:
- liveness, since the prover does not handle fairness: `EventuallyApplied`,
  `NobodyWaitsForEver`, `EventuallyDelivered`, `EventuallyShown`, `Converges`;
- `RouteOrch` and `P4Orch`: a handler folds over a bulk or a batch, and every
  step of the fold calls operators that fold again over the members of groups, with
  bulker calls under way between them; the invariant would have to speak of each
  position in each of these folds.

## 5. What the code does not keep

Found while modelling, with TLC where the place is in a model.  The properties are
stated so that they leave these out, or the instance does not reach them, as said.

- A DEL that a handler leaves in `m_toSync` for a retry runs after the SET that came
  behind it and removes the new entry (srv6orch.cpp 2886; portsorch.cpp 6304 for
  LAGs).  In `Golden` and `EventuallyApplied` it is `due`, not `intent`, that is met;
  `Converges` excuses the LAG.
- Notifications and timers run orch code without waiting for the ring, and READY is
  answered to a warm-restart request before the ring has drained (notifier.h 23,
  orchdaemon.cpp 1229).  `Serialised` is about work that does wait.
- The stuck timer of the coalescer restarts when a route is updated during a failing
  send, so a table whose sends fail for ever need not be caught.
- What the main thread upserts between the sampling of the depth and `_Exit` is lost and
  not counted, although "record the count before it goes" is said there
  (routesendcoalescer.cpp 455, 471, 514): `late`, which `ReportsTrue` leaves out.
- An entry that is new, deleted and announced again before the timer ends as SAME and
  is not written (warmRestartAssist.cpp 234): `readded`.  fdbsyncd deletes the row of
  an unchanged MAC and does not write it back (fdbsync.cpp 1087): `assist` has
  neighsyncd as its client.
- Label routes that change during a restart are reconciled into ROUTE_TABLE
  (routesync.cpp 262): `helper` has no labels.  Weights swapped between two next hops
  are taken for no change, since each list is sorted by itself
  (warmRestartHelper.cpp 347): no entries of the instance differ only so.
- Without a warm restart, routes that zebra withdrew while it was not connected stay
  (fpmsyncd.cpp 195).
- Over Redis a SET that meets a waiting one is merged field by field, so a route can
  reach the handler with a next hop and a group, and is dropped (orch.cpp 383).
- A DEL and a SET of the default route in one bulk can reach the second loop of
  `RouteOrch::doTask` in a state no branch handles, and its iterator does not advance
  (routeorch.cpp 1199): when the SET is to blackhole, which `routes` does not ask for, and
  when SAI refused the DEL and the SET is to the next hops the route still has
  (`PostSetSpins`).  When the SET is to others it is done and erased, and the DEL that
  stays removes the route later: `asked`.
- `addRoutePost` reads the status of the default route's packet action (pushed at
  routeorch.cpp 2387) as that of its next hop (pushed at 2404, read at 2657), whose own is
  never read: a next hop that SAI refuses is believed synced.  When one setting of an
  update is executed and another refused, the old route is kept while SAI has half of the
  new one (2633).  `AsicAsBelieved`, `Settled` and the next hops of `NothingDangles` leave
  these routes out: `torn`.  A default route whose refused next hop is a group would keep
  SAI from removing a group whose members are already gone; in `routes` it has a single next hop.
  For blackholes, which `routes` does not ask for, the drop is looked at after the old next
  hops were released (2739).
- A group whose route is refused for want of room is removed at once, also while
  routes of the same bulk use it (routeorch.cpp 2606): `routes` refuses creations only
  as already existing.  A group made for an update that is refused is kept without a
  route (2673), until some route uses it and lets it go: `stranded`, in `GroupsCounted`.
- The bulks of P4 routes do not stop at an error (bulker.h 831, 869, 909), although
  route_manager.cpp 591 and 748 say so: a route whose creation or removal is behind a
  refused one is created or removed, and answered so; behind a refused update attributes are
  set and answered as not executed (`dropped`). The update of a group that needs no call of
  SAI is done and answered as a success behind a refused one (wcmp_manager.cpp 423).
  `GoesOn` allows for these in `StopsAtFailure`. A watch-port event queued for a group is
  dropped with a request that SAI refuses (wcmp_manager.cpp 491): `dropped`.
- LEARN of a MAC of the MCLAG peer on another port counts the VLAN's entries down and
  then breaks; `flushFdbByVlan` flushes entries it has not marked; a static MAC saved
  for a port is dropped when the entry it replaces names a bridge port that is gone; an
  AGED at the tunnel for a MAC whose own bridge port is gone counts the tunnel down
  (fdborch.cpp 614); a MAC removed for a move to a VTEP that then does not fit stays in
  the CRM counter; a request saved for a port is not forgotten when a newer one for
  another port is applied, and takes its place when the port joins (fdborch.cpp 1803); a
  static MAC whose AGED was sent again behind a MOVE is taken for learnt at the new port:
  excuses of `FdbOrch`.
- The id of a LAG withdrawn after a failed `create_lag` is never given back: `NoIdKept`
  leaves it out.
- A card of the previous image takes ids without the list, so an id can be dropped from the
  list while that card has it and is not put back when it is let go (lagids.lua 68):
  other cards are told that the table is full while that id is free.  `FullMeansFull` counts such
  ids as gone, so with old cards it does not catch this.
- A neighbour that already has routes and comes to an active cable has them counted
  twice; the next change to standby then leaves it programmed beside its tunnel route
  (muxorch.cpp 783).  A roll-back counts routes the failed change had not reached.  Routes
  of a neighbour that comes to a standby cable before `mux_nexthop_tb_` names the cable, or
  that outlive their neighbour, are not moved; a neighbour that leaves a cable for a port
  without one is not programmed; a cable that is deleted leaves its tunnel routes, and a new
  one skips neighbours that already have an entry (muxorch.cpp 2611): excuses of `MuxOrch`.
- The single notification of `~OrchDaemon` can be lost and `join()` then hangs
  (orchdaemon.cpp 124).

## 6. Not modelled

Everything marked `not_modelled` in `PROJECT.json`: most orchs are handlers around
SAI calls whose control is one table each; message parsing, logging and counters
carry no state the properties refer to.  Within the modelled parts:

- the telemetry of the coalescer, ZMQ below "a send succeeds or throws", the ordered
  queue variant of the consumer (`m_toSyncQueue`), the IMET and local-MAC tables of
  fdbsyncd;
- in `RouteOrch`: groups owned by NhgOrch, overlay, SRv6 and label next hops,
  subnet decap, CRM counters;
- in `P4Orch`: the ACL, mirror, multicast, admit and extension managers;
- in `FdbOrch`: MacMoveGuard, L2 next-hop groups, more than one VLAN;
- in `SystemLag`: members and attributes, and the branch of the script for a proposed id,
  which has no caller;
- in `MuxOrch`: prefix-route neighbours and slices, routes of several next hops, warm
  start, SoC neighbours, the ACL of a standby port.

The repository is some 215 000 lines; most of them are handlers of the kind named
first, and the map covers the part whose control these models follow.

## 7. What is left

1. Models: warm restore of OrchDaemon with `orchagent_restart_check`, ResponsePublisher, the
   object references of `Orch`; PIC contexts and routes (two orchs with a retry cache each
   that notify each other, parked DELs); NhgOrch's groups on top of `RouteOrch`; BfdOrch.
2. Proofs: the reference counts of `RouteOrch` and `P4Orch`, handler by handler, with
   the induction over a fold that `FdbOrchProofs` uses.
