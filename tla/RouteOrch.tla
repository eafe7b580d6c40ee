------------------------------ MODULE RouteOrch ------------------------------
(***************************************************************************)
(* RouteOrch with the objects its routes stand on: next hops (NeighOrch),  *)
(* next-hop groups, VRFs (VRFOrch), and the bulker through which routes    *)
(* reach SAI.                                                              *)
(*                                                                         *)
(* A next-hop group key is a set of next hops: the empty set is a          *)
(* blackhole, a singleton is a plain next hop, and only larger sets are    *)
(* SAI groups.  doTask() runs in one thread and is cut into the steps of   *)
(* its loops; nothing else happens while `phase' is not "idle".            *)
(***************************************************************************)
EXTENDS Naturals, Sequences, SequencesExt, FiniteSets, FiniteSetsExt, TLC, SaiHelper, EntityBulker

CONSTANTS
    Order,      \* the route keys, in the order of the SyncMap
    VrfOf,      \* the VRF of each route key
    GlobalVrf,  \* gVirtualRouterId, which is never removed
    Default,    \* the key of the default route of the global VRF
    NextHops,
    NhgsOf,     \* the next-hop group keys a route may be asked to have
    Fallback,   \* keys with fallback_to_default_route
    Refusals,   \* <<key, request, status>>: what SAI may answer although it
                \* could serve the request
    MaxGroups,  \* m_maxNextHopGroupCount
    MaxBulk,    \* max_bulk_size
    MaxRef,     \* bound: reference counts of next hops
    MaxKeys,    \* bound: keys of m_toSync with a task
    MaxTasks,   \* bound: tasks of m_toSync
    Flapping    \* bound: next hops that can go away again

Keys == {Order[i] : i \in DOMAIN Order}
Vrfs == {VrfOf[k] : k \in Keys} \cup {GlobalVrf}
Nhgs == UNION {NhgsOf[k] : k \in Keys} \cup {{n} : n \in NextHops} \cup {{}}
Groups == {g \in Nhgs : Cardinality(g) > 1}
NoRoute == [absent |-> TRUE]

ASSUME ConstantsOK ==
    /\ Order \in Seq(Keys) /\ \A i, j \in DOMAIN Order : Order[i] = Order[j] => i = j
    /\ VrfOf \in [Keys -> Vrfs]
    /\ Default \in Keys /\ VrfOf[Default] = GlobalVrf
    /\ NhgsOf \in [Keys -> SUBSET SUBSET NextHops]
    /\ Fallback \subseteq Keys
    /\ Refusals \subseteq Keys \X {"create", "set", "remove"} \X
                          {"full", "failed", "in_use", "exists"}
    /\ MaxGroups \in Nat /\ MaxBulk \in Nat \ {0} /\ MaxRef \in Nat
    /\ MaxKeys \in Nat /\ MaxTasks \in Nat
    /\ Flapping \subseteq NextHops

VARIABLES
    \* --- VRFOrch
    vrf_table_,     \* existing VRFs
    vrf_ref,        \* their reference counts
    \* --- NeighOrch
    m_syncdNextHops,  \* next hops of resolved neighbours
    nh_ref,         \* ref_count of each next hop
    oper_up,        \* whether the port of a next hop is up (~NHFLAGS_IFDOWN)
    neighSync,      \* pending neighbour tasks, per neighbour
    \* --- RouteOrch
    toSync,         \* m_toSync of ROUTE_TABLE: pending tasks of each key
    m_syncdRoutes,  \* routes believed to be in the ASIC
    tables,         \* VRFs that have a RouteTable in m_syncdRoutes
    m_syncdNextHopGroups,
    active_default, \* v4_active_default_route_nhops
    \* --- a doTask() under way
    phase,          \* "idle", "bulk", "flush", "post", "reap"
    todo,           \* tasks doTask() has not come to
    posts,          \* tasks whose bulk results are still to be looked at
    bulker,         \* gRouteBulker
    tmp_next_hop,   \* the temporary next hop of each context
    reduced,        \* m_bulkNhgReducedRefCnt
    new_default,    \* v4_default_nhg_key
    \* --- SAI
    asic_routes,
    asic_groups,    \* members of each group
    \* --- history
    asked,          \* what the routing stack asked for last, and will get
    torn,           \* routes of which SAI executed some settings and not others
    stranded        \* groups made for an update that SAI refused

vrfVars == <<vrf_table_, vrf_ref>>
neighVars == <<m_syncdNextHops, nh_ref, oper_up, neighSync>>
routeVars == <<toSync, m_syncdRoutes, tables, m_syncdNextHopGroups, active_default>>
turnVars == <<phase, todo, posts, bulker, tmp_next_hop, reduced, new_default>>
saiVars == <<asic_routes, asic_groups>>
histVars == <<asked, torn, stranded>>
vars == <<vrfVars, neighVars, routeVars, turnVars, saiVars, histVars>>

SET(g) == [op |-> "SET", nhg |-> g]
DEL == [op |-> "DEL"]

Init ==
    /\ vrf_table_ = {GlobalVrf}
    /\ vrf_ref = [v \in Vrfs |-> 0]
    /\ m_syncdNextHops = {}
    /\ nh_ref = [n \in NextHops |-> 0]
    /\ oper_up = [n \in NextHops |-> TRUE]
    /\ neighSync = [n \in NextHops |-> <<>>]
    /\ toSync = [k \in Keys |-> <<>>]
    /\ m_syncdRoutes = [k \in Keys |-> IF k = Default THEN [nhg |-> {}, desired |-> {}]
                                                      ELSE NoRoute]
    /\ tables = {GlobalVrf}
    /\ m_syncdNextHopGroups = EmptyMap
    /\ active_default = {}
    /\ phase = "idle" /\ todo = <<>> /\ posts = <<>>
    /\ bulker = NewBulker
    /\ tmp_next_hop = [k \in Keys |-> {}]
    /\ reduced = {} /\ new_default = {}
    /\ asic_routes = Default :> [action |-> "drop", next_hop |-> {}]
    /\ asic_groups = EmptyMap
    /\ asked = [k \in Keys |-> NoRoute] /\ torn = {} /\ stranded = {}

-----------------------------------------------------------------------------
(* Requests from APP_DB and from the kernel.  A DEL replaces what waits    *)
(* for its key; a SET replaces a waiting SET and goes behind a DEL.        *)

IsSet(t) == t.op = "SET"

AddToSync(queue, task) ==
    IF task.op = "DEL" THEN <<task>>
    ELSE Append(SelectSeq(queue, LAMBDA t : ~IsSet(t)), task)

RouteRequest(k) ==
    /\ phase = "idle"
    /\ Cardinality({k} \cup {j \in Keys : toSync[j] # <<>>}) <= MaxKeys
    /\ \E task \in {SET(g) : g \in NhgsOf[k]} \cup {DEL} :
         /\ toSync' = [toSync EXCEPT ![k] = AddToSync(@, task)]
         /\ SumFunction([j \in Keys |-> Len(toSync'[j])]) <= MaxTasks
         /\ asked' = [asked EXCEPT ![k] = IF IsSet(task) THEN [nhg |-> task.nhg] ELSE NoRoute]
    /\ UNCHANGED <<vrfVars, neighVars, m_syncdRoutes, tables, m_syncdNextHopGroups,
                   active_default, turnVars, saiVars, torn, stranded>>

\* Bound: a neighbour is announced when it comes and when it goes, not again.
Announced(n) ==
    IF neighSync[n] = <<>> THEN n \in m_syncdNextHops ELSE IsSet(Last(neighSync[n]))

NeighRequest(n) ==
    /\ phase = "idle"
    /\ \E task \in IF n \in Flapping THEN {SET({n}), DEL} ELSE {SET({n})} :
         /\ IsSet(task) # Announced(n)
         /\ neighSync' = [neighSync EXCEPT ![n] = AddToSync(@, task)]
    /\ UNCHANGED <<vrfVars, m_syncdNextHops, nh_ref, oper_up, routeVars, turnVars,
                   saiVars, histVars>>

-----------------------------------------------------------------------------
(* VRFOrch: a VRF goes when nothing refers to it.                          *)

VrfAdd(v) ==
    /\ phase = "idle" /\ v \notin vrf_table_
    /\ vrf_table_' = vrf_table_ \cup {v}
    /\ vrf_ref' = [vrf_ref EXCEPT ![v] = 0]
    /\ UNCHANGED <<neighVars, routeVars, turnVars, saiVars, histVars>>

VrfDel(v) ==
    /\ phase = "idle" /\ v \in vrf_table_ \ {GlobalVrf}
    /\ vrf_ref[v] = 0
    /\ vrf_table_' = vrf_table_ \ {v}
    /\ UNCHANGED <<vrf_ref, neighVars, routeVars, turnVars, saiVars, histVars>>

-----------------------------------------------------------------------------
(* NeighOrch.                                                              *)

\* Mutant: a neighbour goes whatever refers to it.
CanRemoveAlways(n) == TRUE

\* Whether the neighbour can go: removeNeighbor() gives up while the next hop
\* is referenced.
CanRemove(n) == nh_ref[n] = 0

\* doTask() on the tasks of one neighbour: a DEL that cannot be done stays,
\* and a SET that follows drops it.
NeighTask(n) ==
    /\ phase = "idle" /\ neighSync[n] # <<>>
    /\ LET del     == Head(neighSync[n]).op = "DEL"
           set     == IsSet(neighSync[n][Len(neighSync[n])])
           present == n \in m_syncdNextHops
           removed == del /\ present /\ CanRemove(n)
       IN  /\ m_syncdNextHops' =
                IF set THEN m_syncdNextHops \cup {n}
                ELSE IF removed THEN m_syncdNextHops \ {n} ELSE m_syncdNextHops
           /\ neighSync' = [neighSync EXCEPT
                ![n] = IF ~set /\ present /\ ~removed THEN <<DEL>> ELSE <<>>]
    /\ UNCHANGED <<vrfVars, nh_ref, oper_up, routeVars, turnVars, saiVars, histVars>>

\* Groups that lose their last member to a port that goes down, and take the
\* next hops of the default route instead.
Swapping(n) ==
    {g \in DOMAIN m_syncdNextHopGroups :
        LET e == m_syncdNextHopGroups[g]
        IN  /\ n \in g /\ ~e.swapped /\ e.eligible
            /\ e.installed \subseteq {n}
            /\ active_default # {}}

\* ifChangeInformNextHop(.., false): the next hop leaves its groups.
IfDown(n) ==
    /\ phase = "idle" /\ oper_up[n] /\ n \in Flapping
    /\ oper_up' = [oper_up EXCEPT ![n] = FALSE]
    /\ IF n \notin m_syncdNextHops
       THEN UNCHANGED <<nh_ref, m_syncdNextHopGroups, asic_groups>>
       ELSE LET hit  == {g \in DOMAIN m_syncdNextHopGroups :
                            n \in g /\ ~m_syncdNextHopGroups[g].swapped}
                swap == Swapping(n)
            IN  /\ \A d \in active_default : nh_ref[d] + Cardinality(swap) <= MaxRef
                /\ m_syncdNextHopGroups' =
                     [g \in DOMAIN m_syncdNextHopGroups |->
                        LET e == m_syncdNextHopGroups[g]
                        IN  IF g \notin hit THEN e
                            ELSE [e EXCEPT !.installed = @ \ {n},
                                           !.swapped = g \in swap,
                                           !.default_members =
                                                IF g \in swap THEN active_default ELSE @]]
                /\ asic_groups' =
                     [g \in DOMAIN asic_groups |->
                        IF g \notin hit THEN asic_groups[g]
                        ELSE (asic_groups[g] \ {n}) \cup
                             (IF g \in swap THEN active_default ELSE {})]
                /\ nh_ref' = [m \in NextHops |->
                     nh_ref[m] + IF m \in active_default THEN Cardinality(swap) ELSE 0]
    /\ UNCHANGED <<vrfVars, m_syncdNextHops, neighSync, toSync, m_syncdRoutes, tables,
                   active_default, turnVars, asic_routes, histVars>>

\* ifChangeInformNextHop(.., true): it comes back, except into groups that
\* were swapped.
IfUp(n) ==
    /\ phase = "idle" /\ ~oper_up[n]
    /\ oper_up' = [oper_up EXCEPT ![n] = TRUE]
    /\ LET hit == {g \in DOMAIN m_syncdNextHopGroups :
                      /\ n \in m_syncdNextHops /\ n \in g
                      /\ ~m_syncdNextHopGroups[g].swapped}
       IN  /\ m_syncdNextHopGroups' =
                [g \in DOMAIN m_syncdNextHopGroups |->
                   IF g \in hit
                   THEN [m_syncdNextHopGroups[g] EXCEPT !.installed = @ \cup {n},
                                                        !.members = @ \cup {n}]
                   ELSE m_syncdNextHopGroups[g]]
           /\ asic_groups' = [g \in DOMAIN asic_groups |->
                IF g \in hit THEN asic_groups[g] \cup {n} ELSE asic_groups[g]]
    /\ UNCHANGED <<vrfVars, m_syncdNextHops, nh_ref, neighSync, toSync, m_syncdRoutes,
                   tables, active_default, turnVars, asic_routes, histVars>>

-----------------------------------------------------------------------------
(* doTask(): the tasks of m_toSync are taken in order.                     *)

Tasks(k) == [i \in DOMAIN toSync[k] |-> [key |-> k] @@ toSync[k][i]]

Erased(k, op) ==
    [toSync EXCEPT ![k] = SelectSeq(@, LAMBDA t : t.op # op)]

\* What the end of one turn of the first loop leaves to do: after a SET the
\* loop is broken off when the groups are exhausted and the flush may free one.
Advance(b, count, mayBreak) ==
    /\ todo' = Tail(todo)
    /\ phase' = IF \/ Tail(todo) = <<>>
                   \/ mayBreak /\ count >= MaxGroups /\ b.removing # EmptyMap
                THEN "flush" ELSE "bulk"

StartDrain ==
    /\ phase = "idle"
    /\ \E k \in Keys : toSync[k] # <<>>
    /\ todo' = FlattenSeq([i \in DOMAIN Order |-> Tasks(Order[i])])
    /\ phase' = "bulk"
    /\ UNCHANGED <<vrfVars, neighVars, routeVars, posts, bulker, tmp_next_hop, reduced,
                   new_default, saiVars, histVars>>

Task == Head(todo)
Coming(op) == phase = "bulk" /\ Task.op = op
VrfExists(k) == VrfOf[k] \in vrf_table_
HasRoute(k) == m_syncdRoutes[k] # NoRoute
HasNextHopGroup(g) == g \in DOMAIN m_syncdNextHopGroups
Usable(n) == n \in m_syncdNextHops /\ oper_up[n]

\* The task stays: its VRF does not exist, or it has to wait.
NoVrf ==
    /\ phase = "bulk" /\ ~VrfExists(Task.key)
    /\ Advance(bulker, 0, FALSE)
    /\ UNCHANGED <<vrfVars, neighVars, routeVars, posts, bulker, tmp_next_hop, reduced,
                   new_default, saiVars, histVars>>

\* Mutant: what is pending for the route is not asked.
DuplicateOfCache(k, g) == HasRoute(k) /\ m_syncdRoutes[k].nhg = g

\* The route is as the task wants it and nothing is pending for it.
Duplicate(k, g) ==
    /\ HasRoute(k) /\ m_syncdRoutes[k].nhg = g
    /\ ~bulk_entry_pending_removal_or_set(bulker, k)

SetDuplicate ==
    /\ Coming("SET") /\ VrfExists(Task.key) /\ Duplicate(Task.key, Task.nhg)
    /\ toSync' = Erased(Task.key, "SET")
    /\ Advance(bulker, Cardinality(DOMAIN m_syncdNextHopGroups), TRUE)
    /\ UNCHANGED <<vrfVars, neighVars, m_syncdRoutes, tables, m_syncdNextHopGroups,
                   active_default, posts, bulker, tmp_next_hop, reduced, new_default,
                   saiVars, histVars>>

\* addRoute() makes sure that the VRF has a table, also when it then gives up.
TableFor(k) ==
    /\ tables' = tables \cup {VrfOf[k]}
    /\ vrf_ref' = IF VrfOf[k] \in tables THEN vrf_ref
                  ELSE [vrf_ref EXCEPT ![VrfOf[k]] = @ + 1]

Attributes(g) ==
    [action |-> IF g = {} THEN "drop" ELSE "forward", next_hop |-> g]

\* The attributes addRoute() sets on a route that exists.
AttributeSettings(k, g) ==
    LET forward == "action" :> "forward"
        drop    == "action" :> "drop"
    IN  (IF m_syncdRoutes[k].nhg = {} /\ g # {} THEN <<forward>> ELSE <<>>)
        \o (IF k = Default /\ g # {} THEN <<forward>> ELSE <<>>)
        \o <<"next_hop" :> g>>
        \o (IF g = {} THEN <<drop>> ELSE <<>>)

\* Mutant: a route that is about to be removed is updated.
RouteRequestsOfCache(k, g) ==
    IF ~HasRoute(k) THEN create_entry(bulker, k, Attributes(g), <<k, "SET", 1>>)
    ELSE LET as == AttributeSettings(k, g)
         IN  FoldLeft(LAMBDA b, i : set_entry_attribute(b, k, as[i], <<k, "SET", i>>),
                      bulker, [i \in DOMAIN as |-> i])

\* What addRoute() asks of the bulker.
RouteRequests(k, g) ==
    IF ~HasRoute(k) \/ bulk_entry_pending_removal(bulker, k)
    THEN create_entry(bulker, k, Attributes(g), <<k, "SET", 1>>)
    ELSE LET as == AttributeSettings(k, g)
         IN  FoldLeft(LAMBDA b, i : set_entry_attribute(b, k, as[i], <<k, "SET", i>>),
                      bulker, [i \in DOMAIN as |-> i])

SetComing == Coming("SET") /\ VrfExists(Task.key) /\ ~Duplicate(Task.key, Task.nhg)

\* A blackhole, a usable next hop, or a group that exists.
Ready(g) ==
    IF Cardinality(g) > 1 THEN HasNextHopGroup(g) ELSE \A n \in g : Usable(n)

SetRoute ==
    /\ SetComing /\ Ready(Task.nhg)
    /\ TableFor(Task.key)
    /\ bulker' = RouteRequests(Task.key, Task.nhg)
    /\ posts' = Append(posts, Task)
    /\ Advance(bulker', Cardinality(DOMAIN m_syncdNextHopGroups), TRUE)
    /\ UNCHANGED <<vrf_table_, neighVars, toSync, m_syncdRoutes, m_syncdNextHopGroups,
                   active_default, tmp_next_hop, reduced, new_default, saiVars, histVars>>

CanAddNextHopGroup(g) ==
    /\ Cardinality(DOMAIN m_syncdNextHopGroups) < MaxGroups
    /\ g \subseteq m_syncdNextHops
    /\ \E n \in g : oper_up[n]

\* addNextHopGroup(): members are the next hops that are up, references are
\* taken on all of them, and the routes' own come when SAI has them.
SetRouteNewGroup ==
    /\ SetComing /\ ~Ready(Task.nhg) /\ Cardinality(Task.nhg) > 1
    /\ CanAddNextHopGroup(Task.nhg)
    /\ LET g  == Task.nhg
           up == {n \in g : oper_up[n]}
       IN  /\ \A n \in g : nh_ref[n] < MaxRef
           /\ m_syncdNextHopGroups' =
                (g :> [members |-> up, installed |-> up, ref_count |-> 0,
                       eligible |-> Task.key \in Fallback, swapped |-> FALSE,
                       default_members |-> {}]) @@ m_syncdNextHopGroups
           /\ asic_groups' = (g :> up) @@ asic_groups
           /\ nh_ref' = [n \in NextHops |-> IF n \in g THEN nh_ref[n] + 1 ELSE nh_ref[n]]
    /\ TableFor(Task.key)
    /\ bulker' = RouteRequests(Task.key, Task.nhg)
    /\ posts' = Append(posts, Task)
    /\ Advance(bulker', Cardinality(DOMAIN m_syncdNextHopGroups'), TRUE)
    /\ UNCHANGED <<vrf_table_, m_syncdNextHops, oper_up, neighSync, toSync, m_syncdRoutes,
                   active_default, tmp_next_hop, reduced, new_default, asic_routes, histVars>>

\* The route already runs over one next hop of the group it waits for.
HasTempRoute(k, g) ==
    /\ HasRoute(k) /\ Cardinality(m_syncdRoutes[k].nhg) = 1
    /\ m_syncdRoutes[k].nhg \subseteq g /\ m_syncdRoutes[k].desired = g

\* addTempRoute(): a next hop of the group is picked at random.
SetTempRoute ==
    /\ SetComing /\ ~Ready(Task.nhg) /\ Cardinality(Task.nhg) > 1
    /\ ~CanAddNextHopGroup(Task.nhg) /\ ~HasTempRoute(Task.key, Task.nhg)
    /\ \E n \in Task.nhg :
         /\ Usable(n)
         /\ tmp_next_hop' = [tmp_next_hop EXCEPT ![Task.key] = {n}]
         /\ bulker' = RouteRequests(Task.key, {n})
    /\ TableFor(Task.key)
    /\ posts' = Append(posts, Task)
    /\ Advance(bulker', Cardinality(DOMAIN m_syncdNextHopGroups), TRUE)
    /\ UNCHANGED <<vrf_table_, neighVars, toSync, m_syncdRoutes, m_syncdNextHopGroups,
                   active_default, reduced, new_default, saiVars, histVars>>

\* Nothing can be done for the task now.
SetWaits ==
    /\ SetComing /\ ~Ready(Task.nhg)
    /\ \/ Cardinality(Task.nhg) = 1
       \/ /\ ~CanAddNextHopGroup(Task.nhg)
          /\ HasTempRoute(Task.key, Task.nhg) \/ \A n \in Task.nhg : ~Usable(n)
    /\ TableFor(Task.key)
    /\ Advance(bulker, Cardinality(DOMAIN m_syncdNextHopGroups), TRUE)
    /\ UNCHANGED <<vrf_table_, neighVars, toSync, m_syncdRoutes, m_syncdNextHopGroups,
                   active_default, posts, bulker, tmp_next_hop, reduced, new_default,
                   saiVars, histVars>>

\* removeRoute(): there is no such route.  A table without routes goes when
\* no route is being created in any VRF.
DelNothing ==
    /\ Coming("DEL") /\ VrfExists(Task.key)
    /\ LET k == Task.key
           v == VrfOf[k]
           drop == /\ v \in tables
                   /\ \A j \in Keys : VrfOf[j] = v => ~HasRoute(j)
                   /\ bulker.creating = EmptyMap
       IN  /\ v \notin tables \/ (~HasRoute(k) /\ k \notin DOMAIN bulker.creating)
           /\ toSync' = Erased(k, "DEL")
           /\ tables' = IF drop THEN tables \ {v} ELSE tables
           /\ vrf_ref' = IF drop THEN [vrf_ref EXCEPT ![v] = @ - 1] ELSE vrf_ref
    /\ Advance(bulker, 0, FALSE)
    /\ UNCHANGED <<vrf_table_, neighVars, m_syncdRoutes, m_syncdNextHopGroups,
                   active_default, posts, bulker, tmp_next_hop, reduced, new_default,
                   saiVars, histVars>>

\* removeRoute(): the default route stays in SAI and drops.
DelRoute ==
    /\ Coming("DEL") /\ VrfExists(Task.key) /\ VrfOf[Task.key] \in tables
    /\ LET k == Task.key
       IN  /\ HasRoute(k) \/ k \in DOMAIN bulker.creating
           /\ bulker' =
                IF k = Default
                THEN set_entry_attribute(
                       set_entry_attribute(bulker, k, "action" :> "drop", <<k, "DEL", 1>>),
                       k, "next_hop" :> {}, <<k, "DEL", 2>>)
                ELSE remove_entry(bulker, k, <<k, "DEL", 1>>)
    /\ posts' = Append(posts, Task)
    /\ Advance(bulker', 0, FALSE)
    /\ UNCHANGED <<vrfVars, neighVars, routeVars, tmp_next_hop, reduced, new_default,
                   saiVars, histVars>>

\* gRouteBulker.flush(); SAI may refuse one of the requests.
Requests(b) ==
    LET call(o, e, names, r) == [op |-> o, entry |-> e, names |-> names, ref |-> r]
    IN  {call("remove", e, {}, b.removing[e]) : e \in DOMAIN b.removing} \cup
        {call("create", e, DOMAIN b.creating[e].attrs, b.creating[e].ref) :
             e \in DOMAIN b.creating} \cup
        UNION {{call("set", e, DOMAIN b.setting[e][i].attrs, b.setting[e][i].ref) :
                    i \in DOMAIN b.setting[e]} : e \in DOMAIN b.setting}

\* The routes of which some settings are executed and others refused, and
\* those of which nothing is refused and every attribute is set anew.
Torn(calls, refused) ==
    {c.entry : c \in {x \in calls : x.op = "set" /\ x.ref \in refused}}
    \cap {c.entry : c \in {x \in calls : x.op = "set" /\ x.ref \notin refused}}

Renewed(calls, refused) ==
    LET of(k) == {c \in calls : c.entry = k}
    IN  {k \in {c.entry : c \in calls} :
            /\ \A c \in of(k) : c.ref \notin refused
            /\ \/ \E c \in of(k) : c.op = "remove"
               \/ UNION {c.names : c \in of(k)} = {"action", "next_hop"}}

Flush ==
    /\ phase = "flush"
    /\ LET calls == Requests(bulker)
       IN  \E refuse \in {EmptyMap} \cup
                {c.ref :> r[3] : <<c, r>> \in {x \in calls \X Refusals :
                                     x[1].entry = x[2][1] /\ x[1].op = x[2][2]}} :
             LET w == flush(bulker, asic_routes, refuse, MaxBulk)
             IN  /\ asic_routes' = w.sai /\ bulker' = w.bulker
                 /\ torn' = (torn \ Renewed(calls, DOMAIN refuse))
                               \cup Torn(calls, DOMAIN refuse)
    /\ phase' = "post"
    /\ reduced' = {} /\ new_default' = {}
    /\ UNCHANGED <<vrfVars, neighVars, routeVars, todo, posts, tmp_next_hop, asic_groups,
                   asked, stranded>>

-----------------------------------------------------------------------------
(* The results of the bulk.  The counts of references and what follows     *)
(* from them are kept in one value while a result is looked at.            *)

Counts == [groups |-> m_syncdNextHopGroups, nh |-> nh_ref, reduced |-> reduced,
           asic |-> asic_groups]

increaseNextHopRefCount(c, g) ==
    CASE g = {} -> c
      [] Cardinality(g) = 1 -> [c EXCEPT !.nh = [n \in NextHops |->
                                   IF n \in g THEN @[n] + 1 ELSE @[n]]]
      [] OTHER -> [c EXCEPT !.groups[g].ref_count = @ + 1]

Minus1(n) == IF n = 0 THEN 0 ELSE n - 1

\* Mutant: nobody notes that the group lost its last route.
DecreaseUnnoted(c, g) ==
    CASE g = {} -> c
      [] Cardinality(g) = 1 -> [c EXCEPT !.nh = [n \in NextHops |->
                                   IF n \in g THEN Minus1(@[n]) ELSE @[n]]]
      [] OTHER -> [c EXCEPT !.groups[g].ref_count = @ - 1]

\* Mutant: single next hops are not released.
DecreaseGroupsOnly(c, g) ==
    IF Cardinality(g) < 2 THEN c
    ELSE [c EXCEPT !.groups[g].ref_count = @ - 1,
                   !.reduced = IF c.groups[g].ref_count = 1 THEN @ \cup {g} ELSE @]

\* decreaseNextHopRefCount(), and the note that a group lost its last route.
decreaseNextHopRefCount(c, g) ==
    CASE g = {} -> c
      [] Cardinality(g) = 1 -> [c EXCEPT !.nh = [n \in NextHops |->
                                   IF n \in g THEN Minus1(@[n]) ELSE @[n]]]
      [] OTHER -> [c EXCEPT !.groups[g].ref_count = @ - 1,
                            !.reduced = IF c.groups[g].ref_count = 1 THEN @ \cup {g} ELSE @]

\* Mutant: the references of routes are not looked at.
RemoveReferenced(c, g, routes) ==
    IF \E k \in DOMAIN routes : routes[k].next_hop = g
    THEN [c EXCEPT !.asic[g] = {}, !.groups[g].members = {}]
    ELSE [c EXCEPT !.asic = Without(@, g), !.groups = Without(@, g),
                   !.nh = [n \in NextHops |-> IF n \in g THEN Minus1(@[n]) ELSE @[n]]]

\* Mutant: the SAI group is not removed.
RemoveEntryOnly(c, g, routes) ==
    IF c.groups[g].ref_count # 0 THEN c
    ELSE [c EXCEPT !.asic[g] = {}, !.groups = Without(@, g),
                   !.nh = [n \in NextHops |-> IF n \in g THEN Minus1(@[n]) ELSE @[n]]]

\* removeNextHopGroup(): the members go first, and stay gone when SAI refuses
\* to remove the group because a route uses it.  The references on members
\* that were swapped in are not given back: the members are forgotten before
\* the loop that would do so.
removeNextHopGroup(c, g, routes) ==
    IF c.groups[g].ref_count # 0 THEN c
    ELSE IF \E k \in DOMAIN routes : routes[k].next_hop = g
    THEN [c EXCEPT !.asic[g] = {}, !.groups[g].members = {},
                   !.groups[g].default_members = {}]
    ELSE [c EXCEPT !.asic = Without(@, g), !.groups = Without(@, g),
                   !.nh = [n \in NextHops |-> IF n \in g THEN Minus1(@[n]) ELSE @[n]]]

\* The counts, the route and whether the task is done, after addRoutePost()
\* looked at the statuses.
Outcome(c, route, done) == [counts |-> c, route |-> route, done |-> done]

PostCreate(g, desired, sts) ==
    LET group   == Cardinality(g) > 1
        handled == handleSaiCreateStatus(sts[1])
        undone  == IF group /\ sts[1] # "success"
                   THEN removeNextHopGroup(Counts, g, asic_routes) ELSE Counts
    IN  CASE sts[1] = "exists" ->
                Outcome([Counts EXCEPT !.reduced = IF group THEN @ \cup {g} ELSE @],
                        NoRoute, FALSE)
          [] sts[1] # "exists" /\ handled # "success" ->
                Outcome(undone, NoRoute, parseHandleSaiStatusFailure(handled))
          [] OTHER ->
                Outcome(increaseNextHopRefCount(undone, g), [nhg |-> g, desired |-> desired],
                        TRUE)

\* Mutant: no status of the settings is looked at.
PostUpdateUnread(old, g, desired, sts) ==
    Outcome(increaseNextHopRefCount(decreaseNextHopRefCount(Counts, old.nhg), g),
            [nhg |-> g, desired |-> desired], TRUE)

\* The status of the packet action is looked at first, when the route used to
\* drop; the one of a blackhole comes last, after the old next hops were
\* released.  One status is looked at in between, whatever was set by it.
PostUpdate(old, g, desired, sts) ==
    LET main  == IF old.nhg = {} /\ g # {} THEN 2 ELSE 1
        ok(i) == handleSaiSetStatus(sts[i]) = "success"
        over(i) == parseHandleSaiStatusFailure(handleSaiSetStatus(sts[i]))
        released == decreaseNextHopRefCount(Counts, old.nhg)
    IN  CASE ~ok(1) -> Outcome(Counts, old, over(1))
          [] ok(1) /\ ~ok(main) -> Outcome(Counts, old, over(main))
          [] ok(1) /\ sts[main] = "not_found" -> Outcome(Counts, NoRoute, FALSE)
          [] g = {} /\ ok(1) /\ ~ok(2) -> Outcome(released, old, over(2))
          [] OTHER -> Outcome(increaseNextHopRefCount(released, g),
                              [nhg |-> g, desired |-> desired], TRUE)

StatusesOf(k, op) ==
    [i \in {j \in 1 .. 4 : <<k, op, j>> \in DOMAIN bulker.status} |-> bulker.status[<<k, op, i>>]]

Posting(op) == phase = "post" /\ posts # <<>> /\ Head(posts).op = op

Looked(o) ==
    /\ m_syncdNextHopGroups' = o.counts.groups
    /\ nh_ref' = o.counts.nh
    /\ reduced' = o.counts.reduced
    /\ asic_groups' = o.counts.asic
    /\ posts' = Tail(posts)

\* The second loop, on a SET.  When the route already has the next hops of
\* the task the loop does not move on: no step is possible then, but for
\* PostSetSpins.  A SET can be done while a refused DEL in front of it stays:
\* the route will then go, and `asked' says so.  A group that was made for a
\* refused update stays without a route, unless another one uses it.
PostSet ==
    /\ Posting("SET")
    /\ LET k   == Head(posts).key
           g   == Head(posts).nhg
           tmp == tmp_next_hop[k]
           sts == StatusesOf(k, "SET")
           missing == Cardinality(g) > 1 /\ ~HasNextHopGroup(g)
           to  == IF missing THEN tmp ELSE g
           desired == IF tmp # {} THEN g ELSE {}
           o   == CASE missing /\ tmp = {} -> Outcome(Counts, m_syncdRoutes[k], FALSE)
                    [] HasRoute(k) -> PostUpdate(m_syncdRoutes[k], to, desired, sts)
                    [] OTHER -> PostCreate(to, desired, sts)
           refused == HasRoute(k) /\ o.route = m_syncdRoutes[k]
           done    == o.done /\ ~missing
       IN  /\ ~(HasRoute(k) /\ m_syncdRoutes[k].nhg = g)
           /\ \A n \in NextHops : o.counts.nh[n] <= MaxRef
           /\ Looked(o)
           /\ m_syncdRoutes' = [m_syncdRoutes EXCEPT ![k] = o.route]
           /\ TableFor(k)
           /\ toSync' = IF done THEN Erased(k, "SET") ELSE toSync
           /\ asked' = IF done /\ ~IsSet(Head(toSync[k]))
                       THEN [asked EXCEPT ![k] = NoRoute] ELSE asked
           /\ stranded' = {h \in stranded \cup (IF refused THEN {to} ELSE {}) :
                             /\ h \in DOMAIN o.counts.groups
                             /\ o.counts.groups[h].ref_count = 0}
           /\ new_default' = IF k # Default THEN new_default
                             ELSE IF o.route = NoRoute THEN {} ELSE o.route.nhg
    /\ UNCHANGED <<vrf_table_, m_syncdNextHops, oper_up, neighSync, active_default, phase,
                   todo, bulker, tmp_next_hop, asic_routes, torn>>

\* SAI refused the DEL of the default route, and the SET behind it is to the
\* next hops the route still has: no branch takes the SET, for ever.
PostSetSpins ==
    /\ Posting("SET")
    /\ LET k == Head(posts).key
       IN  /\ HasRoute(k) /\ m_syncdRoutes[k].nhg = Head(posts).nhg
           /\ \E i \in DOMAIN StatusesOf(k, "DEL") : StatusesOf(k, "DEL")[i] # "success"
    /\ UNCHANGED vars

\* The second loop, on a DEL: removeRoutePost().
PostDel ==
    /\ Posting("DEL")
    /\ LET k    == Head(posts).key
           v    == VrfOf[k]
           sts  == StatusesOf(k, "DEL")
           handled(i) == IF k = Default THEN handleSaiSetStatus(sts[i])
                                        ELSE handleSaiRemoveStatus(sts[i])
           lost == {i \in DOMAIN sts : handled(i) # "success"}
           old  == IF HasRoute(k) THEN m_syncdRoutes[k].nhg ELSE {}
           last == k # Default /\ \A j \in Keys \ {k} : VrfOf[j] = v => ~HasRoute(j)
       IN  IF lost # {}
           THEN /\ toSync' = IF parseHandleSaiStatusFailure(handled(Min(lost)))
                             THEN Erased(k, "DEL") ELSE toSync
                /\ posts' = Tail(posts)
                /\ UNCHANGED <<m_syncdRoutes, tables, vrf_ref, m_syncdNextHopGroups,
                               nh_ref, reduced, asic_groups, active_default>>
           ELSE /\ Looked([counts |-> decreaseNextHopRefCount(Counts, old)])
                /\ m_syncdRoutes' = [m_syncdRoutes EXCEPT
                      ![k] = IF k = Default THEN [nhg |-> {}, desired |-> {}] ELSE NoRoute]
                /\ active_default' = IF k = Default THEN {} ELSE active_default
                /\ toSync' = Erased(k, "DEL")
                /\ tables' = IF last THEN tables \ {v} ELSE tables
                /\ vrf_ref' = IF last /\ v # GlobalVrf
                              THEN [vrf_ref EXCEPT ![v] = @ - 1] ELSE vrf_ref
    /\ UNCHANGED <<vrf_table_, m_syncdNextHops, oper_up, neighSync, phase, todo, bulker,
                   tmp_next_hop, new_default, asic_routes, histVars>>

\* Groups without a route are removed; doTask() goes on only when the default
\* route changed.
Reap ==
    /\ phase = "post" /\ posts = <<>>
    /\ LET c == FoldSet(LAMBDA g, d : removeNextHopGroup(d, g, asic_routes), Counts,
                        {g \in reduced : HasNextHopGroup(g)})
           go == new_default # {} /\ todo # <<>>
       IN  /\ m_syncdNextHopGroups' = c.groups
           /\ nh_ref' = c.nh
           /\ asic_groups' = c.asic
           /\ stranded' = stranded \cap DOMAIN c.groups
           /\ active_default' =
                CASE new_default = {} -> active_default
                  [] Cardinality(new_default) = 1 -> new_default
                  [] OTHER -> c.groups[new_default].members
           /\ phase' = IF go THEN "bulk" ELSE "idle"
           /\ todo' = IF go THEN todo ELSE <<>>
    /\ bulker' = [bulker EXCEPT !.status = EmptyMap]
    /\ tmp_next_hop' = [k \in Keys |-> {}]
    /\ reduced' = {} /\ new_default' = {}
    /\ UNCHANGED <<vrfVars, m_syncdNextHops, oper_up, neighSync, toSync, m_syncdRoutes,
                   tables, posts, asic_routes, asked, torn>>

-----------------------------------------------------------------------------
DoTask ==
    \/ NoVrf \/ SetDuplicate \/ SetRoute \/ SetRouteNewGroup \/ SetTempRoute \/ SetWaits
    \/ DelNothing \/ DelRoute \/ Flush \/ PostSet \/ PostSetSpins \/ PostDel \/ Reap

Next ==
    \/ \E k \in Keys : RouteRequest(k)
    \/ \E n \in NextHops : NeighRequest(n) \/ NeighTask(n) \/ IfDown(n) \/ IfUp(n)
    \/ \E v \in Vrfs : VrfAdd(v) \/ VrfDel(v)
    \/ StartDrain \/ DoTask

Spec == Init /\ [][Next]_vars

-----------------------------------------------------------------------------
(* Properties.                                                             *)

Idle == phase = "idle"

Entry == [members : SUBSET NextHops, installed : SUBSET NextHops, ref_count : Nat,
          eligible : BOOLEAN, swapped : BOOLEAN, default_members : SUBSET NextHops]

\* The types of the variables.
TypeOK ==
    /\ vrf_table_ \subseteq Vrfs /\ tables \subseteq Vrfs
    /\ vrf_ref \in [Vrfs -> Nat]
    /\ m_syncdNextHops \subseteq NextHops
    /\ nh_ref \in [NextHops -> 0 .. MaxRef]
    /\ oper_up \in [NextHops -> BOOLEAN]
    /\ \A k \in Keys : HasRoute(k) => m_syncdRoutes[k] \in [nhg : Nhgs, desired : Nhgs]
    /\ DOMAIN m_syncdNextHopGroups \subseteq Groups
    /\ \A g \in DOMAIN m_syncdNextHopGroups : m_syncdNextHopGroups[g] \in Entry
    /\ active_default \subseteq NextHops /\ new_default \in Nhgs
    /\ phase \in {"idle", "bulk", "flush", "post"}
    /\ \A r \in DOMAIN bulker.status : bulker.status[r] \in SaiStatuses \cup {"not_executed"}
    /\ reduced \subseteq Groups
    /\ DOMAIN asic_routes \subseteq Keys
    /\ DOMAIN asic_groups = DOMAIN m_syncdNextHopGroups
    /\ torn \subseteq Keys /\ stranded \subseteq DOMAIN m_syncdNextHopGroups

\* What the ASIC should hold for what RouteOrch believes to be synced.
Believed == [k \in {j \in Keys : HasRoute(j)} |-> Attributes(m_syncdRoutes[k].nhg)]

\* Between two turns, what RouteOrch believes about its routes is what SAI
\* has: no result of a bulk is taken for another route's, whatever was
\* cancelled, chunked or refused on the way (routeorch.cpp, the two loops of
\* doTask; bulker.h, flush).  Among the settings of one route it does not hold:
\* addRoutePost() reads the status of the default route's packet action
\* (pushed at 2387) as that of its next hop (2657) and never the latter's, and
\* it keeps the old route when one setting failed and another did not.  Such
\* routes are `torn' until SAI has executed all settings of an update.
AsicAsBelieved ==
    Idle => /\ DOMAIN asic_routes = DOMAIN Believed
            /\ \A k \in DOMAIN Believed \ torn : asic_routes[k] = Believed[k]

\* A route with nothing pending is in the ASIC as it was last asked for; the
\* default route drops when it is not asked for.  A torn default route is left
\* out: the task of a next hop that SAI refused is taken for done.
Settled ==
    \A k \in Keys : Idle /\ toSync[k] = <<>> /\ k \notin torn =>
        IF asked[k] # NoRoute THEN
            /\ k \in DOMAIN asic_routes
            /\ asic_routes[k] = Attributes(asked[k].nhg)
        ELSE IF k = Default THEN asic_routes[k] = Attributes({})
        ELSE k \notin DOMAIN asic_routes

\* References: nothing that SAI still uses loses its object, neither the next
\* hop of a route or a group member (NeighOrch removes neighbours by ref_count)
\* nor the VRF of a route (VRFOrch by vrf_ref), and no route is left with a
\* group that does not exist.  The references are those of the believed routes:
\* the next hop of a torn route is left out.
NothingDangles ==
    /\ \A k \in DOMAIN asic_routes :
         /\ VrfOf[k] \in vrf_table_
         /\ k \in torn \/ LET g == asic_routes[k].next_hop
                        IN  IF Cardinality(g) > 1 THEN g \in DOMAIN asic_groups
                                                  ELSE g \subseteq m_syncdNextHops
    /\ \A g \in DOMAIN asic_groups : asic_groups[g] \cup g \subseteq m_syncdNextHops

\* Between two turns a group is referenced by exactly the routes that use it,
\* and none is left without a route, for groups are a scarce resource; except
\* that addRoutePost(), which cleans up after a refused creation (2606), keeps
\* the group of a refused update (2673).
GroupsCounted ==
    Idle => \A g \in DOMAIN m_syncdNextHopGroups :
              /\ m_syncdNextHopGroups[g].ref_count =
                    Cardinality({k \in Keys : HasRoute(k) /\ m_syncdRoutes[k].nhg = g})
              /\ m_syncdNextHopGroups[g].ref_count > 0 \/ g \in stranded

\* A group that a route uses forwards to exactly its next hops that are up,
\* unless it was swapped to those of the default route.
GroupsServe ==
    Idle => \A g \in DOMAIN m_syncdNextHopGroups :
              ~m_syncdNextHopGroups[g].swapped =>
                  asic_groups[g] = {n \in g : oper_up[n]}

\* References on next hops are those of the routes and groups that use them:
\* when all are gone the neighbour can be removed.
NextHopsCounted ==
    Idle => \A n \in NextHops :
        nh_ref[n] = Cardinality({k \in Keys : HasRoute(k) /\ m_syncdRoutes[k].nhg = {n}})
                  + Cardinality({g \in DOMAIN m_syncdNextHopGroups : n \in g})
                  + Cardinality({g \in DOMAIN m_syncdNextHopGroups :
                                    n \in m_syncdNextHopGroups[g].default_members})

\* The bookkeeping of RouteOrch: the references of groups and next hops, by
\* which they are removed, and what the groups forward to.
Consistent == TypeOK /\ GroupsCounted /\ GroupsServe /\ NextHopsCounted
=============================================================================
