------------------------------- MODULE P4Orch -------------------------------
(***************************************************************************)
(* P4Orch and its object managers (orchagent/p4orch).  A controller sends  *)
(* batches of requests over ZMQ; each request names an object of one table *)
(* and its manager validates it, programs it with a bulk SAI call, keeps   *)
(* it in a table of its own and counts, in the shared OID mapper, who      *)
(* depends on whom.  Every request is answered, and after the first        *)
(* failure the rest of the batch is not to be executed.                    *)
(*                                                                         *)
(* Managers modelled: router interfaces, neighbors, GRE tunnels, next      *)
(* hops, WCMP groups with their watch ports, and routes, whose SAI calls   *)
(* go through an EntityBulker.                                             *)
(*                                                                         *)
(* A key is <<type, id>>.  Object ids of SAI are abstracted to the key of  *)
(* the object.  A request is a record with its position i in the batch, op *)
(* ("SET" or "DEL"), key and entry; the entry Malformed stands for every   *)
(* content a manager cannot read.                                          *)
(*                                                                         *)
(* The handlers are operators on a record w of all the state they change.  *)
(* SAI may refuse calls: `refuse' is the set of the calls it refuses, a    *)
(* call being <<position of the request, what is called>>.                 *)
(***************************************************************************)
EXTENDS Naturals, Sequences, FiniteSets, SequencesExt

CONSTANTS
    Batches,        \* the batches a controller may send
    Ports,          \* the front panel ports
    MaxRefusals,    \* how many calls of one handler SAI refuses at most
    kMaxWatchportGroupBulkSize,
    gMaxBulkSize

VARIABLES
    table,      \* the managers' tables: key -> entry
    mapper,     \* P4OidMapper: key -> reference count
    asic,       \* what SAI holds: key -> attributes
    uses,       \* reference counts of ports in PortsOrch and of the VRF
    db,         \* P4RT_TABLE of APPL_DB, written with every success
    oper,       \* PortsOrch: is the port operationally up?
    port_oper,  \* m_port_oper_status_map of the WCMP manager
    watchers,   \* m_port_name_to_wcmp_group_member_map: <<port, group, next hop>>
    watch_groups,   \* m_watchport_groups
    watch_event,    \* m_watchport_event is signalled
    critical,   \* history: objects a critical state was raised for, until programmed
    dropped,    \* history: groups whose request SAI refused, until programmed, and
                \* routes that were behind a refused attribute
    verdict     \* history: how the last batch was answered, see Verdict

vars == <<table, mapper, asic, uses, db, oper, port_oper, watchers,
          watch_groups, watch_event, critical, dropped, verdict>>

Bulker == INSTANCE EntityBulker

Without(map, k) == [x \in DOMAIN map \ {k} |-> map[x]]
Put(map, k, v) == [x \in DOMAIN map \cup {k} |-> IF x = k THEN v ELSE map[x]]

Malformed == [malformed |-> TRUE]
NoKey == <<"none", "none">>
NoPort == "none"
Type(k) == k[1]

World == [table |-> table, mapper |-> mapper, asic |-> asic, uses |-> uses,
          db |-> db, port_oper |-> port_oper, watchers |-> watchers,
          groups |-> watch_groups, event |-> watch_event,
          critical |-> critical, dropped |-> dropped,
          dbwrite |-> TRUE, resp |-> <<>>]

\* The state after a handler that leaves w.
Becomes(w) ==
    /\ table' = w.table
    /\ mapper' = w.mapper
    /\ asic' = w.asic
    /\ uses' = w.uses
    /\ db' = w.db
    /\ port_oper' = w.port_oper
    /\ watchers' = w.watchers
    /\ watch_groups' = w.groups
    /\ watch_event' = w.event
    /\ critical' = w.critical
    /\ dropped' = w.dropped

-----------------------------------------------------------------------------
(* P4OidMapper.  The managers ignore what these return, so a call that     *)
(* fails leaves the map as it is.                                          *)

setOID(m, k) == IF k \in DOMAIN m THEN m ELSE Put(m, k, 0)

eraseOID(m, k) ==
    IF k \in DOMAIN m /\ m[k] = 0 THEN Without(m, k) ELSE m

increaseRefCount(m, k) == IF k \in DOMAIN m THEN [m EXCEPT ![k] = @ + 1] ELSE m

decreaseRefCount(m, k) ==
    IF k \in DOMAIN m /\ m[k] > 0 THEN [m EXCEPT ![k] = @ - 1] ELSE m

\* The reference counts of a set of keys, up or down.
IncreaseAll(m, ks) == [k \in DOMAIN m |-> IF k \in ks THEN m[k] + 1 ELSE m[k]]
DecreaseAll(m, ks) ==
    [k \in DOMAIN m |-> IF k \in ks /\ m[k] > 0 THEN m[k] - 1 ELSE m[k]]

-----------------------------------------------------------------------------
(* ResponsePublisher: an answer to the controller; a success is written    *)
(* to the database.                                                        *)

publish(w, e, status) ==
    [w EXCEPT !.resp[e.i] = Append(@, status),
              !.db = IF status # "success" \/ ~w.dbwrite THEN @
                     ELSE IF e.op = "SET" THEN Put(@, e.key, e.entry)
                     ELSE Without(@, e.key)]

\* The rest of a manager's queue, after a failure.
drainMgmtWithNotExecuted(w, entries) ==
    FoldLeft(LAMBDA v, e : publish(v, e, "not_executed"), w, entries)

\* A removal is refused while the mapper counts references.
Referenced(w, k) == k \in DOMAIN w.mapper /\ w.mapper[k] > 0

\* Mutant: a removal does not look at the references.
ValidateDelAnyway(w, e) == IF e.key \notin DOMAIN w.table THEN "not_found" ELSE "success"

ValidateDel(w, e) ==
    IF e.key \notin DOMAIN w.table THEN "not_found"
    ELSE IF Referenced(w, e.key) THEN "in_use" ELSE "success"

-----------------------------------------------------------------------------
(* Router interfaces: [port, mac].                                         *)

validateRouterInterfaceEntryOperation(w, e) ==
    IF e.entry = Malformed THEN "invalid_param"
    ELSE IF e.op = "DEL" THEN ValidateDel(w, e)
    ELSE IF e.entry.port \notin Ports THEN "not_found"
    ELSE IF e.key \in DOMAIN w.table /\ w.table[e.key].port # e.entry.port
         THEN "unimplemented"
    ELSE IF e.key \notin DOMAIN w.table /\ e.key \in DOMAIN w.mapper
         THEN "internal"
    ELSE "success"

createRouterInterface(w, e) ==
    [w EXCEPT !.asic = Put(@, e.key, e.entry),
              !.uses = [@ EXCEPT ![e.entry.port] = @ + 1, !["vrf"] = @ + 1],
              !.table = Put(@, e.key, e.entry),
              !.mapper = setOID(@, e.key)]

removeRouterInterface(w, e) ==
    [w EXCEPT !.asic = Without(@, e.key),
              !.uses = [@ EXCEPT ![w.table[e.key].port] = @ - 1, !["vrf"] = @ - 1],
              !.mapper = eraseOID(@, e.key),
              !.table = Without(@, e.key)]

\* Only the MAC address can change.
updateRouterInterface(w, e) ==
    [w EXCEPT !.asic[e.key].mac = e.entry.mac, !.table[e.key].mac = e.entry.mac]

-----------------------------------------------------------------------------
(* Neighbors: [rif, mac].                                                  *)

validateNeighborEntryOperation(w, e) ==
    IF e.entry = Malformed THEN "invalid_param"
    ELSE IF e.op = "SET" /\ e.entry.rif \notin DOMAIN w.mapper THEN "not_found"
    ELSE IF e.op = "DEL" THEN ValidateDel(w, e)
    ELSE IF e.key \notin DOMAIN w.table /\ e.key \in DOMAIN w.mapper
         THEN "internal"
    ELSE "success"

createNeighbor(w, e) ==
    [w EXCEPT !.asic = Put(@, e.key, e.entry),
              !.table = Put(@, e.key, e.entry),
              !.mapper = setOID(increaseRefCount(@, e.entry.rif), e.key)]

removeNeighbor(w, e) ==
    [w EXCEPT !.asic = Without(@, e.key),
              !.mapper = eraseOID(decreaseRefCount(@, w.table[e.key].rif), e.key),
              !.table = Without(@, e.key)]

updateNeighbor(w, e) ==
    [w EXCEPT !.asic[e.key].mac = e.entry.mac, !.table[e.key].mac = e.entry.mac]

-----------------------------------------------------------------------------
(* GRE tunnels: [rif, neighbor].  A tunnel is never updated.               *)

validateGreTunnelAppDbEntry(w, e) ==
    IF e.entry = Malformed THEN "invalid_param"
    ELSE IF e.op = "DEL" THEN ValidateDel(w, e)
    ELSE IF e.key \in DOMAIN w.table THEN "success"
    ELSE IF e.key \in DOMAIN w.mapper THEN "internal"
    ELSE IF {e.entry.rif, e.entry.neighbor} \subseteq DOMAIN w.mapper
         THEN "success" ELSE "not_found"

createGreTunnel(w, e) ==
    [w EXCEPT !.asic = Put(@, e.key, e.entry),
              !.mapper = setOID(IncreaseAll(@, {e.entry.rif, e.entry.neighbor}), e.key),
              !.table = Put(@, e.key, e.entry)]

removeGreTunnel(w, e) ==
    LET old == w.table[e.key]
    IN  [w EXCEPT !.asic = Without(@, e.key),
                  !.mapper = eraseOID(DecreaseAll(@, {old.rif, old.neighbor}), e.key),
                  !.table = Without(@, e.key)]

-----------------------------------------------------------------------------
(* Next hops: [tunnel, rif, neighbor].  A next hop through a tunnel takes  *)
(* the interface and the neighbor from the tunnel.  It is never updated.   *)

Resolved(w, entry) ==
    IF entry.tunnel = NoKey THEN entry
    ELSE [entry EXCEPT !.rif = w.table[entry.tunnel].rif,
                       !.neighbor = w.table[entry.tunnel].neighbor]

validateNextHop(w, e) ==
    IF e.entry = Malformed THEN "invalid_param"
    ELSE IF e.op = "DEL" THEN ValidateDel(w, e)
    ELSE IF e.key \in DOMAIN w.table THEN "success"
    ELSE IF e.key \in DOMAIN w.mapper THEN "internal"
    ELSE IF \/ /\ e.entry.tunnel # NoKey
               /\ e.entry.tunnel \in DOMAIN w.table \cap DOMAIN w.mapper
            \/ /\ e.entry.tunnel = NoKey
               /\ e.entry.rif \in DOMAIN w.mapper
         THEN IF Resolved(w, e.entry).neighbor \in DOMAIN w.mapper
              THEN "success" ELSE "not_found"
    ELSE "not_found"

\* What a next hop holds a reference on.
HeldByNextHop(nh) ==
    {IF nh.tunnel # NoKey THEN nh.tunnel ELSE nh.rif, nh.neighbor}

createNextHop(w, e) ==
    LET nh == Resolved(w, e.entry)
    IN  [w EXCEPT !.asic = Put(@, e.key, nh),
                  !.mapper = setOID(IncreaseAll(@, HeldByNextHop(nh)), e.key),
                  !.table = Put(@, e.key, nh)]

removeNextHop(w, e) ==
    [w EXCEPT !.asic = Without(@, e.key),
              !.mapper = eraseOID(DecreaseAll(@, HeldByNextHop(w.table[e.key])), e.key),
              !.table = Without(@, e.key)]

-----------------------------------------------------------------------------
(* WCMP groups: the request holds the members, [nh, port] with the watch   *)
(* port or NoPort; the table also which members are pruned and what the    *)
(* group was last programmed with.                                         *)

validateWcmpGroupEntry(w, e) ==
    IF e.entry = Malformed THEN "invalid_param"
    ELSE IF e.op = "DEL" THEN ValidateDel(w, e)
    ELSE IF {m.nh : m \in e.entry.members} \subseteq DOMAIN w.mapper
         THEN IF {m.port : m \in e.entry.members} \subseteq Ports \cup {NoPort}
              THEN "success" ELSE "invalid_param"
    ELSE "not_found"

Watched(members) == {m \in members : m.port # NoPort}

\* Mutant: the status a port had when it last changed is good enough.
FetchNothing(w, members) == w

\* The oper status of the watch ports, fetched from PortsOrch.
fetchPortOperStatus(w, members) ==
    [w EXCEPT !.port_oper = [p \in Ports |->
        IF p \in {m.port : m \in Watched(members)} THEN oper[p] ELSE @[p]]]

\* The members whose watch port is not up, as far as the manager knows.
populateMemberInfo(w, members) ==
    {m.nh : m \in {x \in Watched(members) : ~w.port_oper[x.port]}}

prepareSaiGroupAttrs(members, pruned) == {m.nh : m \in members} \ pruned

WcmpEntry(w, members) ==
    LET pruned == populateMemberInfo(w, members)
    IN  [members |-> members, pruned |-> pruned,
         nexthop_ids |-> prepareSaiGroupAttrs(members, pruned)]

MemberMap(k, members) == {<<m.port, k, m.nh>> : m \in Watched(members)}
NextHops(members) == {m.nh : m \in members}

createWcmpGroup(w, e) ==
    LET new == WcmpEntry(w, e.entry.members)
    IN  [w EXCEPT !.asic = Put(@, e.key, new.nexthop_ids),
                  !.mapper = IncreaseAll(setOID(@, e.key), NextHops(new.members)),
                  !.watchers = @ \cup MemberMap(e.key, new.members),
                  !.table = Put(@, e.key, new),
                  !.dropped = @ \ {e.key},
                  !.critical = @ \ {e.key}]

removeWcmpGroup(w, e) ==
    LET old == w.table[e.key]
    IN  [w EXCEPT !.asic = Without(@, e.key),
                  !.mapper = DecreaseAll(eraseOID(@, e.key), NextHops(old.members)),
                  !.watchers = @ \ MemberMap(e.key, old.members),
                  !.table = Without(@, e.key),
                  !.dropped = @ \ {e.key},
                  !.critical = @ \ {e.key}]

\* Mutant: the old members keep their references.
UpdateKeepsOld(w, e) ==
    LET old == w.table[e.key]
        new == WcmpEntry(w, e.entry.members)
    IN  [w EXCEPT !.asic[e.key] = new.nexthop_ids,
                  !.mapper = IncreaseAll(@, NextHops(new.members)),
                  !.watchers = (@ \ MemberMap(e.key, old.members))
                               \cup MemberMap(e.key, new.members),
                  !.table[e.key] = new,
                  !.dropped = @ \ {e.key},
                  !.critical = @ \ {e.key}]

\* The references of the old members are dropped before those of the new ones
\* are taken.
updateWcmpGroup(w, e) ==
    LET old == w.table[e.key]
        new == WcmpEntry(w, e.entry.members)
    IN  [w EXCEPT !.asic[e.key] = new.nexthop_ids,
                  !.mapper = IncreaseAll(DecreaseAll(@, NextHops(old.members)),
                                         NextHops(new.members)),
                  !.watchers = (@ \ MemberMap(e.key, old.members))
                               \cup MemberMap(e.key, new.members),
                  !.table[e.key] = new,
                  !.dropped = @ \ {e.key},
                  !.critical = @ \ {e.key}]

-----------------------------------------------------------------------------
(* The managers but the one of routes: a bulk SAI call that stops on the   *)
(* first error, then the tables of what succeeded, then the answers.       *)

CreateOne(w, e) == CASE Type(e.key) = "rif" -> createRouterInterface(w, e)
                  [] Type(e.key) = "neighbor" -> createNeighbor(w, e)
                  [] Type(e.key) = "tunnel" -> createGreTunnel(w, e)
                  [] Type(e.key) = "nexthop" -> createNextHop(w, e)
                  [] Type(e.key) = "wcmp" -> createWcmpGroup(w, e)

RemoveOne(w, e) == CASE Type(e.key) = "rif" -> removeRouterInterface(w, e)
                  [] Type(e.key) = "neighbor" -> removeNeighbor(w, e)
                  [] Type(e.key) = "tunnel" -> removeGreTunnel(w, e)
                  [] Type(e.key) = "nexthop" -> removeNextHop(w, e)
                  [] Type(e.key) = "wcmp" -> removeWcmpGroup(w, e)

UpdateOne(w, e) == CASE Type(e.key) = "rif" -> updateRouterInterface(w, e)
                  [] Type(e.key) = "neighbor" -> updateNeighbor(w, e)
                  [] Type(e.key) = "wcmp" -> updateWcmpGroup(w, e)

\* An update that changes no attribute makes no call.
NeedsCall(w, e, update) ==
    \/ e.op = "DEL" \/ ~update
    \/ /\ Type(e.key) \in {"rif", "neighbor"}
       /\ w.table[e.key].mac # e.entry.mac
    \/ /\ Type(e.key) = "wcmp"
       /\ WcmpEntry(w, e.entry.members).nexthop_ids # w.table[e.key].nexthop_ids

\* Mutant: the bulk call goes on after an error.
IgnoreErrors(list, called, refuse) ==
    [n \in DOMAIN list |->
        IF n \in called /\ <<list[n].i, "object">> \in refuse THEN "refused" ELSE "success"]

\* What a bulk call that stops on the first error answers; the elements
\* without a call count as done.
StopOnError(list, called, refuse) ==
    LET refused == {n \in called : <<list[n].i, "object">> \in refuse}
    IN  [n \in DOMAIN list |->
            IF n \notin called \/ \A k \in refused : n < k THEN "success"
            ELSE IF n = Min(refused) THEN "refused" ELSE "not_executed"]

\* The WCMP manager also forgets a queued watch port event of every group up
\* to and including the first one that failed.
Forget(w, e, failedBefore) ==
    IF Type(e.key) # "wcmp" \/ failedBefore THEN w
    ELSE [w EXCEPT !.groups = @ \ {e.key}]

\* History: a group SAI refused to program.
NoteRefused(w, e, s) ==
    IF Type(e.key) = "wcmp" /\ s = "refused" /\ e.key \in DOMAIN w.table
    THEN [w EXCEPT !.dropped = @ \cup {e.key}] ELSE w

\* One element of the list: the manager's own state, the answer, the queue
\* of watch port events; the first failure is the status of the whole.
ProcessOne(a, e, op, update, s) ==
    [w |-> Forget(publish(IF s # "success" THEN NoteRefused(a.w, e, s)
                          ELSE IF op = "DEL" THEN RemoveOne(a.w, e)
                          ELSE IF update THEN UpdateOne(a.w, e) ELSE CreateOne(a.w, e),
                          e, s),
                  e, a.status # "success"),
     status |-> IF a.status = "success" THEN s ELSE a.status]

processEntries(w, list, op, update, refuse) ==
    LET called == {n \in DOMAIN list : NeedsCall(w, list[n], update)}
        answer == StopOnError(list, called, refuse)
    IN  FoldLeftDomain(LAMBDA a, n : ProcessOne(a, list[n], op, update, answer[n]),
                       [w |-> w, status |-> "success"], list)

-----------------------------------------------------------------------------
(* Routes: [action, target, meta] with action "nexthop", "wcmp" or "drop". *)
(* Their calls go through the EntityBulker m_routerBulker.                 *)

validateRouteEntry(w, e) ==
    IF e.entry = Malformed THEN "invalid_param"
    ELSE IF e.op = "DEL"
         THEN IF e.key \notin DOMAIN w.table THEN "not_found"
              ELSE IF e.key \notin DOMAIN w.mapper THEN "internal" ELSE "success"
    ELSE IF e.entry.action # "drop" /\ e.entry.target \notin DOMAIN w.mapper
         THEN "not_found"
    ELSE IF (e.key \in DOMAIN w.table) # (e.key \in DOMAIN w.mapper)
         THEN "not_found"
    ELSE "success"

\* The attributes of a route in SAI.
getNexthopOid(r) == IF r.action = "drop" THEN NoKey ELSE r.target
prepareSaiAction(r) == IF r.action = "drop" THEN "drop" ELSE "forward"
SaiRoute(r) == [nexthop |-> getNexthopOid(r), action |-> prepareSaiAction(r),
                meta |-> r.meta]

HeldByRoute(r) == IF r.action = "drop" THEN {} ELSE {r.target}

Refused(refs) == [r \in refs |-> "refused"]

\* The answers of a bulker's flush and what it leaves in SAI.
Flush(b, w, refuse) == Bulker!flush(b, w.asic, Refused(refuse), gMaxBulkSize)

\* The tables and counts of the routes a flush f created or removed.
AfterFlush(w, list, f, One(_, _)) ==
    [status |-> [n \in DOMAIN list |-> f.bulker.status[<<list[n].i, "object">>]],
     w |-> FoldLeft(LAMBDA v, e : IF f.bulker.status[<<e.i, "object">>] = "success"
                                  THEN One(v, e) ELSE v,
                    [w EXCEPT !.asic = f.sai], list)]

\* Mutant: the VRF is not told of a new route.
CreatedUncounted(w, e) ==
    [w EXCEPT !.mapper = setOID(IncreaseAll(@, HeldByRoute(e.entry)), e.key),
              !.table = Put(@, e.key, e.entry)]

RouteCreated(w, e) ==
    [w EXCEPT !.mapper = setOID(IncreaseAll(@, HeldByRoute(e.entry)), e.key),
              !.table = Put(@, e.key, e.entry),
              !.uses["vrf"] = @ + 1]

createRouteEntries(w, list, refuse) ==
    AfterFlush(w, list,
               Flush(FoldLeft(LAMBDA x, e : Bulker!create_entry(x, e.key, SaiRoute(e.entry),
                                                                <<e.i, "object">>),
                              Bulker!NewBulker, list), w, refuse),
               RouteCreated)

RouteDeleted(w, e) ==
    [w EXCEPT !.mapper = eraseOID(DecreaseAll(@, HeldByRoute(w.table[e.key])), e.key),
              !.table = Without(@, e.key),
              !.uses["vrf"] = @ - 1,
              !.dropped = @ \ {e.key},
              !.critical = @ \ {e.key}]

deleteRouteEntries(w, list, refuse) ==
    AfterFlush(w, list,
               Flush(FoldLeft(LAMBDA x, e : Bulker!remove_entry(x, e.key, <<e.i, "object">>),
                              Bulker!NewBulker, list), w, refuse),
               RouteDeleted)

\* RouteUpdater: the attributes of an update in the order they are set.  A
\* route that is to forward gets its next hop before its action; one that is
\* to drop the other way round.
prepareSaiActions(r) == IF r.action = "drop" THEN <<"action", "nexthop", "meta">>
                        ELSE <<"meta", "nexthop", "action">>

GetSaiAttrList(old, new) ==
    SelectSeq(prepareSaiActions(new), LAMBDA a : SaiRoute(old)[a] # SaiRoute(new)[a])

\* The references of a route move when its next hop does.
updateRouteEntriesMeta(w, e) ==
    IF w.table[e.key] = e.entry THEN w
    ELSE [w EXCEPT !.mapper = IF getNexthopOid(w.table[e.key]) = getNexthopOid(e.entry) THEN @
                              ELSE DecreaseAll(IncreaseAll(@, HeldByRoute(e.entry)),
                                               HeldByRoute(w.table[e.key])),
                   !.table[e.key] = e.entry,
                   !.critical = @ \ {e.key}]

RouteCalls(w, e) ==
    LET attrs == GetSaiAttrList(w.table[e.key], e.entry)
    IN  [k \in DOMAIN attrs |-> [e |-> e, a |-> attrs[k]]]

SetAttribute(b, c, r, tag) ==
    Bulker!set_entry_attribute(b, c.e.key, [x \in {c.a} |-> SaiRoute(r)[x]], <<c.e.i, tag>>)

\* The bulker with the calls that put the failed route back.
Undo(w, undo) ==
    FoldLeft(LAMBDA b, c : SetAttribute(b, c, w.table[c.e.key], <<"revert", c.a>>),
             Bulker!NewBulker, undo)

\* Mutant: the routes behind the failed one are not marked as not executed.
AfterUndoUnmarked(w, todo, failed, undo, failing) ==
    [w |-> [w EXCEPT !.asic = Flush(Undo(w, undo), w, failing).sai],
     status |-> [n \in DOMAIN todo |-> IF todo[n].i = failed.i THEN "refused" ELSE "success"]]

AfterUndo(w, todo, failed, undo, failing) ==
    [w |-> FoldLeft(updateRouteEntriesMeta,
                    [w EXCEPT !.asic = Flush(Undo(w, undo), w, failing).sai,
                              !.dropped = @ \cup {e.key : e \in {x \in Range(todo) : x.i >= failed.i}},
                              !.critical = IF failing = {} THEN @ ELSE @ \cup {failed.key}],
                    SelectSeq(todo, LAMBDA e : e.i < failed.i)),
     status |-> [n \in DOMAIN todo |-> IF todo[n].i < failed.i THEN "success"
                                       ELSE IF todo[n].i = failed.i THEN "refused"
                                       ELSE "not_executed"]]

\* The first failed attribute, at n, fails its route, and the attributes of
\* the route set before are put back, the last one first.
RouteFailed(w, todo, calls, n, refuse) ==
    LET undo == Reverse(SelectSeq(SubSeq(calls, 1, n - 1), LAMBDA c : c.e = calls[n].e))
    IN  AfterUndo(w, todo, calls[n].e, undo,
                  IF <<calls[n].e.i, "revert">> \in refuse
                  THEN {<<calls[n].e.i, <<"revert", c.a>> >> : c \in Range(undo)} ELSE {})

AfterUpdate(w, todo, calls, f, refuse) ==
    LET bad == {n \in DOMAIN calls : f.bulker.status[<<calls[n].e.i, calls[n].a>>] # "success"}
    IN  IF bad = {}
        THEN [w |-> FoldLeft(updateRouteEntriesMeta, [w EXCEPT !.asic = f.sai], todo),
              status |-> [n \in DOMAIN todo |-> "success"]]
        ELSE RouteFailed([w EXCEPT !.asic = f.sai], todo, calls, Min(bad), refuse)

FlushUpdates(w, todo, calls, refuse) ==
    AfterUpdate(w, todo, calls,
                Flush(FoldLeft(LAMBDA b, c : SetAttribute(b, c, c.e.entry, c.a),
                               Bulker!NewBulker, calls), w, refuse),
                refuse)

\* One flush for the attributes of all routes; a route that does not change
\* has none.
updateRouteEntries(w, list, refuse) ==
    FlushUpdates(w, list, FlattenSeq([n \in DOMAIN list |-> RouteCalls(w, list[n])]), refuse)

PublishAll(list, p) ==
    [w |-> FoldLeftDomain(LAMBDA v, n : publish(v, list[n], p.status[n]), p.w, list),
     status |-> IF \E n \in DOMAIN list : p.status[n] # "success"
                THEN p.status[Min({n \in DOMAIN list : p.status[n] # "success"})]
                ELSE "success"]

processRouteEntries(w, list, op, update, refuse) ==
    PublishAll(list, IF op = "DEL" THEN deleteRouteEntries(w, list, refuse)
                     ELSE IF update THEN updateRouteEntries(w, list, refuse)
                     ELSE createRouteEntries(w, list, refuse))

-----------------------------------------------------------------------------
(* drain() of a manager: requests are validated one by one and collected   *)
(* while they ask for the same: creations, updates or removals.            *)

Validate(w, e) ==
    CASE Type(e.key) = "rif" -> validateRouterInterfaceEntryOperation(w, e)
      [] Type(e.key) = "neighbor" -> validateNeighborEntryOperation(w, e)
      [] Type(e.key) = "tunnel" -> validateGreTunnelAppDbEntry(w, e)
      [] Type(e.key) = "nexthop" -> validateNextHop(w, e)
      [] Type(e.key) = "wcmp" -> validateWcmpGroupEntry(w, e)
      [] Type(e.key) = "route" -> validateRouteEntry(w, e)

Process(w, list, op, update, refuse) ==
    IF list = <<>> THEN [w |-> w, status |-> "success"]
    ELSE IF Type(list[1].key) = "route"
         THEN processRouteEntries(w, list, op, update, refuse)
    ELSE processEntries(w, list, op, update, refuse)

\* "A single batch should not modify the same route more than once."
RouteSeen(a, e) == Type(e.key) = "route" /\ e.key \in a.seen

\* The queue stops at e, which is answered s.
StopAt(a, w, e, s) ==
    [a EXCEPT !.w = publish(w, e, s), !.stopped = TRUE,
              !.status = IF s = "not_executed" THEN @ ELSE s]

\* A valid request, after p processed the requests before it if it does not
\* continue them.  Tunnels and next hops are never updated.
Collect(a, e, update, kept, p) ==
    IF p.status # "success"
    THEN StopAt([a EXCEPT !.list = kept, !.status = p.status], p.w, e, "not_executed")
    ELSE IF e.op = "SET" /\ update /\ Type(e.key) \in {"tunnel", "nexthop"}
    THEN StopAt([a EXCEPT !.list = kept, !.op = e.op, !.update = update], p.w, e, "unimplemented")
    ELSE [a EXCEPT !.w = p.w, !.op = e.op, !.update = update, !.list = Append(kept, e),
                   !.seen = @ \cup {e.key}]

ValidRequest(a, w, e, update, refuse) ==
    IF a.op # "" /\ (e.op # a.op \/ update # a.update)
    THEN Collect(a, e, update, <<>>, Process(w, a.list, a.op, a.update, refuse))
    ELSE Collect(a, e, update, a.list, [w |-> w, status |-> "success"])

DrainOne(a, e, valid, refuse) ==
    CASE a.stopped -> [a EXCEPT !.w = drainMgmtWithNotExecuted(@, <<e>>)]
      [] ~a.stopped /\ RouteSeen(a, e) -> StopAt(a, a.w, e, "invalid_param")
      [] ~a.stopped /\ ~RouteSeen(a, e) /\ valid # "success" -> StopAt(a, a.w, e, valid)
      [] OTHER -> ValidRequest(a, IF Type(e.key) = "wcmp" /\ e.op = "SET"
                                  THEN fetchPortOperStatus(a.w, e.entry.members) ELSE a.w,
                               e, e.key \in DOMAIN a.w.table, refuse)

DrainRest(a, p) ==
    [w |-> p.w, status |-> IF p.status = "success" THEN a.status ELSE p.status]

DrainLast(a, refuse) == DrainRest(a, Process(a.w, a.list, a.op, a.update, refuse))

drain(w, entries, refuse) ==
    DrainLast(FoldLeft(LAMBDA a, e : DrainOne(a, e, Validate(a.w, e), refuse),
                       [w |-> w, list |-> <<>>, op |-> "", update |-> FALSE,
                        seen |-> {}, stopped |-> FALSE, status |-> "success"], entries),
              refuse)

-----------------------------------------------------------------------------
(* P4Orch::doTask on the ordered queue of the ZMQ consumer.                *)

\* The table of a request decides its manager.
findManager(e) == Type(e.key)

\* Mutant: after a failure the next manager is kept.
NewGroupAnyway(a, e, d) ==
    [a EXCEPT !.w = IF d.status = "success" THEN d.w ELSE publish(d.w, e, "not_executed"),
              !.op = e.op, !.manager = findManager(e), !.pend = <<e>>, !.status = d.status]

\* A request that does not continue the group before it, which d drained.
NewGroup(a, e, d) ==
    IF d.status = "success"
    THEN [a EXCEPT !.w = d.w, !.op = e.op, !.manager = findManager(e), !.pend = <<e>>]
    ELSE [a EXCEPT !.w = publish(d.w, e, "not_executed"), !.op = e.op,
                   !.manager = "none", !.pend = <<>>, !.status = d.status]

Continues(a, e) ==
    a.manager = "none" \/ (a.manager = findManager(e) /\ a.op = e.op)

QueueOne(a, e, refuse) ==
    CASE findManager(e) = "unknown" ->
           [a EXCEPT !.w = publish(@, e, "invalid_param"), !.status = "invalid_param"]
      [] findManager(e) # "unknown" /\ a.status # "success" ->
           [a EXCEPT !.w = publish(@, e, "not_executed")]
      [] findManager(e) # "unknown" /\ a.status = "success" /\ Continues(a, e) ->
           [a EXCEPT !.op = e.op, !.manager = findManager(e), !.pend = Append(@, e)]
      [] OTHER -> NewGroup(a, e, drain(a.w, a.pend, refuse))

LastGroup(a, refuse) ==
    IF a.manager = "none" THEN a.w ELSE drain(a.w, a.pend, refuse).w

drainQueue(w, batch, refuse) ==
    LastGroup(FoldLeft(LAMBDA a, e : QueueOne(a, e, refuse),
                       [w |-> w, op |-> "", manager |-> "none", pend |-> <<>>,
                        status |-> "success"], batch),
              refuse)

\* The calls of SAI a request can lead to, for SAI to refuse some of them;
\* "revert" is the call that puts a route back.
CallsOf(e) ==
    IF e.entry = Malformed THEN {}
    ELSE IF e.op = "DEL"
         THEN IF e.key \in DOMAIN table THEN {"object"} ELSE {}
    ELSE IF Type(e.key) = "route" /\ e.key \in DOMAIN table
         THEN {"revert"} \cup Range(GetSaiAttrList(table[e.key], e.entry))
    ELSE IF Type(e.key) \in {"tunnel", "nexthop"} /\ e.key \in DOMAIN table THEN {}
    ELSE {"object"}

Calls(batch) == UNION {{e.i} \X CallsOf(e) : e \in Range(batch)}

\* An update is only put back after another call for the same request failed.
Refusals(batch) ==
    {r \in SUBSET Calls(batch) :
        /\ Cardinality({c \in r : c[2] # "revert"}) <= MaxRefusals
        /\ \A c \in r : c[2] = "revert" => \E d \in r : d[1] = c[1] /\ d # c}

\* What SAI and the database hold of a key.
Held(w, k) == <<IF k \in DOMAIN w.asic THEN {w.asic[k]} ELSE {},
                IF k \in DOMAIN w.db THEN {w.db[k]} ELSE {}>>

\* What is done for f although e in front of it failed: the bulk of e's route
\* goes on, which creates or removes f's route or sets attributes of it, and
\* the update of a group that needs no call of SAI has nothing to be stopped.
GoesOn(w, e, f) ==
    LET known == DOMAIN table
    IN  /\ w.resp[e.i] = <<"refused">> /\ e.op = f.op
        /\ e.key # f.key /\ Type(e.key) = Type(f.key)
        /\ \/ Type(f.key) = "route" /\ (f.op = "DEL" \/ {e.key, f.key} \cap known = {})
           \/ /\ Type(f.key) = "route" /\ f.op = "SET" /\ {e.key, f.key} \subseteq known
              /\ Held(w, f.key)[2] = Held(World, f.key)[2]
           \/ /\ Type(f.key) = "wcmp" /\ f.op = "SET" /\ {e.key, f.key} \subseteq known
              /\ Held(w, f.key)[1] = Held(World, f.key)[1]

\* Requests are answered once, and one that comes after the first failure
\* changes nothing, neither in SAI nor in the database, but for GoesOn.  A
\* second request for the route that failed is judged by the database: the
\* first one may have left the route half set.
Verdict(w, batch) ==
    LET failed == {n \in DOMAIN batch : w.resp[n] # <<"success">>}
        first  == batch[Min(failed)]
    IN  [once |-> \A n \in DOMAIN batch : Len(w.resp[n]) = 1,
         stops |-> failed = {} \/
            \A m \in DOMAIN batch :
               m > Min(failed) =>
                  \/ Held(w, batch[m].key) = Held(World, batch[m].key)
                  \/ GoesOn(w, first, batch[m])
                  \/ /\ batch[m].key = first.key
                     /\ Held(w, first.key)[2] = Held(World, first.key)[2]]

Answered(w, batch) ==
    /\ Becomes(w)
    /\ verdict' = Verdict(w, batch)
    /\ UNCHANGED oper

doTask ==
    \E batch \in Batches : \E refuse \in Refusals(batch) :
        Answered(drainQueue([World EXCEPT !.resp = [n \in DOMAIN batch |-> <<>>]],
                            batch, refuse), batch)

-----------------------------------------------------------------------------
(* Watch ports.  PortsOrch reports a port going up or down; the groups     *)
(* that watch it are queued and programmed when the low priority event is  *)
(* served.                                                                 *)

updateWatchPort(w, p, up) ==
    LET v == [w EXCEPT !.port_oper[p] = up]
        hit == {m[2] : m \in {x \in w.watchers :
                  x[1] = p /\ (x[3] \in w.table[x[2]].pruned) # ~up}}
        groups == w.groups \cup hit
        watched == \E x \in w.watchers : x[1] = p
    IN  IF ~watched THEN v
        ELSE [v EXCEPT !.groups = groups, !.event = @ \/ groups # {}]

PortStatus(p) ==
    /\ oper' = [oper EXCEPT ![p] = ~@]
    /\ Becomes(updateWatchPort(World, p, ~oper[p]))
    /\ UNCHANGED verdict

\* The next groups of the queue are programmed with the members whose ports
\* are up.  The members' flags change even where SAI refuses.
watchGroup(w, g, refused) ==
    LET members == w.table[g].members
        pruned  == populateMemberInfo(w, members)
        ids     == prepareSaiGroupAttrs(members, pruned)
        call    == ids # w.table[g].nexthop_ids
    IN  IF call /\ refused
        THEN [w EXCEPT !.table[g].pruned = pruned, !.critical = @ \cup {g}]
        ELSE [w EXCEPT !.table[g] = [@ EXCEPT !.pruned = pruned, !.nexthop_ids = ids],
                       !.asic[g] = ids,
                       !.dropped = @ \ {g},
                       !.critical = @ \ {g}]

\* Mutant: the groups left in the queue are not announced again.
ServeOnce ==
    /\ watch_event
    /\ \E now \in SUBSET watch_groups :
         /\ Cardinality(now) = 1 \/ now = watch_groups
         /\ Cardinality(now) <= kMaxWatchportGroupBulkSize
         /\ Becomes([FoldLeft(LAMBDA x, g : watchGroup(x, g, FALSE), World,
                              SetToSeq(now \cap DOMAIN table))
                     EXCEPT !.groups = @ \ now, !.event = FALSE])
    /\ UNCHANGED <<oper, verdict>>

processWatchPortEvent ==
    /\ watch_event
    /\ \E now \in SUBSET watch_groups :
         /\ Cardinality(now) = IF Cardinality(watch_groups) <= kMaxWatchportGroupBulkSize
                               THEN Cardinality(watch_groups)
                               ELSE kMaxWatchportGroupBulkSize
         /\ \E refused \in SUBSET (now \cap DOMAIN table) :
              /\ Cardinality(refused) <= MaxRefusals
              /\ LET v == FoldLeft(LAMBDA x, g : watchGroup(x, g, g \in refused),
                                   World, SetToSeq(now \cap DOMAIN table))
                 IN  Becomes([v EXCEPT !.groups = @ \ now, !.event = watch_groups # now])
    /\ UNCHANGED <<oper, verdict>>

-----------------------------------------------------------------------------
(* A warm restart: the managers start empty, bake() reads the table of the *)
(* database, and drain() serves the managers in the order in which their   *)
(* objects can depend on each other.  SAI builds its view anew; while it   *)
(* does, syncd records the calls and refuses none.                         *)

Fresh == [World EXCEPT !.table = Bulker!EmptyMap, !.mapper = Bulker!EmptyMap,
                       !.asic = Bulker!EmptyMap,
                       !.uses = [u \in Ports \cup {"vrf"} |-> 0],
                       !.port_oper = [p \in Ports |-> FALSE],
                       !.watchers = {}, !.groups = {}, !.event = FALSE,
                       !.critical = {}, !.dropped = {}, !.dbwrite = FALSE]

\* Mutant: next hops before the tunnels they may use.
WrongPrecedence == <<"rif", "neighbor", "nexthop", "tunnel", "wcmp", "route">>

m_p4ManagerAddPrecedence == <<"rif", "neighbor", "tunnel", "nexthop", "wcmp", "route">>

\* The queue of one manager, in the order of its keys.
bake(manager) ==
    LET keys == SetToSeq({k \in DOMAIN db : Type(k) = manager})
    IN  [n \in DOMAIN keys |-> [i |-> keys[n], op |-> "SET", key |-> keys[n],
                                entry |-> db[keys[n]]]]

RestoreAll(w) ==
    LET Step(a, manager) ==
          IF a.status = "success" THEN drain(a.w, bake(manager), {})
          ELSE [a EXCEPT !.w = drainMgmtWithNotExecuted(@, bake(manager))]
    IN  FoldLeft(Step, [w |-> w, status |-> "success"], m_p4ManagerAddPrecedence).w

WarmRestart ==
    /\ Becomes(RestoreAll([Fresh EXCEPT !.resp = [k \in DOMAIN db |-> <<>>]]))
    /\ UNCHANGED <<oper, verdict>>

Init ==
    /\ oper \in [Ports -> BOOLEAN]
    /\ table = Bulker!EmptyMap /\ mapper = Bulker!EmptyMap /\ asic = Bulker!EmptyMap
    /\ uses = [u \in Ports \cup {"vrf"} |-> 0]
    /\ db = Bulker!EmptyMap
    /\ port_oper = [p \in Ports |-> FALSE]
    /\ watchers = {} /\ watch_groups = {} /\ watch_event = FALSE
    /\ critical = {} /\ dropped = {}
    /\ verdict = [once |-> TRUE, stops |-> TRUE]

Next ==
    \/ doTask
    \/ \E p \in Ports : PortStatus(p)
    \/ processWatchPortEvent
    \/ WarmRestart

Spec == Init /\ [][Next]_vars

-----------------------------------------------------------------------------
(* Properties.                                                             *)

TypeOK ==
    /\ \A k \in DOMAIN mapper : mapper[k] \in Nat
    /\ \A u \in DOMAIN uses : uses[u] \in Nat
    /\ oper \in [Ports -> BOOLEAN] /\ port_oper \in [Ports -> BOOLEAN]
    /\ watch_event \in BOOLEAN
    /\ critical \subseteq DOMAIN table
    /\ \A g \in watch_groups : Type(g) = "wcmp"
    /\ \A k \in dropped : Type(k) \in {"wcmp", "route"}

\* What an object of a manager's table depends on.
DependsOn(k) ==
    CASE Type(k) = "rif" -> {}
      [] Type(k) = "neighbor" -> {table[k].rif}
      [] Type(k) = "tunnel" -> {table[k].rif, table[k].neighbor}
      [] Type(k) = "nexthop" -> HeldByNextHop(table[k])
      [] Type(k) = "wcmp" -> NextHops(table[k].members)
      [] Type(k) = "route" -> HeldByRoute(table[k])

OfType(t) == {k \in DOMAIN table : Type(k) = t}

\* The reference counts of the mapper are the numbers of objects that depend
\* on each object, through creations, updates that replace a group's members
\* or a route's next hop, removals and their failures.
RefCounts ==
    /\ DOMAIN mapper = DOMAIN table
    /\ \A k \in DOMAIN table : mapper[k] = Cardinality({u \in DOMAIN table : k \in DependsOn(u)})
    /\ \A p \in Ports : uses[p] = Cardinality({k \in OfType("rif") : table[k].port = p})
    /\ uses["vrf"] = Cardinality(OfType("rif") \cup OfType("route"))
    /\ watchers = UNION {MemberMap(k, table[k].members) : k \in OfType("wcmp")}

\* SAI holds the interfaces, neighbors, tunnels, next hops, groups and routes
\* of the managers' tables with the content the managers believe, and none of
\* them is missing what it depends on; but for routes whose update was refused
\* or came behind one that was, because the bulk call goes on after an error.
ObjectsAsBelieved ==
    /\ \A k \in DOMAIN asic \cup DOMAIN table : k \in DOMAIN asic \cap DOMAIN table
    /\ \A k \in DOMAIN table :
         /\ DependsOn(k) \subseteq DOMAIN asic
         /\ Type(k) \in {"rif", "neighbor", "tunnel", "nexthop"} => asic[k] = table[k]
         /\ Type(k) = "wcmp" => asic[k] = table[k].nexthop_ids
         /\ Type(k) = "route" /\ k \notin critical \cup dropped => asic[k] = SaiRoute(table[k])

\* Every request of a batch is answered exactly once, and after the first
\* failure no later request changes SAI or the database.  The code keeps this
\* (p4orch.cpp 184 and 204, STOP_ON_ERROR in the managers' bulk calls) but in two
\* places, which GoesOn names: m_routerBulker ignores errors (bulker.h 831, 869,
\* 909; route_manager.cpp 591 says it stops), and updateWcmpGroups() writes an
\* update without a SAI call although one in front of it was refused
\* (wcmp_manager.cpp 423).
StopsAtFailure == verdict.once /\ verdict.stops

\* What a table entry was requested with, as the database holds it.
Requested(k) ==
    CASE Type(k) = "nexthop" /\ table[k].tunnel # NoKey ->
           [table[k] EXCEPT !.rif = NoKey, !.neighbor = NoKey]
      [] Type(k) = "wcmp" -> [members |-> table[k].members]
      [] OTHER -> table[k]

\* The database, from which a warm restart starts, holds exactly the objects
\* of the managers, and the warm restart brings all of them back.
DatabaseRestores ==
    /\ DOMAIN db = DOMAIN table
    /\ \A k \in DOMAIN table : db[k] = Requested(k)

\* The members whose watch port is up.
UpMembers(g) == {m.nh : m \in {x \in table[g].members : x.port = NoPort \/ oper[x.port]}}

\* A group that is not queued for a watch port event forwards to exactly its
\* members whose ports are up, unless SAI refused to program it; and a queued
\* one has an event to be served by, not only the next port to change.
WatchPortsFollowed ==
    /\ \A g \in OfType("wcmp") \ (watch_groups \cup dropped \cup critical) : asic[g] = UpMembers(g)
    /\ watch_groups # {} => watch_event

\* The bookkeeping of the managers: their tables and the references of the mapper.
Consistent == TypeOK /\ RefCounts
=============================================================================
