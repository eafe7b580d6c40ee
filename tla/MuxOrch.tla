------------------------------ MODULE MuxOrch ------------------------------
(***************************************************************************)
(* MuxOrch and what NeighOrch and RouteOrch do for it, on one of the two   *)
(* switches of a dual-ToR pair.  A server is cabled to both through a mux. *)
(* While its cable is active here its neighbour entry is programmed and    *)
(* routes use the neighbour's next hop; while it is standby the neighbour  *)
(* is taken out of the ASIC and a tunnel route to the peer takes its       *)
(* place, for the neighbour's own address and for every route through it.  *)
(*                                                                         *)
(* Everything runs in orchagent's main loop, one handler at a time, but    *)
(* the requests come from five tables in any order: cable configuration,   *)
(* cable state, neighbours, FDB and routes.  A handler is a chain of calls *)
(* over a record of the state; SAI may reject one call of a change of      *)
(* state, which is then rolled back.                                       *)
(*                                                                         *)
(* Left out: prefix-route neighbours and slices, routes of several next    *)
(* hops and groups, warm start (the INIT state), skipped (SoC) neighbours, *)
(* and the ACL of a standby port.  A neighbour has one MAC, and the MAC of *)
(* a server is learnt on its own port only.                                *)
(***************************************************************************)
EXTENDS Integers, Sequences, FiniteSets

CONSTANTS
    Port,       \* ports that may be configured as mux cables
    Nbr,        \* neighbours, in the order of their addresses
    Server,     \* Nbr -> the port in whose server subnet it is, or NoPort
    Route,      \* prefixes
    MaxChanges, \* bound: requests
    MaxFailures \* bound: SAI calls of a change of state that fail

NoPort == "none"
NoName == "unnamed"  \* the empty name addNexthop gives a next hop
NoEntry == "absent"  \* not in mux_nexthop_tb_
Absent == -2         \* not in the map
Tunnel == -1         \* the next hop of the tunnel to the peer
Null == 0            \* SAI_NULL_OBJECT_ID; other object ids are positive

ASSUME MuxAssumption ==
    /\ Nbr \subseteq Nat /\ Server \in [Nbr -> Port \cup {NoPort}]
    /\ NoPort \notin Port /\ NoName \notin Port /\ NoEntry \notin Port
    /\ IsFiniteSet(Route) /\ {MaxChanges, MaxFailures} \subseteq Nat

VARIABLES
    cable,      \* mux_cable_tb_: port -> state or "none"
    nbrs,       \* MuxNbrHandler::neighbors_: port -> nbr -> next hop id or Absent
    tb,         \* mux_nexthop_tb_: nbr -> port, NoName or NoEntry
    alone,      \* standalone_tunnel_neighbors_
    known,      \* m_syncdNeighbors: nbr -> "none", "zero" (MAC) or "mac"
    hw,         \* the neighbours with hw_configured
    nh,         \* m_syncdNextHops: nbr -> object id or Absent
    ref,        \* and their ref_count
    gen,        \* nbr -> next hops created so far
    fdb,        \* nbr -> the port its MAC was learnt on, or NoPort
    via,        \* m_nextHops: route -> its next hop or Absent
    asicRoute,  \* ASIC: route -> next hop id
    asicTunnel, \* ASIC: neighbours with a tunnel route of their own
    table,      \* APP_DB TUNNEL_ROUTE_TABLE
    hwState,    \* HW_MUX_CABLE_TABLE: port -> state
    excused,    \* neighbours that the properties leave out (see Excuse)
    changes, failures

state == <<cable, nbrs, tb, alone, known, hw, nh, ref, gen, fdb, via,
           asicRoute, asicTunnel, table, hwState, excused>>
vars == <<state, changes, failures>>

Now == [cable |-> cable, nbrs |-> nbrs, tb |-> tb, alone |-> alone, known |-> known,
        hw |-> hw, nh |-> nh, ref |-> ref, gen |-> gen, fdb |-> fdb, via |-> via,
        asicRoute |-> asicRoute, asicTunnel |-> asicTunnel, table |-> table,
        hwState |-> hwState, excused |-> excused]

Become(s) ==
    /\ cable' = s.cable /\ nbrs' = s.nbrs /\ tb' = s.tb /\ alone' = s.alone
    /\ known' = s.known /\ hw' = s.hw /\ nh' = s.nh /\ ref' = s.ref /\ gen' = s.gen
    /\ fdb' = s.fdb /\ via' = s.via /\ asicRoute' = s.asicRoute
    /\ asicTunnel' = s.asicTunnel /\ table' = s.table /\ hwState' = s.hwState
    /\ excused' = s.excused

Init ==
    /\ cable = [p \in Port |-> "none"]
    /\ nbrs = [p \in Port |-> [n \in Nbr |-> Absent]]
    /\ tb = [n \in Nbr |-> NoEntry] /\ alone = {}
    /\ known = [n \in Nbr |-> "none"] /\ hw = {}
    /\ nh = [n \in Nbr |-> Absent] /\ ref = [n \in Nbr |-> 0] /\ gen = [n \in Nbr |-> 0]
    /\ fdb = [n \in Nbr |-> NoPort]
    /\ via = [r \in Route |-> Absent] /\ asicRoute = [r \in Route |-> Absent]
    /\ asicTunnel = {} /\ table = {} /\ hwState = [p \in Port |-> "none"]
    /\ excused = {} /\ changes = 0 /\ failures = 0

\* What the code does not keep right, once n went through it: a next hop
\* whose routes are counted twice, a route set before the mux of its next hop
\* is known or that outlives its neighbour, a neighbour of a cable that is
\* deleted or not configured.
Excuse(s, N) == [s EXCEPT !.excused = @ \cup N]
ExcuseIf(cond, s, n) == IF cond THEN Excuse(s, {n}) ELSE s

(***************************************************************************)
(* Lookups                                                                 *)
(***************************************************************************)

isMuxExists(s, p) == p \in Port /\ s.cable[p] # "none"
Neighbors(s, p) == {n \in Nbr : s.nbrs[p][n] # Absent}
RoutesOf(s, n) == {r \in Route : s.via[r] = n}
Routed(s) == {n \in Nbr : RoutesOf(s, n) # {}}
RouteCount(s) == [n \in Nbr |-> Cardinality(RoutesOf(s, n))]

\* MuxOrch::getNextHopId
muxNextHopId(s, n) ==
    IF isMuxExists(s, s.tb[n]) /\ s.nbrs[s.tb[n]][n] # Absent THEN s.nbrs[s.tb[n]][n]
    ELSE Null

hasNextHop(s, n) == muxNextHopId(s, n) # Null \/ s.nh[n] # Absent

\* NeighOrch::getNextHopId: an id that is not in the map is null.
getNextHopId(s, n) ==
    IF muxNextHopId(s, n) # Null THEN muxNextHopId(s, n)
    ELSE IF s.nh[n] = Absent THEN Null ELSE s.nh[n]

getLocalNextHopId(s, n) == IF s.nh[n] = Absent THEN Null ELSE s.nh[n]

isNeighborActive(s, n) ==
    LET port == CASE isMuxExists(s, Server[n]) -> Server[n]
                  [] s.fdb[n] # NoPort -> s.fdb[n]
                  [] OTHER -> s.tb[n]
    IN  isMuxExists(s, port) => s.cable[port] = "active"

(***************************************************************************)
(* NeighOrch and RouteOrch.  The operations take a set of neighbours: what *)
(* is done for one of them does not depend on the others.                  *)
(***************************************************************************)

\* k is how much, for each neighbour.
increaseNextHopRefCount(s, N, k) ==
    [s EXCEPT !.ref = [n \in Nbr |-> IF n \in N /\ s.nh[n] # Absent THEN @[n] + k[n] ELSE @[n]]]

\* Mutant: a count below zero.
Unclamped(s, N, k) ==
    [s EXCEPT !.ref = [n \in Nbr |-> IF n \in N /\ s.nh[n] # Absent THEN @[n] - k[n] ELSE @[n]]]

decreaseNextHopRefCount(s, N, k) ==
    [s EXCEPT !.ref = [n \in Nbr |-> IF n \in N /\ s.nh[n] # Absent
                                     THEN IF @[n] > k[n] THEN @[n] - k[n] ELSE 0
                                     ELSE @[n]]]

\* Mutant: a route keeps the next hop it had.
KeepRoutes(s, N) == s

\* Sets the routes of N; looking up a next hop that is not there adds a null
\* one to the map.
updateNextHopRoutes(s, N) ==
    [s EXCEPT !.nh = [n \in Nbr |-> IF n \in N \cap Routed(s) /\ ~hasNextHop(s, n)
                                    THEN Null ELSE @[n]],
              !.asicRoute = [r \in Route |-> IF s.via[r] \in N
                                             THEN getNextHopId(s, s.via[r]) ELSE @[r]]]

CreateNeighbors(s, N) ==
    [s EXCEPT !.hw = @ \cup N,
              !.gen = [n \in Nbr |-> IF n \in N THEN @[n] + 1 ELSE @[n]],
              !.nh = [n \in Nbr |-> IF n \in N THEN s.gen[n] + 1 ELSE @[n]],
              !.ref = [n \in Nbr |-> IF n \in N THEN 0 ELSE @[n]]]

DestroyNeighbors(s, N) ==
    [s EXCEPT !.hw = @ \ N,
              !.nh = [n \in Nbr |-> IF n \in N THEN Absent ELSE @[n]],
              !.ref = [n \in Nbr |-> IF n \in N THEN 0 ELSE @[n]]]

\* NeighOrch::enableNeighbors, with addNeighbor.  (That notifies MuxOrch, which
\* finds the neighbour in place.)
enableNeighbors(s, N) ==
    CreateNeighbors(s, {n \in N : s.known[n] # "none" /\ n \notin s.hw /\ isNeighborActive(s, n)})

\* removeNeighbor on behalf of a disable: a next hop with references stays.
disableNeighbors(s, N) ==
    DestroyNeighbors(s, {n \in N : s.known[n] # "none" /\ n \in s.hw /\ s.ref[n] <= 0})

(***************************************************************************)
(* MuxNbrHandler and MuxCable                                              *)
(***************************************************************************)

AddTunnelRoutes(s, N) ==
    [s EXCEPT !.asicTunnel = @ \cup N, !.table = @ \cup N]

RemoveTunnelRoutes(s, N) ==
    [s EXCEPT !.asicTunnel = @ \ N, !.table = @ \ N]

\* neighbors_ of a cable, pointed at the neighbours' own next hops or at the
\* tunnel.
HoldLocal(s, p, N) ==
    [s EXCEPT !.nbrs[p] = [n \in Nbr |-> IF n \in N THEN getLocalNextHopId(s, n) ELSE @[n]]]
HoldTunnel(s, p, N) ==
    [s EXCEPT !.nbrs[p] = [n \in Nbr |-> IF n \in N THEN Tunnel ELSE @[n]]]

\* MuxNbrHandler::update of neighbours that come.
AddActive(s, p, N) ==
    LET enabled == enableNeighbors(HoldLocal(s, p, N), N)
        routed == updateNextHopRoutes(enabled, N)
    IN  Excuse(increaseNextHopRefCount(routed, N, RouteCount(s)),
               {n \in N \cap Routed(s) : routed.ref[n] > 0 \/ ~hasNextHop(enabled, n)})

AddStandby(s, p, N) ==
    LET held == HoldTunnel(s, p, N)
        uncounted == decreaseNextHopRefCount(updateNextHopRoutes(held, N), N, RouteCount(s))
    IN  Excuse(AddTunnelRoutes(disableNeighbors(uncounted, N), N),
               {n \in N \cap Routed(s) : getNextHopId(held, n) # Tunnel})

Forget(s, p, N) == [s EXCEPT !.nbrs[p] = [n \in Nbr |-> IF n \in N THEN Absent ELSE @[n]]]

\* Mutant: the tunnel route of a standby neighbour stays.
HandlerForgets(s, p, N, add) ==
    LET new == N \ Neighbors(s, p)
    IN  IF add THEN IF s.cable[p] = "active" THEN AddActive(s, p, new) ELSE AddStandby(s, p, new)
        ELSE Forget(s, p, N)

\* MuxNbrHandler::update
handlerUpdate(s, p, N, add) ==
    LET new == N \ Neighbors(s, p)
    IN  IF add THEN IF s.cable[p] = "active" THEN AddActive(s, p, new) ELSE AddStandby(s, p, new)
        ELSE Forget(IF s.cable[p] = "standby" THEN RemoveTunnelRoutes(s, N) ELSE s, p, N)

\* MuxCable::updateNeighbor
cableUpdateNeighbor(s, p, N, add) ==
    [handlerUpdate(s, p, N, add)
        EXCEPT !.tb = [n \in Nbr |-> IF n \notin N THEN @[n]
                                     ELSE IF add THEN p
                                     ELSE IF @[n] = p THEN NoEntry ELSE @[n]]]

\* The neighbour a call fails for.
Fails(fail, call) == IF fail[1] = call THEN {fail[2]} ELSE {}

\* The loop over the routes of the neighbours D stops at one that fails.
Unroutable(s, fail) == Fails(fail, "route") \cap Routed(s)
Reached(s, D, fail) == {n \in D : \A m \in Unroutable(s, fail) : n <= m}

\* MuxNbrHandler::enable; fail is the call that fails and its neighbour.
\* Without routes of its own the neighbours' tunnel routes go last.
Enabled(s, p, fail) ==
    LET D == Neighbors(s, p)
        enabled == enableNeighbors(s, D \ Fails(fail, "neighbor"))
        held == HoldLocal(enabled, p, Reached(s, D, fail))
        done == Reached(s, D, fail) \ Unroutable(s, fail)
        routed == [increaseNextHopRefCount(updateNextHopRoutes(held, done), done, RouteCount(s))
                     EXCEPT !.table = @ \ done]
    IN  IF Fails(fail, "neighbor") \cap (D \ s.hw) # {} THEN [ok |-> FALSE, s |-> enabled]
        ELSE IF Unroutable(s, fail) # {} THEN [ok |-> FALSE, s |-> routed]
        ELSE [ok |-> Fails(fail, "tunnel") = {},
              s |-> [routed EXCEPT !.asicTunnel = @ \ (D \ Fails(fail, "tunnel"))]]

\* MuxNbrHandler::disable: the tunnel routes come before the neighbours go.
Disabled(s, p, fail) ==
    LET D == Neighbors(s, p)
        held == HoldTunnel(s, p, Reached(s, D, fail))
        done == Reached(s, D, fail) \ Unroutable(s, fail)
        routed == [decreaseNextHopRefCount(updateNextHopRoutes(held, done), done, RouteCount(s))
                     EXCEPT !.table = @ \cup done]
        missed == Fails(fail, "tunnel") \ s.asicTunnel
        tunnels == [routed EXCEPT !.asicTunnel = @ \cup (D \ missed)]
    IN  IF Unroutable(s, fail) # {} THEN [ok |-> FALSE, s |-> routed]
        ELSE IF missed # {} THEN [ok |-> FALSE, s |-> tunnels]
        ELSE [ok |-> {n \in Fails(fail, "neighbor") \cap s.hw : routed.ref[n] = 0} = {},
              s |-> disableNeighbors(tunnels, D \ Fails(fail, "neighbor"))]

\* MuxCable::stateActive and stateStandby, without the ACL.
Handle(s, p, new, fail) ==
    IF new = "active" THEN Enabled(s, p, fail) ELSE Disabled(s, p, fail)

\* Mutant: a change that failed is not undone.
SetWithoutRollback(s, p, new, fail) ==
    LET r == Handle([s EXCEPT !.cable[p] = new], p, new, fail)
    IN  IF r.ok THEN [r.s EXCEPT !.hwState[p] = new]
        ELSE [r.s EXCEPT !.cable[p] = s.cable[p], !.hwState[p] = s.cable[p]]

\* MuxCable::setState and, when it throws, rollbackStateChange.  Rolling back
\* a change that stopped in the middle of the routes counts again what was
\* not uncounted.
setState(s, p, new, fail) ==
    LET r == Handle([s EXCEPT !.cable[p] = new], p, new, fail)
        back == Handle([r.s EXCEPT !.cable[p] = s.cable[p]], p, s.cable[p], <<"none", Absent>>)
        skipped == IF fail[1] = "route" /\ new = "standby"
                   THEN {n \in Neighbors(s, p) : n >= fail[2] /\ RoutesOf(s, n) # {}} ELSE {}
    IN  IF s.cable[p] = new THEN [s EXCEPT !.hwState[p] = new]
        ELSE IF r.ok THEN [r.s EXCEPT !.hwState[p] = new]
        ELSE [back.s EXCEPT !.hwState[p] = s.cable[p], !.excused = @ \cup skipped]

(***************************************************************************)
(* MuxOrch                                                                 *)
(***************************************************************************)

\* Mutant: the cable the MAC was at keeps the neighbour.
StayAtBoth(s, n, port) == IF isMuxExists(s, s.tb[n]) THEN [s EXCEPT !.tb[n] = port] ELSE s

\* A MAC on another port: the neighbour leaves the cable it was at.
MovePort(s, n, port) ==
    LET old == s.tb[n]
        moved == cableUpdateNeighbor([s EXCEPT !.tb[n] = port], old, {n}, FALSE)
    IN  IF isMuxExists(s, old) THEN ExcuseIf(~isMuxExists(s, port), moved, n) ELSE s

\* MuxOrch::updateFdb for the MAC of n, with the conversion of a neighbour
\* that mux_nexthop_tb_ does not have.
updateFdb(s, n, port) ==
    LET handled == s.tb[n] # NoEntry /\ hasNextHop(s, n) /\ s.known[n] # "none"
        stays == s.tb[n] = port \/ (isMuxExists(s, s.tb[n]) /\ Server[n] = s.tb[n])
        there == MovePort(s, n, port)
        converted == [s EXCEPT !.tb[n] = port]
    IN  IF ~handled
        THEN IF isMuxExists(s, port) /\ s.known[n] = "mac"
             THEN cableUpdateNeighbor(converted, port, {n}, TRUE) ELSE s
        ELSE IF stays THEN s
        ELSE IF isMuxExists(s, port) THEN cableUpdateNeighbor(there, port, {n}, TRUE)
        ELSE there

\* MuxOrch::updateNeighbor of a neighbour whose MAC is on a mux port.
updatePortNeighbor(s, n, add) ==
    LET old == s.tb[n]
        unnamed == [s EXCEPT !.tb[n] = NoName]
        left == IF isMuxExists(s, old)
                THEN [cableUpdateNeighbor(unnamed, old, {n}, FALSE) EXCEPT !.tb[n] = NoName]
                ELSE unnamed
        gone == [s EXCEPT !.tb[n] = NoEntry]
    IN  CASE add /\ (s.fdb[n] = NoPort \/ old = s.fdb[n]) -> s
          [] add /\ s.fdb[n] # NoPort /\ old # s.fdb[n] ->
                IF isMuxExists(s, s.fdb[n]) THEN cableUpdateNeighbor(left, s.fdb[n], {n}, TRUE)
                ELSE left
          [] OTHER -> IF isMuxExists(s, old) THEN cableUpdateNeighbor(gone, old, {n}, FALSE)
                      ELSE gone

Resolve(s, N) == [s EXCEPT !.alone = @ \ N, !.asicTunnel = @ \ (N \cap s.alone)]

\* MuxOrch::updateNeighbor.  A neighbour that does not resolve gets a tunnel
\* route, until it does or is deleted.
updateNeighbor(s, n, mac, add) ==
    LET resolved == Resolve(s, {n})
    IN  IF \A p \in Port : ~isMuxExists(s, p) THEN s
        ELSE IF add /\ mac = "zero"
        THEN [s EXCEPT !.alone = @ \cup {n}, !.asicTunnel = @ \cup {n}]
        ELSE IF n \in s.alone /\ ~add THEN resolved
        ELSE IF isMuxExists(s, Server[n]) THEN cableUpdateNeighbor(resolved, Server[n], {n}, add)
        ELSE updatePortNeighbor(resolved, n, add)

(***************************************************************************)
(* Requests                                                                *)
(***************************************************************************)

Request(s) ==
    /\ changes < MaxChanges /\ changes' = changes + 1
    /\ Become(s)

\* handleMuxCfg SET.  A new cable is standby; updateNeighbor adds the neighbours
\* that were learnt on the port, but for those that already have an entry.
ConfigureCable(p) ==
    LET new == [Now EXCEPT !.cable[p] = "standby", !.nbrs[p] = [n \in Nbr |-> Absent]]
        here == {n \in Nbr : known[n] = "mac" /\ fdb[n] = p}
        unknown == {n \in here : tb[n] = NoEntry}
    IN  /\ cable[p] = "none"
        /\ Request(Excuse(cableUpdateNeighbor(Resolve(new, unknown), p, unknown, TRUE),
                          here \ unknown))
        /\ UNCHANGED failures

\* handleMuxCfg DEL: the cable goes, and with it what it knew.
DeleteCable(p) ==
    /\ cable[p] # "none"
    /\ Request([Now EXCEPT !.cable[p] = "none", !.nbrs[p] = [n \in Nbr |-> Absent],
                           !.excused = @ \cup Neighbors(Now, p)
                               \cup (IF \A q \in Port \ {p} : cable[q] = "none" THEN alone ELSE {})])
    /\ UNCHANGED failures

\* MUX_CABLE_TABLE
SetState(p, new) ==
    /\ cable[p] # "none"
    /\ \E fail \in {<<"none", Absent>>}
                     \cup ({"neighbor", "route", "tunnel"} \X Neighbors(Now, p)) :
        /\ fail[1] # "none" => failures < MaxFailures
        /\ failures' = failures + (IF fail[1] = "none" THEN 0 ELSE 1)
        /\ Request(setState(Now, p, new, fail))

\* NeighOrch::addNeighbor, then MuxOrch.
AddNeighbor(n) ==
    LET s == IF isNeighborActive(Now, n) THEN CreateNeighbors(Now, {n}) ELSE Now
    IN  /\ known[n] # "mac"
        /\ Request(updateNeighbor([s EXCEPT !.known[n] = "mac"], n, "mac", TRUE))
        /\ UNCHANGED failures

\* A neighbour that does not resolve.
addZeroMacTunnelRoute(n) ==
    LET s == updateNeighbor(Now, n, "zero", TRUE)
    IN  /\ known[n] = "none" /\ n \in s.alone
        /\ Request([s EXCEPT !.known[n] = "zero"])
        /\ UNCHANGED failures

\* NeighOrch::removeNeighbor: MuxOrch is told before, when the neighbour is
\* programmed, and after.  While its next hop has references it stays.
RemoveNeighbor(n) ==
    LET told == IF n \in hw THEN updateNeighbor(Now, n, "zero", FALSE) ELSE Now
        freed == IF n \in hw THEN DestroyNeighbors(told, {n}) ELSE told
        gone == ExcuseIf(RoutesOf(Now, n) # {}, freed, n)
    IN  /\ known[n] # "none" /\ (nh[n] # Absent => ref[n] = 0)
        /\ Request(updateNeighbor([gone EXCEPT !.known[n] = "none"], n, "zero", FALSE))
        /\ UNCHANGED failures

\* FdbOrch learns the MAC, or it ages.
Learn(n, p) ==
    /\ fdb[n] # p /\ Server[n] \in {NoPort, p}
    /\ Request(updateFdb([Now EXCEPT !.fdb[n] = p], n, p))
    /\ UNCHANGED failures

Age(n) ==
    /\ fdb[n] # NoPort
    /\ Request([Now EXCEPT !.fdb[n] = NoPort])
    /\ UNCHANGED failures

One == [n \in Nbr |-> 1]

\* RouteOrch, for a route with one next hop.
AddRoute(r, n) ==
    /\ via[r] = Absent /\ hasNextHop(Now, n)
    /\ Request([increaseNextHopRefCount(Now, {n}, One)
                   EXCEPT !.via[r] = n, !.asicRoute[r] = getNextHopId(Now, n)])
    /\ UNCHANGED failures

RemoveRoute(r) ==
    /\ via[r] # Absent
    /\ Request([decreaseNextHopRefCount(Now, {via[r]}, One)
                   EXCEPT !.via[r] = Absent, !.asicRoute[r] = Absent])
    /\ UNCHANGED failures

Next ==
    \/ \E p \in Port : ConfigureCable(p) \/ DeleteCable(p)
    \/ \E p \in Port, new \in {"active", "standby"} : SetState(p, new)
    \/ \E n \in Nbr : AddNeighbor(n) \/ addZeroMacTunnelRoute(n) \/ RemoveNeighbor(n) \/ Age(n)
    \/ \E n \in Nbr, p \in Port : Learn(n, p)
    \/ \E r \in Route, n \in Nbr : AddRoute(r, n)
    \/ \E r \in Route : RemoveRoute(r)

Spec == Init /\ [][Next]_vars

(***************************************************************************)
(* Properties                                                              *)
(***************************************************************************)

\* What the maps and the ASIC may hold.
TypeOK ==
    /\ cable \in [Port -> {"none", "standby", "active"}]
    /\ tb \in [Nbr -> Port \cup {NoName, NoEntry}] /\ fdb \in [Nbr -> Port \cup {NoPort}]
    /\ \A p \in Port, n \in Nbr : nbrs[p][n] \in {Absent, Tunnel} \cup 0 .. gen[n]
    /\ \A n \in Nbr : nh[n] \in {Absent} \cup 0 .. gen[n] /\ ref[n] \in Nat
    /\ known \in [Nbr -> {"none", "zero", "mac"}]
    /\ UNION {hw, alone, asicTunnel, table, excused} \subseteq Nbr
    /\ via \in [Route -> Nbr \cup {Absent}]

\* A neighbour is at one cable, which mux_nexthop_tb_ names, and NeighOrch
\* knows it, whatever the order of configuration, learning and moves.
OneOwner ==
    \A n \in Nbr \ excused, p \in Port :
        nbrs[p][n] # Absent => tb[n] = p /\ known[n] = "mac"

\* The neighbours of a standby cable are out of the ASIC and have a tunnel
\* route; those of an active one are programmed and have none.
Steered ==
    \A p \in Port : \A n \in Neighbors(Now, p) \ excused :
        IF cable[p] = "standby" THEN n \notin hw /\ n \in asicTunnel
        ELSE n \in hw /\ n \notin asicTunnel

\* A route goes to the tunnel when its next hop is at a standby cable, and to
\* the next hop that exists in the ASIC otherwise.
RoutesFollow ==
    \A r \in Route : LET n == via[r] IN
        n # Absent /\ n \notin excused /\ known[n] = "mac" =>
            asicRoute[r] = IF isMuxExists(Now, tb[n]) /\ cable[tb[n]] = "standby"
                           THEN Tunnel ELSE nh[n]

\* The reference count of a next hop, which keeps the neighbour from being
\* removed, is the number of routes that use it, through changes of state,
\* failures and roll-backs.
RefExact ==
    \A n \in Nbr \ excused : nh[n] # Absent => ref[n] = Cardinality(RoutesOf(Now, n))

\* A tunnel route, in the ASIC or in TUNNEL_ROUTE_TABLE (where linkmgrd's
\* tunnel handler finds it), is somebody's: no route stays behind.
NoTunnelLeft ==
    LET standby == UNION {Neighbors(Now, p) : p \in {q \in Port : cable[q] = "standby"}}
    IN  /\ asicTunnel \ excused \subseteq standby \cup alone
        /\ table \ excused = standby \ excused

\* The maps of MuxOrch agree with each other and with the tunnel routes.
Consistent == TypeOK /\ OneOwner /\ NoTunnelLeft
=============================================================================
