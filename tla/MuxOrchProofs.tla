--------------------------- MODULE MuxOrchProofs ---------------------------
(***************************************************************************)
(* Proofs about MuxOrch, for any number of ports, neighbours, routes,      *)
(* requests and failures: every neighbour the properties speak of is at    *)
(* one cable, is steered as the state of the cable says, and its routes    *)
(* and its reference count follow.                                         *)
(***************************************************************************)
EXTENDS MuxOrch, FiniteSetTheorems, TLAPS

CableState == {"none", "standby", "active"}

\* The records that the handlers pass on.
State ==
  [cable : [Port -> CableState], nbrs : [Port -> [Nbr -> Int]],
   tb : [Nbr -> Port \cup {NoName, NoEntry}], alone : SUBSET Nbr,
   known : [Nbr -> {"none", "zero", "mac"}], hw : SUBSET Nbr, nh : [Nbr -> Int],
   ref : [Nbr -> Nat], gen : [Nbr -> Nat], fdb : [Nbr -> Port \cup {NoPort}],
   via : [Route -> Nbr \cup {Absent}], asicRoute : [Route -> Int],
   asicTunnel : SUBSET Nbr, table : SUBSET Nbr, hwState : [Port -> CableState],
   excused : SUBSET Nbr]

\* Next hop ids are the ones that were given out.
Ids(s) ==
  /\ \A p \in Port, n \in Nbr : s.nbrs[p][n] \in {Absent, Tunnel} \cup 0 .. s.gen[n]
  /\ \A n \in Nbr : s.nh[n] \in {Absent} \cup 0 .. s.gen[n]

Typed(s) == s \in State /\ Ids(s)

\* Parts of the state that an operation leaves alone.
SameMux(s, t) == t.cable = s.cable /\ t.nbrs = s.nbrs /\ t.tb = s.tb /\ t.alone = s.alone
SameNeigh(s, t) ==
  t.known = s.known /\ t.hw = s.hw /\ t.nh = s.nh /\ t.ref = s.ref /\ t.gen = s.gen
SameRoute(s, t) == t.via = s.via /\ t.asicRoute = s.asicRoute
SameTunnel(s, t) == t.asicTunnel = s.asicTunnel /\ t.table = s.table
SameRest(s, t) == t.fdb = s.fdb /\ t.hwState = s.hwState /\ t.excused = s.excused

\* What increaseNextHopRefCount does.
LEMMA IncreaseDoes ==
  ASSUME NEW s, Typed(s), NEW N \in SUBSET Nbr, NEW k \in [Nbr -> Nat],
         NEW t, t = increaseNextHopRefCount(s, N, k)
  PROVE  /\ Typed(t) /\ SameMux(s, t) /\ SameRoute(s, t) /\ SameTunnel(s, t) /\ SameRest(s, t)
         /\ t.known = s.known /\ t.hw = s.hw /\ t.nh = s.nh /\ t.gen = s.gen
         /\ \A n \in Nbr : t.ref[n] = IF n \in N /\ s.nh[n] # Absent THEN s.ref[n] + k[n]
                                      ELSE s.ref[n]
<1> s \in State BY DEF Typed
<1>1. PICK f : f = [n \in Nbr |-> IF n \in N /\ s.nh[n] # Absent THEN s.ref[n] + k[n]
                                  ELSE s.ref[n]]
  OBVIOUS
<1>2. f \in [Nbr -> Nat]
  BY <1>1 DEF State
<1>3. t = [s EXCEPT !.ref = f]
  BY <1>1 DEF increaseNextHopRefCount
<1>4. t \in State
  BY <1>2, <1>3 DEF State
<1>5. /\ SameMux(s, t) /\ SameRoute(s, t) /\ SameTunnel(s, t) /\ SameRest(s, t)
      /\ t.known = s.known /\ t.hw = s.hw /\ t.nh = s.nh /\ t.gen = s.gen
  BY <1>3 DEF State, SameMux, SameRoute, SameTunnel, SameRest
<1>6. t.ref = f
  BY <1>3 DEF State
<1>7. Ids(t)
  BY <1>5 DEF Typed, Ids, SameMux
<1> QED BY <1>1, <1>4, <1>5, <1>6, <1>7 DEF Typed

\* A count does not go below zero.
Less(x, k) == IF x > k THEN x - k ELSE 0

\* What decreaseNextHopRefCount does.
LEMMA DecreaseDoes ==
  ASSUME NEW s, Typed(s), NEW N \in SUBSET Nbr, NEW k \in [Nbr -> Nat],
         NEW t, t = decreaseNextHopRefCount(s, N, k)
  PROVE  /\ Typed(t) /\ SameMux(s, t) /\ SameRoute(s, t) /\ SameTunnel(s, t) /\ SameRest(s, t)
         /\ t.known = s.known /\ t.hw = s.hw /\ t.nh = s.nh /\ t.gen = s.gen
         /\ \A n \in Nbr : t.ref[n] = IF n \in N /\ s.nh[n] # Absent THEN Less(s.ref[n], k[n])
                                      ELSE s.ref[n]
<1> USE DEF Less
<1> s \in State BY DEF Typed
<1>1. PICK f : f = [n \in Nbr |-> IF n \in N /\ s.nh[n] # Absent
                                  THEN IF s.ref[n] > k[n] THEN s.ref[n] - k[n] ELSE 0
                                  ELSE s.ref[n]]
  OBVIOUS
<1>2. f \in [Nbr -> Nat]
  BY <1>1 DEF State
<1>3. t = [s EXCEPT !.ref = f]
  BY <1>1 DEF decreaseNextHopRefCount
<1>4. t \in State
  BY <1>2, <1>3 DEF State
<1>5. /\ SameMux(s, t) /\ SameRoute(s, t) /\ SameTunnel(s, t) /\ SameRest(s, t)
      /\ t.known = s.known /\ t.hw = s.hw /\ t.nh = s.nh /\ t.gen = s.gen
  BY <1>3 DEF State, SameMux, SameRoute, SameTunnel, SameRest
<1>6. t.ref = f
  BY <1>3 DEF State
<1>7. Ids(t)
  BY <1>5 DEF Typed, Ids, SameMux
<1> QED BY <1>1, <1>4, <1>5, <1>6, <1>7 DEF Typed

\* The next hops that the lookups return are numbers.
LEMMA LookupType ==
  ASSUME NEW s, Typed(s), NEW n \in Nbr
  PROVE  getNextHopId(s, n) \in Int /\ getLocalNextHopId(s, n) \in 0 .. s.gen[n]
<1>1. muxNextHopId(s, n) \in Int
  BY DEF Typed, State, muxNextHopId, isMuxExists, Null
<1>2. s.nh[n] \in {Absent} \cup 0 .. s.gen[n] /\ s.gen[n] \in Nat
  BY DEF Typed, State, Ids
<1> QED BY <1>1, <1>2 DEF getNextHopId, getLocalNextHopId, Null, Absent

\* What updateNextHopRoutes does.
LEMMA RoutesDo ==
  ASSUME NEW s, Typed(s), NEW N \in SUBSET Nbr, NEW t, t = updateNextHopRoutes(s, N)
  PROVE  /\ Typed(t) /\ SameMux(s, t) /\ SameTunnel(s, t) /\ SameRest(s, t)
         /\ t.known = s.known /\ t.hw = s.hw /\ t.ref = s.ref /\ t.gen = s.gen /\ t.via = s.via
         /\ \A n \in Nbr : t.nh[n] = IF n \in N \cap Routed(s) /\ ~hasNextHop(s, n)
                                     THEN Null ELSE s.nh[n]
         /\ \A r \in Route : t.asicRoute[r] = IF s.via[r] \in N
                                              THEN getNextHopId(s, s.via[r]) ELSE s.asicRoute[r]
<1> s \in State BY DEF Typed
<1>1. PICK f : f = [n \in Nbr |-> IF n \in N \cap Routed(s) /\ ~hasNextHop(s, n)
                                  THEN Null ELSE s.nh[n]]
  OBVIOUS
<1>2. PICK g : g = [r \in Route |-> IF s.via[r] \in N
                                    THEN getNextHopId(s, s.via[r]) ELSE s.asicRoute[r]]
  OBVIOUS
<1>3. f \in [Nbr -> Int]
  BY <1>1 DEF State, Null
<1>4. g \in [Route -> Int]
  BY <1>2, LookupType DEF State
<1>5. t = [s EXCEPT !.nh = f, !.asicRoute = g]
  BY <1>1, <1>2 DEF updateNextHopRoutes
<1>6. t \in State
  BY <1>3, <1>4, <1>5 DEF State
<1>7. /\ SameMux(s, t) /\ SameTunnel(s, t) /\ SameRest(s, t)
      /\ t.known = s.known /\ t.hw = s.hw /\ t.ref = s.ref /\ t.gen = s.gen /\ t.via = s.via
  BY <1>5 DEF State, SameMux, SameTunnel, SameRest
<1>8. t.nh = f /\ t.asicRoute = g
  BY <1>5 DEF State
<1>9. Ids(t)
  <2>1. \A n \in Nbr : f[n] \in {Absent} \cup 0 .. s.gen[n]
    <3> TAKE n \in Nbr
    <3>1. s.nh[n] \in {Absent} \cup 0 .. s.gen[n] /\ s.gen[n] \in Nat
      BY DEF Typed, State, Ids
    <3>2. 0 \in 0 .. s.gen[n]
      BY <3>1
    <3> QED BY <1>1, <3>1, <3>2 DEF Null
  <2> QED BY <1>7, <1>8, <2>1 DEF Typed, Ids, SameMux
<1> QED BY <1>1, <1>2, <1>6, <1>7, <1>8, <1>9 DEF Typed

\* What CreateNeighbors does.
LEMMA CreateDoes ==
  ASSUME NEW s, Typed(s), NEW N \in SUBSET Nbr, NEW t, t = CreateNeighbors(s, N)
  PROVE  /\ Typed(t) /\ SameMux(s, t) /\ SameRoute(s, t) /\ SameTunnel(s, t) /\ SameRest(s, t)
         /\ t.known = s.known /\ t.hw = s.hw \cup N
         /\ \A n \in Nbr : /\ t.gen[n] = IF n \in N THEN s.gen[n] + 1 ELSE s.gen[n]
                           /\ t.nh[n] = IF n \in N THEN s.gen[n] + 1 ELSE s.nh[n]
                           /\ t.ref[n] = IF n \in N THEN 0 ELSE s.ref[n]
<1> s \in State BY DEF Typed
<1>1. PICK g : g = [n \in Nbr |-> IF n \in N THEN s.gen[n] + 1 ELSE s.gen[n]]
  OBVIOUS
<1>2. PICK h : h = [n \in Nbr |-> IF n \in N THEN s.gen[n] + 1 ELSE s.nh[n]]
  OBVIOUS
<1>3. PICK f : f = [n \in Nbr |-> IF n \in N THEN 0 ELSE s.ref[n]]
  OBVIOUS
<1>4. g \in [Nbr -> Nat] /\ h \in [Nbr -> Int] /\ f \in [Nbr -> Nat]
  BY <1>1, <1>2, <1>3 DEF State
<1>5. t = [s EXCEPT !.hw = @ \cup N, !.gen = g, !.nh = h, !.ref = f]
  BY <1>1, <1>2, <1>3 DEF CreateNeighbors
<1>6. t \in State
  <2>1. PICK H : H = s.hw \cup N
    OBVIOUS
  <2>2. H \in SUBSET Nbr
    BY <2>1 DEF State
  <2>3. t = [s EXCEPT !.hw = H, !.gen = g, !.nh = h, !.ref = f]
    BY <1>5, <2>1
  <2> QED BY <1>4, <2>2, <2>3 DEF State
<1>7. /\ SameMux(s, t) /\ SameRoute(s, t) /\ SameTunnel(s, t) /\ SameRest(s, t)
      /\ t.known = s.known /\ t.hw = s.hw \cup N
  BY <1>5 DEF State, SameMux, SameRoute, SameTunnel, SameRest
<1>8. t.gen = g /\ t.nh = h /\ t.ref = f
  BY <1>5 DEF State
<1>9. Ids(t)
  <2>1. ASSUME NEW n \in Nbr
        PROVE  /\ g[n] \in {s.gen[n], s.gen[n] + 1} /\ h[n] \in {s.nh[n], s.gen[n] + 1}
               /\ h[n] = s.gen[n] + 1 => g[n] = h[n] \/ h[n] = s.nh[n]
               /\ s.gen[n] \in Nat
    BY <1>1, <1>2 DEF State
  <2>2. ASSUME NEW n \in Nbr
        PROVE  h[n] \in {Absent} \cup 0 .. g[n]
    BY <2>1, <2>2 DEF Typed, Ids, Absent
  <2>3. ASSUME NEW p \in Port, NEW n \in Nbr
        PROVE  s.nbrs[p][n] \in {Absent, Tunnel} \cup 0 .. g[n]
    BY <2>1, <2>3 DEF Typed, Ids, Absent, Tunnel
  <2> QED BY <1>7, <1>8, <2>2, <2>3 DEF Ids, SameMux
<1> QED BY <1>1, <1>2, <1>3, <1>6, <1>7, <1>8, <1>9 DEF Typed

\* What DestroyNeighbors does.
LEMMA DestroyDoes ==
  ASSUME NEW s, Typed(s), NEW N \in SUBSET Nbr, NEW t, t = DestroyNeighbors(s, N)
  PROVE  /\ Typed(t) /\ SameMux(s, t) /\ SameRoute(s, t) /\ SameTunnel(s, t) /\ SameRest(s, t)
         /\ t.known = s.known /\ t.gen = s.gen /\ t.hw = s.hw \ N
         /\ \A n \in Nbr : /\ t.nh[n] = IF n \in N THEN Absent ELSE s.nh[n]
                           /\ t.ref[n] = IF n \in N THEN 0 ELSE s.ref[n]
<1> s \in State BY DEF Typed
<1>1. PICK h : h = [n \in Nbr |-> IF n \in N THEN Absent ELSE s.nh[n]]
  OBVIOUS
<1>2. PICK f : f = [n \in Nbr |-> IF n \in N THEN 0 ELSE s.ref[n]]
  OBVIOUS
<1>3. h \in [Nbr -> Int] /\ f \in [Nbr -> Nat]
  BY <1>1, <1>2 DEF State, Absent
<1>4. t = [s EXCEPT !.hw = @ \ N, !.nh = h, !.ref = f]
  BY <1>1, <1>2 DEF DestroyNeighbors
<1>5. t \in State
  <2>1. PICK H : H = s.hw \ N
    OBVIOUS
  <2>2. H \in SUBSET Nbr
    BY <2>1 DEF State
  <2>3. t = [s EXCEPT !.hw = H, !.nh = h, !.ref = f]
    BY <1>4, <2>1
  <2> QED BY <1>3, <2>2, <2>3 DEF State
<1>6. /\ SameMux(s, t) /\ SameRoute(s, t) /\ SameTunnel(s, t) /\ SameRest(s, t)
      /\ t.known = s.known /\ t.gen = s.gen /\ t.hw = s.hw \ N
  BY <1>4 DEF State, SameMux, SameRoute, SameTunnel, SameRest
<1>7. t.nh = h /\ t.ref = f
  BY <1>4 DEF State
<1>8. Ids(t)
  BY <1>1, <1>6, <1>7 DEF Typed, Ids, SameMux
<1> QED BY <1>1, <1>2, <1>5, <1>6, <1>7, <1>8 DEF Typed

\* What Excuse does.
LEMMA ExcuseDoes ==
  ASSUME NEW s, Typed(s), NEW N \in SUBSET Nbr, NEW t, t = Excuse(s, N)
  PROVE  /\ Typed(t) /\ SameMux(s, t) /\ SameNeigh(s, t) /\ SameRoute(s, t) /\ SameTunnel(s, t)
         /\ t.fdb = s.fdb /\ t.hwState = s.hwState /\ t.excused = s.excused \cup N
<1> s \in State BY DEF Typed
<1>1. PICK E : E = s.excused \cup N
  OBVIOUS
<1>2. E \in SUBSET Nbr
  BY <1>1 DEF State
<1>3. t = [s EXCEPT !.excused = E]
  BY <1>1 DEF Excuse
<1>4. t \in State
  BY <1>2, <1>3 DEF State
<1>5. /\ SameMux(s, t) /\ SameNeigh(s, t) /\ SameRoute(s, t) /\ SameTunnel(s, t)
      /\ t.fdb = s.fdb /\ t.hwState = s.hwState /\ t.excused = E
  BY <1>3 DEF State, SameMux, SameNeigh, SameRoute, SameTunnel
<1>6. Ids(t)
  BY <1>5 DEF Typed, Ids, SameMux, SameNeigh
<1> QED BY <1>1, <1>4, <1>5, <1>6 DEF Typed

\* A change of the tunnel routes alone.
WithTunnels(s, A, B) == [s EXCEPT !.asicTunnel = A, !.table = B]

\* What AddTunnelRoutes and RemoveTunnelRoutes change, and no more.
LEMMA TunnelDoes ==
  ASSUME NEW s, Typed(s), NEW A \in SUBSET Nbr, NEW B \in SUBSET Nbr,
         NEW t, t = WithTunnels(s, A, B)
  PROVE  /\ Typed(t) /\ SameMux(s, t) /\ SameNeigh(s, t) /\ SameRoute(s, t) /\ SameRest(s, t)
         /\ t.asicTunnel = A /\ t.table = B
<1> USE DEF WithTunnels
<1> s \in State BY DEF Typed
<1>1. t \in State
  BY DEF State
<1>2. /\ SameMux(s, t) /\ SameNeigh(s, t) /\ SameRoute(s, t) /\ SameRest(s, t)
      /\ t.asicTunnel = A /\ t.table = B
  BY DEF State, SameMux, SameNeigh, SameRoute, SameRest
<1>3. Ids(t)
  BY <1>2 DEF Typed, Ids, SameMux, SameNeigh
<1> QED BY <1>1, <1>2, <1>3 DEF Typed

\* A change of the neighbours of a cable alone.
Fits(s, f) ==
  f \in [Nbr -> Int] /\ \A n \in Nbr : f[n] \in {Absent, Tunnel} \cup 0 .. s.gen[n]
WithNbrs(s, p, f) == [s EXCEPT !.nbrs[p] = f]
SameButNbrs(s, t) ==
  /\ SameNeigh(s, t) /\ SameRoute(s, t) /\ SameTunnel(s, t) /\ SameRest(s, t)
  /\ t.cable = s.cable /\ t.tb = s.tb /\ t.alone = s.alone

\* What a change of neighbors_ of one cable leaves alone.
LEMMA HoldDoes ==
  ASSUME NEW s, Typed(s), NEW p \in Port, NEW f, Fits(s, f), NEW t, t = WithNbrs(s, p, f)
  PROVE  /\ Typed(t) /\ SameButNbrs(s, t)
         /\ \A q \in Port, n \in Nbr : t.nbrs[q][n] = IF q = p THEN f[n] ELSE s.nbrs[q][n]
<1> USE DEF Fits, WithNbrs, SameButNbrs
<1> s \in State BY DEF Typed
<1>1. PICK F : F = [s.nbrs EXCEPT ![p] = f]
  OBVIOUS
<1>2. s.nbrs \in [Port -> [Nbr -> Int]]
  BY DEF State
<1>3. F \in [Port -> [Nbr -> Int]]
  BY <1>1, <1>2
<1>4. t = [s EXCEPT !.nbrs = F]
  BY <1>1
<1>5. t \in State
  BY <1>3, <1>4 DEF State
<1>6. /\ SameNeigh(s, t) /\ SameRoute(s, t) /\ SameTunnel(s, t) /\ SameRest(s, t)
      /\ t.cable = s.cable /\ t.tb = s.tb /\ t.alone = s.alone /\ t.nbrs = F
  BY <1>4 DEF State, SameNeigh, SameRoute, SameTunnel, SameRest
<1>7. \A q \in Port, n \in Nbr : F[q][n] = IF q = p THEN f[n] ELSE s.nbrs[q][n]
  BY <1>1, <1>2
<1>8. Ids(t)
  <2>1. ASSUME NEW q \in Port, NEW n \in Nbr
        PROVE  F[q][n] \in {Absent, Tunnel} \cup 0 .. s.gen[n]
    BY <1>7, <2>1 DEF Typed, Ids
  <2> QED BY <1>6, <2>1 DEF Typed, Ids, SameNeigh
<1> QED BY <1>5, <1>6, <1>7, <1>8 DEF Typed

\* A change of mux_nexthop_tb_ alone.
Names(f) == f \in [Nbr -> Port \cup {NoName, NoEntry}]
WithNames(s, f) == [s EXCEPT !.tb = f]

\* What a change of mux_nexthop_tb_ leaves alone.
LEMMA NameDoes ==
  ASSUME NEW s, Typed(s), NEW f, Names(f), NEW t, t = WithNames(s, f)
  PROVE  /\ Typed(t) /\ SameNeigh(s, t) /\ SameRoute(s, t) /\ SameTunnel(s, t) /\ SameRest(s, t)
         /\ t.cable = s.cable /\ t.nbrs = s.nbrs /\ t.alone = s.alone /\ t.tb = f
<1> USE DEF WithNames, Names
<1> s \in State BY DEF Typed
<1>1. t \in State
  BY DEF State
<1>2. /\ SameNeigh(s, t) /\ SameRoute(s, t) /\ SameTunnel(s, t) /\ SameRest(s, t)
      /\ t.cable = s.cable /\ t.nbrs = s.nbrs /\ t.alone = s.alone /\ t.tb = f
  BY DEF State, SameNeigh, SameRoute, SameTunnel, SameRest
<1>3. Ids(t)
  BY <1>2 DEF Typed, Ids, SameNeigh
<1> QED BY <1>1, <1>2, <1>3 DEF Typed

(***************************************************************************)
(* The inductive invariant, neighbour by neighbour.  TypeOK and the checked *)
(* properties say nothing of what the next request finds: that an active    *)
(* cable holds the neighbour's own next hop, that mux_nexthop_tb_ names a   *)
(* cable only while the neighbour is there, that FDB and server subnet      *)
(* agree with the cable, that no next hop is null.                          *)
(***************************************************************************)

At(s, p, n) == s.nbrs[p][n] # Absent
Count(s, n) == Cardinality(RoutesOf(s, n))

\* NeighOrch's entry of n and MuxOrch's set of unresolved ones.
Entry(s, n) ==
  /\ n \in s.hw <=> s.nh[n] # Absent
  /\ s.nh[n] # Null
  /\ n \in s.hw => s.known[n] = "mac"
  /\ n \in s.alone <=> s.known[n] = "zero"
  /\ n \in s.alone => \E p \in Port : s.cable[p] # "none"
  /\ s.known[n] # "mac" => \A r \in Route : s.via[r] # n

Counted(s, n) == s.nh[n] # Absent => s.ref[n] = Count(s, n)

Followed(s, n) ==
  \A r \in Route : s.via[r] = n =>
    s.asicRoute[r] = IF isMuxExists(s, s.tb[n]) /\ s.cable[s.tb[n]] = "standby"
                     THEN Tunnel ELSE s.nh[n]

\* n where a cable holds it, in the state of the cable.
Standing(s, p, n) ==
  s.nbrs[p][n] = Tunnel /\ n \notin s.hw /\ n \in s.asicTunnel /\ n \in s.table
Serving(s, p, n) ==
  n \in s.hw /\ s.nbrs[p][n] \in {Null, s.nh[n]} /\ n \notin s.asicTunnel /\ n \notin s.table

\* n belongs at p, as far as its MAC and its subnet tell.
Belongs(s, p, n) == Server[n] \in {NoPort, p} /\ s.fdb[n] \in {NoPort, p}

Owned(s, n) ==
  \A p \in Port : At(s, p, n) =>
    /\ s.tb[n] = p /\ s.known[n] = "mac" /\ s.cable[p] # "none" /\ Belongs(s, p, n)
    /\ IF s.cable[p] = "standby" THEN Standing(s, p, n) ELSE Serving(s, p, n)

Nowhere(s, n) == \A p \in Port : ~At(s, p, n)

Loose(s, n) == Nowhere(s, n) => (n \in s.asicTunnel => n \in s.alone) /\ n \notin s.table

Named(s, n) == s.tb[n] \in Port => At(s, s.tb[n], n)

NInv(s, n) ==
  Entry(s, n) /\ Counted(s, n) /\ Followed(s, n) /\ Owned(s, n) /\ Loose(s, n) /\ Named(s, n)

\* What holds of every neighbour, port and route.
Frame(s) ==
  /\ \A n \in Nbr : s.fdb[n] # NoPort => Server[n] \in {NoPort, s.fdb[n]}
  /\ \A p \in Port, n \in Nbr : s.cable[p] = "none" => s.nbrs[p][n] = Absent

Good(s) == Typed(s) /\ Frame(s) /\ \A n \in Nbr \ s.excused : NInv(s, n)

\* t is s as far as n goes.
SameAt(s, t, n) ==
  /\ \A p \in Port : t.nbrs[p][n] = s.nbrs[p][n] /\ (At(s, p, n) => t.cable[p] = s.cable[p])
  /\ n \in s.alone /\ (\E p \in Port : s.cable[p] # "none") => \E p \in Port : t.cable[p] # "none"
  /\ t.tb[n] = s.tb[n] /\ t.known[n] = s.known[n] /\ t.nh[n] = s.nh[n] /\ t.ref[n] = s.ref[n]
  /\ t.fdb[n] = s.fdb[n]
  /\ n \in t.alone <=> n \in s.alone
  /\ n \in t.hw <=> n \in s.hw
  /\ n \in t.asicTunnel <=> n \in s.asicTunnel
  /\ n \in t.table <=> n \in s.table
  /\ n \in s.excused => n \in t.excused
  /\ \A r \in Route : /\ t.via[r] = n <=> s.via[r] = n
                      /\ s.via[r] = n => t.asicRoute[r] = s.asicRoute[r]

\* A neighbour that a request does not touch is as right as before.
LEMMA Untouched ==
  ASSUME NEW s, Typed(s), NEW t, Typed(t), NEW n \in Nbr, NInv(s, n), SameAt(s, t, n)
  PROVE  NInv(t, n)
<1>1. \A p \in Port : At(t, p, n) <=> At(s, p, n)
  BY DEF SameAt, At
<1>2. Entry(t, n)
  BY DEF NInv, Entry, SameAt
<1>3. Counted(t, n)
  <2>1. RoutesOf(t, n) = RoutesOf(s, n)
    BY DEF RoutesOf, SameAt
  <2> QED BY <2>1 DEF NInv, Counted, Count, SameAt
<1>4. Followed(t, n)
  <2>1. isMuxExists(t, t.tb[n]) <=> isMuxExists(s, s.tb[n])
    BY DEF NInv, Named, SameAt, isMuxExists
  <2>2. isMuxExists(s, s.tb[n]) => t.cable[t.tb[n]] = s.cable[s.tb[n]]
    BY DEF NInv, Named, SameAt, isMuxExists
  <2>3. t.nh[n] = s.nh[n]
    BY DEF SameAt
  <2>4. \A r \in Route : t.via[r] = n => s.via[r] = n /\ t.asicRoute[r] = s.asicRoute[r]
    BY DEF SameAt
  <2> QED BY <2>1, <2>2, <2>3, <2>4 DEF NInv, Followed
<1>5. Owned(t, n)
  <2> SUFFICES ASSUME NEW p \in Port, At(t, p, n)
               PROVE  /\ t.tb[n] = p /\ t.known[n] = "mac" /\ t.cable[p] # "none" /\ Belongs(t, p, n)
                      /\ IF t.cable[p] = "standby" THEN Standing(t, p, n) ELSE Serving(t, p, n)
    BY DEF Owned
  <2>1. At(s, p, n) /\ t.cable[p] = s.cable[p]
    BY <1>1 DEF SameAt
  <2>2. Standing(s, p, n) => Standing(t, p, n)
    BY DEF SameAt, Standing
  <2>3. Serving(s, p, n) => Serving(t, p, n)
    BY DEF SameAt, Serving
  <2> QED BY <2>1, <2>2, <2>3 DEF NInv, Owned, SameAt, Belongs
<1>6. Loose(t, n)
  BY <1>1 DEF NInv, Loose, Nowhere, SameAt
<1>7. Named(t, n)
  BY <1>1 DEF NInv, Named, SameAt
<1> QED BY <1>2, <1>3, <1>4, <1>5, <1>6, <1>7 DEF NInv

\* Two operations that leave n alone leave it alone together.
LEMMA SameTwice ==
  ASSUME NEW s, NEW t, NEW u, NEW n, SameAt(s, t, n), SameAt(t, u, n)
  PROVE  SameAt(s, u, n)
BY DEF SameAt, At

\* The counts that the handlers pass, and the neighbours that have routes.
LEMMA CountType ==
  ASSUME NEW s, Typed(s)
  PROVE  /\ RouteCount(s) \in [Nbr -> Nat]
         /\ \A n \in Nbr : /\ RouteCount(s)[n] = Count(s, n) /\ Count(s, n) \in Nat
                           /\ Count(s, n) = 0 <=> n \notin Routed(s)
                           /\ n \in Routed(s) <=> \E r \in Route : s.via[r] = n
<1>1. ASSUME NEW n \in Nbr
      PROVE  Count(s, n) \in Nat /\ (Count(s, n) = 0 <=> RoutesOf(s, n) = {})
  <2>1. RoutesOf(s, n) \in SUBSET Route /\ IsFiniteSet(Route)
    BY MuxAssumption DEF RoutesOf
  <2>2. IsFiniteSet(RoutesOf(s, n))
    BY <2>1, FS_Subset
  <2> QED BY <2>2, FS_CardinalityType, FS_EmptySet DEF Count
<1>2. RouteCount(s) = [n \in Nbr |-> Count(s, n)]
  BY DEF RouteCount, Count
<1>3. ASSUME NEW n \in Nbr
      PROVE  n \in Routed(s) <=> RoutesOf(s, n) # {}
  BY DEF Routed
<1>4. ASSUME NEW n \in Nbr
      PROVE  RoutesOf(s, n) # {} <=> \E r \in Route : s.via[r] = n
  BY DEF RoutesOf
<1> QED BY <1>1, <1>2, <1>3, <1>4

(***************************************************************************)
(* The operations of the handlers                                          *)
(***************************************************************************)

\* What HoldLocal, HoldTunnel and Forget do.
LEMMA HoldLocalDoes ==
  ASSUME NEW s, Typed(s), NEW p \in Port, NEW N \in SUBSET Nbr, NEW t, t = HoldLocal(s, p, N)
  PROVE  /\ Typed(t) /\ SameButNbrs(s, t)
         /\ \A q \in Port, n \in Nbr :
              t.nbrs[q][n] = IF q = p /\ n \in N THEN getLocalNextHopId(s, n) ELSE s.nbrs[q][n]
<1>1. PICK f : f = [n \in Nbr |-> IF n \in N THEN getLocalNextHopId(s, n) ELSE s.nbrs[p][n]]
  OBVIOUS
<1>2. \A n \in Nbr : f[n] \in {Absent, Tunnel} \cup 0 .. s.gen[n]
  BY <1>1, LookupType DEF Typed, Ids
<1>3. f \in [Nbr -> Int]
  <2>1. ASSUME NEW n \in Nbr PROVE f[n] \in Int
    BY <1>2, <2>1 DEF Absent, Tunnel
  <2> QED BY <1>1, <2>1
<1>4. t = WithNbrs(s, p, f)
  BY <1>1 DEF HoldLocal, WithNbrs, Typed, State
<1>5. \A n \in Nbr : f[n] = IF n \in N THEN getLocalNextHopId(s, n) ELSE s.nbrs[p][n]
  BY <1>1
<1>6. Fits(s, f)
  BY <1>2, <1>3 DEF Fits
<1>7. /\ Typed(t) /\ SameButNbrs(s, t)
      /\ \A q \in Port, n \in Nbr : t.nbrs[q][n] = IF q = p THEN f[n] ELSE s.nbrs[q][n]
  BY <1>4, <1>6, HoldDoes
<1> QED BY <1>5, <1>7

\* The same for the tunnel's next hop.
LEMMA HoldTunnelDoes ==
  ASSUME NEW s, Typed(s), NEW p \in Port, NEW N \in SUBSET Nbr, NEW t, t = HoldTunnel(s, p, N)
  PROVE  /\ Typed(t) /\ SameButNbrs(s, t)
         /\ \A q \in Port, n \in Nbr :
              t.nbrs[q][n] = IF q = p /\ n \in N THEN Tunnel ELSE s.nbrs[q][n]
<1>1. PICK f : f = [n \in Nbr |-> IF n \in N THEN Tunnel ELSE s.nbrs[p][n]]
  OBVIOUS
<1>2. \A n \in Nbr : f[n] \in {Absent, Tunnel} \cup 0 .. s.gen[n]
  BY <1>1 DEF Typed, Ids
<1>3. f \in [Nbr -> Int]
  <2>1. ASSUME NEW n \in Nbr PROVE f[n] \in Int
    BY <1>2, <2>1 DEF Absent, Tunnel
  <2> QED BY <1>1, <2>1
<1>4. t = WithNbrs(s, p, f)
  BY <1>1 DEF HoldTunnel, WithNbrs, Typed, State
<1>5. \A n \in Nbr : f[n] = IF n \in N THEN Tunnel ELSE s.nbrs[p][n]
  BY <1>1
<1>6. Fits(s, f)
  BY <1>2, <1>3 DEF Fits
<1>7. /\ Typed(t) /\ SameButNbrs(s, t)
      /\ \A q \in Port, n \in Nbr : t.nbrs[q][n] = IF q = p THEN f[n] ELSE s.nbrs[q][n]
  BY <1>4, <1>6, HoldDoes
<1> QED BY <1>5, <1>7

\* And for neighbours that are erased.
LEMMA ForgetDoes ==
  ASSUME NEW s, Typed(s), NEW p \in Port, NEW N \in SUBSET Nbr, NEW t, t = Forget(s, p, N)
  PROVE  /\ Typed(t) /\ SameButNbrs(s, t)
         /\ \A q \in Port, n \in Nbr :
              t.nbrs[q][n] = IF q = p /\ n \in N THEN Absent ELSE s.nbrs[q][n]
<1>1. PICK f : f = [n \in Nbr |-> IF n \in N THEN Absent ELSE s.nbrs[p][n]]
  OBVIOUS
<1>2. \A n \in Nbr : f[n] \in {Absent, Tunnel} \cup 0 .. s.gen[n]
  BY <1>1 DEF Typed, Ids
<1>3. f \in [Nbr -> Int]
  <2>1. ASSUME NEW n \in Nbr PROVE f[n] \in Int
    BY <1>2, <2>1 DEF Absent, Tunnel
  <2> QED BY <1>1, <2>1
<1>4. t = WithNbrs(s, p, f)
  BY <1>1 DEF Forget, WithNbrs, Typed, State
<1>5. \A n \in Nbr : f[n] = IF n \in N THEN Absent ELSE s.nbrs[p][n]
  BY <1>1
<1>6. Fits(s, f)
  BY <1>2, <1>3 DEF Fits
<1>7. /\ Typed(t) /\ SameButNbrs(s, t)
      /\ \A q \in Port, n \in Nbr : t.nbrs[q][n] = IF q = p THEN f[n] ELSE s.nbrs[q][n]
  BY <1>4, <1>6, HoldDoes
<1> QED BY <1>5, <1>7

\* A neighbour whose MAC, subnet and entry point at an active cable, or at
\* none, is programmed.
LEMMA BelongsActive ==
  ASSUME NEW s, Typed(s), NEW p \in Port, NEW n \in Nbr, s.cable[p] = "active",
         Belongs(s, p, n), s.tb[n] \in {p, NoName, NoEntry}
  PROVE  isNeighborActive(s, n)
<1>1. ASSUME NEW x, x \in {p, NoPort, NoName, NoEntry} PROVE isMuxExists(s, x) => s.cable[x] = "active"
  BY <1>1, MuxAssumption DEF isMuxExists
<1>2. Server[n] \in {p, NoPort} /\ s.fdb[n] \in {p, NoPort}
  BY DEF Belongs
<1> QED BY <1>1, <1>2 DEF isNeighborActive

\* What stays when neighbours come to a cable.
Kept(s, t) ==
  /\ t.cable = s.cable /\ t.tb = s.tb /\ t.alone = s.alone /\ t.known = s.known /\ t.fdb = s.fdb
  /\ t.via = s.via /\ t.hwState = s.hwState /\ s.excused \subseteq t.excused

\* n may come to p.
Arriving(s, p, n) ==
  /\ s.known[n] = "mac" /\ n \notin s.alone /\ Belongs(s, p, n)
  /\ s.tb[n] \in {p, NoName, NoEntry} /\ Nowhere(s, n)
  /\ n \in s.hw <=> s.nh[n] # Absent
  /\ s.nh[n] # Null /\ Counted(s, n)
  /\ n \notin s.asicTunnel /\ n \notin s.table

\* n at p, before mux_nexthop_tb_ says so.
Active(t, p, n) ==
  /\ n \in t.hw /\ t.nh[n] # Absent /\ t.nh[n] # Null /\ t.nbrs[p][n] \in {Null, t.nh[n]}
  /\ n \notin t.asicTunnel /\ n \notin t.table /\ t.ref[n] = Count(t, n)
  /\ \A r \in Route : t.via[r] = n => t.asicRoute[r] = t.nh[n]
Standby(t, p, n) ==
  /\ Standing(t, p, n) /\ t.nh[n] = Absent
  /\ \A r \in Route : t.via[r] = n => t.asicRoute[r] = Tunnel

\* Neighbours that come to an active cable are programmed, with their routes.
LEMMA AddActiveDoes ==
  ASSUME NEW s, Typed(s), NEW p \in Port, NEW N \in SUBSET Nbr, s.cable[p] = "active",
         NEW t, t = AddActive(s, p, N)
  PROVE  /\ Typed(t) /\ Kept(s, t)
         /\ \A q \in Port, n \in Nbr : q # p \/ n \notin N => t.nbrs[q][n] = s.nbrs[q][n]
         /\ \A n \in Nbr \ N : SameAt(s, t, n)
         /\ \A n \in N \ t.excused : Arriving(s, p, n) => Active(t, p, n)
<1>1. PICK a : a = HoldLocal(s, p, N)
  OBVIOUS
<1>2. PICK M : M = {n \in N : a.known[n] # "none" /\ n \notin a.hw /\ isNeighborActive(a, n)}
  OBVIOUS
<1>3. PICK b : b = CreateNeighbors(a, M)
  OBVIOUS
<1>4. PICK c : c = updateNextHopRoutes(b, N)
  OBVIOUS
<1>5. PICK d : d = increaseNextHopRefCount(c, N, RouteCount(s))
  OBVIOUS
<1>6. PICK X : X = {n \in N \cap Routed(s) : c.ref[n] > 0 \/ ~hasNextHop(b, n)}
  OBVIOUS
<1>7. t = Excuse(d, X)
  BY <1>1, <1>2, <1>3, <1>4, <1>5, <1>6 DEF AddActive, enableNeighbors
<1>8. M \in SUBSET Nbr /\ X \in SUBSET Nbr
  BY <1>2, <1>6
<1>a. /\ Typed(a) /\ SameButNbrs(s, a)
      /\ \A q \in Port, n \in Nbr :
           a.nbrs[q][n] = IF q = p /\ n \in N THEN getLocalNextHopId(s, n) ELSE s.nbrs[q][n]
  BY <1>1, HoldLocalDoes
<1>b. /\ Typed(b) /\ SameMux(a, b) /\ SameRoute(a, b) /\ SameTunnel(a, b) /\ SameRest(a, b)
      /\ b.known = a.known /\ b.hw = a.hw \cup M
      /\ \A n \in Nbr : /\ b.gen[n] = IF n \in M THEN a.gen[n] + 1 ELSE a.gen[n]
                        /\ b.nh[n] = IF n \in M THEN a.gen[n] + 1 ELSE a.nh[n]
                        /\ b.ref[n] = IF n \in M THEN 0 ELSE a.ref[n]
  BY <1>a, <1>3, <1>8, CreateDoes
<1>c. /\ Typed(c) /\ SameMux(b, c) /\ SameTunnel(b, c) /\ SameRest(b, c)
      /\ c.known = b.known /\ c.hw = b.hw /\ c.ref = b.ref /\ c.gen = b.gen /\ c.via = b.via
      /\ \A n \in Nbr : c.nh[n] = IF n \in N \cap Routed(b) /\ ~hasNextHop(b, n)
                                  THEN Null ELSE b.nh[n]
      /\ \A r \in Route : c.asicRoute[r] = IF b.via[r] \in N
                                           THEN getNextHopId(b, b.via[r]) ELSE b.asicRoute[r]
  BY <1>b, <1>4, RoutesDo
<1>d. /\ Typed(d) /\ SameMux(c, d) /\ SameRoute(c, d) /\ SameTunnel(c, d) /\ SameRest(c, d)
      /\ d.known = c.known /\ d.hw = c.hw /\ d.nh = c.nh /\ d.gen = c.gen
      /\ \A n \in Nbr : d.ref[n] = IF n \in N /\ c.nh[n] # Absent
                                   THEN c.ref[n] + RouteCount(s)[n] ELSE c.ref[n]
  <2>1. RouteCount(s) \in [Nbr -> Nat]
    BY CountType
  <2> QED BY <1>c, <1>5, <2>1, IncreaseDoes
<1>t. /\ Typed(t) /\ SameMux(d, t) /\ SameNeigh(d, t) /\ SameRoute(d, t) /\ SameTunnel(d, t)
      /\ t.fdb = d.fdb /\ t.hwState = d.hwState /\ t.excused = d.excused \cup X
  BY <1>d, <1>7, <1>8, ExcuseDoes
<1>e. Kept(s, t)
  BY <1>a, <1>b, <1>c, <1>d, <1>t
     DEF Kept, SameButNbrs, SameMux, SameNeigh, SameRoute, SameTunnel, SameRest
<1>f. \A q \in Port, n \in Nbr : q # p \/ n \notin N => t.nbrs[q][n] = s.nbrs[q][n]
  BY <1>a, <1>b, <1>c, <1>d, <1>t DEF SameMux
<1>g. ASSUME NEW n \in Nbr \ N PROVE SameAt(s, t, n)
  <2>1. /\ t.nh[n] = s.nh[n] /\ t.ref[n] = s.ref[n] /\ (n \in t.hw <=> n \in s.hw)
        /\ (n \in t.asicTunnel <=> n \in s.asicTunnel) /\ (n \in t.table <=> n \in s.table)
    BY <1>2, <1>a, <1>b, <1>c, <1>d, <1>t DEF SameButNbrs, SameNeigh, SameTunnel
  <2>2. \A r \in Route : s.via[r] = n => t.asicRoute[r] = s.asicRoute[r]
    BY <1>a, <1>b, <1>c, <1>d, <1>t DEF SameButNbrs, SameRoute
  <2> QED BY <1>e, <1>f, <2>1, <2>2 DEF SameAt, Kept
<1>h. ASSUME NEW n \in N, n \notin t.excused, Arriving(s, p, n)
      PROVE  Active(t, p, n)
  <2>n. n \in Nbr
    BY <1>h
  <2>1. isNeighborActive(a, n)
    <3>1. a.cable = s.cable /\ a.fdb = s.fdb /\ a.tb = s.tb
      BY <1>a DEF SameButNbrs, SameRest
    <3>2. Belongs(a, p, n) /\ a.tb[n] \in {p, NoName, NoEntry} /\ a.cable[p] = "active"
      BY <1>h, <3>1 DEF Arriving, Belongs
    <3> QED BY <1>a, <2>n, <3>2, BelongsActive
  <2>2. n \in M <=> n \notin s.hw
    BY <1>2, <1>a, <1>h, <2>1 DEF SameButNbrs, SameNeigh, Arriving
  <2>3. n \in b.hw /\ b.nh[n] # Absent /\ b.nh[n] # Null /\ b.nh[n] \in Int
    <3>1. a.gen[n] \in Nat /\ a.hw = s.hw /\ a.nh = s.nh
      BY <1>a, <2>n DEF Typed, State, SameButNbrs, SameNeigh
    <3>2. b.nh[n] \in Int
      BY <1>b, <2>n DEF Typed, State
    <3>3. CASE n \in M
      BY <1>b, <2>n, <3>1, <3>2, <3>3 DEF Absent, Null
    <3>4. CASE n \notin M
      BY <1>b, <1>h, <2>2, <2>n, <3>1, <3>2, <3>4 DEF Arriving
    <3> QED BY <3>3, <3>4
  <2>4. b.nbrs[p][n] \in {Null, b.nh[n]} /\ b.tb[n] = s.tb[n]
    <3>1. b.nbrs[p][n] = getLocalNextHopId(s, n) /\ b.tb = s.tb
      BY <1>a, <1>b, <2>n DEF SameMux, SameButNbrs
    <3>2. n \notin M => b.nh[n] = s.nh[n]
      BY <1>a, <1>b, <2>n DEF SameButNbrs, SameNeigh
    <3>3. n \in M => s.nh[n] = Absent
      BY <1>h, <2>2 DEF Arriving
    <3> QED BY <3>1, <3>2, <3>3 DEF getLocalNextHopId
  <2>5. getNextHopId(b, n) = b.nh[n] /\ hasNextHop(b, n)
    <3>1. muxNextHopId(b, n) \in {Null, b.nh[n]}
      <4>1. b.tb[n] \in {p, NoName, NoEntry}
        BY <1>h, <2>4 DEF Arriving
      <4>2. b.tb[n] = p \/ ~isMuxExists(b, b.tb[n])
        BY <4>1, MuxAssumption DEF isMuxExists
      <4> QED BY <2>4, <4>2 DEF muxNextHopId
    <3> QED BY <2>3, <3>1 DEF getNextHopId, hasNextHop
  <2>6. c.nh[n] = b.nh[n]
    BY <1>c, <2>5, <2>n
  <2>7. t.nh[n] = b.nh[n] /\ n \in t.hw /\ t.nbrs[p][n] = b.nbrs[p][n]
    BY <1>c, <1>d, <1>t, <2>3, <2>6, <2>n DEF SameNeigh, SameMux
  <2>8. n \notin t.asicTunnel /\ n \notin t.table
    BY <1>a, <1>b, <1>c, <1>d, <1>t, <1>h DEF Arriving, SameButNbrs, SameTunnel
  <2>9. t.via = s.via /\ Count(t, n) = Count(s, n)
    BY <1>e DEF Kept, Count, RoutesOf
  <2>10. t.ref[n] = Count(t, n)
    <3>1. t.ref[n] = b.ref[n] + Count(s, n)
      BY <1>c, <1>d, <1>t, <2>3, <2>6, <2>n, CountType DEF SameNeigh
    <3>2. b.ref[n] = 0 \/ n \notin M
      BY <1>b, <2>n
    <3>3. n \in Routed(s) => ~(b.ref[n] > 0)
      BY <1>c, <1>h, <1>t, <1>6, <2>n
    <3>4. n \notin M => b.ref[n] = Count(s, n)
      BY <1>a, <1>b, <1>h, <2>2, <2>n DEF Arriving, Counted, SameButNbrs, SameNeigh
    <3>5. Count(s, n) \in Nat /\ (Count(s, n) = 0 <=> n \notin Routed(s)) /\ b.ref[n] \in Nat
      BY <1>b, <2>n, CountType DEF Typed, State
    <3>6. b.ref[n] = 0
      BY <3>2, <3>3, <3>4, <3>5
    <3> QED BY <2>9, <3>1, <3>5, <3>6
  <2>11. ASSUME NEW r \in Route, t.via[r] = n PROVE t.asicRoute[r] = t.nh[n]
    <3>1. b.via = s.via
      BY <1>a, <1>b DEF SameButNbrs, SameRoute
    <3>2. c.asicRoute[r] = b.nh[n]
      BY <1>c, <2>11, <2>9, <2>5, <3>1
    <3> QED BY <1>d, <1>t, <2>7, <3>2 DEF SameRoute
  <2> QED BY <2>3, <2>4, <2>7, <2>8, <2>10, <2>11 DEF Active
<1> QED BY <1>t, <1>e, <1>f, <1>g, <1>h

\* Neighbours that come to a standby cable leave the ASIC for the tunnel.
LEMMA AddStandbyDoes ==
  ASSUME NEW s, Typed(s), NEW p \in Port, NEW N \in SUBSET Nbr, s.cable[p] # "none",
         NEW t, t = AddStandby(s, p, N)
  PROVE  /\ Typed(t) /\ Kept(s, t)
         /\ \A q \in Port, n \in Nbr : q # p \/ n \notin N => t.nbrs[q][n] = s.nbrs[q][n]
         /\ \A n \in Nbr \ N : SameAt(s, t, n)
         /\ \A n \in N \ t.excused : Arriving(s, p, n) => Standby(t, p, n)
<1>1. PICK a : a = HoldTunnel(s, p, N)
  OBVIOUS
<1>2. PICK b : b = updateNextHopRoutes(a, N)
  OBVIOUS
<1>3. PICK c : c = decreaseNextHopRefCount(b, N, RouteCount(s))
  OBVIOUS
<1>4. PICK M : M = {n \in N : c.known[n] # "none" /\ n \in c.hw /\ c.ref[n] <= 0}
  OBVIOUS
<1>5. PICK d : d = DestroyNeighbors(c, M)
  OBVIOUS
<1>6. PICK A : A = d.asicTunnel \cup N
  OBVIOUS
<1>7. PICK B : B = d.table \cup N
  OBVIOUS
<1>8. PICK e : e = WithTunnels(d, A, B)
  OBVIOUS
<1>9. PICK X : X = {n \in N \cap Routed(s) : getNextHopId(a, n) # Tunnel}
  OBVIOUS
<1>10. t = Excuse(e, X)
  <2>1. d = disableNeighbors(c, N)
    BY <1>4, <1>5 DEF disableNeighbors
  <2>2. e = AddTunnelRoutes(d, N)
    BY <1>6, <1>7, <1>8 DEF AddTunnelRoutes, WithTunnels
  <2> QED BY <1>1, <1>2, <1>3, <1>9, <2>1, <2>2 DEF AddStandby
<1>a. /\ Typed(a) /\ SameButNbrs(s, a)
      /\ \A q \in Port, n \in Nbr :
           a.nbrs[q][n] = IF q = p /\ n \in N THEN Tunnel ELSE s.nbrs[q][n]
  BY <1>1, HoldTunnelDoes
<1>b. /\ Typed(b) /\ SameMux(a, b) /\ SameTunnel(a, b) /\ SameRest(a, b)
      /\ b.known = a.known /\ b.hw = a.hw /\ b.ref = a.ref /\ b.gen = a.gen /\ b.via = a.via
      /\ \A n \in Nbr : b.nh[n] = IF n \in N \cap Routed(a) /\ ~hasNextHop(a, n)
                                  THEN Null ELSE a.nh[n]
      /\ \A r \in Route : b.asicRoute[r] = IF a.via[r] \in N
                                           THEN getNextHopId(a, a.via[r]) ELSE a.asicRoute[r]
  BY <1>a, <1>2, RoutesDo
<1>c. /\ Typed(c) /\ SameMux(b, c) /\ SameRoute(b, c) /\ SameTunnel(b, c) /\ SameRest(b, c)
      /\ c.known = b.known /\ c.hw = b.hw /\ c.nh = b.nh /\ c.gen = b.gen
      /\ \A n \in Nbr : c.ref[n] = IF n \in N /\ b.nh[n] # Absent
                                   THEN Less(b.ref[n], RouteCount(s)[n]) ELSE b.ref[n]
  <2>1. RouteCount(s) \in [Nbr -> Nat]
    BY CountType
  <2> QED BY <1>b, <1>3, <2>1, DecreaseDoes
<1>d. /\ Typed(d) /\ SameMux(c, d) /\ SameRoute(c, d) /\ SameTunnel(c, d) /\ SameRest(c, d)
      /\ d.known = c.known /\ d.gen = c.gen /\ d.hw = c.hw \ M
      /\ \A n \in Nbr : /\ d.nh[n] = IF n \in M THEN Absent ELSE c.nh[n]
                        /\ d.ref[n] = IF n \in M THEN 0 ELSE c.ref[n]
  <2>1. M \in SUBSET Nbr
    BY <1>4
  <2> QED BY <1>c, <1>5, <2>1, DestroyDoes
<1>e. /\ Typed(e) /\ SameMux(d, e) /\ SameNeigh(d, e) /\ SameRoute(d, e) /\ SameRest(d, e)
      /\ e.asicTunnel = d.asicTunnel \cup N /\ e.table = d.table \cup N
  <2>1. A \in SUBSET Nbr /\ B \in SUBSET Nbr
    BY <1>6, <1>7, <1>d DEF Typed, State
  <2> QED BY <1>d, <1>6, <1>7, <1>8, <2>1, TunnelDoes
<1>t. /\ Typed(t) /\ SameMux(e, t) /\ SameNeigh(e, t) /\ SameRoute(e, t) /\ SameTunnel(e, t)
      /\ t.fdb = e.fdb /\ t.hwState = e.hwState /\ t.excused = e.excused \cup X
  <2>1. X \in SUBSET Nbr
    BY <1>9
  <2> QED BY <1>e, <1>10, <2>1, ExcuseDoes
<1>k. Kept(s, t)
  BY <1>a, <1>b, <1>c, <1>d, <1>e, <1>t
     DEF Kept, SameButNbrs, SameMux, SameNeigh, SameRoute, SameTunnel, SameRest
<1>f. \A q \in Port, n \in Nbr :
        t.nbrs[q][n] = IF q = p /\ n \in N THEN Tunnel ELSE s.nbrs[q][n]
  BY <1>a, <1>b, <1>c, <1>d, <1>e, <1>t DEF SameMux
<1>g. ASSUME NEW n \in Nbr \ N PROVE SameAt(s, t, n)
  <2>1. /\ t.nh[n] = s.nh[n] /\ t.ref[n] = s.ref[n] /\ (n \in t.hw <=> n \in s.hw)
        /\ (n \in t.asicTunnel <=> n \in s.asicTunnel) /\ (n \in t.table <=> n \in s.table)
    BY <1>4, <1>a, <1>b, <1>c, <1>d, <1>e, <1>t DEF SameButNbrs, SameNeigh, SameTunnel
  <2>2. \A r \in Route : s.via[r] = n => t.asicRoute[r] = s.asicRoute[r]
    BY <1>a, <1>b, <1>c, <1>d, <1>e, <1>t DEF SameButNbrs, SameRoute
  <2> QED BY <1>k, <1>f, <2>1, <2>2 DEF SameAt, Kept
<1>h. ASSUME NEW n \in N, n \notin t.excused, Arriving(s, p, n)
      PROVE  Standby(t, p, n)
  <2>n. n \in Nbr
    BY <1>h
  <2>1. n \in t.asicTunnel /\ n \in t.table /\ t.nbrs[p][n] = Tunnel
    BY <1>e, <1>t, <1>f, <2>n DEF SameTunnel
  <2>2. a.via = s.via /\ t.via = s.via /\ a.nh = s.nh /\ a.hw = s.hw /\ a.ref = s.ref
        /\ a.known = s.known
    BY <1>a, <1>k DEF SameButNbrs, SameRoute, SameNeigh, Kept
  <2>3. n \in Routed(s) => getNextHopId(a, n) = Tunnel
    BY <1>9, <1>h, <1>t
  <2>4. ASSUME NEW r \in Route, t.via[r] = n PROVE t.asicRoute[r] = Tunnel
    <3>1. n \in Routed(s)
      BY <2>2, <2>4, <2>n, CountType
    <3>2. b.asicRoute[r] = Tunnel
      BY <1>b, <2>2, <2>3, <2>4, <3>1
    <3> QED BY <1>c, <1>d, <1>e, <1>t, <3>2 DEF SameRoute
  <2>5. b.nh[n] = s.nh[n]
    <3>1. Routed(a) = Routed(s)
      BY <2>2 DEF Routed, RoutesOf
    <3>2. a.nh[n] \in Int
      BY <1>a, <2>n DEF Typed, State
    <3>3. getNextHopId(a, n) = Tunnel => hasNextHop(a, n)
      BY DEF getNextHopId, hasNextHop, Tunnel, Null
    <3> QED BY <1>b, <2>2, <2>3, <2>n, <3>1, <3>3
  <2>6. c.nh[n] = s.nh[n] /\ (n \in c.hw <=> n \in s.hw) /\ c.known[n] = "mac"
    BY <1>b, <1>c, <1>h, <2>2, <2>5 DEF Arriving
  <2>7. n \in c.hw => n \in M
    <3> SUFFICES ASSUME n \in c.hw PROVE c.ref[n] <= 0
      BY <1>4, <2>6
    <3>1. b.nh[n] # Absent /\ b.ref[n] = Count(s, n)
      BY <1>b, <1>h, <2>2, <2>5, <2>6 DEF Arriving, Counted
    <3>2. RouteCount(s)[n] = Count(s, n) /\ Count(s, n) \in Nat
      BY <2>n, CountType
    <3> QED BY <1>c, <2>n, <3>1, <3>2 DEF Less
  <2>8. n \notin d.hw /\ d.nh[n] = Absent
    BY <1>d, <1>h, <2>6, <2>7, <2>n DEF Arriving
  <2> QED BY <1>e, <1>t, <2>1, <2>4, <2>8 DEF Standby, Standing, SameNeigh
<1> QED BY <1>t, <1>k, <1>f, <1>g, <1>h

\* The codes of a next hop are different.
LEMMA Codes == Absent \in Int /\ Tunnel \in Int /\ Null \in Int
               /\ Absent # Null /\ Tunnel # Null /\ Absent # Tunnel
BY DEF Absent, Tunnel, Null

\* The cables and the FDB hold Frame.
LEMMA FrameKept ==
  ASSUME NEW s, NEW t, Frame(s), t.fdb = s.fdb,
         \A p \in Port, n \in Nbr : t.cable[p] = "none" =>
           s.cable[p] = "none" /\ t.nbrs[p][n] \in {Absent, s.nbrs[p][n]}
  PROVE  Frame(t)
BY DEF Frame

\* What a cable has done for a neighbour, in its state.
Settles(t, p, n) == IF t.cable[p] = "standby" THEN Standby(t, p, n) ELSE Active(t, p, n)

\* A neighbour that a cable is done with is right.
LEMMA Settled ==
  ASSUME NEW t, NEW p \in Port, NEW n \in Nbr, Settles(t, p, n), t.cable[p] # "none",
         t.tb[n] = p, t.known[n] = "mac", n \notin t.alone, Belongs(t, p, n),
         \A q \in Port : At(t, q, n) => q = p
  PROVE  NInv(t, n)
<1>1. isMuxExists(t, p)
  BY DEF isMuxExists
<1>2. At(t, p, n)
  <2>1. Active(t, p, n) => At(t, p, n)
    BY Codes DEF Active, At
  <2>2. Standby(t, p, n) => At(t, p, n)
    BY Codes DEF Standby, Standing, At
  <2> QED BY <2>1, <2>2 DEF Settles
<1>3. Entry(t, n)
  <2>1. n \in t.hw <=> t.nh[n] # Absent
    BY DEF Settles, Active, Standby, Standing
  <2>2. t.nh[n] # Null
    BY Codes DEF Settles, Active, Standby
  <2> QED BY <2>1, <2>2 DEF Entry
<1>4. Counted(t, n)
  BY DEF Settles, Active, Standby, Counted
<1>5. Followed(t, n)
  BY <1>1 DEF Settles, Active, Standby, Followed
<1>6. Owned(t, n)
  <2>1. Active(t, p, n) => Serving(t, p, n)
    BY DEF Active, Serving
  <2>2. Standby(t, p, n) => Standing(t, p, n)
    BY DEF Standby
  <2> QED BY <2>1, <2>2 DEF Settles, Owned
<1>7. Loose(t, n) /\ Named(t, n)
  BY <1>2 DEF Loose, Named, Nowhere
<1> QED BY <1>3, <1>4, <1>5, <1>6, <1>7 DEF NInv

\* A neighbour that may come to a cable is right once it is there.
LEMMA CableAdds ==
  ASSUME NEW s, Typed(s), NEW p \in Port, NEW N \in SUBSET Nbr, s.cable[p] # "none",
         NEW t, t = cableUpdateNeighbor(s, p, N, TRUE)
  PROVE  /\ Typed(t) /\ (Frame(s) => Frame(t)) /\ t.cable = s.cable /\ s.excused \subseteq t.excused
         /\ \A n \in Nbr \ N : SameAt(s, t, n)
         /\ \A n \in N \ t.excused : Arriving(s, p, n) => NInv(t, n)
<1>1. PICK new : new = N \ Neighbors(s, p)
  OBVIOUS
<1>2. PICK u : u = handlerUpdate(s, p, N, TRUE)
  OBVIOUS
<1>3. new \in SUBSET Nbr /\ new \subseteq N
  BY <1>1
<1>4. s.cable[p] \in {"active", "standby"}
  BY DEF Typed, State, CableState
<1>5. /\ Typed(u) /\ Kept(s, u)
      /\ \A q \in Port, n \in Nbr : q # p \/ n \notin new => u.nbrs[q][n] = s.nbrs[q][n]
      /\ \A n \in Nbr \ new : SameAt(s, u, n)
      /\ \A n \in new \ u.excused : Arriving(s, p, n) =>
           IF s.cable[p] = "standby" THEN Standby(u, p, n) ELSE Active(u, p, n)
  <2>1. CASE s.cable[p] = "active"
    <3>1. u = AddActive(s, p, new)
      BY <1>1, <1>2, <2>1 DEF handlerUpdate
    <3> QED BY <1>3, <2>1, <3>1, AddActiveDoes
  <2>2. CASE s.cable[p] = "standby"
    <3>1. u = AddStandby(s, p, new)
      BY <1>1, <1>2, <2>2 DEF handlerUpdate
    <3> QED BY <1>3, <2>2, <3>1, AddStandbyDoes
  <2> QED BY <1>4, <2>1, <2>2
<1>6. /\ Typed(t)
      /\ SameNeigh(u, t) /\ SameRoute(u, t) /\ SameTunnel(u, t) /\ SameRest(u, t)
      /\ t.cable = u.cable /\ t.nbrs = u.nbrs /\ t.alone = u.alone
      /\ \A n \in Nbr : t.tb[n] = IF n \notin N THEN u.tb[n] ELSE p
  <2>1. PICK f : f = [n \in Nbr |-> IF n \notin N THEN u.tb[n] ELSE p]
    OBVIOUS
  <2>2. Names(f)
    BY <1>5, <2>1 DEF Typed, State, Names
  <2>3. t = WithNames(u, f)
    BY <1>2, <2>1 DEF cableUpdateNeighbor, WithNames
  <2>4. /\ Typed(t)
        /\ SameNeigh(u, t) /\ SameRoute(u, t) /\ SameTunnel(u, t) /\ SameRest(u, t)
        /\ t.cable = u.cable /\ t.nbrs = u.nbrs /\ t.alone = u.alone /\ t.tb = f
    <3>1. Typed(u)
      BY <1>5
    <3>2. PICK w : w = WithNames(u, f)
      OBVIOUS
    <3>3. /\ Typed(w)
          /\ SameNeigh(u, w) /\ SameRoute(u, w) /\ SameTunnel(u, w) /\ SameRest(u, w)
          /\ w.cable = u.cable /\ w.nbrs = u.nbrs /\ w.alone = u.alone /\ w.tb = f
      BY <2>2, <3>1, <3>2, NameDoes
    <3> QED BY <2>3, <3>2, <3>3
  <2> QED BY <2>1, <2>4
<1>7. t.cable = s.cable /\ s.excused \subseteq t.excused /\ t.excused = u.excused
  BY <1>5, <1>6 DEF Kept, SameRest
<1>8. Frame(s) => Frame(t)
  <2>1. t.fdb = s.fdb
    BY <1>5, <1>6 DEF Kept, SameRest
  <2>2. \A q \in Port, n \in Nbr : t.cable[q] = "none" =>
          s.cable[q] = "none" /\ t.nbrs[q][n] \in {Absent, s.nbrs[q][n]}
    BY <1>5, <1>6, <1>7
  <2> QED BY <2>1, <2>2, FrameKept
<1>9. ASSUME NEW n \in Nbr \ N PROVE SameAt(s, t, n)
  <2>1. SameAt(s, u, n)
    BY <1>3, <1>5
  <2>2. SameAt(u, t, n)
    BY <1>6 DEF SameAt, SameNeigh, SameRoute, SameTunnel, SameRest
  <2> QED BY <2>1, <2>2, SameTwice
<1>10. ASSUME NEW n \in N, n \notin t.excused, Arriving(s, p, n) PROVE NInv(t, n)
  <2>n. n \in Nbr /\ n \in new /\ n \notin u.excused
    BY <1>1, <1>7, <1>10 DEF Arriving, Nowhere, At, Neighbors
  <2>1. IF s.cable[p] = "standby" THEN Standby(u, p, n) ELSE Active(u, p, n)
    BY <1>5, <1>10, <2>n
  <2>2. Settles(t, p, n)
    <3>1. Standby(u, p, n) => Standby(t, p, n)
      BY <1>6 DEF Standby, Standing, SameNeigh, SameRoute, SameTunnel
    <3>2. Active(u, p, n) => Active(t, p, n)
      <4>1. Count(t, n) = Count(u, n)
        BY <1>6 DEF Count, RoutesOf, SameRoute
      <4> QED BY <1>6, <4>1 DEF Active, SameNeigh, SameRoute, SameTunnel
    <3> QED BY <1>7, <2>1, <3>1, <3>2 DEF Settles
  <2>3. /\ t.tb[n] = p /\ t.known[n] = "mac" /\ n \notin t.alone /\ Belongs(t, p, n)
        /\ t.cable[p] # "none"
    <3>1. t.known[n] = "mac" /\ n \notin t.alone /\ Belongs(t, p, n)
      BY <1>5, <1>6, <1>10 DEF Kept, Arriving, Belongs, SameNeigh, SameRest
    <3> QED BY <1>6, <1>7, <1>10, <2>n, <3>1
  <2>4. \A q \in Port : At(t, q, n) => q = p
    <3>1. \A q \in Port \ {p} : t.nbrs[q][n] = s.nbrs[q][n]
      BY <1>5, <1>6, <2>n
    <3>2. \A q \in Port : s.nbrs[q][n] = Absent
      BY <1>10 DEF Arriving, Nowhere, At
    <3> QED BY <3>1, <3>2 DEF At
  <2> QED BY <2>n, <2>2, <2>3, <2>4, Settled
<1> QED BY <1>6, <1>7, <1>8, <1>9, <1>10

\* A neighbour that leaves a cable takes its tunnel routes with it.
Removed(s, t, p, N) ==
  /\ SameNeigh(s, t) /\ SameRoute(s, t) /\ SameRest(s, t)
  /\ t.cable = s.cable /\ t.alone = s.alone
  /\ \A q \in Port, n \in Nbr :
       t.nbrs[q][n] = IF q = p /\ n \in N THEN Absent ELSE s.nbrs[q][n]
  /\ t.asicTunnel = IF s.cable[p] = "standby" THEN s.asicTunnel \ N ELSE s.asicTunnel
  /\ t.table = IF s.cable[p] = "standby" THEN s.table \ N ELSE s.table
  /\ \A n \in Nbr : t.tb[n] = IF n \in N /\ s.tb[n] = p THEN NoEntry ELSE s.tb[n]
  /\ \A n \in Nbr \ N : SameAt(s, t, n)

\* MuxCable::updateNeighbor of neighbours that are deleted.
LEMMA CableRemoves ==
  ASSUME NEW s, Typed(s), NEW p \in Port, NEW N \in SUBSET Nbr,
         NEW t, t = cableUpdateNeighbor(s, p, N, FALSE)
  PROVE  Typed(t) /\ (Frame(s) => Frame(t)) /\ Removed(s, t, p, N)
<1>1. PICK v : v = IF s.cable[p] = "standby" THEN RemoveTunnelRoutes(s, N) ELSE s
  OBVIOUS
<1>2. PICK u : u = Forget(v, p, N)
  OBVIOUS
<1>3. u = handlerUpdate(s, p, N, FALSE)
  BY <1>1, <1>2 DEF handlerUpdate
<1>4. /\ Typed(v) /\ SameMux(s, v) /\ SameNeigh(s, v) /\ SameRoute(s, v) /\ SameRest(s, v)
      /\ v.asicTunnel = IF s.cable[p] = "standby" THEN s.asicTunnel \ N ELSE s.asicTunnel
      /\ v.table = IF s.cable[p] = "standby" THEN s.table \ N ELSE s.table
  <2>1. CASE s.cable[p] = "standby"
    <3>1. PICK A : A = s.asicTunnel \ N
      OBVIOUS
    <3>2. PICK B : B = s.table \ N
      OBVIOUS
    <3>3. v = WithTunnels(s, A, B)
      BY <1>1, <2>1, <3>1, <3>2 DEF RemoveTunnelRoutes, WithTunnels
    <3>4. A \in SUBSET Nbr /\ B \in SUBSET Nbr
      BY <3>1, <3>2 DEF Typed, State
    <3>5. /\ Typed(v) /\ SameMux(s, v) /\ SameNeigh(s, v) /\ SameRoute(s, v) /\ SameRest(s, v)
          /\ v.asicTunnel = A /\ v.table = B
      BY <3>3, <3>4, TunnelDoes
    <3> QED BY <2>1, <3>1, <3>2, <3>5
  <2>2. CASE s.cable[p] # "standby"
    BY <1>1, <2>2 DEF SameMux, SameNeigh, SameRoute, SameRest
  <2> QED BY <2>1, <2>2
<1>5. /\ Typed(u) /\ SameButNbrs(v, u)
      /\ \A q \in Port, n \in Nbr :
           u.nbrs[q][n] = IF q = p /\ n \in N THEN Absent ELSE v.nbrs[q][n]
  BY <1>2, <1>4, ForgetDoes
<1>6. /\ Typed(t)
      /\ SameNeigh(u, t) /\ SameRoute(u, t) /\ SameTunnel(u, t) /\ SameRest(u, t)
      /\ t.cable = u.cable /\ t.nbrs = u.nbrs /\ t.alone = u.alone
      /\ \A n \in Nbr : t.tb[n] = IF n \in N /\ u.tb[n] = p THEN NoEntry ELSE u.tb[n]
  <2>1. PICK f : f = [n \in Nbr |-> IF n \notin N THEN u.tb[n]
                                    ELSE IF u.tb[n] = p THEN NoEntry ELSE u.tb[n]]
    OBVIOUS
  <2>2. Names(f)
    BY <1>5, <2>1 DEF Typed, State, Names
  <2>3. t = WithNames(u, f)
    BY <1>3, <2>1 DEF cableUpdateNeighbor, WithNames
  <2>4. /\ Typed(t)
        /\ SameNeigh(u, t) /\ SameRoute(u, t) /\ SameTunnel(u, t) /\ SameRest(u, t)
        /\ t.cable = u.cable /\ t.nbrs = u.nbrs /\ t.alone = u.alone /\ t.tb = f
    <3>1. Typed(u)
      BY <1>5
    <3>2. PICK w : w = WithNames(u, f)
      OBVIOUS
    <3>3. /\ Typed(w)
          /\ SameNeigh(u, w) /\ SameRoute(u, w) /\ SameTunnel(u, w) /\ SameRest(u, w)
          /\ w.cable = u.cable /\ w.nbrs = u.nbrs /\ w.alone = u.alone /\ w.tb = f
      BY <2>2, <3>1, <3>2, NameDoes
    <3> QED BY <2>3, <3>2, <3>3
  <2> QED BY <2>1, <2>4
<1>7. /\ SameNeigh(s, t) /\ SameRoute(s, t) /\ SameRest(s, t)
      /\ t.cable = s.cable /\ t.alone = s.alone
  BY <1>4, <1>5, <1>6 DEF SameMux, SameButNbrs, SameNeigh, SameRoute, SameRest
<1>8. /\ t.asicTunnel = IF s.cable[p] = "standby" THEN s.asicTunnel \ N ELSE s.asicTunnel
      /\ t.table = IF s.cable[p] = "standby" THEN s.table \ N ELSE s.table
  BY <1>4, <1>5, <1>6 DEF SameButNbrs, SameTunnel
<1>9. /\ \A q \in Port, n \in Nbr :
           t.nbrs[q][n] = IF q = p /\ n \in N THEN Absent ELSE s.nbrs[q][n]
      /\ \A n \in Nbr : t.tb[n] = IF n \in N /\ s.tb[n] = p THEN NoEntry ELSE s.tb[n]
  <2>1. v.nbrs = s.nbrs /\ t.nbrs = u.nbrs /\ u.tb = s.tb
    BY <1>4, <1>5, <1>6 DEF SameMux, SameButNbrs
  <2> QED BY <1>5, <1>6, <2>1
<1>10. Frame(s) => Frame(t)
  <2>1. t.fdb = s.fdb
    BY <1>7 DEF SameRest
  <2>2. \A q \in Port, n \in Nbr : t.cable[q] = "none" =>
          s.cable[q] = "none" /\ t.nbrs[q][n] \in {Absent, s.nbrs[q][n]}
    BY <1>7, <1>9
  <2> QED BY <2>1, <2>2, FrameKept
<1>11. ASSUME NEW n \in Nbr \ N PROVE SameAt(s, t, n)
  <2>1. (n \in t.asicTunnel <=> n \in s.asicTunnel) /\ (n \in t.table <=> n \in s.table)
    BY <1>8
  <2> QED BY <1>7, <1>9, <2>1 DEF SameAt, SameNeigh, SameRoute, SameRest
<1> QED BY <1>6, <1>7, <1>8, <1>9, <1>10, <1>11 DEF Removed

(***************************************************************************)
(* Single assignments                                                      *)
(***************************************************************************)

WithName(s, n, x) == [s EXCEPT !.tb[n] = x]
WithKnown(s, n, x) == [s EXCEPT !.known[n] = x]
WithFdb(s, n, x) == [s EXCEPT !.fdb[n] = x]
WithCable(s, p, x) == [s EXCEPT !.cable[p] = x]
WithHwState(s, p, x) == [s EXCEPT !.hwState[p] = x]

SameButName(s, t) ==
  /\ SameNeigh(s, t) /\ SameRoute(s, t) /\ SameTunnel(s, t) /\ SameRest(s, t)
  /\ t.cable = s.cable /\ t.nbrs = s.nbrs /\ t.alone = s.alone

\* An assignment to mux_nexthop_tb_ touches one neighbour.
LEMMA WithNameDoes ==
  ASSUME NEW s, Typed(s), NEW n \in Nbr, NEW x \in Port \cup {NoName, NoEntry},
         NEW t, t = WithName(s, n, x)
  PROVE  /\ Typed(t) /\ SameButName(s, t) /\ t.tb[n] = x
         /\ \A m \in Nbr \ {n} : t.tb[m] = s.tb[m] /\ SameAt(s, t, m)
<1>1. PICK f : f = [s.tb EXCEPT ![n] = x]
  OBVIOUS
<1>2. s.tb \in [Nbr -> Port \cup {NoName, NoEntry}]
  BY DEF Typed, State
<1>3. Names(f) /\ f[n] = x /\ \A m \in Nbr \ {n} : f[m] = s.tb[m]
  BY <1>1, <1>2 DEF Names
<1>4. t = WithNames(s, f)
  BY <1>1 DEF WithNames, WithName
<1>5. PICK w : w = WithNames(s, f)
  OBVIOUS
<1>6. Typed(w) /\ SameButName(s, w) /\ w.tb = f
  BY <1>3, <1>5, NameDoes DEF SameButName
<1>7. Typed(t) /\ SameButName(s, t) /\ t.tb = f
  BY <1>4, <1>5, <1>6
<1>8. ASSUME NEW m \in Nbr \ {n} PROVE SameAt(s, t, m)
  BY <1>3, <1>7 DEF SameAt, SameButName, SameNeigh, SameRoute, SameTunnel, SameRest
<1> QED BY <1>3, <1>7, <1>8

SameButKnown(s, t) ==
  /\ SameMux(s, t) /\ SameRoute(s, t) /\ SameTunnel(s, t) /\ SameRest(s, t)
  /\ t.hw = s.hw /\ t.nh = s.nh /\ t.ref = s.ref /\ t.gen = s.gen

\* So does one to NeighOrch's entry.
LEMMA WithKnownDoes ==
  ASSUME NEW s, Typed(s), NEW n \in Nbr, NEW x \in {"none", "zero", "mac"},
         NEW t, t = WithKnown(s, n, x)
  PROVE  /\ Typed(t) /\ SameButKnown(s, t) /\ t.known[n] = x
         /\ \A m \in Nbr \ {n} : SameAt(s, t, m)
<1>0. s \in State
  BY DEF Typed
<1>1. PICK f : f = [s.known EXCEPT ![n] = x]
  OBVIOUS
<1>2. f \in [Nbr -> {"none", "zero", "mac"}] /\ f[n] = x /\ \A m \in Nbr \ {n} : f[m] = s.known[m]
  BY <1>0, <1>1 DEF State
<1>3. t = [s EXCEPT !.known = f]
  BY <1>1 DEF WithKnown
<1>4. t \in State
  BY <1>0, <1>2, <1>3 DEF State
<1>5. SameButKnown(s, t) /\ t.known = f
  BY <1>0, <1>3 DEF State, SameButKnown, SameMux, SameRoute, SameTunnel, SameRest
<1>6. Ids(t)
  BY <1>5 DEF Typed, Ids, SameButKnown, SameMux
<1>7. ASSUME NEW m \in Nbr \ {n} PROVE SameAt(s, t, m)
  BY <1>2, <1>5 DEF SameAt, SameButKnown, SameMux, SameRoute, SameTunnel, SameRest
<1> QED BY <1>2, <1>4, <1>5, <1>6, <1>7 DEF Typed

\* And one to the port of a MAC.
LEMMA WithFdbDoes ==
  ASSUME NEW s, Typed(s), NEW n \in Nbr, NEW x \in Port \cup {NoPort},
         NEW t, t = WithFdb(s, n, x)
  PROVE  /\ Typed(t) /\ SameMux(s, t) /\ SameNeigh(s, t) /\ SameRoute(s, t) /\ SameTunnel(s, t)
         /\ t.excused = s.excused /\ t.fdb[n] = x
         /\ \A m \in Nbr \ {n} : t.fdb[m] = s.fdb[m] /\ SameAt(s, t, m)
<1>0. s \in State
  BY DEF Typed
<1>1. PICK f : f = [s.fdb EXCEPT ![n] = x]
  OBVIOUS
<1>2. f \in [Nbr -> Port \cup {NoPort}] /\ f[n] = x /\ \A m \in Nbr \ {n} : f[m] = s.fdb[m]
  BY <1>0, <1>1 DEF State
<1>3. t = [s EXCEPT !.fdb = f]
  BY <1>1 DEF WithFdb
<1>4. t \in State
  BY <1>0, <1>2, <1>3 DEF State
<1>5. /\ SameMux(s, t) /\ SameNeigh(s, t) /\ SameRoute(s, t) /\ SameTunnel(s, t)
      /\ t.excused = s.excused /\ t.fdb = f
  BY <1>0, <1>3 DEF State, SameMux, SameNeigh, SameRoute, SameTunnel
<1>6. Ids(t)
  BY <1>5 DEF Typed, Ids, SameMux, SameNeigh
<1>7. ASSUME NEW m \in Nbr \ {n} PROVE SameAt(s, t, m)
  BY <1>2, <1>5 DEF SameAt, SameMux, SameNeigh, SameRoute, SameTunnel
<1> QED BY <1>2, <1>4, <1>5, <1>6, <1>7 DEF Typed

SameButCable(s, t) ==
  /\ SameNeigh(s, t) /\ SameRoute(s, t) /\ SameTunnel(s, t)
  /\ t.nbrs = s.nbrs /\ t.tb = s.tb /\ t.alone = s.alone /\ t.fdb = s.fdb
  /\ t.excused = s.excused

\* The state of one cable is set.
LEMMA WithCableDoes ==
  ASSUME NEW s, Typed(s), NEW p \in Port, NEW x \in CableState, NEW t, t = WithCable(s, p, x)
  PROVE  /\ Typed(t) /\ SameButCable(s, t) /\ t.hwState = s.hwState /\ t.cable[p] = x
         /\ \A q \in Port \ {p} : t.cable[q] = s.cable[q]
<1>0. s \in State
  BY DEF Typed
<1>1. PICK f : f = [s.cable EXCEPT ![p] = x]
  OBVIOUS
<1>2. f \in [Port -> CableState] /\ f[p] = x /\ \A q \in Port \ {p} : f[q] = s.cable[q]
  BY <1>0, <1>1 DEF State
<1>3. t = [s EXCEPT !.cable = f]
  BY <1>1 DEF WithCable
<1>4. t \in State
  BY <1>0, <1>2, <1>3 DEF State
<1>5. SameButCable(s, t) /\ t.cable = f /\ t.hwState = s.hwState
  BY <1>0, <1>3 DEF State, SameButCable, SameNeigh, SameRoute, SameTunnel
<1>6. Ids(t)
  BY <1>5 DEF Typed, Ids, SameButCable, SameNeigh
<1> QED BY <1>2, <1>4, <1>5, <1>6 DEF Typed

\* HW_MUX_CABLE_TABLE is written.
LEMMA WithHwStateDoes ==
  ASSUME NEW s, Typed(s), NEW p \in Port, NEW x \in CableState, NEW t, t = WithHwState(s, p, x)
  PROVE  Typed(t) /\ SameButCable(s, t) /\ t.cable = s.cable
<1>0. s \in State
  BY DEF Typed
<1>1. PICK f : f = [s.hwState EXCEPT ![p] = x]
  OBVIOUS
<1>2. f \in [Port -> CableState]
  BY <1>0, <1>1 DEF State
<1>3. t = [s EXCEPT !.hwState = f]
  BY <1>1 DEF WithHwState
<1>4. t \in State
  BY <1>0, <1>2, <1>3 DEF State
<1>5. SameButCable(s, t) /\ t.cable = s.cable
  BY <1>0, <1>3 DEF State, SameButCable, SameNeigh, SameRoute, SameTunnel
<1>6. Ids(t)
  BY <1>5 DEF Typed, Ids, SameButCable, SameNeigh
<1> QED BY <1>4, <1>5, <1>6 DEF Typed

\* What Resolve does.
LEMMA ResolveDoes ==
  ASSUME NEW s, Typed(s), NEW N \in SUBSET Nbr, NEW t, t = Resolve(s, N)
  PROVE  /\ Typed(t) /\ SameNeigh(s, t) /\ SameRoute(s, t) /\ SameRest(s, t)
         /\ t.cable = s.cable /\ t.nbrs = s.nbrs /\ t.tb = s.tb /\ t.table = s.table
         /\ t.alone = s.alone \ N /\ t.asicTunnel = s.asicTunnel \ (N \cap s.alone)
         /\ \A m \in Nbr \ N : SameAt(s, t, m)
<1>0. s \in State
  BY DEF Typed
<1>1. PICK A : A = s.alone \ N
  OBVIOUS
<1>2. PICK B : B = s.asicTunnel \ (N \cap s.alone)
  OBVIOUS
<1>3. A \in SUBSET Nbr /\ B \in SUBSET Nbr
  BY <1>0, <1>1, <1>2 DEF State
<1>4. t = [s EXCEPT !.alone = A, !.asicTunnel = B]
  BY <1>1, <1>2 DEF Resolve
<1>5. t \in State
  BY <1>0, <1>3, <1>4 DEF State
<1>6. /\ SameNeigh(s, t) /\ SameRoute(s, t) /\ SameRest(s, t)
      /\ t.cable = s.cable /\ t.nbrs = s.nbrs /\ t.tb = s.tb /\ t.table = s.table
      /\ t.alone = A /\ t.asicTunnel = B
  BY <1>0, <1>4 DEF State, SameNeigh, SameRoute, SameRest
<1>7. Ids(t)
  BY <1>6 DEF Typed, Ids, SameNeigh
<1>8. ASSUME NEW m \in Nbr \ N PROVE SameAt(s, t, m)
  BY <1>1, <1>2, <1>6 DEF SameAt, SameNeigh, SameRoute, SameRest
<1> QED BY <1>1, <1>2, <1>5, <1>6, <1>7, <1>8 DEF Typed

(***************************************************************************)
(* MuxOrch's handlers                                                      *)
(***************************************************************************)

\* What a lookup finds for a neighbour that is right.
LEMMA Found ==
  ASSUME NEW s, Typed(s), NEW n \in Nbr, NInv(s, n)
  PROVE  /\ \A q \in Port : At(s, q, n) => s.tb[n] = q /\ s.known[n] = "mac" /\ hasNextHop(s, n)
         /\ s.known[n] # "mac" => Nowhere(s, n) /\ s.nh[n] = Absent /\ ~hasNextHop(s, n)
         /\ Nowhere(s, n) => s.tb[n] \in {NoName, NoEntry}
         /\ isMuxExists(s, s.tb[n]) => At(s, s.tb[n], n) /\ s.tb[n] \in Port
         /\ hasNextHop(s, n) =>
              getNextHopId(s, n) = IF isMuxExists(s, s.tb[n]) /\ s.cable[s.tb[n]] = "standby"
                                   THEN Tunnel ELSE s.nh[n]
<1>1. s.tb[n] \in Port \cup {NoName, NoEntry} /\ s.nh[n] \in Int
  BY DEF Typed, State
<1>2. isMuxExists(s, s.tb[n]) => At(s, s.tb[n], n) /\ s.tb[n] \in Port
  BY DEF NInv, Named, isMuxExists
<1>3. Nowhere(s, n) => s.tb[n] \in {NoName, NoEntry}
  BY <1>1 DEF NInv, Named, Nowhere
<1>4. ASSUME NEW q \in Port, At(s, q, n)
      PROVE  /\ s.tb[n] = q /\ s.known[n] = "mac" /\ isMuxExists(s, q)
             /\ s.cable[q] = "standby" => muxNextHopId(s, n) = Tunnel
             /\ s.cable[q] # "standby" => /\ muxNextHopId(s, n) \in {Null, s.nh[n]}
                                          /\ s.nh[n] # Absent /\ s.nh[n] # Null
  <2>1. s.tb[n] = q /\ s.known[n] = "mac" /\ isMuxExists(s, q)
    BY <1>4 DEF NInv, Owned, isMuxExists
  <2>2. muxNextHopId(s, n) = s.nbrs[q][n]
    BY <1>4, <2>1 DEF muxNextHopId, At
  <2>3. s.cable[q] = "standby" => s.nbrs[q][n] = Tunnel
    BY <1>4 DEF NInv, Owned, Standing
  <2>4. s.cable[q] # "standby" => s.nbrs[q][n] \in {Null, s.nh[n]} /\ n \in s.hw
    BY <1>4 DEF NInv, Owned, Serving
  <2>5. n \in s.hw => s.nh[n] # Absent /\ s.nh[n] # Null
    BY DEF NInv, Entry
  <2> QED BY <2>1, <2>2, <2>3, <2>4, <2>5
<1>5. ASSUME NEW q \in Port, At(s, q, n)
      PROVE  s.tb[n] = q /\ s.known[n] = "mac" /\ hasNextHop(s, n)
  BY <1>4, <1>5, Codes DEF hasNextHop
<1>6. Nowhere(s, n) => muxNextHopId(s, n) = Null
  BY <1>2 DEF Nowhere, muxNextHopId
<1>7. s.known[n] # "mac" => Nowhere(s, n) /\ s.nh[n] = Absent
  BY <1>5 DEF Nowhere, NInv, Entry
<1>8. s.known[n] # "mac" => ~hasNextHop(s, n)
  BY <1>6, <1>7 DEF hasNextHop
<1>9. hasNextHop(s, n) =>
        getNextHopId(s, n) = IF isMuxExists(s, s.tb[n]) /\ s.cable[s.tb[n]] = "standby"
                             THEN Tunnel ELSE s.nh[n]
  <2>1. CASE Nowhere(s, n)
    <3>1. ~isMuxExists(s, s.tb[n])
      BY <1>2, <2>1 DEF Nowhere
    <3> QED BY <1>6, <2>1, <3>1 DEF hasNextHop, getNextHopId
  <2>2. CASE ~Nowhere(s, n)
    <3>1. PICK q \in Port : At(s, q, n)
      BY <2>2 DEF Nowhere
    <3>2. s.tb[n] = q /\ isMuxExists(s, q)
      BY <1>4, <3>1
    <3>3. CASE s.cable[q] = "standby"
      BY <1>4, <3>1, <3>2, <3>3, Codes DEF getNextHopId
    <3>4. CASE s.cable[q] # "standby"
      BY <1>4, <3>1, <3>2, <3>4, Codes DEF getNextHopId
    <3> QED BY <3>3, <3>4
  <2> QED BY <2>1, <2>2
<1> QED BY <1>2, <1>3, <1>5, <1>7, <1>8, <1>9

\* A neighbour whose MAC moves is right where it is if that is where it moves.
LEMMA MacMoves ==
  ASSUME NEW s, Typed(s), NEW n \in Nbr, NInv(s, n), NEW x \in Port \cup {NoPort},
         \A q \in Port : At(s, q, n) => x \in {NoPort, q},
         NEW t, t = WithFdb(s, n, x)
  PROVE  NInv(t, n)
<1>1. /\ Typed(t) /\ SameMux(s, t) /\ SameNeigh(s, t) /\ SameRoute(s, t) /\ SameTunnel(s, t)
      /\ t.excused = s.excused /\ t.fdb[n] = x
  BY WithFdbDoes
<1>2. Entry(t, n) /\ Counted(t, n) /\ Followed(t, n)
  BY <1>1 DEF NInv, Entry, Counted, Count, RoutesOf, Followed, isMuxExists,
              SameMux, SameNeigh, SameRoute
<1>3. Loose(t, n) /\ Named(t, n)
  BY <1>1 DEF NInv, Loose, Nowhere, Named, At, SameMux, SameTunnel
<1>4. ASSUME NEW p \in Port, At(t, p, n)
      PROVE  /\ t.tb[n] = p /\ t.known[n] = "mac" /\ t.cable[p] # "none" /\ Belongs(t, p, n)
             /\ IF t.cable[p] = "standby" THEN Standing(t, p, n) ELSE Serving(t, p, n)
  <2>1. At(s, p, n)
    BY <1>1, <1>4 DEF At, SameMux
  <2>2. /\ s.tb[n] = p /\ s.known[n] = "mac" /\ s.cable[p] # "none" /\ Belongs(s, p, n)
        /\ IF s.cable[p] = "standby" THEN Standing(s, p, n) ELSE Serving(s, p, n)
    BY <2>1 DEF NInv, Owned
  <2>3. Belongs(t, p, n)
    BY <1>1, <2>1, <2>2 DEF Belongs
  <2>4. /\ Standing(s, p, n) => Standing(t, p, n)
        /\ Serving(s, p, n) => Serving(t, p, n)
    BY <1>1 DEF Standing, Serving, SameMux, SameNeigh, SameTunnel
  <2> QED BY <1>1, <2>2, <2>3, <2>4 DEF SameMux, SameNeigh
<1> QED BY <1>2, <1>3, <1>4 DEF NInv, Owned

\* The invariant once every neighbour that was touched has been dealt with.
LEMMA Together ==
  ASSUME NEW s, Good(s), NEW t, Typed(t), Frame(t), NEW N,
         \A m \in Nbr \ N : SameAt(s, t, m),
         \A n \in N : n \in Nbr \ t.excused => NInv(t, n)
  PROVE  Good(t)
<1>1. ASSUME NEW m \in Nbr \ t.excused PROVE NInv(t, m)
  <2>1. CASE m \in N
    BY <1>1, <2>1
  <2>2. CASE m \notin N
    <3>1. SameAt(s, t, m) /\ m \notin s.excused
      BY <1>1, <2>2 DEF SameAt
    <3> QED BY <3>1, Untouched DEF Good
  <2> QED BY <2>1, <2>2
<1> QED BY <1>1 DEF Good

\* A neighbour that leaves the cable it is at may come to another one.
LEMMA MovePortDoes ==
  ASSUME NEW s, Typed(s), Frame(s), NEW n \in Nbr, NEW p \in Port, s.tb[n] # p,
         NEW t, t = MovePort(s, n, p)
  PROVE  /\ Typed(t) /\ Frame(t) /\ t.cable = s.cable /\ s.excused \subseteq t.excused
         /\ \A m \in Nbr \ {n} : SameAt(s, t, m)
         /\ ~isMuxExists(s, s.tb[n]) => t = s
         /\ isMuxExists(s, s.tb[n]) /\ ~isMuxExists(s, p) => n \in t.excused
         /\ isMuxExists(s, s.tb[n]) =>
              /\ SameNeigh(s, t) /\ SameRoute(s, t) /\ t.fdb = s.fdb /\ t.alone = s.alone
              /\ t.tb[n] = p
              /\ \A q \in Port : t.nbrs[q][n] = IF q = s.tb[n] THEN Absent ELSE s.nbrs[q][n]
              /\ s.cable[s.tb[n]] = "standby" => n \notin t.asicTunnel /\ n \notin t.table
              /\ t.asicTunnel \subseteq s.asicTunnel /\ t.table \subseteq s.table
<1>1. CASE ~isMuxExists(s, s.tb[n])
  BY <1>1 DEF MovePort, SameAt
<1>2. CASE isMuxExists(s, s.tb[n])
  <2>1. PICK old : old = s.tb[n]
    OBVIOUS
  <2>2. old \in Port
    BY <1>2, <2>1 DEF isMuxExists
  <2>3. PICK a : a = WithName(s, n, p)
    OBVIOUS
  <2>4. PICK b : b = cableUpdateNeighbor(a, old, {n}, FALSE)
    OBVIOUS
  <2>5. t = IF ~isMuxExists(s, p) THEN Excuse(b, {n}) ELSE b
    BY <1>2, <2>1, <2>3, <2>4 DEF MovePort, WithName, ExcuseIf
  <2>6. /\ Typed(a) /\ SameButName(s, a) /\ a.tb[n] = p
        /\ \A m \in Nbr \ {n} : SameAt(s, a, m)
    BY <2>3, WithNameDoes
  <2>7. Frame(a)
    BY <2>6 DEF Frame, SameButName, SameRest
  <2>8. /\ Typed(b) /\ (Frame(a) => Frame(b))
        /\ SameNeigh(a, b) /\ SameRoute(a, b) /\ SameRest(a, b)
        /\ b.cable = a.cable /\ b.alone = a.alone
        /\ \A q \in Port, m \in Nbr :
             b.nbrs[q][m] = IF q = old /\ m \in {n} THEN Absent ELSE a.nbrs[q][m]
        /\ b.asicTunnel = IF a.cable[old] = "standby" THEN a.asicTunnel \ {n} ELSE a.asicTunnel
        /\ b.table = IF a.cable[old] = "standby" THEN a.table \ {n} ELSE a.table
        /\ \A m \in Nbr : b.tb[m] = IF m \in {n} /\ a.tb[m] = old THEN NoEntry ELSE a.tb[m]
        /\ \A m \in Nbr \ {n} : SameAt(a, b, m)
    <3>1. PICK N : N = {n}
      OBVIOUS
    <3>2. N \in SUBSET Nbr /\ Typed(a) /\ b = cableUpdateNeighbor(a, old, N, FALSE)
      BY <2>4, <2>6, <3>1
    <3>3. Typed(b) /\ (Frame(a) => Frame(b)) /\ Removed(a, b, old, N)
      BY <2>2, <3>2, CableRemoves
    <3> QED BY <3>1, <3>3 DEF Removed
  <2>9. \A m \in Nbr \ {n} : SameAt(s, b, m)
    BY <2>6, <2>8, SameTwice
  <2>10. /\ Frame(b) /\ SameNeigh(s, b) /\ SameRoute(s, b) /\ SameRest(s, b)
         /\ b.cable = s.cable /\ b.alone = s.alone /\ b.tb[n] = p
         /\ \A q \in Port : b.nbrs[q][n] = IF q = old THEN Absent ELSE s.nbrs[q][n]
    <3>1. b.tb[n] = p
      BY <2>1, <2>6, <2>8
    <3>2. \A q \in Port : b.nbrs[q][n] = IF q = old THEN Absent ELSE s.nbrs[q][n]
      BY <2>6, <2>8 DEF SameButName
    <3> QED BY <2>6, <2>7, <2>8, <3>1, <3>2 DEF SameButName, SameNeigh, SameRoute, SameRest
  <2>11. /\ s.cable[old] = "standby" => n \notin b.asicTunnel /\ n \notin b.table
         /\ b.asicTunnel \subseteq s.asicTunnel /\ b.table \subseteq s.table
    BY <2>6, <2>8 DEF SameButName, SameTunnel
  <2>12. CASE isMuxExists(s, p)
    <3>1. t = b
      BY <2>5, <2>12
    <3> QED BY <1>2, <2>1, <2>8, <2>9, <2>10, <2>11, <2>12, <3>1 DEF SameRest
  <2>13. CASE ~isMuxExists(s, p)
    <3>1. t = Excuse(b, {n})
      BY <2>5, <2>13
    <3>2. PICK w : w = Excuse(b, {n})
      OBVIOUS
    <3>3. /\ Typed(w) /\ SameMux(b, w) /\ SameNeigh(b, w) /\ SameRoute(b, w) /\ SameTunnel(b, w)
          /\ w.fdb = b.fdb /\ w.hwState = b.hwState /\ w.excused = b.excused \cup {n}
      <4>1. {n} \in SUBSET Nbr /\ Typed(b)
        BY <2>8
      <4> QED BY <3>2, <4>1, ExcuseDoes
    <3>4. t = w
      BY <3>1, <3>2
    <3>5. \A m \in Nbr \ {n} : SameAt(b, w, m)
      BY <3>3 DEF SameAt, SameMux, SameNeigh, SameRoute, SameTunnel
    <3>6. \A m \in Nbr \ {n} : SameAt(s, w, m)
      BY <2>9, <3>5, SameTwice
    <3>7. Frame(w)
      BY <2>10, <3>3 DEF Frame, SameMux
    <3>8. /\ SameNeigh(s, w) /\ SameRoute(s, w) /\ w.fdb = s.fdb /\ w.alone = s.alone
          /\ w.cable = s.cable /\ w.tb[n] = p /\ w.nbrs = b.nbrs
          /\ w.asicTunnel = b.asicTunnel /\ w.table = b.table
          /\ s.excused \subseteq w.excused /\ n \in w.excused
      BY <2>10, <3>3 DEF SameMux, SameNeigh, SameRoute, SameTunnel, SameRest
    <3> QED BY <1>2, <2>1, <2>10, <2>11, <2>13, <3>3, <3>4, <3>6, <3>7, <3>8
  <2> QED BY <2>12, <2>13
<1> QED BY <1>1, <1>2

Learnt(z, s, n, p) == s = WithFdb(z, n, p)

\* A MAC that is learnt: the neighbour goes to the cable of the port, if any.
LEMMA UpdateFdbGood ==
  ASSUME NEW z, Good(z), NEW n \in Nbr, NEW p \in Port, Server[n] \in {NoPort, p},
         NEW s, Learnt(z, s, n, p), NEW t, t = updateFdb(s, n, p)
  PROVE  Good(t)
<1>1. /\ Typed(s) /\ SameMux(z, s) /\ SameNeigh(z, s) /\ SameRoute(z, s) /\ SameTunnel(z, s)
      /\ s.excused = z.excused /\ s.fdb[n] = p
      /\ \A m \in Nbr \ {n} : s.fdb[m] = z.fdb[m] /\ SameAt(z, s, m)
  <2>1. Typed(z) /\ p \in Port \cup {NoPort}
    BY DEF Good
  <2> QED BY <2>1, WithFdbDoes DEF Learnt
<1>2. Frame(s)
  <2>1. ASSUME NEW m \in Nbr, s.fdb[m] # NoPort PROVE Server[m] \in {NoPort, s.fdb[m]}
    <3>1. CASE m = n
      BY <1>1, <3>1
    <3>2. CASE m # n
      BY <1>1, <2>1, <3>2 DEF Good, Frame
    <3> QED BY <3>1, <3>2
  <2> QED BY <1>1, <2>1 DEF Good, Frame, SameMux
<1>3. /\ s.tb = z.tb /\ s.known = z.known /\ s.nh = z.nh /\ s.nbrs = z.nbrs /\ s.cable = z.cable
      /\ s.alone = z.alone /\ s.hw = z.hw /\ s.ref = z.ref /\ s.via = z.via
      /\ s.asicTunnel = z.asicTunnel /\ s.table = z.table
  BY <1>1 DEF SameMux, SameNeigh, SameRoute, SameTunnel
<1>4. /\ hasNextHop(s, n) <=> hasNextHop(z, n)
      /\ \A q : isMuxExists(s, q) <=> isMuxExists(z, q)
      /\ \A q \in Port : At(s, q, n) <=> At(z, q, n)
      /\ Nowhere(s, n) <=> Nowhere(z, n)
      /\ Count(s, n) = Count(z, n)
  BY <1>3 DEF hasNextHop, muxNextHopId, isMuxExists, At, Nowhere, Count, RoutesOf
<1>5. ASSUME n \notin z.excused
      PROVE  /\ NInv(z, n)
             /\ \A q \in Port : At(z, q, n) => z.tb[n] = q /\ z.known[n] = "mac" /\ hasNextHop(z, n)
             /\ z.known[n] # "mac" => Nowhere(z, n) /\ z.nh[n] = Absent /\ ~hasNextHop(z, n)
             /\ Nowhere(z, n) => z.tb[n] \in {NoName, NoEntry}
             /\ isMuxExists(z, z.tb[n]) => At(z, z.tb[n], n) /\ z.tb[n] \in Port
  BY <1>5, Found DEF Good
<1>6. ASSUME n \notin z.excused, \A q \in Port : At(z, q, n) => q = p
      PROVE  NInv(s, n)
  <2>1. Typed(z) /\ NInv(z, n) /\ p \in Port \cup {NoPort}
    BY <1>5, <1>6 DEF Good
  <2> QED BY <1>6, <2>1, MacMoves DEF Learnt
<1>7. ASSUME NEW u, Typed(u), u.cable = s.cable, isMuxExists(s, p), Frame(u),
             \A m \in Nbr \ {n} : SameAt(z, u, m), z.excused \subseteq u.excused,
             n \notin u.excused => Arriving(u, p, n),
             t = cableUpdateNeighbor(u, p, {n}, TRUE)
      PROVE  Good(t)
  <2>1. {n} \in SUBSET Nbr /\ u.cable[p] # "none"
    BY <1>7 DEF isMuxExists
  <2>2. PICK w : w = cableUpdateNeighbor(u, p, {n}, TRUE)
    OBVIOUS
  <2>3. /\ Typed(w) /\ (Frame(u) => Frame(w)) /\ u.excused \subseteq w.excused
        /\ \A m \in Nbr \ {n} : SameAt(u, w, m)
        /\ \A m \in {n} \ w.excused : Arriving(u, p, m) => NInv(w, m)
    <3>1. PICK N : N = {n}
      OBVIOUS
    <3>2. N \in SUBSET Nbr /\ w = cableUpdateNeighbor(u, p, N, TRUE)
      BY <2>2, <3>1
    <3>3. /\ Typed(w) /\ (Frame(u) => Frame(w)) /\ u.excused \subseteq w.excused
          /\ \A m \in Nbr \ N : SameAt(u, w, m)
          /\ \A m \in N \ w.excused : Arriving(u, p, m) => NInv(w, m)
      <4>1. Typed(u)
        BY <1>7
      <4> QED BY <2>1, <3>2, <4>1, CableAdds
    <3> QED BY <3>1, <3>3
  <2>4. \A m \in Nbr \ {n} : SameAt(z, w, m)
    BY <1>7, <2>3, SameTwice
  <2>5. \A m \in {n} : m \in Nbr \ w.excused => NInv(w, m)
    BY <1>7, <2>3
  <2>6. Good(w)
    BY <1>7, <2>3, <2>4, <2>5, Together
  <2> QED BY <1>7, <2>2, <2>6
<1>8. ASSUME t = s, n \notin z.excused => \A q \in Port : At(z, q, n) => q = p
      PROVE  Good(t)
  <2>1. \A m \in {n} : m \in Nbr \ s.excused => NInv(s, m)
    BY <1>1, <1>6, <1>8
  <2>2. \A m \in Nbr \ {n} : SameAt(z, s, m)
    BY <1>1
  <2>3. Good(s)
    BY <1>1, <1>2, <2>1, <2>2, Together
  <2> QED BY <1>8, <2>3
<1>9. CASE ~(s.tb[n] # NoEntry /\ hasNextHop(s, n) /\ s.known[n] # "none")
  <2>1. n \notin z.excused => Nowhere(z, n)
    <3>1. \A q \in Port : NoEntry # q
      BY MuxAssumption
    <3> QED BY <1>3, <1>4, <1>5, <1>9, <3>1 DEF Nowhere
  <2>2. CASE isMuxExists(s, p) /\ s.known[n] = "mac"
    <3>1. PICK u : u = WithName(s, n, p)
      OBVIOUS
    <3>2. t = cableUpdateNeighbor(u, p, {n}, TRUE)
      BY <1>9, <2>2, <3>1 DEF updateFdb, WithName
    <3>3. /\ Typed(u) /\ SameButName(s, u) /\ u.tb[n] = p
          /\ \A m \in Nbr \ {n} : SameAt(s, u, m)
      BY <1>1, <3>1, WithNameDoes
    <3>4. Frame(u)
      BY <1>2, <3>3 DEF Frame, SameButName, SameRest
    <3>5. \A m \in Nbr \ {n} : SameAt(z, u, m)
      BY <1>1, <3>3, SameTwice
    <3>6. u.cable = s.cable /\ u.excused = z.excused
      BY <1>1, <3>3 DEF SameButName, SameRest
    <3>7. ASSUME n \notin u.excused PROVE Arriving(u, p, n)
      <4>1. NInv(z, n) /\ Nowhere(z, n)
        BY <1>5, <2>1, <3>6, <3>7
      <4>2. Nowhere(u, n) /\ Count(u, n) = Count(z, n) /\ Belongs(u, p, n)
        BY <1>1, <1>3, <3>3, <4>1
           DEF SameButName, SameRoute, SameRest, Nowhere, At, Count, RoutesOf, Belongs
      <4>3. n \notin z.alone /\ n \notin z.asicTunnel /\ n \notin z.table
        BY <1>3, <2>2, <4>1 DEF NInv, Entry, Loose
      <4>4. /\ u.known[n] = "mac" /\ u.hw = z.hw /\ u.nh = z.nh /\ u.ref = z.ref
            /\ u.alone = z.alone /\ u.asicTunnel = z.asicTunnel /\ u.table = z.table
        BY <1>3, <2>2, <3>3 DEF SameButName, SameNeigh, SameTunnel
      <4> QED BY <3>3, <4>1, <4>2, <4>3, <4>4 DEF Arriving, NInv, Entry, Counted
    <3>8. Frame(u) /\ Typed(u) /\ isMuxExists(s, p) /\ z.excused \subseteq u.excused
      BY <2>2, <3>3, <3>4, <3>6
    <3> QED BY <1>7, <3>2, <3>5, <3>6, <3>7, <3>8
  <2>3. CASE ~(isMuxExists(s, p) /\ s.known[n] = "mac")
    <3>1. t = s
      BY <1>9, <2>3 DEF updateFdb
    <3> QED BY <1>8, <2>1, <3>1 DEF Nowhere
  <2> QED BY <2>2, <2>3
<1>10. CASE /\ s.tb[n] # NoEntry /\ hasNextHop(s, n) /\ s.known[n] # "none"
            /\ s.tb[n] = p \/ (isMuxExists(s, s.tb[n]) /\ Server[n] = s.tb[n])
  <2>1. t = s
    BY <1>10 DEF updateFdb
  <2>2. n \notin z.excused => \A q \in Port : At(z, q, n) => q = p
    <3>1. \A q \in Port : q # NoPort
      BY MuxAssumption
    <3> QED BY <1>3, <1>5, <1>10, <3>1
  <2> QED BY <1>8, <2>1, <2>2
<1>11. CASE /\ s.tb[n] # NoEntry /\ hasNextHop(s, n) /\ s.known[n] # "none"
            /\ ~(s.tb[n] = p \/ (isMuxExists(s, s.tb[n]) /\ Server[n] = s.tb[n]))
  <2>1. PICK u : u = MovePort(s, n, p)
    OBVIOUS
  <2>2. /\ Typed(u) /\ Frame(u) /\ u.cable = s.cable /\ s.excused \subseteq u.excused
        /\ \A m \in Nbr \ {n} : SameAt(s, u, m)
        /\ ~isMuxExists(s, s.tb[n]) => u = s
        /\ isMuxExists(s, s.tb[n]) /\ ~isMuxExists(s, p) => n \in u.excused
        /\ isMuxExists(s, s.tb[n]) =>
             /\ SameNeigh(s, u) /\ SameRoute(s, u) /\ u.fdb = s.fdb /\ u.alone = s.alone
             /\ u.tb[n] = p
             /\ \A q \in Port : u.nbrs[q][n] = IF q = s.tb[n] THEN Absent ELSE s.nbrs[q][n]
             /\ s.cable[s.tb[n]] = "standby" => n \notin u.asicTunnel /\ n \notin u.table
             /\ u.asicTunnel \subseteq s.asicTunnel /\ u.table \subseteq s.table
    <3>1. s.tb[n] # p
      BY <1>11
    <3> QED BY <1>1, <1>2, <2>1, <3>1, MovePortDoes
  <2>3. \A m \in Nbr \ {n} : SameAt(z, u, m)
    BY <1>1, <2>2, SameTwice
  <2>4. z.excused \subseteq u.excused
    BY <1>1, <2>2
  <2>5. CASE isMuxExists(s, p)
    <3>1. t = cableUpdateNeighbor(u, p, {n}, TRUE)
      BY <1>11, <2>1, <2>5 DEF updateFdb
    <3>2. ASSUME n \notin u.excused PROVE Arriving(u, p, n)
      <4>1. NInv(z, n) /\ z.known[n] = "mac" /\ n \notin z.alone
        <5>1. n \notin z.excused
          BY <2>4, <3>2
        <5>2. NInv(z, n) /\ z.known[n] = "mac"
          BY <1>4, <1>5, <1>11, <5>1
        <5> QED BY <5>2 DEF NInv, Entry
      <4>2. CASE ~isMuxExists(s, s.tb[n])
        <5>1. u = s /\ Nowhere(z, n)
          <6>1. ASSUME NEW q \in Port, At(z, q, n) PROVE FALSE
            BY <1>3, <1>4, <4>1, <4>2, <6>1 DEF NInv, Owned, isMuxExists
          <6> QED BY <2>2, <4>2, <6>1 DEF Nowhere
        <5>2. n \notin z.asicTunnel /\ n \notin z.table /\ z.tb[n] \in {NoName, NoEntry}
          BY <1>5, <2>4, <3>2, <4>1, <5>1 DEF NInv, Loose
        <5>3. Belongs(s, p, n)
          BY <1>1 DEF Belongs
        <5>4. Arriving(s, p, n)
          BY <1>3, <1>4, <4>1, <5>1, <5>2, <5>3 DEF Arriving, NInv, Entry, Counted
        <5> QED BY <5>1, <5>4
      <4>3. CASE isMuxExists(s, s.tb[n])
        <5>1. At(z, z.tb[n], n) /\ z.tb[n] \in Port
          BY <1>3, <1>4, <1>5, <2>4, <3>2, <4>3
        <5>2. IF z.cable[z.tb[n]] = "standby" THEN Standing(z, z.tb[n], n) ELSE Serving(z, z.tb[n], n)
          BY <4>1, <5>1 DEF NInv, Owned
        <5>3. n \notin u.asicTunnel /\ n \notin u.table
          BY <1>3, <2>2, <4>3, <5>2 DEF Serving
        <5>4. Nowhere(u, n)
          <6> SUFFICES ASSUME NEW q \in Port PROVE u.nbrs[q][n] = Absent
            BY DEF Nowhere, At
          <6>1. q # z.tb[n] => z.nbrs[q][n] = Absent
            BY <4>1 DEF NInv, Owned, At
          <6> QED BY <1>3, <2>2, <4>3, <6>1
        <5>5. /\ u.known[n] = "mac" /\ u.hw = z.hw /\ u.nh = z.nh /\ u.ref = z.ref
              /\ u.alone = z.alone /\ u.fdb[n] = p /\ u.tb[n] = p /\ u.via = z.via
          BY <1>1, <1>3, <2>2, <4>1, <4>3 DEF SameNeigh, SameRoute
        <5>6. Count(u, n) = Count(z, n)
          BY <5>5 DEF Count, RoutesOf
        <5>7. Belongs(u, p, n)
          BY <5>5 DEF Belongs
        <5> QED BY <4>1, <5>3, <5>4, <5>5, <5>6, <5>7 DEF Arriving, NInv, Entry, Counted
      <4> QED BY <4>2, <4>3
    <3> QED BY <1>7, <2>2, <2>3, <2>4, <2>5, <3>1, <3>2
  <2>6. CASE ~isMuxExists(s, p)
    <3>1. t = u
      BY <1>11, <2>1, <2>6 DEF updateFdb
    <3>2. CASE isMuxExists(s, s.tb[n])
      <4>1. n \in u.excused
        BY <2>2, <2>6, <3>2
      <4>2. Good(u)
        BY <2>2, <2>3, <4>1, Together
      <4> QED BY <3>1, <4>2
    <3>3. CASE ~isMuxExists(s, s.tb[n])
      <4>1. t = s
        BY <2>2, <3>1, <3>3
      <4>2. ASSUME n \notin z.excused, NEW q \in Port, At(z, q, n) PROVE FALSE
        <5>1. NInv(z, n)
          BY <1>5, <4>2
        <5> QED BY <1>3, <1>4, <3>3, <4>2, <5>1 DEF NInv, Owned, isMuxExists
      <4> QED BY <1>8, <4>1, <4>2
    <3> QED BY <3>2, <3>3
  <2> QED BY <2>5, <2>6
<1> QED BY <1>9, <1>10, <1>11

\* What MuxOrch must find to let n go, and what it leaves.
Leavable(s, n) ==
  /\ \A q \in Port : At(s, q, n) =>
       /\ s.tb[n] = q /\ s.cable[q] # "none" /\ Server[n] \in {NoPort, q}
       /\ s.cable[q] # "standby" => n \notin s.asicTunnel /\ n \notin s.table
  /\ Loose(s, n) /\ Named(s, n)
  /\ n \in s.alone => Nowhere(s, n) /\ \E p \in Port : s.cable[p] # "none"

Gone(s, n) ==
  /\ Nowhere(s, n) /\ n \notin s.alone /\ n \notin s.asicTunnel /\ n \notin s.table
  /\ s.tb[n] \in {NoName, NoEntry}

\* A neighbour that is gone may be deleted once more.
LEMMA GoneLeavable ==
  ASSUME NEW s, NEW n \in Nbr, Gone(s, n)
  PROVE  Leavable(s, n)
BY MuxAssumption DEF Gone, Leavable, Nowhere, Loose, Named

\* One that is right may be deleted.
LEMMA NInvLeavable ==
  ASSUME NEW s, NEW n \in Nbr, NInv(s, n)
  PROVE  Leavable(s, n)
<1>1. ASSUME NEW q \in Port, At(s, q, n)
      PROVE  /\ s.tb[n] = q /\ s.cable[q] # "none" /\ Server[n] \in {NoPort, q}
             /\ s.cable[q] # "standby" => n \notin s.asicTunnel /\ n \notin s.table
             /\ s.known[n] = "mac"
  BY <1>1 DEF NInv, Owned, Belongs, Serving
<1>2. n \in s.alone => Nowhere(s, n) /\ \E p \in Port : s.cable[p] # "none"
  BY <1>1 DEF NInv, Entry, Nowhere
<1> QED BY <1>1, <1>2 DEF NInv, Leavable

\* What a deletion leaves alone.
SameButMux(s, t) ==
  SameNeigh(s, t) /\ SameRoute(s, t) /\ SameRest(s, t) /\ t.cable = s.cable

\* The neighbour leaves the cable x, which is the one it is at if it is at one.
LEMMA LeavesCable ==
  ASSUME NEW s, Typed(s), Frame(s), NEW n \in Nbr, NEW x \in Port, n \notin s.alone,
         \A q \in Port : At(s, q, n) => q = x,
         s.tb[n] \in {x, NoName, NoEntry},
         At(s, x, n) => s.cable[x] = "standby" \/ (n \notin s.asicTunnel /\ n \notin s.table),
         Nowhere(s, n) => n \notin s.asicTunnel /\ n \notin s.table,
         NEW t, t = cableUpdateNeighbor(s, x, {n}, FALSE)
  PROVE  /\ Typed(t) /\ Frame(t) /\ SameButMux(s, t) /\ Gone(t, n)
         /\ \A m \in Nbr \ {n} : SameAt(s, t, m)
<1>1. PICK N : N = {n}
  OBVIOUS
<1>2. N \in SUBSET Nbr
  BY <1>1
<1>3. PICK w : w = cableUpdateNeighbor(s, x, N, FALSE)
  OBVIOUS
<1>4. Typed(w) /\ (Frame(s) => Frame(w)) /\ Removed(s, w, x, N)
  BY <1>2, <1>3, CableRemoves
<1>5. t = w
  BY <1>1, <1>3
<1>6. SameButMux(s, w) /\ (\A m \in Nbr \ {n} : SameAt(s, w, m)) /\ w.alone = s.alone
  BY <1>1, <1>4 DEF Removed, SameButMux
<1>7. Nowhere(w, n)
  BY <1>1, <1>4 DEF Removed, Nowhere, At
<1>8. w.tb[n] \in {NoName, NoEntry}
  BY <1>1, <1>4 DEF Removed
<1>9. n \notin w.asicTunnel /\ n \notin w.table
  <2>1. CASE s.cable[x] = "standby"
    BY <1>1, <1>4, <2>1 DEF Removed
  <2>2. CASE s.cable[x] # "standby"
    <3>1. n \notin s.asicTunnel /\ n \notin s.table
      BY <2>2 DEF Nowhere
    <3> QED BY <1>4, <2>2, <3>1 DEF Removed
  <2> QED BY <2>1, <2>2
<1> QED BY <1>4, <1>5, <1>6, <1>7, <1>8, <1>9 DEF Gone

\* MuxOrch::updateNeighbor of a neighbour that is deleted.
LEMMA UpdateNeighborDeletes ==
  ASSUME NEW s, Typed(s), Frame(s), NEW n \in Nbr,
         NEW t, t = updateNeighbor(s, n, "zero", FALSE)
  PROVE  /\ Typed(t) /\ Frame(t) /\ SameButMux(s, t)
         /\ \A m \in Nbr \ {n} : SameAt(s, t, m)
         /\ Leavable(s, n) => Gone(t, n)
<1>1. s.tb[n] \in Port \cup {NoName, NoEntry} /\ Server[n] \in Port \cup {NoPort}
  BY MuxAssumption DEF Typed, State
<1>2. CASE \A p \in Port : ~isMuxExists(s, p)
  <2>1. t = s
    BY <1>2 DEF updateNeighbor
  <2>2. \A p \in Port : s.cable[p] = "none" /\ s.nbrs[p][n] = Absent
    BY <1>2 DEF isMuxExists, Frame
  <2>3. Leavable(s, n) => Gone(s, n)
    BY <1>1, <2>2 DEF Leavable, Gone, Nowhere, At, Loose, Named
  <2> QED BY <2>1, <2>3 DEF SameButMux, SameNeigh, SameRoute, SameRest, SameAt
<1>3. CASE ~(\A p \in Port : ~isMuxExists(s, p))
  <2>1. PICK N : N = {n}
    OBVIOUS
  <2>2. PICK r : r = Resolve(s, N)
    OBVIOUS
  <2>3. /\ Typed(r) /\ SameNeigh(s, r) /\ SameRoute(s, r) /\ SameRest(s, r)
        /\ r.cable = s.cable /\ r.nbrs = s.nbrs /\ r.tb = s.tb /\ r.table = s.table
        /\ r.alone = s.alone \ N /\ r.asicTunnel = s.asicTunnel \ (N \cap s.alone)
        /\ \A m \in Nbr \ N : SameAt(s, r, m)
    <3>1. N \in SUBSET Nbr
      BY <2>1
    <3> QED BY <2>2, <3>1, ResolveDoes
  <2>4. Frame(r)
    BY <2>3 DEF Frame, SameRest
  <2>5. n \notin r.alone /\ (Loose(s, n) /\ Nowhere(s, n) => n \notin r.asicTunnel /\ n \notin r.table)
    BY <2>1, <2>3 DEF Loose
  <2>6. CASE n \in s.alone
    <3>1. t = r
      BY <1>3, <2>1, <2>2, <2>6 DEF updateNeighbor
    <3>2. Leavable(s, n) => Gone(r, n)
      BY <1>1, <2>3, <2>5, <2>6 DEF Leavable, Gone, Nowhere, At, Named
    <3> QED BY <2>1, <2>3, <2>4, <3>1, <3>2 DEF SameButMux
  <2>7. CASE n \notin s.alone
    <3>1. r.asicTunnel = s.asicTunnel
      BY <2>1, <2>3, <2>7
    <3>2. SameButMux(s, r)
      BY <2>3 DEF SameButMux
    <3>3. t = IF isMuxExists(s, Server[n]) THEN cableUpdateNeighbor(r, Server[n], {n}, FALSE)
              ELSE updatePortNeighbor(r, n, FALSE)
      BY <1>3, <2>1, <2>2, <2>7 DEF updateNeighbor
    <3>4. ASSUME NEW u, Typed(u), Frame(u), SameButMux(s, u), \A m \in Nbr \ {n} : SameAt(s, u, m),
                 u.alone = r.alone, u.nbrs = s.nbrs, u.asicTunnel = s.asicTunnel, u.table = s.table,
                 NEW x \in Port, t = cableUpdateNeighbor(u, x, {n}, FALSE),
                 Leavable(s, n) => /\ \A q \in Port : At(s, q, n) => q = x
                                   /\ u.tb[n] \in {x, NoName, NoEntry}
          PROVE  /\ Typed(t) /\ Frame(t) /\ SameButMux(s, t)
                 /\ \A m \in Nbr \ {n} : SameAt(s, t, m)
                 /\ Leavable(s, n) => Gone(t, n)
      <4>1. PICK w : w = cableUpdateNeighbor(u, x, N, FALSE)
        OBVIOUS
      <4>2. Typed(w) /\ (Frame(u) => Frame(w)) /\ Removed(u, w, x, N)
        <5>1. N \in SUBSET Nbr
          BY <2>1
        <5> QED BY <3>4, <4>1, <5>1, CableRemoves
      <4>3. t = w
        BY <2>1, <3>4, <4>1
      <4>4. SameButMux(s, w)
        BY <3>4, <4>2 DEF Removed, SameButMux, SameNeigh, SameRoute, SameRest
      <4>5. \A m \in Nbr \ {n} : SameAt(s, w, m)
        <5>1. \A m \in Nbr \ {n} : SameAt(u, w, m)
          BY <2>1, <4>2 DEF Removed
        <5> QED BY <3>4, <5>1, SameTwice
      <4>6. ASSUME Leavable(s, n) PROVE Gone(w, n)
        <5>1. PICK v : v = cableUpdateNeighbor(u, x, {n}, FALSE)
          OBVIOUS
        <5>2. \A q \in Port : At(u, q, n) <=> At(s, q, n)
          BY <3>4 DEF At
        <5>3. At(u, x, n) => u.cable[x] = "standby" \/ (n \notin u.asicTunnel /\ n \notin u.table)
          BY <3>4, <4>6, <5>2 DEF Leavable, SameButMux
        <5>4. Nowhere(u, n) => n \notin u.asicTunnel /\ n \notin u.table
          BY <2>7, <3>4, <4>6, <5>2 DEF Leavable, Nowhere, Loose
        <5>5. \A q \in Port : At(u, q, n) => q = x
          BY <3>4, <4>6, <5>2
        <5>6. u.tb[n] \in {x, NoName, NoEntry} /\ n \notin u.alone
          BY <2>5, <3>4, <4>6
        <5>7. Gone(v, n)
          <6>1. Typed(u) /\ Frame(u) /\ x \in Port
            BY <3>4
          <6> QED BY <5>1, <5>3, <5>4, <5>5, <5>6, <6>1, LeavesCable
        <5> QED BY <2>1, <4>1, <5>1, <5>7
      <4> QED BY <3>4, <4>2, <4>3, <4>4, <4>5, <4>6
    <3>5. CASE isMuxExists(s, Server[n])
      <4>1. Server[n] \in Port /\ t = cableUpdateNeighbor(r, Server[n], {n}, FALSE)
        BY <3>3, <3>5 DEF isMuxExists
      <4>2. Leavable(s, n) => /\ \A q \in Port : At(s, q, n) => q = Server[n]
                              /\ r.tb[n] \in {Server[n], NoName, NoEntry}
        <5>1. Server[n] # NoPort
          BY <4>1, MuxAssumption
        <5>2. Leavable(s, n) => \A q \in Port : At(s, q, n) => q = Server[n]
          BY <5>1 DEF Leavable
        <5>3. Leavable(s, n) => r.tb[n] \in {Server[n], NoName, NoEntry}
          BY <1>1, <2>3, <5>2 DEF Leavable, Named
        <5> QED BY <5>2, <5>3
      <4>3. \A m \in Nbr \ {n} : SameAt(s, r, m)
        BY <2>1, <2>3
      <4> QED BY <2>3, <2>4, <3>1, <3>2, <3>4, <4>1, <4>2, <4>3
    <3>6. CASE ~isMuxExists(s, Server[n])
      <4>1. PICK u : u = WithName(r, n, NoEntry)
        OBVIOUS
      <4>2. /\ Typed(u) /\ SameButName(r, u) /\ u.tb[n] = NoEntry
            /\ \A m \in Nbr \ {n} : SameAt(r, u, m)
        BY <2>3, <4>1, WithNameDoes
      <4>3. t = IF isMuxExists(r, r.tb[n]) THEN cableUpdateNeighbor(u, r.tb[n], {n}, FALSE) ELSE u
        BY <3>3, <3>6, <4>1 DEF updatePortNeighbor, WithName
      <4>4. Frame(u) /\ SameButMux(s, u)
        BY <2>4, <3>2, <4>2
           DEF Frame, SameButName, SameRest, SameButMux, SameNeigh, SameRoute
      <4>5. \A m \in Nbr \ {n} : SameAt(s, u, m)
        BY <2>1, <2>3, <4>2, SameTwice
      <4>6. /\ u.alone = r.alone /\ u.nbrs = s.nbrs /\ u.asicTunnel = s.asicTunnel
            /\ u.table = s.table
        BY <2>3, <3>1, <4>2 DEF SameButName, SameTunnel
      <4>7. isMuxExists(r, r.tb[n]) <=> isMuxExists(s, s.tb[n])
        BY <2>3 DEF isMuxExists
      <4>8. CASE isMuxExists(s, s.tb[n])
        <5>1. s.tb[n] \in Port /\ t = cableUpdateNeighbor(u, s.tb[n], {n}, FALSE)
          BY <2>3, <4>3, <4>7, <4>8 DEF isMuxExists
        <5>2. Leavable(s, n) => /\ \A q \in Port : At(s, q, n) => q = s.tb[n]
                                /\ u.tb[n] \in {s.tb[n], NoName, NoEntry}
          BY <4>2 DEF Leavable
        <5> QED BY <3>4, <4>2, <4>4, <4>5, <4>6, <5>1, <5>2
      <4>9. CASE ~isMuxExists(s, s.tb[n])
        <5>1. t = u
          BY <4>3, <4>7, <4>9
        <5>2. Leavable(s, n) => Nowhere(s, n)
          BY <4>9 DEF Leavable, Nowhere, isMuxExists
        <5>3. Nowhere(s, n) => Nowhere(u, n)
          BY <4>6 DEF Nowhere, At
        <5>4. Leavable(s, n) => Gone(u, n)
          BY <2>5, <2>7, <4>2, <4>6, <5>2, <5>3 DEF Gone, Leavable, Loose
        <5> QED BY <4>2, <4>4, <4>5, <5>1, <5>4
      <4> QED BY <4>8, <4>9
    <3> QED BY <3>5, <3>6
  <2> QED BY <2>6, <2>7
<1> QED BY <1>2, <1>3

\* A neighbour that is gone, with its entry and its routes, is right.
LEMMA GoneRight ==
  ASSUME NEW s, NEW n \in Nbr, Gone(s, n), s.known[n] = "none", n \notin s.hw,
         s.nh[n] = Absent, \A r \in Route : s.via[r] # n
  PROVE  NInv(s, n)
<1>1. Entry(s, n)
  BY Codes DEF Gone, Entry
<1>2. Counted(s, n) /\ Followed(s, n)
  BY DEF Counted, Followed
<1>3. Owned(s, n) /\ Loose(s, n) /\ Named(s, n)
  BY MuxAssumption DEF Gone, Nowhere, Owned, Loose, Named
<1> QED BY <1>1, <1>2, <1>3 DEF NInv

\* The steps of NeighOrch::removeNeighbor.
Told(s, a, n) == a = IF n \in s.hw THEN updateNeighbor(s, n, "zero", FALSE) ELSE s
Freed(s, a, b, n) == b = IF n \in s.hw THEN DestroyNeighbors(a, {n}) ELSE a
Unrouted(s, b, c, n) == c = IF RoutesOf(s, n) # {} THEN Excuse(b, {n}) ELSE b
Known(c, d, n, x) == d = WithKnown(c, n, x)

\* A neighbour that is removed leaves nothing behind.
LEMMA RemoveNeighborGood ==
  ASSUME NEW s, Good(s), NEW n \in Nbr, NEW a, Told(s, a, n), NEW b, Freed(s, a, b, n),
         NEW c, Unrouted(s, b, c, n), NEW d, Known(c, d, n, "none"),
         NEW t, t = updateNeighbor(d, n, "zero", FALSE)
  PROVE  Good(t)
<1>1. PICK N : N = {n}
  OBVIOUS
<1>2. N \in SUBSET Nbr /\ Typed(s) /\ Frame(s)
  BY <1>1 DEF Good
<1>a. /\ Typed(a) /\ Frame(a) /\ SameButMux(s, a)
      /\ \A m \in Nbr \ N : SameAt(s, a, m)
      /\ Leavable(s, n) => Leavable(a, n)
  <2>1. CASE n \in s.hw
    <3>1. PICK w : w = updateNeighbor(s, n, "zero", FALSE)
      OBVIOUS
    <3>2. /\ Typed(w) /\ Frame(w) /\ SameButMux(s, w)
          /\ \A m \in Nbr \ {n} : SameAt(s, w, m)
          /\ Leavable(s, n) => Gone(w, n)
      BY <1>2, <3>1, UpdateNeighborDeletes
    <3>3. a = w
      BY <2>1, <3>1 DEF Told
    <3> QED BY <1>1, <3>2, <3>3, GoneLeavable
  <2>2. CASE n \notin s.hw
    <3>1. a = s
      BY <2>2 DEF Told
    <3> QED BY <1>2, <3>1 DEF SameButMux, SameNeigh, SameRoute, SameRest, SameAt
  <2> QED BY <2>1, <2>2
<1>b. /\ Typed(b) /\ SameMux(a, b) /\ SameRoute(a, b) /\ SameTunnel(a, b) /\ SameRest(a, b)
      /\ \A m \in Nbr \ N : SameAt(a, b, m)
      /\ n \notin b.hw
      /\ n \in s.hw => b.nh[n] = Absent
      /\ n \notin s.hw => b.nh[n] = s.nh[n]
  <2>1. CASE n \in s.hw
    <3>1. PICK w : w = DestroyNeighbors(a, N)
      OBVIOUS
    <3>2. /\ Typed(w) /\ SameMux(a, w) /\ SameRoute(a, w) /\ SameTunnel(a, w) /\ SameRest(a, w)
          /\ w.known = a.known /\ w.gen = a.gen /\ w.hw = a.hw \ N
          /\ \A m \in Nbr : /\ w.nh[m] = IF m \in N THEN Absent ELSE a.nh[m]
                            /\ w.ref[m] = IF m \in N THEN 0 ELSE a.ref[m]
      BY <1>2, <1>a, <3>1, DestroyDoes
    <3>3. b = w
      BY <1>1, <2>1, <3>1 DEF Freed
    <3>4. \A m \in Nbr \ N : SameAt(a, w, m)
      BY <3>2 DEF SameAt, SameMux, SameRoute, SameTunnel, SameRest
    <3> QED BY <1>1, <2>1, <3>2, <3>3, <3>4
  <2>2. CASE n \notin s.hw
    <3>1. b = s /\ a = s
      BY <2>2 DEF Told, Freed
    <3> QED BY <1>2, <2>2, <3>1 DEF SameMux, SameRoute, SameTunnel, SameRest, SameAt
  <2> QED BY <2>1, <2>2
<1>c. /\ Typed(c) /\ SameMux(b, c) /\ SameNeigh(b, c) /\ SameRoute(b, c) /\ SameTunnel(b, c)
      /\ c.fdb = b.fdb /\ b.excused \subseteq c.excused
      /\ \A m \in Nbr \ N : SameAt(b, c, m)
      /\ RoutesOf(s, n) # {} => n \in c.excused
  <2>1. CASE RoutesOf(s, n) # {}
    <3>1. PICK w : w = Excuse(b, N)
      OBVIOUS
    <3>2. /\ Typed(w) /\ SameMux(b, w) /\ SameNeigh(b, w) /\ SameRoute(b, w) /\ SameTunnel(b, w)
          /\ w.fdb = b.fdb /\ w.hwState = b.hwState /\ w.excused = b.excused \cup N
      BY <1>2, <1>b, <3>1, ExcuseDoes
    <3>3. c = w
      BY <1>1, <2>1, <3>1 DEF Unrouted
    <3>4. \A m \in Nbr \ N : SameAt(b, w, m)
      BY <3>2 DEF SameAt, SameMux, SameNeigh, SameRoute, SameTunnel
    <3> QED BY <1>1, <3>2, <3>3, <3>4
  <2>2. CASE RoutesOf(s, n) = {}
    <3>1. c = b
      BY <2>2 DEF Unrouted
    <3> QED BY <1>b, <2>2, <3>1 DEF SameMux, SameNeigh, SameRoute, SameTunnel, SameAt
  <2> QED BY <2>1, <2>2
<1>d. /\ Typed(d) /\ SameButKnown(c, d) /\ d.known[n] = "none"
      /\ \A m \in Nbr \ {n} : SameAt(c, d, m)
  <2>1. PICK w : w = WithKnown(c, n, "none")
    OBVIOUS
  <2>2. /\ Typed(w) /\ SameButKnown(c, w) /\ w.known[n] = "none"
        /\ \A m \in Nbr \ {n} : SameAt(c, w, m)
    BY <1>c, <2>1, WithKnownDoes
  <2> QED BY <2>1, <2>2 DEF Known
<1>3. Frame(d) /\ SameMux(a, d) /\ SameTunnel(a, d) /\ SameRoute(s, d) /\ d.fdb = s.fdb
      /\ s.excused \subseteq d.excused
  <2>1. SameMux(a, d) /\ SameTunnel(a, d) /\ SameRoute(s, d) /\ d.fdb = a.fdb /\ a.fdb = s.fdb
        /\ s.excused \subseteq d.excused
    BY <1>a, <1>b, <1>c, <1>d
       DEF SameMux, SameTunnel, SameButKnown, SameRoute, SameRest, SameButMux
  <2> QED BY <1>a, <2>1 DEF Frame, SameMux
<1>4. PICK w : w = updateNeighbor(d, n, "zero", FALSE)
  OBVIOUS
<1>5. /\ Typed(w) /\ Frame(w) /\ SameButMux(d, w)
      /\ \A m \in Nbr \ {n} : SameAt(d, w, m)
      /\ Leavable(d, n) => Gone(w, n)
  BY <1>d, <1>3, <1>4, UpdateNeighborDeletes
<1>6. ASSUME NEW m \in Nbr \ N PROVE SameAt(s, w, m)
  <2>1. SameAt(s, b, m)
    BY <1>a, <1>b, <1>6, SameTwice
  <2>2. SameAt(s, c, m)
    BY <1>c, <1>6, <2>1, SameTwice
  <2>3. SameAt(s, d, m)
    BY <1>1, <1>d, <1>6, <2>2, SameTwice
  <2> QED BY <1>1, <1>5, <1>6, <2>3, SameTwice
<1>7. ASSUME n \notin w.excused PROVE NInv(w, n)
  <2>1. n \notin d.excused /\ n \notin c.excused /\ n \notin s.excused
    BY <1>5, <1>7, <1>d, <1>3 DEF SameButMux, SameRest, SameButKnown
  <2>2. NInv(s, n)
    BY <2>1 DEF Good
  <2>3. Leavable(a, n)
    BY <1>a, <2>2, NInvLeavable
  <2>4. Leavable(d, n)
    BY <1>3, <2>3 DEF Leavable, Loose, Named, Nowhere, At, SameMux, SameTunnel
  <2>5. Gone(w, n) /\ w.known[n] = "none"
    BY <1>5, <1>d, <2>4 DEF SameButMux, SameNeigh
  <2>6. n \notin w.hw /\ w.nh[n] = Absent
    <3>1. w.hw = b.hw /\ w.nh = b.nh
      BY <1>c, <1>d, <1>5 DEF SameButMux, SameNeigh, SameButKnown
    <3>2. n \notin s.hw => s.nh[n] = Absent
      BY <2>2 DEF NInv, Entry
    <3> QED BY <1>b, <3>1, <3>2
  <2>7. \A r \in Route : w.via[r] # n
    <3>1. RoutesOf(s, n) = {}
      BY <1>c, <2>1
    <3>2. w.via = s.via
      BY <1>3, <1>5 DEF SameButMux, SameRoute
    <3> QED BY <3>1, <3>2 DEF RoutesOf
  <2> QED BY <2>5, <2>6, <2>7, GoneRight
<1>8. Good(w)
  <2>1. \A m \in N : m \in Nbr \ w.excused => NInv(w, m)
    BY <1>1, <1>7
  <2> QED BY <1>5, <1>6, <2>1, Together
<1> QED BY <1>4, <1>8

\* A neighbour that may come to a cable, and does, in a state that is s for all others.
LEMMA ArrivesGood ==
  ASSUME NEW s, Good(s), NEW u, Typed(u), Frame(u), NEW n \in Nbr, NEW p \in Port,
         u.cable[p] # "none", \A m \in Nbr \ {n} : SameAt(s, u, m),
         n \notin u.excused => Arriving(u, p, n),
         NEW t, t = cableUpdateNeighbor(u, p, {n}, TRUE)
  PROVE  Good(t)
<1>1. PICK N : N = {n}
  OBVIOUS
<1>2. PICK w : w = cableUpdateNeighbor(u, p, N, TRUE)
  OBVIOUS
<1>3. /\ Typed(w) /\ (Frame(u) => Frame(w)) /\ u.excused \subseteq w.excused
      /\ \A m \in Nbr \ N : SameAt(u, w, m)
      /\ \A m \in N \ w.excused : Arriving(u, p, m) => NInv(w, m)
  <2>1. N \in SUBSET Nbr
    BY <1>1
  <2> QED BY <1>2, <2>1, CableAdds
<1>4. \A m \in Nbr \ N : SameAt(s, w, m)
  BY <1>1, <1>3, SameTwice
<1>5. \A m \in N : m \in Nbr \ w.excused => NInv(w, m)
  BY <1>1, <1>3
<1>6. Good(w)
  BY <1>3, <1>4, <1>5, Together
<1> QED BY <1>1, <1>2, <1>6

\* A neighbour that NeighOrch has just resolved, before MuxOrch is told.
Fresh(s, n) ==
  /\ Nowhere(s, n) /\ s.tb[n] \in {NoName, NoEntry} /\ s.known[n] = "mac"
  /\ n \in s.hw <=> s.nh[n] # Absent
  /\ s.nh[n] # Null /\ Counted(s, n)
  /\ \A r \in Route : s.via[r] # n
  /\ n \notin s.table /\ (n \in s.asicTunnel => n \in s.alone)

\* A neighbour that was just added and is at no cable is right.
LEMMA FreshRight ==
  ASSUME NEW s, NEW n \in Nbr, Fresh(s, n), n \notin s.alone
  PROVE  /\ NInv(s, n)
         /\ \A p \in Port : Belongs(s, p, n) => Arriving(s, p, n)
<1>1. Entry(s, n)
  BY DEF Fresh, Entry
<1>2. Counted(s, n) /\ Followed(s, n)
  BY DEF Fresh, Followed
<1>3. Owned(s, n) /\ Loose(s, n) /\ Named(s, n)
  BY MuxAssumption DEF Fresh, Nowhere, Owned, Loose, Named
<1> QED BY <1>1, <1>2, <1>3 DEF NInv, Fresh, Arriving

Created(s, a, n) == a = IF isNeighborActive(s, n) THEN CreateNeighbors(s, {n}) ELSE s

\* NeighOrch::addNeighbor: a neighbour that resolves.
LEMMA AddNeighborGood ==
  ASSUME NEW s, Good(s), NEW n \in Nbr, s.known[n] # "mac", NEW a, Created(s, a, n),
         NEW b, Known(a, b, n, "mac"), NEW t, t = updateNeighbor(b, n, "mac", TRUE)
  PROVE  Good(t)
<1>1. PICK N : N = {n}
  OBVIOUS
<1>2. N \in SUBSET Nbr /\ Typed(s) /\ Frame(s)
  BY <1>1 DEF Good
<1>a. /\ Typed(a) /\ SameMux(s, a) /\ SameRoute(s, a) /\ SameTunnel(s, a) /\ SameRest(s, a)
      /\ \A m \in Nbr \ N : SameAt(s, a, m)
      /\ \/ a = s
         \/ n \in a.hw /\ a.nh[n] = s.gen[n] + 1 /\ a.ref[n] = 0
  <2>1. CASE isNeighborActive(s, n)
    <3>1. PICK w : w = CreateNeighbors(s, N)
      OBVIOUS
    <3>2. /\ Typed(w) /\ SameMux(s, w) /\ SameRoute(s, w) /\ SameTunnel(s, w) /\ SameRest(s, w)
          /\ w.known = s.known /\ w.hw = s.hw \cup N
          /\ \A m \in Nbr : /\ w.gen[m] = IF m \in N THEN s.gen[m] + 1 ELSE s.gen[m]
                            /\ w.nh[m] = IF m \in N THEN s.gen[m] + 1 ELSE s.nh[m]
                            /\ w.ref[m] = IF m \in N THEN 0 ELSE s.ref[m]
      BY <1>2, <3>1, CreateDoes
    <3>3. a = w
      BY <1>1, <2>1, <3>1 DEF Created
    <3>4. \A m \in Nbr \ N : SameAt(s, w, m)
      BY <3>2 DEF SameAt, SameMux, SameRoute, SameTunnel, SameRest
    <3>5. n \in w.hw /\ w.nh[n] = s.gen[n] + 1 /\ w.ref[n] = 0
      BY <1>1, <3>2
    <3> QED BY <3>2, <3>3, <3>4, <3>5
  <2>2. CASE ~isNeighborActive(s, n)
    <3>1. a = s
      BY <2>2 DEF Created
    <3> QED BY <1>2, <3>1 DEF SameMux, SameRoute, SameTunnel, SameRest, SameAt
  <2> QED BY <2>1, <2>2
<1>b. /\ Typed(b) /\ SameButKnown(a, b) /\ b.known[n] = "mac"
      /\ \A m \in Nbr \ {n} : SameAt(a, b, m)
  BY <1>a, WithKnownDoes DEF Known
<1>3. /\ SameMux(s, b) /\ SameRoute(s, b) /\ SameTunnel(s, b) /\ SameRest(s, b)
      /\ b.hw = a.hw /\ b.nh = a.nh /\ b.ref = a.ref
  BY <1>a, <1>b DEF SameButKnown, SameMux, SameRoute, SameTunnel, SameRest
<1>4. Frame(b)
  BY <1>2, <1>3 DEF Frame, SameMux, SameRest
<1>5. \A m \in Nbr \ {n} : SameAt(s, b, m)
  BY <1>1, <1>a, <1>b, SameTwice
<1>6. ASSUME n \notin s.excused
      PROVE  Fresh(b, n) /\ (n \in b.alone => \E p \in Port : b.cable[p] # "none")
  <2>1. NInv(s, n)
    BY <1>6 DEF Good
  <2>2. Nowhere(s, n) /\ s.nh[n] = Absent /\ s.tb[n] \in {NoName, NoEntry}
    BY <1>2, <2>1, Found
  <2>3. \A r \in Route : s.via[r] # n
    BY <2>1 DEF NInv, Entry
  <2>4. Count(b, n) = 0
    <3>1. RoutesOf(b, n) = {}
      BY <1>3, <2>3 DEF RoutesOf, SameRoute
    <3> QED BY <3>1, FS_EmptySet DEF Count
  <2>5. (n \in b.hw <=> b.nh[n] # Absent) /\ b.nh[n] # Null /\ Counted(b, n)
    <3>1. CASE a = s
      BY <1>3, <2>1, <2>2, <3>1, Codes DEF NInv, Entry, Counted
    <3>2. CASE n \in a.hw /\ a.nh[n] = s.gen[n] + 1 /\ a.ref[n] = 0
      <4>1. s.gen[n] \in Nat
        BY <1>2 DEF Typed, State
      <4>2. a.nh[n] # Absent /\ a.nh[n] # Null
        BY <3>2, <4>1 DEF Absent, Null
      <4> QED BY <1>3, <2>4, <3>2, <4>2 DEF Counted
    <3> QED BY <1>a, <3>1, <3>2
  <2>6. Nowhere(b, n) /\ b.tb[n] \in {NoName, NoEntry}
    BY <1>3, <2>2 DEF SameMux, Nowhere, At
  <2>7. n \notin b.table /\ (n \in b.asicTunnel => n \in b.alone)
    BY <1>3, <2>1, <2>2 DEF NInv, Loose, SameMux, SameTunnel
  <2>8. \A r \in Route : b.via[r] # n
    BY <1>3, <2>3 DEF SameRoute
  <2>9. n \in b.alone => \E p \in Port : b.cable[p] # "none"
    BY <1>3, <2>1 DEF NInv, Entry, SameMux
  <2> QED BY <1>b, <2>5, <2>6, <2>7, <2>8, <2>9 DEF Fresh
<1>7. CASE \A p \in Port : ~isMuxExists(b, p)
  <2>1. t = b
    BY <1>7 DEF updateNeighbor
  <2>2. n \notin b.excused => NInv(b, n)
    <3>1. n \notin b.excused => n \notin b.alone /\ Fresh(b, n)
      BY <1>3, <1>6, <1>7 DEF isMuxExists, SameRest
    <3> QED BY <3>1, FreshRight
  <2>3. \A m \in N : m \in Nbr \ b.excused => NInv(b, m)
    BY <1>1, <2>2
  <2>4. \A m \in Nbr \ N : SameAt(s, b, m)
    BY <1>1, <1>5
  <2>5. Good(b)
    BY <1>b, <1>4, <2>3, <2>4, Together
  <2> QED BY <2>1, <2>5
<1>8. CASE ~(\A p \in Port : ~isMuxExists(b, p))
  <2>1. PICK r : r = Resolve(b, N)
    OBVIOUS
  <2>2. /\ Typed(r) /\ SameNeigh(b, r) /\ SameRoute(b, r) /\ SameRest(b, r)
        /\ r.cable = b.cable /\ r.nbrs = b.nbrs /\ r.tb = b.tb /\ r.table = b.table
        /\ r.alone = b.alone \ N /\ r.asicTunnel = b.asicTunnel \ (N \cap b.alone)
        /\ \A m \in Nbr \ N : SameAt(b, r, m)
    BY <1>2, <1>b, <2>1, ResolveDoes
  <2>3. Frame(r)
    BY <1>4, <2>2 DEF Frame, SameRest
  <2>4. \A m \in Nbr \ {n} : SameAt(s, r, m)
    BY <1>1, <1>5, <2>2, SameTwice
  <2>5. ASSUME n \notin r.excused PROVE Fresh(r, n) /\ n \notin r.alone
    <3>1. Fresh(b, n)
      BY <1>3, <1>6, <2>2, <2>5 DEF SameRest
    <3>2. n \notin r.alone /\ (Fresh(b, n) => n \notin r.asicTunnel)
      BY <1>1, <2>2 DEF Fresh
    <3>3. Count(r, n) = Count(b, n) /\ (Nowhere(r, n) <=> Nowhere(b, n))
      BY <2>2 DEF Count, RoutesOf, SameRoute, Nowhere, At
    <3> QED BY <2>2, <3>1, <3>2, <3>3 DEF Fresh, Counted, SameNeigh, SameRoute
  <2>6. t = IF isMuxExists(b, Server[n]) THEN cableUpdateNeighbor(r, Server[n], {n}, TRUE)
            ELSE updatePortNeighbor(r, n, TRUE)
    BY <1>1, <1>8, <2>1 DEF updateNeighbor
  <2>7. r.fdb[n] # NoPort => Server[n] \in {NoPort, r.fdb[n]}
    BY <2>3 DEF Frame
  <2>8. CASE isMuxExists(b, Server[n])
    <3>1. t = cableUpdateNeighbor(r, Server[n], {n}, TRUE)
      BY <2>6, <2>8
    <3>2. Server[n] \in Port /\ r.cable[Server[n]] # "none" /\ Server[n] # NoPort
      BY <2>2, <2>8, MuxAssumption DEF isMuxExists
    <3>3. Belongs(r, Server[n], n)
      BY <2>7, <3>2 DEF Belongs
    <3>4. n \notin r.excused => Arriving(r, Server[n], n)
      BY <2>5, <3>2, <3>3, FreshRight
    <3> QED BY <2>2, <2>3, <2>4, <3>1, <3>2, <3>4, ArrivesGood
  <2>9. CASE ~isMuxExists(b, Server[n])
    <3>1. t = updatePortNeighbor(r, n, TRUE)
      BY <2>6, <2>9
    <3>2. CASE r.fdb[n] = NoPort \/ r.tb[n] = r.fdb[n]
      <4>1. t = r
        BY <3>1, <3>2 DEF updatePortNeighbor
      <4>2. \A m \in N : m \in Nbr \ r.excused => NInv(r, m)
        BY <1>1, <2>5, FreshRight
      <4>3. \A m \in Nbr \ N : SameAt(s, r, m)
        BY <1>1, <2>4
      <4>4. Good(r)
        BY <2>2, <2>3, <4>2, <4>3, Together
      <4> QED BY <4>1, <4>4
    <3>3. CASE ~(r.fdb[n] = NoPort \/ r.tb[n] = r.fdb[n])
      <4>1. PICK u : u = WithName(r, n, NoName)
        OBVIOUS
      <4>2. /\ Typed(u) /\ SameButName(r, u) /\ u.tb[n] = NoName
            /\ \A m \in Nbr \ {n} : SameAt(r, u, m)
        BY <2>2, <4>1, WithNameDoes
      <4>3. ASSUME NEW v, Typed(v), Frame(v), v.cable = r.cable, v.fdb = r.fdb,
                   \A m \in Nbr \ {n} : SameAt(s, v, m), r.excused \subseteq v.excused,
                   n \notin v.excused => Fresh(v, n) /\ n \notin v.alone,
                   t = IF isMuxExists(r, r.fdb[n]) THEN cableUpdateNeighbor(v, r.fdb[n], {n}, TRUE)
                       ELSE v
            PROVE  Good(t)
        <5>1. CASE isMuxExists(r, r.fdb[n])
          <6>1. r.fdb[n] \in Port /\ v.cable[r.fdb[n]] # "none"
            BY <4>3, <5>1 DEF isMuxExists
          <6>2. Belongs(v, r.fdb[n], n)
            BY <2>7, <3>3, <4>3 DEF Belongs
          <6>3. n \notin v.excused => Arriving(v, r.fdb[n], n)
            BY <4>3, <6>1, <6>2, FreshRight
          <6>4. t = cableUpdateNeighbor(v, r.fdb[n], {n}, TRUE)
            BY <4>3, <5>1
          <6> QED BY <4>3, <6>1, <6>3, <6>4, ArrivesGood
        <5>2. CASE ~isMuxExists(r, r.fdb[n])
          <6>1. t = v
            BY <4>3, <5>2
          <6>2. \A m \in N : m \in Nbr \ v.excused => NInv(v, m)
            BY <1>1, <4>3, FreshRight
          <6>3. \A m \in Nbr \ N : SameAt(s, v, m)
            BY <1>1, <4>3
          <6>4. Good(v)
            BY <4>3, <6>2, <6>3, Together
          <6> QED BY <6>1, <6>4
        <5> QED BY <5>1, <5>2
      <4>4. Frame(u)
        BY <2>3, <4>2 DEF Frame, SameButName, SameRest
      <4>5. \A m \in Nbr \ {n} : SameAt(s, u, m)
        BY <2>4, <4>2, SameTwice
      <4>6. CASE ~isMuxExists(r, r.tb[n])
        <5>1. t = IF isMuxExists(r, r.fdb[n]) THEN cableUpdateNeighbor(u, r.fdb[n], {n}, TRUE) ELSE u
          BY <3>1, <3>3, <4>1, <4>6 DEF updatePortNeighbor, WithName
        <5>2. ASSUME n \notin u.excused PROVE Fresh(u, n) /\ n \notin u.alone
          <6>1. Fresh(r, n) /\ n \notin r.alone
            BY <2>5, <4>2, <5>2 DEF SameButName, SameRest
          <6>2. Count(u, n) = Count(r, n) /\ (Nowhere(u, n) <=> Nowhere(r, n))
            BY <4>2 DEF Count, RoutesOf, SameButName, SameRoute, Nowhere, At
          <6> QED BY <4>2, <6>1, <6>2
                  DEF Fresh, Counted, SameButName, SameNeigh, SameRoute, SameTunnel
        <5>3. u.cable = r.cable /\ u.fdb = r.fdb /\ r.excused \subseteq u.excused
          BY <4>2 DEF SameButName, SameRest
        <5> QED BY <4>2, <4>3, <4>4, <4>5, <5>1, <5>2, <5>3
      <4>7. CASE isMuxExists(r, r.tb[n])
        <5>1. PICK x : x = cableUpdateNeighbor(u, r.tb[n], N, FALSE)
          OBVIOUS
        <5>2. Typed(x) /\ (Frame(u) => Frame(x)) /\ Removed(u, x, r.tb[n], N)
          <6>1. PICK old : old = r.tb[n]
            OBVIOUS
          <6>2. old \in Port /\ Typed(u) /\ N \in SUBSET Nbr
            BY <1>2, <4>2, <4>7, <6>1 DEF isMuxExists
          <6>3. x = cableUpdateNeighbor(u, old, N, FALSE)
            BY <5>1, <6>1
          <6>4. Typed(x) /\ (Frame(u) => Frame(x)) /\ Removed(u, x, old, N)
            BY <6>2, <6>3, CableRemoves
          <6> QED BY <6>1, <6>4
        <5>3. PICK v : v = WithName(x, n, NoName)
          OBVIOUS
        <5>4. /\ Typed(v) /\ SameButName(x, v) /\ v.tb[n] = NoName
              /\ \A m \in Nbr \ {n} : SameAt(x, v, m)
          BY <5>2, <5>3, WithNameDoes
        <5>5. \A m \in Nbr \ {n} : SameAt(s, v, m)
          <6> TAKE m \in Nbr \ {n}
          <6>1. SameAt(s, u, m) /\ SameAt(u, x, m) /\ SameAt(x, v, m)
            BY <1>1, <4>5, <5>2, <5>4 DEF Removed
          <6>2. SameAt(s, x, m)
            BY <6>1, SameTwice
          <6> QED BY <6>1, <6>2, SameTwice
        <5>6. v.cable = r.cable /\ v.fdb = r.fdb /\ v.excused = r.excused
          BY <4>2, <5>2, <5>4 DEF Removed, SameButName, SameRest
        <5>7. Frame(v)
          BY <4>4, <5>2, <5>4 DEF Frame, SameButName, SameRest
        <5>8. n \in v.excused
          <6>1. n \notin r.excused => r.tb[n] \in {NoName, NoEntry}
            BY <2>5 DEF Fresh
          <6> QED BY <4>7, <5>6, <6>1, MuxAssumption DEF isMuxExists
        <5>9. t = IF isMuxExists(r, r.fdb[n]) THEN cableUpdateNeighbor(v, r.fdb[n], {n}, TRUE) ELSE v
          BY <1>1, <3>1, <3>3, <4>1, <4>7, <5>1, <5>3 DEF updatePortNeighbor, WithName
        <5> QED BY <4>3, <5>4, <5>5, <5>6, <5>7, <5>8, <5>9
      <4> QED BY <4>6, <4>7
    <3> QED BY <3>2, <3>3
  <2> QED BY <2>8, <2>9
<1> QED BY <1>7, <1>8

(***************************************************************************)
(* Neighbours that do not resolve, MACs that age, routes                   *)
(***************************************************************************)

Alone(s, a, n) == a = [s EXCEPT !.alone = @ \cup {n}, !.asicTunnel = @ \cup {n}]

\* A neighbour that does not resolve is at no cable; the tunnel route it gets
\* is accounted for.
LEMMA ZeroMacGood ==
  ASSUME NEW s, Good(s), NEW n \in Nbr, s.known[n] = "none", NEW p \in Port, s.cable[p] # "none",
         NEW a, Alone(s, a, n), NEW t, Known(a, t, n, "zero")
  PROVE  Good(t)
<1>1. s \in State /\ Typed(s) /\ Frame(s)
  BY DEF Good, Typed
<1>2. PICK A : A = s.alone \cup {n}
  OBVIOUS
<1>3. PICK B : B = s.asicTunnel \cup {n}
  OBVIOUS
<1>4. A \in SUBSET Nbr /\ B \in SUBSET Nbr
  BY <1>1, <1>2, <1>3 DEF State
<1>5. a = [s EXCEPT !.alone = A, !.asicTunnel = B]
  BY <1>2, <1>3 DEF Alone
<1>6. a \in State
  BY <1>1, <1>4, <1>5 DEF State
<1>7. /\ SameNeigh(s, a) /\ SameRoute(s, a) /\ SameRest(s, a)
      /\ a.cable = s.cable /\ a.nbrs = s.nbrs /\ a.tb = s.tb /\ a.table = s.table
      /\ a.alone = A /\ a.asicTunnel = B
  BY <1>1, <1>5 DEF State, SameNeigh, SameRoute, SameRest
<1>8. Typed(a)
  BY <1>1, <1>6, <1>7 DEF Typed, Ids, SameNeigh
<1>9. \A m \in Nbr \ {n} : SameAt(s, a, m)
  BY <1>2, <1>3, <1>7 DEF SameAt, SameNeigh, SameRoute, SameRest
<1>10. /\ Typed(t) /\ SameButKnown(a, t) /\ t.known[n] = "zero"
       /\ \A m \in Nbr \ {n} : SameAt(a, t, m)
  BY <1>8, WithKnownDoes DEF Known
<1>11. \A m \in Nbr \ {n} : SameAt(s, t, m)
  BY <1>9, <1>10, SameTwice
<1>12. Frame(t)
  BY <1>1, <1>7, <1>10 DEF Frame, SameButKnown, SameMux, SameRest
<1>13. ASSUME n \notin t.excused PROVE NInv(t, n)
  <2>1. NInv(s, n)
    BY <1>7, <1>10, <1>13 DEF Good, SameRest, SameButKnown
  <2>2. Nowhere(s, n) /\ s.nh[n] = Absent /\ s.tb[n] \in {NoName, NoEntry}
    BY <1>1, <2>1, Found
  <2>3. /\ t.nh[n] = Absent /\ t.hw = s.hw /\ t.via = s.via /\ t.nbrs = s.nbrs /\ t.tb = s.tb
        /\ t.cable = s.cable /\ t.table = s.table /\ n \in t.alone
    BY <1>2, <1>7, <1>10, <2>2 DEF SameNeigh, SameRoute, SameButKnown, SameMux, SameTunnel
  <2>4. (\A r \in Route : t.via[r] # n) /\ n \notin t.hw /\ n \notin t.table
    BY <2>1, <2>2, <2>3 DEF NInv, Entry, Loose
  <2>5. Entry(t, n)
    BY <1>10, <2>3, <2>4, Codes DEF Entry
  <2>6. Counted(t, n) /\ Followed(t, n)
    BY <2>3, <2>4 DEF Counted, Followed
  <2>7. Nowhere(t, n)
    BY <2>2, <2>3 DEF Nowhere, At
  <2>8. Owned(t, n) /\ Loose(t, n) /\ Named(t, n)
    BY <2>2, <2>3, <2>4, <2>7, MuxAssumption DEF Nowhere, Owned, Loose, Named
  <2> QED BY <2>5, <2>6, <2>8 DEF NInv
<1>14. PICK N : N = {n}
  OBVIOUS
<1>15. /\ \A m \in N : m \in Nbr \ t.excused => NInv(t, m)
       /\ \A m \in Nbr \ N : SameAt(s, t, m)
  BY <1>11, <1>13, <1>14
<1> QED BY <1>10, <1>12, <1>15, Together

\* A MAC that ages.
LEMMA AgeGood ==
  ASSUME NEW s, Good(s), NEW n \in Nbr, NEW t, Learnt(s, t, n, NoPort)
  PROVE  Good(t)
<1>1. NoPort \in Port \cup {NoPort} /\ Typed(s)
  BY DEF Good
<1>2. /\ Typed(t) /\ SameMux(s, t) /\ SameNeigh(s, t) /\ SameRoute(s, t) /\ SameTunnel(s, t)
      /\ t.excused = s.excused /\ t.fdb[n] = NoPort
      /\ \A m \in Nbr \ {n} : t.fdb[m] = s.fdb[m] /\ SameAt(s, t, m)
  BY <1>1, WithFdbDoes DEF Learnt
<1>3. Frame(t)
  <2>1. ASSUME NEW m \in Nbr, t.fdb[m] # NoPort PROVE Server[m] \in {NoPort, t.fdb[m]}
    <3>1. m # n
      BY <1>2, <2>1
    <3> QED BY <1>2, <2>1, <3>1 DEF Good, Frame
  <2> QED BY <1>2, <2>1 DEF Good, Frame, SameMux
<1>4. ASSUME n \notin t.excused PROVE NInv(t, n)
  <2>1. NInv(s, n)
    BY <1>2, <1>4 DEF Good
  <2> QED BY <1>1, <2>1, MacMoves DEF Learnt
<1>5. PICK N : N = {n}
  OBVIOUS
<1>6. /\ \A m \in N : m \in Nbr \ t.excused => NInv(t, m)
      /\ \A m \in Nbr \ N : SameAt(s, t, m)
  BY <1>2, <1>4, <1>5
<1> QED BY <1>2, <1>3, <1>6, Together

WithRoute(s, r, x, y) == [s EXCEPT !.via[r] = x, !.asicRoute[r] = y]

\* A route is set.
LEMMA WithRouteDoes ==
  ASSUME NEW s, Typed(s), NEW r \in Route, NEW x \in Nbr \cup {Absent}, NEW y \in Int,
         NEW t, t = WithRoute(s, r, x, y)
  PROVE  /\ Typed(t) /\ SameMux(s, t) /\ SameNeigh(s, t) /\ SameTunnel(s, t) /\ SameRest(s, t)
         /\ t.via[r] = x /\ t.asicRoute[r] = y
         /\ \A q \in Route \ {r} : t.via[q] = s.via[q] /\ t.asicRoute[q] = s.asicRoute[q]
<1>0. s \in State
  BY DEF Typed
<1>1. PICK f : f = [s.via EXCEPT ![r] = x]
  OBVIOUS
<1>2. PICK g : g = [s.asicRoute EXCEPT ![r] = y]
  OBVIOUS
<1>3. f \in [Route -> Nbr \cup {Absent}] /\ f[r] = x /\ \A q \in Route \ {r} : f[q] = s.via[q]
  BY <1>0, <1>1 DEF State
<1>4. g \in [Route -> Int] /\ g[r] = y /\ \A q \in Route \ {r} : g[q] = s.asicRoute[q]
  BY <1>0, <1>2 DEF State
<1>5. t = [s EXCEPT !.via = f, !.asicRoute = g]
  BY <1>1, <1>2 DEF WithRoute
<1>6. t \in State
  BY <1>0, <1>3, <1>4, <1>5 DEF State
<1>7. /\ SameMux(s, t) /\ SameNeigh(s, t) /\ SameTunnel(s, t) /\ SameRest(s, t)
      /\ t.via = f /\ t.asicRoute = g
  BY <1>0, <1>5 DEF State, SameMux, SameNeigh, SameTunnel, SameRest
<1>8. Ids(t)
  BY <1>7 DEF Typed, Ids, SameMux, SameNeigh
<1> QED BY <1>3, <1>4, <1>6, <1>7, <1>8 DEF Typed

\* Routes change nothing but counts and themselves.
LEMMA RouteChange ==
  ASSUME NEW s, NEW t, NEW n \in Nbr, NInv(s, n), SameMux(s, t), SameTunnel(s, t), SameRest(s, t),
         t.known = s.known, t.hw = s.hw, t.nh = s.nh,
         t.known[n] # "mac" => \A r \in Route : t.via[r] # n, Counted(t, n), Followed(t, n)
  PROVE  NInv(t, n)
<1>1. Entry(t, n)
  BY DEF NInv, Entry, SameMux
<1>2. ASSUME NEW p \in Port, At(t, p, n)
      PROVE  /\ t.tb[n] = p /\ t.known[n] = "mac" /\ t.cable[p] # "none" /\ Belongs(t, p, n)
             /\ IF t.cable[p] = "standby" THEN Standing(t, p, n) ELSE Serving(t, p, n)
  <2>1. At(s, p, n)
    BY <1>2 DEF At, SameMux
  <2>2. /\ s.tb[n] = p /\ s.known[n] = "mac" /\ s.cable[p] # "none" /\ Belongs(s, p, n)
        /\ IF s.cable[p] = "standby" THEN Standing(s, p, n) ELSE Serving(s, p, n)
    BY <2>1 DEF NInv, Owned
  <2>3. /\ Standing(s, p, n) => Standing(t, p, n)
        /\ Serving(s, p, n) => Serving(t, p, n)
        /\ Belongs(s, p, n) => Belongs(t, p, n)
    BY DEF Standing, Serving, Belongs, SameMux, SameTunnel, SameRest
  <2> QED BY <2>2, <2>3 DEF SameMux
<1>3. Loose(t, n) /\ Named(t, n)
  BY DEF NInv, Loose, Nowhere, Named, At, SameMux, SameTunnel
<1> QED BY <1>1, <1>2, <1>3 DEF NInv, Owned

Increased(s, a, n) == a = increaseNextHopRefCount(s, {n}, One)
Decreased(s, a, n) == a = decreaseNextHopRefCount(s, {n}, One)
Routes(a, t, r, x, y) == t = WithRoute(a, r, x, y)

\* A route that is added counts once and goes where its next hop is.
LEMMA AddRouteGood ==
  ASSUME NEW s, Good(s), NEW r \in Route, NEW n \in Nbr, s.via[r] = Absent, hasNextHop(s, n),
         NEW a, Increased(s, a, n), NEW t, Routes(a, t, r, n, getNextHopId(s, n))
  PROVE  Good(t)
<1>1. Typed(s) /\ Frame(s)
  BY DEF Good
<1>2. PICK N : N = {n}
  OBVIOUS
<1>3. N \in SUBSET Nbr /\ One \in [Nbr -> Nat] /\ One[n] = 1
  BY <1>2 DEF One
<1>4. PICK y : y = getNextHopId(s, n)
  OBVIOUS
<1>5. y \in Int
  BY <1>1, <1>4, LookupType
<1>a. /\ Typed(a) /\ SameMux(s, a) /\ SameRoute(s, a) /\ SameTunnel(s, a) /\ SameRest(s, a)
      /\ a.known = s.known /\ a.hw = s.hw /\ a.nh = s.nh /\ a.gen = s.gen
      /\ \A m \in Nbr : a.ref[m] = IF m \in N /\ s.nh[m] # Absent THEN s.ref[m] + One[m]
                                   ELSE s.ref[m]
  BY <1>1, <1>2, <1>3, IncreaseDoes DEF Increased
<1>t. /\ Typed(t) /\ SameMux(a, t) /\ SameNeigh(a, t) /\ SameTunnel(a, t) /\ SameRest(a, t)
      /\ t.via[r] = n /\ t.asicRoute[r] = y
      /\ \A q \in Route \ {r} : t.via[q] = a.via[q] /\ t.asicRoute[q] = a.asicRoute[q]
  <2>1. t = WithRoute(a, r, n, y) /\ n \in Nbr \cup {Absent} /\ Typed(a)
    BY <1>a, <1>4 DEF Routes
  <2> QED BY <1>5, <2>1, WithRouteDoes
<1>6. /\ SameMux(s, t) /\ SameTunnel(s, t) /\ SameRest(s, t)
      /\ t.known = s.known /\ t.hw = s.hw /\ t.nh = s.nh /\ t.ref = a.ref
  BY <1>a, <1>t DEF SameMux, SameNeigh, SameTunnel, SameRest
<1>7. \A q \in Route \ {r} : t.via[q] = s.via[q] /\ t.asicRoute[q] = s.asicRoute[q]
  BY <1>a, <1>t DEF SameRoute
<1>8. Frame(t)
  BY <1>1, <1>6 DEF Frame, SameMux, SameRest
<1>9. ASSUME NEW m \in Nbr \ N PROVE SameAt(s, t, m)
  <2>1. m # n /\ m # Absent
    BY <1>2, <1>9, MuxAssumption DEF Absent
  <2>2. t.ref[m] = s.ref[m]
    BY <1>a, <1>6, <1>9
  <2>3. \A q \in Route : /\ t.via[q] = m <=> s.via[q] = m
                         /\ s.via[q] = m => t.asicRoute[q] = s.asicRoute[q]
    <3> TAKE q \in Route
    <3>1. CASE q = r
      BY <1>t, <2>1, <3>1
    <3>2. CASE q # r
      BY <1>7, <3>2
    <3> QED BY <3>1, <3>2
  <2> QED BY <1>6, <2>2, <2>3 DEF SameAt, SameMux, SameTunnel, SameRest
<1>10. ASSUME n \notin t.excused PROVE NInv(t, n)
  <2>1. NInv(s, n)
    BY <1>6, <1>10 DEF Good, SameRest
  <2>2. s.known[n] = "mac"
        /\ y = IF isMuxExists(s, s.tb[n]) /\ s.cable[s.tb[n]] = "standby" THEN Tunnel ELSE s.nh[n]
    BY <1>1, <1>4, <2>1, Found
  <2>3. Counted(t, n)
    <3>1. PICK R : R = RoutesOf(s, n)
      OBVIOUS
    <3>2. r \notin R /\ RoutesOf(t, n) = R \cup {r} /\ R \in SUBSET Route
      <4>1. n # Absent
        BY MuxAssumption DEF Absent
      <4> QED BY <1>t, <1>7, <3>1, <4>1 DEF RoutesOf
    <3>3. IsFiniteSet(R)
      BY <3>2, MuxAssumption, FS_Subset
    <3>4. Cardinality(R \cup {r}) = Cardinality(R) + 1
      BY <3>2, <3>3, FS_AddElement
    <3>5. s.nh[n] # Absent => s.ref[n] = Cardinality(R)
      BY <2>1, <3>1 DEF NInv, Counted, Count
    <3>6. t.nh[n] # Absent => t.ref[n] = s.ref[n] + 1
      BY <1>a, <1>2, <1>3, <1>6
    <3> QED BY <1>6, <3>2, <3>4, <3>5, <3>6 DEF Counted, Count
  <2>4. Followed(t, n)
    <3> SUFFICES ASSUME NEW q \in Route, t.via[q] = n
                 PROVE  t.asicRoute[q] = IF isMuxExists(t, t.tb[n]) /\ t.cable[t.tb[n]] = "standby"
                                         THEN Tunnel ELSE t.nh[n]
      BY DEF Followed
    <3>1. t.tb = s.tb /\ t.cable = s.cable /\ (isMuxExists(t, t.tb[n]) <=> isMuxExists(s, s.tb[n]))
      BY <1>6 DEF SameMux, isMuxExists
    <3>2. CASE q = r
      BY <1>t, <1>6, <2>2, <3>1, <3>2
    <3>3. CASE q # r
      BY <1>6, <1>7, <2>1, <3>1, <3>3 DEF NInv, Followed
    <3> QED BY <3>2, <3>3
  <2> QED BY <1>6, <2>1, <2>2, <2>3, <2>4, RouteChange
<1>11. \A m \in N : m \in Nbr \ t.excused => NInv(t, m)
  BY <1>2, <1>10
<1> QED BY <1>t, <1>8, <1>9, <1>11, Together

\* A route that is removed is uncounted.
LEMMA RemoveRouteGood ==
  ASSUME NEW s, Good(s), NEW r \in Route, NEW n \in Nbr, s.via[r] = n,
         NEW a, Decreased(s, a, n), NEW t, Routes(a, t, r, Absent, Absent)
  PROVE  Good(t)
<1>1. Typed(s) /\ Frame(s)
  BY DEF Good
<1>2. PICK N : N = {n}
  OBVIOUS
<1>3. N \in SUBSET Nbr /\ One \in [Nbr -> Nat] /\ One[n] = 1
  BY <1>2 DEF One
<1>a. /\ Typed(a) /\ SameMux(s, a) /\ SameRoute(s, a) /\ SameTunnel(s, a) /\ SameRest(s, a)
      /\ a.known = s.known /\ a.hw = s.hw /\ a.nh = s.nh /\ a.gen = s.gen
      /\ \A m \in Nbr : a.ref[m] = IF m \in N /\ s.nh[m] # Absent THEN Less(s.ref[m], One[m])
                                   ELSE s.ref[m]
  BY <1>1, <1>2, <1>3, DecreaseDoes DEF Decreased
<1>t. /\ Typed(t) /\ SameMux(a, t) /\ SameNeigh(a, t) /\ SameTunnel(a, t) /\ SameRest(a, t)
      /\ t.via[r] = Absent /\ t.asicRoute[r] = Absent
      /\ \A q \in Route \ {r} : t.via[q] = a.via[q] /\ t.asicRoute[q] = a.asicRoute[q]
  <2>1. t = WithRoute(a, r, Absent, Absent) /\ Absent \in Nbr \cup {Absent} /\ Typed(a) /\ Absent \in Int
    BY <1>a, Codes DEF Routes
  <2> QED BY <2>1, WithRouteDoes
<1>6. /\ SameMux(s, t) /\ SameTunnel(s, t) /\ SameRest(s, t)
      /\ t.known = s.known /\ t.hw = s.hw /\ t.nh = s.nh /\ t.ref = a.ref
  BY <1>a, <1>t DEF SameMux, SameNeigh, SameTunnel, SameRest
<1>7. \A q \in Route \ {r} : t.via[q] = s.via[q] /\ t.asicRoute[q] = s.asicRoute[q]
  BY <1>a, <1>t DEF SameRoute
<1>8. Frame(t)
  BY <1>1, <1>6 DEF Frame, SameMux, SameRest
<1>9. ASSUME NEW m \in Nbr \ N PROVE SameAt(s, t, m)
  <2>1. m # n /\ m # Absent
    BY <1>2, <1>9, MuxAssumption DEF Absent
  <2>2. t.ref[m] = s.ref[m]
    BY <1>a, <1>6, <1>9
  <2>3. \A q \in Route : /\ t.via[q] = m <=> s.via[q] = m
                         /\ s.via[q] = m => t.asicRoute[q] = s.asicRoute[q]
    <3> TAKE q \in Route
    <3>1. CASE q = r
      BY <1>t, <2>1, <3>1
    <3>2. CASE q # r
      BY <1>7, <3>2
    <3> QED BY <3>1, <3>2
  <2> QED BY <1>6, <2>2, <2>3 DEF SameAt, SameMux, SameTunnel, SameRest
<1>10. ASSUME n \notin t.excused PROVE NInv(t, n)
  <2>1. NInv(s, n)
    BY <1>6, <1>10 DEF Good, SameRest
  <2>0. n # Absent
    BY MuxAssumption DEF Absent
  <2>2. t.known[n] # "mac" => \A q \in Route : t.via[q] # n
    BY <1>6, <2>1 DEF NInv, Entry
  <2>3. Counted(t, n)
    <3>1. PICK R : R = RoutesOf(s, n)
      OBVIOUS
    <3>2. r \in R /\ RoutesOf(t, n) = R \ {r} /\ R \in SUBSET Route
      BY <1>t, <1>7, <2>0, <3>1 DEF RoutesOf
    <3>3. IsFiniteSet(R)
      BY <3>2, MuxAssumption, FS_Subset
    <3>4. PICK c \in Nat : c = Cardinality(R)
      BY <3>3, FS_CardinalityType
    <3>5. Cardinality(R \ {r}) = c - 1 /\ c # 0
      <4>1. Cardinality(R \ {r}) = Cardinality(R) - 1
        BY <3>2, <3>3, FS_RemoveElement
      <4>2. c # 0
        BY <3>2, <3>3, <3>4, FS_EmptySet
      <4> QED BY <3>4, <4>1, <4>2
    <3>6. s.nh[n] # Absent => s.ref[n] = c
      BY <2>1, <3>1, <3>4 DEF NInv, Counted, Count
    <3>7. t.nh[n] # Absent => t.ref[n] = Less(s.ref[n], 1)
      BY <1>a, <1>2, <1>3, <1>6
    <3>8. Less(c, 1) = c - 1
      BY <3>5 DEF Less
    <3> QED BY <1>6, <3>2, <3>5, <3>6, <3>7, <3>8 DEF Counted, Count
  <2>4. Followed(t, n)
    <3> SUFFICES ASSUME NEW q \in Route, t.via[q] = n
                 PROVE  t.asicRoute[q] = IF isMuxExists(t, t.tb[n]) /\ t.cable[t.tb[n]] = "standby"
                                         THEN Tunnel ELSE t.nh[n]
      BY DEF Followed
    <3>1. t.tb = s.tb /\ t.cable = s.cable /\ (isMuxExists(t, t.tb[n]) <=> isMuxExists(s, s.tb[n]))
      BY <1>6 DEF SameMux, isMuxExists
    <3>2. q # r
      BY <1>t, <2>0
    <3> QED BY <1>6, <1>7, <2>1, <3>1, <3>2 DEF NInv, Followed
  <2> QED BY <1>6, <2>1, <2>2, <2>3, <2>4, RouteChange
<1>11. \A m \in N : m \in Nbr \ t.excused => NInv(t, m)
  BY <1>2, <1>10
<1> QED BY <1>t, <1>8, <1>9, <1>11, Together

(***************************************************************************)
(* Cables                                                                  *)
(***************************************************************************)

Reset(s, p, x) == [s EXCEPT !.cable[p] = x, !.nbrs[p] = [n \in Nbr |-> Absent]]

\* A cable that comes or goes, without neighbours.
LEMMA ResetDoes ==
  ASSUME NEW s, Typed(s), NEW p \in Port, NEW x \in CableState, NEW t, t = Reset(s, p, x)
  PROVE  /\ Typed(t) /\ SameNeigh(s, t) /\ SameRoute(s, t) /\ SameTunnel(s, t) /\ SameRest(s, t)
         /\ t.tb = s.tb /\ t.alone = s.alone /\ t.cable[p] = x
         /\ \A q \in Port \ {p} : t.cable[q] = s.cable[q]
         /\ \A q \in Port, n \in Nbr : t.nbrs[q][n] = IF q = p THEN Absent ELSE s.nbrs[q][n]
<1>1. PICK f : f = [n \in Nbr |-> Absent]
  OBVIOUS
<1>2. PICK a : a = WithCable(s, p, x)
  OBVIOUS
<1>3. PICK w : w = WithNbrs(a, p, f)
  OBVIOUS
<1>4. t = w
  BY <1>1, <1>2, <1>3 DEF Reset, WithNbrs, WithCable, Typed, State
<1>5. /\ Typed(a) /\ SameButCable(s, a) /\ a.hwState = s.hwState /\ a.cable[p] = x
      /\ \A q \in Port \ {p} : a.cable[q] = s.cable[q]
  BY <1>2, WithCableDoes
<1>6. Fits(a, f)
  BY <1>1, Codes DEF Fits
<1>7. /\ Typed(w) /\ SameButNbrs(a, w)
      /\ \A q \in Port, n \in Nbr : w.nbrs[q][n] = IF q = p THEN f[n] ELSE a.nbrs[q][n]
  BY <1>3, <1>5, <1>6, HoldDoes
<1>8. /\ SameNeigh(s, w) /\ SameRoute(s, w) /\ SameTunnel(s, w) /\ SameRest(s, w)
      /\ w.tb = s.tb /\ w.alone = s.alone /\ w.cable = a.cable /\ a.nbrs = s.nbrs
  BY <1>5, <1>7 DEF SameButNbrs, SameButCable, SameNeigh, SameRoute, SameTunnel, SameRest
<1>9. \A q \in Port, n \in Nbr : w.nbrs[q][n] = IF q = p THEN Absent ELSE s.nbrs[q][n]
  BY <1>1, <1>7, <1>8
<1> QED BY <1>4, <1>5, <1>7, <1>8, <1>9

Configured(s, a, p) == a = Reset(s, p, "standby")
Resolved(a, b, N) == b = Resolve(a, N)
Come(b, c, p, N) == c = cableUpdateNeighbor(b, p, N, TRUE)

\* A new cable takes the neighbours that were learnt on its port.
LEMMA ConfigureGood ==
  ASSUME NEW s, Good(s), NEW p \in Port, s.cable[p] = "none",
         NEW H \in SUBSET Nbr, NEW U \in SUBSET H,
         \A n \in U : s.known[n] = "mac" /\ s.fdb[n] = p /\ s.tb[n] = NoEntry,
         NEW a, Configured(s, a, p), NEW b, Resolved(a, b, U), NEW c, Come(b, c, p, U),
         NEW t, t = Excuse(c, H \ U)
  PROVE  Good(t)
<1>1. Typed(s) /\ Frame(s) /\ U \in SUBSET Nbr /\ H \ U \in SUBSET Nbr
  BY DEF Good
<1>a. /\ Typed(a) /\ SameNeigh(s, a) /\ SameRoute(s, a) /\ SameTunnel(s, a) /\ SameRest(s, a)
      /\ a.tb = s.tb /\ a.alone = s.alone /\ a.cable[p] = "standby"
      /\ \A q \in Port \ {p} : a.cable[q] = s.cable[q]
      /\ \A q \in Port, n \in Nbr : a.nbrs[q][n] = IF q = p THEN Absent ELSE s.nbrs[q][n]
  <2>1. "standby" \in CableState
    BY DEF CableState
  <2> QED BY <1>1, <2>1, ResetDoes DEF Configured
<1>2. \A q \in Port, n \in Nbr : a.nbrs[q][n] = s.nbrs[q][n]
  BY <1>1, <1>a DEF Frame
<1>3. Frame(a)
  <2>1. a.fdb = s.fdb
    BY <1>a DEF SameRest
  <2>2. \A q \in Port, n \in Nbr : a.cable[q] = "none" =>
          s.cable[q] = "none" /\ a.nbrs[q][n] \in {Absent, s.nbrs[q][n]}
    BY <1>a
  <2> QED BY <1>1, <2>1, <2>2, FrameKept
<1>4. ASSUME NEW m \in Nbr PROVE SameAt(s, a, m)
  <2>1. \A q \in Port : a.nbrs[q][m] = s.nbrs[q][m] /\ (At(s, q, m) => a.cable[q] = s.cable[q])
    BY <1>1, <1>2, <1>a DEF Frame, At
  <2>2. \E q \in Port : a.cable[q] # "none"
    BY <1>a
  <2> QED BY <1>a, <2>1, <2>2 DEF SameAt, SameNeigh, SameRoute, SameTunnel, SameRest
<1>b. /\ Typed(b) /\ SameNeigh(a, b) /\ SameRoute(a, b) /\ SameRest(a, b)
      /\ b.cable = a.cable /\ b.nbrs = a.nbrs /\ b.tb = a.tb /\ b.table = a.table
      /\ b.alone = a.alone \ U /\ b.asicTunnel = a.asicTunnel \ (U \cap a.alone)
      /\ \A m \in Nbr \ U : SameAt(a, b, m)
  BY <1>1, <1>a, ResolveDoes DEF Resolved
<1>5. Frame(b) /\ b.cable[p] # "none"
  BY <1>3, <1>a, <1>b DEF Frame, SameRest
<1>c. /\ Typed(c) /\ (Frame(b) => Frame(c)) /\ c.cable = b.cable /\ b.excused \subseteq c.excused
      /\ \A n \in Nbr \ U : SameAt(b, c, n)
      /\ \A n \in U \ c.excused : Arriving(b, p, n) => NInv(c, n)
  <2>1. c = cableUpdateNeighbor(b, p, U, TRUE) /\ Typed(b) /\ b.cable[p] # "none" /\ U \in SUBSET Nbr
    BY <1>1, <1>5, <1>b DEF Come
  <2> QED BY <2>1, CableAdds
<1>t. /\ Typed(t) /\ SameMux(c, t) /\ SameNeigh(c, t) /\ SameRoute(c, t) /\ SameTunnel(c, t)
      /\ t.fdb = c.fdb /\ t.excused = c.excused \cup (H \ U)
  <2>1. PICK X : X = H \ U
    OBVIOUS
  <2>2. PICK w : w = Excuse(c, X)
    OBVIOUS
  <2>3. /\ Typed(w) /\ SameMux(c, w) /\ SameNeigh(c, w) /\ SameRoute(c, w) /\ SameTunnel(c, w)
        /\ w.fdb = c.fdb /\ w.hwState = c.hwState /\ w.excused = c.excused \cup X
    <3>1. X \in SUBSET Nbr /\ Typed(c)
      BY <1>1, <1>c, <2>1
    <3> QED BY <2>2, <3>1, ExcuseDoes
  <2> QED BY <2>1, <2>2, <2>3
<1>6. PICK w : w = t
  OBVIOUS
<1>7. /\ Typed(w) /\ SameMux(c, w) /\ SameNeigh(c, w) /\ SameRoute(c, w) /\ SameTunnel(c, w)
      /\ w.fdb = c.fdb /\ w.excused = c.excused \cup (H \ U)
  BY <1>t, <1>6
<1>8. Frame(w)
  BY <1>5, <1>c, <1>7 DEF Frame, SameMux
<1>9. \A m \in Nbr : SameAt(c, w, m)
  BY <1>7 DEF SameAt, SameMux, SameNeigh, SameRoute, SameTunnel
<1>10. ASSUME NEW m \in Nbr \ U PROVE SameAt(s, w, m)
  <2>1. SameAt(s, b, m)
    BY <1>4, <1>b, <1>10, SameTwice
  <2>2. SameAt(s, c, m)
    BY <1>c, <1>10, <2>1, SameTwice
  <2> QED BY <1>9, <1>10, <2>2, SameTwice
<1>11. ASSUME NEW n \in U, n \notin w.excused PROVE NInv(w, n)
  <2>n. n \in Nbr /\ n \notin c.excused /\ n \notin s.excused
    BY <1>1, <1>7, <1>11, <1>a, <1>b, <1>c DEF SameRest
  <2>1. NInv(s, n) /\ s.known[n] = "mac" /\ s.fdb[n] = p /\ s.tb[n] = NoEntry
    BY <1>11, <2>n DEF Good
  <2>2. Nowhere(s, n)
    <3>1. \A q \in Port : At(s, q, n) => s.tb[n] = q
      BY <2>1 DEF NInv, Owned
    <3> QED BY <2>1, <3>1, MuxAssumption DEF Nowhere
  <2>3. n \notin s.alone /\ n \notin s.asicTunnel /\ n \notin s.table
    BY <2>1, <2>2 DEF NInv, Entry, Loose
  <2>4. /\ b.known = s.known /\ b.hw = s.hw /\ b.nh = s.nh /\ b.ref = s.ref /\ b.via = s.via
        /\ b.tb = s.tb /\ b.fdb = s.fdb
    BY <1>a, <1>b DEF SameNeigh, SameRoute, SameRest
  <2>5. n \notin b.alone /\ n \notin b.asicTunnel /\ n \notin b.table
    BY <1>a, <1>b, <2>3 DEF SameTunnel
  <2>6. Nowhere(b, n) /\ Count(b, n) = Count(s, n)
    BY <1>2, <1>b, <2>2, <2>4, <2>n DEF Nowhere, At, Count, RoutesOf
  <2>7. Belongs(b, p, n)
    <3>1. Server[n] \in {NoPort, p}
      BY <1>1, <2>1, <2>n, MuxAssumption DEF Frame
    <3> QED BY <2>1, <2>4, <3>1 DEF Belongs
  <2>8. Arriving(b, p, n)
    BY <2>1, <2>4, <2>5, <2>6, <2>7 DEF Arriving, NInv, Entry, Counted
  <2>9. NInv(c, n)
    BY <1>c, <1>11, <2>8, <2>n
  <2> QED BY <1>7, <1>9, <1>c, <2>9, <2>n, Untouched
<1>12. Good(w)
  <2>1. \A n \in U : n \in Nbr \ w.excused => NInv(w, n)
    BY <1>11
  <2> QED BY <1>7, <1>8, <1>10, <2>1, Together
<1> QED BY <1>6, <1>12

Deleted(s, t, p, X) == t = Excuse(Reset(s, p, "none"), X)

\* A cable that is deleted takes no other neighbour with it.
LEMMA DeleteGood ==
  ASSUME NEW s, Good(s), NEW p \in Port, NEW X \in SUBSET Nbr,
         Neighbors(s, p) \subseteq X,
         (\A q \in Port \ {p} : s.cable[q] = "none") => s.alone \subseteq X,
         NEW t, Deleted(s, t, p, X)
  PROVE  Good(t)
<1>1. Typed(s) /\ Frame(s)
  BY DEF Good
<1>2. PICK a : a = Reset(s, p, "none")
  OBVIOUS
<1>3. t = Excuse(a, X)
  BY <1>2 DEF Deleted
<1>a. /\ Typed(a) /\ SameNeigh(s, a) /\ SameRoute(s, a) /\ SameTunnel(s, a) /\ SameRest(s, a)
      /\ a.tb = s.tb /\ a.alone = s.alone /\ a.cable[p] = "none"
      /\ \A q \in Port \ {p} : a.cable[q] = s.cable[q]
      /\ \A q \in Port, n \in Nbr : a.nbrs[q][n] = IF q = p THEN Absent ELSE s.nbrs[q][n]
  <2>1. "none" \in CableState
    BY DEF CableState
  <2> QED BY <1>1, <1>2, <2>1, ResetDoes
<1>t. /\ Typed(t) /\ SameMux(a, t) /\ SameNeigh(a, t) /\ SameRoute(a, t) /\ SameTunnel(a, t)
      /\ t.fdb = a.fdb /\ t.hwState = a.hwState /\ t.excused = a.excused \cup X
  BY <1>3, <1>a, ExcuseDoes
<1>4. Frame(t)
  <2>1. t.fdb = s.fdb
    BY <1>a, <1>t DEF SameRest
  <2>2. \A n \in Nbr : t.fdb[n] # NoPort => Server[n] \in {NoPort, t.fdb[n]}
    BY <1>1, <2>1 DEF Frame
  <2>3. ASSUME NEW q \in Port, NEW n \in Nbr, t.cable[q] = "none" PROVE t.nbrs[q][n] = Absent
    <3>1. t.cable = a.cable /\ t.nbrs = a.nbrs
      BY <1>t DEF SameMux
    <3>2. CASE q = p
      BY <1>a, <3>1, <3>2
    <3>3. CASE q # p
      BY <1>1, <1>a, <2>3, <3>1, <3>3 DEF Frame
    <3> QED BY <3>2, <3>3
  <2> QED BY <2>2, <2>3 DEF Frame
<1>5. ASSUME NEW m \in Nbr \ X PROVE SameAt(s, t, m)
  <2>1. s.nbrs[p][m] = Absent
    BY <1>5 DEF Neighbors
  <2>2. t.cable = a.cable /\ t.nbrs = a.nbrs /\ t.tb = s.tb /\ t.alone = s.alone
    BY <1>a, <1>t DEF SameMux
  <2>3. \A q \in Port : t.nbrs[q][m] = s.nbrs[q][m] /\ (At(s, q, m) => t.cable[q] = s.cable[q])
    BY <1>a, <2>1, <2>2 DEF At
  <2>4. m \in s.alone => \E q \in Port : t.cable[q] # "none"
    <3>1. m \in s.alone => \E q \in Port \ {p} : s.cable[q] # "none"
      BY <1>5
    <3> QED BY <1>a, <2>2, <3>1
  <2> QED BY <1>a, <1>t, <2>2, <2>3, <2>4 DEF SameAt, SameNeigh, SameRoute, SameTunnel, SameRest
<1>6. \A n \in X : n \in Nbr \ t.excused => NInv(t, n)
  BY <1>t
<1> QED BY <1>t, <1>4, <1>5, <1>6, Together

(***************************************************************************)
(* Changes of state                                                        *)
(***************************************************************************)

\* One call fails, or none.
Failure(fail) ==
  /\ fail[1] \in {"none", "neighbor", "route", "tunnel"}
  /\ fail[1] # "none" => fail[2] \in Nbr

\* What the handler of a change of state leaves alone.
Handled(s, u, p) ==
  /\ Typed(u) /\ Kept(s, u) /\ u.excused = s.excused
  /\ \A q \in Port \ {p}, n \in Nbr : u.nbrs[q][n] = s.nbrs[q][n]
  /\ \A n \in Nbr : At(u, p, n) <=> At(s, p, n)
  /\ \A m \in Nbr : ~At(s, p, m) => SameAt(s, u, m)

\* n at p while the state of p changes.  A change to active counts its routes
\* from zero; a change to standby takes off at most what was counted.
Between(s, p, n) ==
  /\ s.known[n] = "mac" /\ Belongs(s, p, n) /\ s.tb[n] = p
  /\ n \in s.hw <=> s.nh[n] # Absent
  /\ s.nh[n] # Null
Uncounted(s, p, n) == Between(s, p, n) /\ (s.nh[n] # Absent => s.ref[n] = 0)
AtMost(s, p, n) == Between(s, p, n) /\ (s.nh[n] # Absent => s.ref[n] <= Count(s, n))

\* MuxNbrHandler::enable programs every neighbour, or leaves what a roll-back
\* can take back.
LEMMA EnabledDoes ==
  ASSUME NEW s, Typed(s), NEW p \in Port, s.cable[p] = "active", NEW fail, Failure(fail),
         NEW t, t = Enabled(s, p, fail)
  PROVE  /\ Handled(s, t.s, p)
         /\ fail[1] = "none" => t.ok = TRUE
         /\ t.ok = TRUE \/ t.ok = FALSE
         /\ \A n \in Nbr : At(s, p, n) /\ Uncounted(s, p, n) =>
              AtMost(t.s, p, n) /\ (t.ok = TRUE => Active(t.s, p, n))
<1>1. PICK D : D = Neighbors(s, p)
  OBVIOUS
<1>2. PICK F : F = Fails(fail, "neighbor")
  OBVIOUS
<1>3. PICK T : T = Fails(fail, "tunnel")
  OBVIOUS
<1>4. PICK U : U = Unroutable(s, fail)
  OBVIOUS
<1>5. PICK R : R = Reached(s, D, fail)
  OBVIOUS
<1>6. PICK G : G = R \ U
  OBVIOUS
<1>7. PICK M : M = {n \in D \ F : s.known[n] # "none" /\ n \notin s.hw /\ isNeighborActive(s, n)}
  OBVIOUS
<1>8. PICK a : a = CreateNeighbors(s, M)
  OBVIOUS
<1>9. PICK b : b = HoldLocal(a, p, R)
  OBVIOUS
<1>10. PICK c : c = updateNextHopRoutes(b, G)
  OBVIOUS
<1>11. PICK d : d = increaseNextHopRefCount(c, G, RouteCount(s))
  OBVIOUS
<1>12. PICK B : B = d.table \ G
  OBVIOUS
<1>13. PICK e : e = WithTunnels(d, d.asicTunnel, B)
  OBVIOUS
<1>14. PICK A : A = d.asicTunnel \ (D \ T)
  OBVIOUS
<1>15. PICK h : h = WithTunnels(d, A, B)
  OBVIOUS
<1>sub. /\ D \in SUBSET Nbr /\ M \in SUBSET Nbr /\ R \in SUBSET Nbr /\ G \in SUBSET Nbr
        /\ M \subseteq D /\ R \subseteq D /\ G \subseteq R
  BY <1>1, <1>5, <1>6, <1>7 DEF Neighbors, Reached
<1>a. /\ Typed(a) /\ SameMux(s, a) /\ SameRoute(s, a) /\ SameTunnel(s, a) /\ SameRest(s, a)
      /\ a.known = s.known /\ a.hw = s.hw \cup M
      /\ \A n \in Nbr : /\ a.gen[n] = IF n \in M THEN s.gen[n] + 1 ELSE s.gen[n]
                        /\ a.nh[n] = IF n \in M THEN s.gen[n] + 1 ELSE s.nh[n]
                        /\ a.ref[n] = IF n \in M THEN 0 ELSE s.ref[n]
  BY <1>8, <1>sub, CreateDoes
<1>b. /\ Typed(b) /\ SameButNbrs(a, b)
      /\ \A q \in Port, n \in Nbr :
           b.nbrs[q][n] = IF q = p /\ n \in R THEN getLocalNextHopId(a, n) ELSE a.nbrs[q][n]
  BY <1>9, <1>a, <1>sub, HoldLocalDoes
<1>c. /\ Typed(c) /\ SameMux(b, c) /\ SameTunnel(b, c) /\ SameRest(b, c)
      /\ c.known = b.known /\ c.hw = b.hw /\ c.ref = b.ref /\ c.gen = b.gen /\ c.via = b.via
      /\ \A n \in Nbr : c.nh[n] = IF n \in G \cap Routed(b) /\ ~hasNextHop(b, n)
                                  THEN Null ELSE b.nh[n]
      /\ \A r \in Route : c.asicRoute[r] = IF b.via[r] \in G
                                           THEN getNextHopId(b, b.via[r]) ELSE b.asicRoute[r]
  BY <1>10, <1>b, <1>sub, RoutesDo
<1>d. /\ Typed(d) /\ SameMux(c, d) /\ SameRoute(c, d) /\ SameTunnel(c, d) /\ SameRest(c, d)
      /\ d.known = c.known /\ d.hw = c.hw /\ d.nh = c.nh /\ d.gen = c.gen
      /\ \A n \in Nbr : d.ref[n] = IF n \in G /\ c.nh[n] # Absent
                                   THEN c.ref[n] + RouteCount(s)[n] ELSE c.ref[n]
  <2>1. PICK k : k = RouteCount(s)
    OBVIOUS
  <2>2. k \in [Nbr -> Nat]
    BY <2>1, CountType
  <2>3. Typed(c)
    BY <1>c
  <2>4. G \in SUBSET Nbr
    BY <1>sub
  <2>5. d = increaseNextHopRefCount(c, G, k)
    BY <1>11, <2>1
  <2>6. /\ Typed(d) /\ SameMux(c, d) /\ SameRoute(c, d) /\ SameTunnel(c, d) /\ SameRest(c, d)
        /\ d.known = c.known /\ d.hw = c.hw /\ d.nh = c.nh /\ d.gen = c.gen
        /\ \A n \in Nbr : d.ref[n] = IF n \in G /\ c.nh[n] # Absent THEN c.ref[n] + k[n] ELSE c.ref[n]
    BY <2>2, <2>3, <2>4, <2>5, IncreaseDoes
  <2> QED BY <2>1, <2>6
<1>t. d.asicTunnel \in SUBSET Nbr /\ A \in SUBSET Nbr /\ B \in SUBSET Nbr
  BY <1>12, <1>14, <1>d DEF Typed, State
<1>e. /\ Typed(e) /\ SameMux(d, e) /\ SameNeigh(d, e) /\ SameRoute(d, e) /\ SameRest(d, e)
      /\ e.asicTunnel = d.asicTunnel /\ e.table = B
  BY <1>13, <1>d, <1>t, TunnelDoes
<1>h. /\ Typed(h) /\ SameMux(d, h) /\ SameNeigh(d, h) /\ SameRoute(d, h) /\ SameRest(d, h)
      /\ h.asicTunnel = A /\ h.table = B
  BY <1>15, <1>d, <1>t, TunnelDoes
<1>16. t = IF F \cap (D \ s.hw) # {} THEN [ok |-> FALSE, s |-> a]
           ELSE IF U # {} THEN [ok |-> FALSE, s |-> e]
           ELSE [ok |-> T = {}, s |-> h]
  <2>1. a = enableNeighbors(s, D \ F)
    BY <1>7, <1>8 DEF enableNeighbors
  <2>2. e = [d EXCEPT !.table = @ \ G]
    BY <1>12, <1>13, <1>d DEF WithTunnels, Typed, State
  <2>3. h = [[d EXCEPT !.table = @ \ G] EXCEPT !.asicTunnel = @ \ (D \ T)]
    BY <1>12, <1>14, <1>15, <1>d DEF WithTunnels, Typed, State
  <2> QED BY <1>1, <1>2, <1>3, <1>4, <1>5, <1>6, <1>9, <1>10, <1>11, <2>1, <2>2, <2>3 DEF Enabled
<1>17. \A n \in Nbr : At(s, p, n) <=> n \in D
  BY <1>1 DEF At, Neighbors
<1>18. Handled(s, a, p)
  <2>1. Kept(s, a) /\ a.excused = s.excused /\ a.nbrs = s.nbrs
    BY <1>a DEF Kept, SameMux, SameRoute, SameRest
  <2>2. ASSUME NEW m \in Nbr \ D PROVE SameAt(s, a, m)
    BY <1>a, <1>sub DEF SameAt, SameMux, SameRoute, SameTunnel, SameRest
  <2> QED BY <1>17, <1>a, <2>1, <2>2 DEF Handled, At
<1>19. /\ Kept(s, d) /\ d.excused = s.excused
       /\ \A q \in Port \ {p}, n \in Nbr : d.nbrs[q][n] = s.nbrs[q][n]
       /\ \A n \in Nbr : d.nbrs[p][n] = IF n \in R THEN getLocalNextHopId(a, n) ELSE s.nbrs[p][n]
  <2>1. Kept(s, d) /\ d.excused = s.excused
    BY <1>a, <1>b, <1>c, <1>d DEF Kept, SameMux, SameNeigh, SameRoute, SameRest, SameButNbrs
  <2>2. a.nbrs = s.nbrs /\ d.nbrs = b.nbrs
    BY <1>a, <1>c, <1>d DEF SameMux
  <2> QED BY <1>b, <2>1, <2>2
<1>20. \A n \in Nbr : At(d, p, n) <=> At(s, p, n)
  <2> TAKE n \in Nbr
  <2>1. getLocalNextHopId(a, n) # Absent
    BY <1>a, LookupType DEF Absent
  <2> QED BY <1>17, <1>19, <1>sub, <2>1 DEF At
<1>21. ASSUME NEW m \in Nbr \ D
       PROVE  /\ d.nh[m] = s.nh[m] /\ d.ref[m] = s.ref[m] /\ (m \in d.hw <=> m \in s.hw)
              /\ (m \in d.asicTunnel <=> m \in s.asicTunnel) /\ (m \in d.table <=> m \in s.table)
              /\ \A r \in Route : s.via[r] = m => d.asicRoute[r] = s.asicRoute[r]
  <2>1. /\ d.nh[m] = s.nh[m] /\ d.ref[m] = s.ref[m] /\ (m \in d.hw <=> m \in s.hw)
        /\ (m \in d.asicTunnel <=> m \in s.asicTunnel) /\ (m \in d.table <=> m \in s.table)
    BY <1>a, <1>b, <1>c, <1>d, <1>sub DEF SameButNbrs, SameNeigh, SameTunnel
  <2>2. \A r \in Route : s.via[r] = m => d.asicRoute[r] = s.asicRoute[r]
    BY <1>a, <1>b, <1>c, <1>d, <1>sub DEF SameButNbrs, SameRoute
  <2> QED BY <2>1, <2>2
<1>22. ASSUME NEW x, Typed(x), SameMux(d, x), SameNeigh(d, x), SameRoute(d, x), SameRest(d, x),
              \A m \in Nbr \ D : /\ m \in x.asicTunnel <=> m \in d.asicTunnel
                                 /\ m \in x.table <=> m \in d.table
       PROVE  Handled(s, x, p)
  <2>1. Kept(s, x) /\ x.excused = s.excused /\ x.nbrs = d.nbrs
    BY <1>19, <1>22 DEF Kept, SameMux, SameNeigh, SameRoute, SameRest
  <2>2. ASSUME NEW m \in Nbr \ D PROVE SameAt(s, x, m)
    <3>1. \A q \in Port : x.nbrs[q][m] = s.nbrs[q][m]
      BY <1>19, <1>sub, <2>1
    <3>2. /\ x.nh[m] = s.nh[m] /\ x.ref[m] = s.ref[m] /\ (m \in x.hw <=> m \in s.hw)
          /\ (m \in x.asicTunnel <=> m \in s.asicTunnel) /\ (m \in x.table <=> m \in s.table)
          /\ \A r \in Route : s.via[r] = m => x.asicRoute[r] = s.asicRoute[r]
      BY <1>21, <1>22 DEF SameNeigh, SameRoute
    <3> QED BY <2>1, <3>1, <3>2 DEF SameAt, Kept
  <2>3. \A n \in Nbr : At(x, p, n) <=> At(s, p, n)
    BY <1>20, <2>1 DEF At
  <2> QED BY <1>17, <1>19, <1>22, <2>1, <2>2, <2>3 DEF Handled
<1>23. Handled(s, e, p)
  <2>1. \A m \in Nbr \ D : (m \in e.asicTunnel <=> m \in d.asicTunnel) /\ (m \in e.table <=> m \in d.table)
    BY <1>12, <1>e, <1>sub
  <2> QED BY <1>22, <1>e, <2>1
<1>24. Handled(s, h, p)
  <2>1. \A m \in Nbr \ D : (m \in h.asicTunnel <=> m \in d.asicTunnel) /\ (m \in h.table <=> m \in d.table)
    BY <1>12, <1>14, <1>h, <1>sub
  <2> QED BY <1>22, <1>h, <2>1
<1>25. ASSUME NEW n \in D, Uncounted(s, p, n)
       PROVE  Uncounted(a, p, n) /\ (F \cap (D \ s.hw) = {} => n \in a.hw)
  <2>n. n \in Nbr
    BY <1>25, <1>sub
  <2>1. a.gen[n] \in Nat /\ s.gen[n] \in Nat
    BY <1>a, <2>n DEF Typed, State
  <2>2. a.known[n] = "mac" /\ Belongs(a, p, n) /\ a.tb[n] = p
    BY <1>25, <1>a DEF Uncounted, Between, Belongs, SameMux, SameRest
  <2>3. CASE n \in M
    <3>1. a.nh[n] # Absent /\ a.nh[n] # Null /\ n \in a.hw /\ a.ref[n] = 0
      BY <1>a, <2>1, <2>3, <2>n DEF Absent, Null
    <3> QED BY <2>2, <3>1 DEF Uncounted, Between
  <2>4. CASE n \notin M
    <3>1. a.nh[n] = s.nh[n] /\ (n \in a.hw <=> n \in s.hw) /\ a.ref[n] = s.ref[n]
      BY <1>a, <2>4, <2>n
    <3>2. isNeighborActive(s, n)
      <4>1. Belongs(s, p, n) /\ s.tb[n] \in {p, NoName, NoEntry}
        BY <1>25 DEF Uncounted, Between
      <4> QED BY <2>n, <4>1, BelongsActive
    <3>3. n \in s.hw \/ n \in F
      BY <1>7, <1>25, <2>4, <3>2 DEF Uncounted, Between
    <3>4. F \cap (D \ s.hw) = {} => n \in s.hw
      BY <1>25, <3>3
    <3> QED BY <1>25, <2>2, <3>1, <3>4 DEF Uncounted, Between
  <2> QED BY <2>3, <2>4
<1>26. ASSUME NEW n \in Nbr, NEW x, x.via = s.via PROVE Count(x, n) = Count(s, n) /\ Count(s, n) \in Nat
  BY <1>26, CountType DEF Count, RoutesOf
<1>27. ASSUME NEW n \in D, Uncounted(s, p, n) PROVE AtMost(a, p, n)
  <2>1. a.via = s.via /\ n \in Nbr
    BY <1>27, <1>a, <1>sub DEF SameRoute
  <2> QED BY <1>25, <1>26, <1>27, <2>1 DEF Uncounted, AtMost
<1>28. ASSUME NEW n \in D, Uncounted(s, p, n), F \cap (D \ s.hw) = {}
       PROVE  /\ d.known[n] = "mac" /\ d.fdb[n] = s.fdb[n] /\ d.tb[n] = p
              /\ n \in d.hw /\ d.nh[n] # Absent /\ d.nh[n] # Null
              /\ d.ref[n] = IF n \in G THEN Count(s, n) ELSE 0
              /\ d.via = s.via
              /\ n \in G => /\ d.nbrs[p][n] = d.nh[n]
                            /\ \A r \in Route : d.via[r] = n => d.asicRoute[r] = d.nh[n]
  <2>n. n \in Nbr
    BY <1>28, <1>sub
  <2>1. Uncounted(a, p, n) /\ n \in a.hw
    BY <1>25, <1>28
  <2>2. a.nh[n] # Absent /\ a.nh[n] # Null /\ a.ref[n] = 0 /\ a.tb[n] = p /\ a.known[n] = "mac"
    BY <2>1 DEF Uncounted, Between
  <2>3. b.nh = a.nh /\ b.ref = a.ref /\ b.tb = a.tb /\ b.hw = a.hw /\ b.via = s.via /\ b.cable = s.cable
    BY <1>a, <1>b DEF SameButNbrs, SameNeigh, SameMux, SameRoute
  <2>4. hasNextHop(b, n)
    BY <2>2, <2>3 DEF hasNextHop
  <2>5. c.nh[n] = a.nh[n]
    BY <1>c, <2>3, <2>4, <2>n
  <2>6. d.nh[n] = a.nh[n] /\ n \in d.hw /\ d.tb[n] = p /\ d.known[n] = "mac" /\ d.via = s.via
    BY <1>19, <1>b, <1>c, <1>d, <2>1, <2>2, <2>3, <2>5 DEF Kept, SameButNbrs, SameNeigh, SameMux
  <2>7. d.ref[n] = IF n \in G THEN Count(s, n) ELSE 0
    <3>1. Count(s, n) \in Nat /\ RouteCount(s)[n] = Count(s, n)
      BY <2>n, CountType
    <3>2. c.ref[n] = 0 /\ c.nh[n] # Absent
      BY <1>c, <2>2, <2>3, <2>5
    <3> QED BY <1>d, <2>n, <3>1, <3>2
  <2>8. ASSUME n \in G
        PROVE  /\ d.nbrs[p][n] = d.nh[n]
               /\ \A r \in Route : d.via[r] = n => d.asicRoute[r] = d.nh[n]
    <3>1. b.nbrs[p][n] = a.nh[n]
      BY <1>b, <1>sub, <2>2, <2>8, <2>n DEF getLocalNextHopId
    <3>2. getNextHopId(b, n) = a.nh[n]
      BY <2>2, <2>3, <3>1, <2>n DEF getNextHopId, muxNextHopId, isMuxExists
    <3>3. d.nbrs[p][n] = a.nh[n]
      BY <1>c, <1>d, <3>1 DEF SameMux
    <3>4. ASSUME NEW r \in Route, d.via[r] = n PROVE d.asicRoute[r] = a.nh[n]
      <4>1. b.via[r] = n
        BY <2>3, <2>6, <3>4
      <4>2. c.asicRoute[r] = a.nh[n]
        BY <1>c, <2>8, <3>2, <4>1
      <4> QED BY <1>d, <4>2 DEF SameRoute
    <3> QED BY <2>6, <3>3, <3>4
  <2>9. d.fdb[n] = s.fdb[n]
    BY <1>19 DEF Kept
  <2> QED BY <2>2, <2>6, <2>7, <2>8, <2>9
<1>29. ASSUME NEW n \in D, Uncounted(s, p, n), F \cap (D \ s.hw) = {}, NEW x,
              SameMux(d, x), SameNeigh(d, x), SameRoute(d, x), SameRest(d, x)
       PROVE  AtMost(x, p, n)
  <2>n. n \in Nbr
    BY <1>29, <1>sub
  <2>1. /\ x.known[n] = "mac" /\ x.fdb[n] = s.fdb[n] /\ x.tb[n] = p
        /\ n \in x.hw /\ x.nh[n] # Absent /\ x.nh[n] # Null
        /\ x.ref[n] = IF n \in G THEN Count(s, n) ELSE 0
        /\ x.via = s.via
    BY <1>28, <1>29 DEF SameMux, SameNeigh, SameRoute, SameRest
  <2>2. Belongs(x, p, n)
    BY <1>29, <2>1 DEF Uncounted, Between, Belongs
  <2>3. x.ref[n] <= Count(x, n)
    BY <1>26, <2>1, <2>n
  <2> QED BY <2>1, <2>2, <2>3 DEF AtMost, Between
<1>30. ASSUME NEW n \in D, Uncounted(s, p, n), F \cap (D \ s.hw) = {}, U = {}, T = {}
       PROVE  Active(h, p, n)
  <2>n. n \in Nbr
    BY <1>30, <1>sub
  <2>1. n \in G
    BY <1>4, <1>5, <1>6, <1>30 DEF Reached
  <2>2. h.via = s.via /\ h.nh = d.nh /\ h.ref = d.ref /\ h.hw = d.hw /\ h.nbrs = d.nbrs
        /\ h.asicRoute = d.asicRoute
    BY <1>19, <1>h DEF SameMux, SameNeigh, SameRoute, Kept
  <2>3. n \notin h.asicTunnel /\ n \notin h.table
    BY <1>12, <1>14, <1>h, <1>30, <2>1
  <2>4. h.ref[n] = Count(h, n)
    BY <1>26, <1>28, <1>30, <2>1, <2>2, <2>n
  <2> QED BY <1>28, <1>30, <2>1, <2>2, <2>3, <2>4 DEF Active
<1>31. fail[1] = "none" => F = {} /\ U = {} /\ T = {}
  <2>1. fail[1] = "none" => fail[1] # "neighbor" /\ fail[1] # "route" /\ fail[1] # "tunnel"
    OBVIOUS
  <2> QED BY <1>2, <1>3, <1>4, <2>1 DEF Fails, Unroutable
<1>32. CASE F \cap (D \ s.hw) # {}
  <2>1. t.s = a /\ t.ok = FALSE
    BY <1>16, <1>32
  <2>2. fail[1] # "none"
    BY <1>31, <1>32
  <2> QED BY <1>17, <1>18, <1>27, <2>1, <2>2
<1>33. CASE F \cap (D \ s.hw) = {} /\ U # {}
  <2>1. t.s = e /\ t.ok = FALSE
    BY <1>16, <1>33
  <2>2. fail[1] # "none"
    BY <1>31, <1>33
  <2>3. \A n \in D : Uncounted(s, p, n) => AtMost(e, p, n)
    BY <1>29, <1>33, <1>e
  <2> QED BY <1>17, <1>23, <2>1, <2>2, <2>3
<1>34. CASE F \cap (D \ s.hw) = {} /\ U = {}
  <2>1. t = [ok |-> T = {}, s |-> h]
    BY <1>16, <1>34
  <2>2. t.s = h /\ (t.ok = TRUE <=> T = {}) /\ (t.ok = TRUE \/ t.ok = FALSE)
    <3>1. CASE T = {}
      <4>1. t = [ok |-> TRUE, s |-> h]
        BY <2>1, <3>1, Zenon
      <4> QED BY <3>1, <4>1
    <3>2. CASE T # {}
      <4>1. t = [ok |-> FALSE, s |-> h]
        BY <2>1, <3>2
      <4> QED BY <3>2, <4>1
    <3> QED BY <3>1, <3>2
  <2>3. \A n \in D : Uncounted(s, p, n) => AtMost(h, p, n)
    BY <1>29, <1>34, <1>h
  <2>4. T = {} => \A n \in D : Uncounted(s, p, n) => Active(h, p, n)
    BY <1>30, <1>34
  <2> QED BY <1>17, <1>24, <1>31, <2>2, <2>3, <2>4
<1> QED BY <1>32, <1>33, <1>34

\* A failure to set a route keeps these neighbours from being uncounted.
Skipped(s, fail, n) == fail[1] = "route" /\ n >= fail[2] /\ n \in Routed(s)

\* MuxNbrHandler::disable takes every neighbour out, or leaves what a roll-back
\* can put in again, but for the neighbours it skipped.
LEMMA DisabledDoes ==
  ASSUME NEW s, Typed(s), NEW p \in Port, s.cable[p] = "standby", NEW fail, Failure(fail),
         NEW t, t = Disabled(s, p, fail)
  PROVE  /\ Handled(s, t.s, p)
         /\ fail[1] = "none" => t.ok = TRUE
         /\ t.ok = TRUE \/ t.ok = FALSE
         /\ \A n \in Nbr : At(s, p, n) /\ AtMost(s, p, n) =>
              /\ ~Skipped(s, fail, n) => Uncounted(t.s, p, n)
              /\ t.ok = TRUE => Standby(t.s, p, n)
<1>1. PICK D : D = Neighbors(s, p)
  OBVIOUS
<1>2. PICK F : F = Fails(fail, "neighbor")
  OBVIOUS
<1>3. PICK T : T = Fails(fail, "tunnel") \ s.asicTunnel
  OBVIOUS
<1>4. PICK U : U = Unroutable(s, fail)
  OBVIOUS
<1>5. PICK R : R = Reached(s, D, fail)
  OBVIOUS
<1>6. PICK G : G = R \ U
  OBVIOUS
<1>7. PICK a : a = HoldTunnel(s, p, R)
  OBVIOUS
<1>8. PICK b : b = updateNextHopRoutes(a, G)
  OBVIOUS
<1>9. PICK c : c = decreaseNextHopRefCount(b, G, RouteCount(s))
  OBVIOUS
<1>10. PICK B : B = c.table \cup G
  OBVIOUS
<1>11. PICK e : e = WithTunnels(c, c.asicTunnel, B)
  OBVIOUS
<1>12. PICK A : A = c.asicTunnel \cup (D \ T)
  OBVIOUS
<1>13. PICK f : f = WithTunnels(c, A, B)
  OBVIOUS
<1>14. PICK M : M = {n \in D \ F : f.known[n] # "none" /\ n \in f.hw /\ f.ref[n] <= 0}
  OBVIOUS
<1>15. PICK h : h = DestroyNeighbors(f, M)
  OBVIOUS
<1>sub. /\ D \in SUBSET Nbr /\ M \in SUBSET Nbr /\ R \in SUBSET Nbr /\ G \in SUBSET Nbr
        /\ M \subseteq D /\ R \subseteq D /\ G \subseteq R
  BY <1>1, <1>5, <1>6, <1>14 DEF Neighbors, Reached
<1>a. /\ Typed(a) /\ SameButNbrs(s, a)
      /\ \A q \in Port, n \in Nbr : a.nbrs[q][n] = IF q = p /\ n \in R THEN Tunnel ELSE s.nbrs[q][n]
  BY <1>7, <1>sub, HoldTunnelDoes
<1>b. /\ Typed(b) /\ SameMux(a, b) /\ SameTunnel(a, b) /\ SameRest(a, b)
      /\ b.known = a.known /\ b.hw = a.hw /\ b.ref = a.ref /\ b.gen = a.gen /\ b.via = a.via
      /\ \A n \in Nbr : b.nh[n] = IF n \in G \cap Routed(a) /\ ~hasNextHop(a, n)
                                  THEN Null ELSE a.nh[n]
      /\ \A r \in Route : b.asicRoute[r] = IF a.via[r] \in G
                                           THEN getNextHopId(a, a.via[r]) ELSE a.asicRoute[r]
  BY <1>8, <1>a, <1>sub, RoutesDo
<1>c. /\ Typed(c) /\ SameMux(b, c) /\ SameRoute(b, c) /\ SameTunnel(b, c) /\ SameRest(b, c)
      /\ c.known = b.known /\ c.hw = b.hw /\ c.nh = b.nh /\ c.gen = b.gen
      /\ \A n \in Nbr : c.ref[n] = IF n \in G /\ b.nh[n] # Absent
                                   THEN Less(b.ref[n], Count(s, n)) ELSE b.ref[n]
  <2>1. PICK k : k = RouteCount(s)
    OBVIOUS
  <2>2. k \in [Nbr -> Nat] /\ \A n \in Nbr : k[n] = Count(s, n)
    BY <2>1, CountType
  <2>3. Typed(b)
    BY <1>b
  <2>4. G \in SUBSET Nbr
    BY <1>sub
  <2>5. c = decreaseNextHopRefCount(b, G, k)
    BY <1>9, <2>1
  <2>6. /\ Typed(c) /\ SameMux(b, c) /\ SameRoute(b, c) /\ SameTunnel(b, c) /\ SameRest(b, c)
        /\ c.known = b.known /\ c.hw = b.hw /\ c.nh = b.nh /\ c.gen = b.gen
        /\ \A n \in Nbr : c.ref[n] = IF n \in G /\ b.nh[n] # Absent THEN Less(b.ref[n], k[n]) ELSE b.ref[n]
    BY <2>2, <2>3, <2>4, <2>5, DecreaseDoes
  <2> QED BY <2>2, <2>6
<1>t. c.asicTunnel \in SUBSET Nbr /\ A \in SUBSET Nbr /\ B \in SUBSET Nbr
  BY <1>10, <1>12, <1>c, <1>sub DEF Typed, State
<1>e. /\ Typed(e) /\ SameMux(c, e) /\ SameNeigh(c, e) /\ SameRoute(c, e) /\ SameRest(c, e)
      /\ e.asicTunnel = c.asicTunnel /\ e.table = B
  BY <1>11, <1>c, <1>t, TunnelDoes
<1>f. /\ Typed(f) /\ SameMux(c, f) /\ SameNeigh(c, f) /\ SameRoute(c, f) /\ SameRest(c, f)
      /\ f.asicTunnel = A /\ f.table = B
  BY <1>13, <1>c, <1>t, TunnelDoes
<1>h. /\ Typed(h) /\ SameMux(f, h) /\ SameRoute(f, h) /\ SameTunnel(f, h) /\ SameRest(f, h)
      /\ h.known = f.known /\ h.gen = f.gen /\ h.hw = f.hw \ M
      /\ \A n \in Nbr : /\ h.nh[n] = IF n \in M THEN Absent ELSE f.nh[n]
                        /\ h.ref[n] = IF n \in M THEN 0 ELSE f.ref[n]
  BY <1>15, <1>f, <1>sub, DestroyDoes
<1>16. t = IF U # {} THEN [ok |-> FALSE, s |-> e]
           ELSE IF T # {} THEN [ok |-> FALSE, s |-> f]
           ELSE [ok |-> {n \in F \cap s.hw : e.ref[n] = 0} = {}, s |-> h]
  <2>1. h = disableNeighbors(f, D \ F)
    BY <1>14, <1>15 DEF disableNeighbors
  <2>2. e = [c EXCEPT !.table = @ \cup G]
    BY <1>10, <1>11, <1>c DEF WithTunnels, Typed, State
  <2>3. f = [[c EXCEPT !.table = @ \cup G] EXCEPT !.asicTunnel = @ \cup (D \ T)]
    BY <1>10, <1>12, <1>13, <1>c DEF WithTunnels, Typed, State
  <2> QED BY <1>1, <1>2, <1>3, <1>4, <1>5, <1>6, <1>7, <1>8, <1>9, <2>1, <2>2, <2>3 DEF Disabled
<1>17. \A n \in Nbr : At(s, p, n) <=> n \in D
  BY <1>1 DEF At, Neighbors
<1>19. /\ Kept(s, c) /\ c.excused = s.excused /\ c.hw = s.hw
       /\ \A q \in Port \ {p}, n \in Nbr : c.nbrs[q][n] = s.nbrs[q][n]
       /\ \A n \in Nbr : c.nbrs[p][n] = IF n \in R THEN Tunnel ELSE s.nbrs[p][n]
  <2>1. Kept(s, c) /\ c.excused = s.excused /\ c.hw = s.hw
    BY <1>a, <1>b, <1>c DEF Kept, SameMux, SameNeigh, SameRoute, SameRest, SameButNbrs
  <2>2. c.nbrs = a.nbrs
    BY <1>b, <1>c DEF SameMux
  <2> QED BY <1>a, <2>1, <2>2
<1>20. \A n \in Nbr : At(c, p, n) <=> At(s, p, n)
  BY <1>17, <1>19, <1>sub, Codes DEF At
<1>21. ASSUME NEW m \in Nbr \ D
       PROVE  /\ c.nh[m] = s.nh[m] /\ c.ref[m] = s.ref[m] /\ (m \in c.hw <=> m \in s.hw)
              /\ (m \in c.asicTunnel <=> m \in s.asicTunnel) /\ (m \in c.table <=> m \in s.table)
              /\ \A r \in Route : s.via[r] = m => c.asicRoute[r] = s.asicRoute[r]
  <2>1. /\ c.nh[m] = s.nh[m] /\ c.ref[m] = s.ref[m] /\ (m \in c.hw <=> m \in s.hw)
        /\ (m \in c.asicTunnel <=> m \in s.asicTunnel) /\ (m \in c.table <=> m \in s.table)
    BY <1>a, <1>b, <1>c, <1>sub DEF SameButNbrs, SameNeigh, SameTunnel
  <2>2. \A r \in Route : s.via[r] = m => c.asicRoute[r] = s.asicRoute[r]
    BY <1>a, <1>b, <1>c, <1>sub DEF SameButNbrs, SameRoute
  <2> QED BY <2>1, <2>2
<1>22. ASSUME NEW x, Typed(x), SameMux(c, x), SameRoute(c, x), SameRest(c, x), x.known = c.known,
              \A m \in Nbr \ D : /\ x.nh[m] = c.nh[m] /\ x.ref[m] = c.ref[m]
                                 /\ m \in x.hw <=> m \in c.hw
                                 /\ m \in x.asicTunnel <=> m \in c.asicTunnel
                                 /\ m \in x.table <=> m \in c.table
       PROVE  Handled(s, x, p)
  <2>1. Kept(s, x) /\ x.excused = s.excused /\ x.nbrs = c.nbrs
    BY <1>19, <1>22 DEF Kept, SameMux, SameRoute, SameRest
  <2>2. ASSUME NEW m \in Nbr \ D PROVE SameAt(s, x, m)
    <3>1. \A q \in Port : x.nbrs[q][m] = s.nbrs[q][m]
      BY <1>19, <1>sub, <2>1
    <3>2. /\ x.nh[m] = s.nh[m] /\ x.ref[m] = s.ref[m] /\ (m \in x.hw <=> m \in s.hw)
          /\ (m \in x.asicTunnel <=> m \in s.asicTunnel) /\ (m \in x.table <=> m \in s.table)
          /\ \A r \in Route : s.via[r] = m => x.asicRoute[r] = s.asicRoute[r]
      BY <1>21, <1>22 DEF SameRoute
    <3> QED BY <2>1, <3>1, <3>2 DEF SameAt, Kept
  <2>3. \A n \in Nbr : At(x, p, n) <=> At(s, p, n)
    BY <1>20, <2>1 DEF At
  <2> QED BY <1>17, <1>19, <1>22, <2>1, <2>2, <2>3 DEF Handled
<1>23. Handled(s, e, p)
  <2>1. \A m \in Nbr \ D : /\ e.nh[m] = c.nh[m] /\ e.ref[m] = c.ref[m]
                           /\ m \in e.hw <=> m \in c.hw
                           /\ m \in e.asicTunnel <=> m \in c.asicTunnel
                           /\ m \in e.table <=> m \in c.table
    BY <1>10, <1>e, <1>sub DEF SameNeigh
  <2>2. e.known = c.known
    BY <1>e DEF SameNeigh
  <2> QED BY <1>22, <1>e, <2>1, <2>2
<1>24. Handled(s, f, p)
  <2>1. \A m \in Nbr \ D : /\ f.nh[m] = c.nh[m] /\ f.ref[m] = c.ref[m]
                           /\ m \in f.hw <=> m \in c.hw
                           /\ m \in f.asicTunnel <=> m \in c.asicTunnel
                           /\ m \in f.table <=> m \in c.table
    BY <1>10, <1>12, <1>f, <1>sub DEF SameNeigh
  <2>2. f.known = c.known
    BY <1>f DEF SameNeigh
  <2> QED BY <1>22, <1>f, <2>1, <2>2
<1>25. Handled(s, h, p)
  <2>1. \A m \in Nbr \ D : /\ h.nh[m] = c.nh[m] /\ h.ref[m] = c.ref[m]
                           /\ m \in h.hw <=> m \in c.hw
                           /\ m \in h.asicTunnel <=> m \in c.asicTunnel
                           /\ m \in h.table <=> m \in c.table
    BY <1>10, <1>12, <1>f, <1>h, <1>sub DEF SameNeigh, SameTunnel
  <2>2. h.known = c.known /\ SameMux(c, h) /\ SameRoute(c, h) /\ SameRest(c, h)
    BY <1>f, <1>h DEF SameNeigh, SameMux, SameRoute, SameRest
  <2>3. Typed(h)
    BY <1>h
  <2> QED BY <1>22, <2>1, <2>2, <2>3
<1>26. ASSUME NEW n \in D, AtMost(s, p, n)
       PROVE  /\ c.known[n] = "mac" /\ Belongs(c, p, n) /\ c.tb[n] = p
              /\ c.nh[n] = s.nh[n] /\ (n \in c.hw <=> c.nh[n] # Absent) /\ c.nh[n] # Null
              /\ (n \in G \/ n \notin Routed(s)) => (c.nh[n] # Absent => c.ref[n] = 0)
              /\ n \in G => \A r \in Route : c.via[r] = n => c.asicRoute[r] = Tunnel
  <2>n. n \in Nbr
    BY <1>26, <1>sub
  <2>1. c.known[n] = "mac" /\ Belongs(c, p, n) /\ c.tb[n] = p
    BY <1>19, <1>26 DEF Kept, AtMost, Between, Belongs
  <2>2. a.nh = s.nh /\ a.ref = s.ref /\ a.tb = s.tb /\ a.hw = s.hw /\ a.via = s.via /\ a.cable = s.cable
    BY <1>a DEF SameButNbrs, SameNeigh, SameRoute
  <2>3. n \in G => muxNextHopId(a, n) = Tunnel
    <3>1. n \in G => a.nbrs[p][n] = Tunnel
      BY <1>a, <1>sub, <2>n
    <3>2. a.tb[n] = p /\ a.cable[p] = "standby"
      BY <1>26, <2>2 DEF AtMost, Between
    <3> QED BY <3>1, <3>2, Codes DEF muxNextHopId, isMuxExists
  <2>4. n \in G => hasNextHop(a, n) /\ getNextHopId(a, n) = Tunnel
    BY <2>3, Codes DEF hasNextHop, getNextHopId
  <2>5. c.nh[n] = s.nh[n]
    BY <1>b, <1>c, <2>2, <2>4, <2>n
  <2>6. (n \in c.hw <=> c.nh[n] # Absent) /\ c.nh[n] # Null
    BY <1>19, <1>26, <2>5 DEF AtMost, Between
  <2>7. ASSUME n \in G \/ n \notin Routed(s), c.nh[n] # Absent PROVE c.ref[n] = 0
    <3>1. b.nh[n] # Absent /\ b.ref[n] = s.ref[n]
      BY <1>b, <1>c, <2>2, <2>7
    <3>2. s.ref[n] \in Nat /\ Count(s, n) \in Nat /\ (n \notin Routed(s) => Count(s, n) = 0)
      BY <2>n, CountType DEF Typed, State
    <3>3. s.ref[n] <= Count(s, n)
      BY <1>26, <2>5, <2>7 DEF AtMost
    <3>4. CASE n \in G
      <4>1. c.ref[n] = Less(s.ref[n], Count(s, n))
        BY <1>c, <2>n, <3>1, <3>4
      <4> QED BY <3>2, <3>3, <4>1 DEF Less
    <3>5. CASE n \notin G
      <4>1. c.ref[n] = s.ref[n]
        BY <1>c, <2>n, <3>1, <3>5
      <4>2. Count(s, n) = 0
        BY <2>7, <3>2, <3>5
      <4> QED BY <3>2, <3>3, <4>1, <4>2
    <3> QED BY <3>4, <3>5
  <2>8. ASSUME n \in G, NEW r \in Route, c.via[r] = n PROVE c.asicRoute[r] = Tunnel
    <3>1. a.via[r] = n
      BY <1>b, <1>c, <2>8 DEF SameRoute
    <3>2. b.asicRoute[r] = Tunnel
      BY <1>b, <2>4, <2>8, <3>1
    <3> QED BY <1>c, <3>2 DEF SameRoute
  <2> QED BY <2>1, <2>5, <2>6, <2>7, <2>8
<1>27. ASSUME NEW n \in D, ~Skipped(s, fail, n) PROVE n \in G \/ n \notin Routed(s)
  <2>1. SUFFICES ASSUME n \in Routed(s) PROVE n \in G
    OBVIOUS
  <2>2. CASE fail[1] # "route"
    <3>1. U = {}
      BY <1>4, <2>2 DEF Unroutable, Fails
    <3> QED BY <1>4, <1>5, <1>6, <1>27, <3>1 DEF Reached
  <2>3. CASE fail[1] = "route"
    <3>1. ~(n >= fail[2])
      BY <1>27, <2>1, <2>3 DEF Skipped
    <3>2. fail[2] \in Nat /\ n \in Nat
      BY <1>27, <1>sub, <2>3, MuxAssumption DEF Failure
    <3>3. \A m \in U : m = fail[2]
      BY <1>4, <2>3 DEF Unroutable, Fails
    <3>4. n \in R
      BY <1>4, <1>5, <1>27, <3>1, <3>2, <3>3 DEF Reached
    <3> QED BY <1>6, <3>1, <3>2, <3>3, <3>4
  <2> QED BY <2>2, <2>3
<1>28. ASSUME NEW n \in D, AtMost(s, p, n), ~Skipped(s, fail, n), NEW x,
              SameMux(c, x), SameNeigh(c, x), SameRest(c, x)
       PROVE  Uncounted(x, p, n)
  <2>1. /\ c.known[n] = "mac" /\ Belongs(c, p, n) /\ c.tb[n] = p
        /\ (n \in c.hw <=> c.nh[n] # Absent) /\ c.nh[n] # Null /\ (c.nh[n] # Absent => c.ref[n] = 0)
    BY <1>26, <1>27, <1>28
  <2>2. /\ x.known = c.known /\ x.fdb = c.fdb /\ x.tb = c.tb /\ x.hw = c.hw /\ x.nh = c.nh
        /\ x.ref = c.ref
    BY <1>28 DEF SameMux, SameNeigh, SameRest
  <2> QED BY <2>1, <2>2 DEF Uncounted, Between, Belongs
<1>29. ASSUME NEW n \in D, AtMost(s, p, n), U = {}, T = {}
       PROVE  /\ Uncounted(h, p, n)
              /\ {m \in F \cap s.hw : e.ref[m] = 0} = {} => Standby(h, p, n)
  <2>n. n \in Nbr
    BY <1>29, <1>sub
  <2>1. n \in G /\ G = D /\ R = D
    BY <1>4, <1>5, <1>6, <1>29 DEF Reached
  <2>2. /\ c.known[n] = "mac" /\ Belongs(c, p, n) /\ c.tb[n] = p
        /\ (n \in c.hw <=> c.nh[n] # Absent) /\ c.nh[n] # Null /\ (c.nh[n] # Absent => c.ref[n] = 0)
        /\ \A r \in Route : c.via[r] = n => c.asicRoute[r] = Tunnel
    BY <1>26, <1>29, <2>1
  <2>3. /\ f.known = c.known /\ f.fdb = c.fdb /\ f.tb = c.tb /\ f.hw = c.hw /\ f.nh = c.nh
        /\ f.ref = c.ref /\ e.ref = c.ref
    BY <1>e, <1>f DEF SameMux, SameNeigh, SameRest
  <2>4. /\ h.known = c.known /\ h.fdb = c.fdb /\ h.tb = c.tb /\ h.nbrs = c.nbrs /\ h.via = c.via
        /\ h.asicRoute = c.asicRoute /\ h.asicTunnel = A /\ h.table = B
    BY <1>f, <1>h DEF SameMux, SameNeigh, SameRoute, SameTunnel, SameRest
  <2>5. Uncounted(h, p, n)
    <3>1. Belongs(h, p, n)
      BY <2>2, <2>4 DEF Belongs
    <3>2. (n \in h.hw <=> h.nh[n] # Absent) /\ h.nh[n] # Null /\ (h.nh[n] # Absent => h.ref[n] = 0)
      BY <1>h, <2>2, <2>3, <2>n, Codes
    <3> QED BY <2>2, <2>4, <3>1, <3>2 DEF Uncounted, Between
  <2>6. ASSUME {m \in F \cap s.hw : e.ref[m] = 0} = {} PROVE Standby(h, p, n)
    <3>1. n \notin h.hw
      <4>1. CASE n \in c.hw
        <5>1. c.ref[n] = 0
          BY <2>2, <4>1
        <5>2. n \in s.hw
          BY <1>19, <4>1
        <5>3. n \notin F
          BY <2>3, <2>6, <5>1, <5>2
        <5>4. f.ref[n] <= 0
          BY <2>3, <5>1
        <5>5. f.known[n] # "none"
          BY <2>2, <2>3
        <5>6. n \in M
          BY <1>14, <1>29, <2>3, <4>1, <5>3, <5>4, <5>5
        <5> QED BY <1>h, <5>6
      <4>2. CASE n \notin c.hw
        BY <1>h, <2>3, <4>2
      <4> QED BY <4>1, <4>2
    <3>2. h.nh[n] = Absent
      BY <2>5, <3>1 DEF Uncounted, Between
    <3>3. h.nbrs[p][n] = Tunnel
      BY <1>19, <1>29, <2>1, <2>4, <2>n
    <3>4. n \in h.asicTunnel /\ n \in h.table
      BY <1>10, <1>12, <1>29, <2>1, <2>4
    <3> QED BY <2>2, <2>4, <3>1, <3>2, <3>3, <3>4 DEF Standby, Standing
  <2> QED BY <2>5, <2>6
<1>31. fail[1] = "none" => F = {} /\ U = {} /\ T = {}
  <2>1. fail[1] = "none" => fail[1] # "neighbor" /\ fail[1] # "route" /\ fail[1] # "tunnel"
    OBVIOUS
  <2> QED BY <1>2, <1>3, <1>4, <2>1 DEF Fails, Unroutable
<1>32. CASE U # {}
  <2>1. t.s = e /\ t.ok = FALSE
    BY <1>16, <1>32
  <2>2. fail[1] # "none"
    BY <1>31, <1>32
  <2>3. \A n \in D : AtMost(s, p, n) /\ ~Skipped(s, fail, n) => Uncounted(e, p, n)
    BY <1>28, <1>e
  <2> QED BY <1>17, <1>23, <2>1, <2>2, <2>3
<1>33. CASE U = {} /\ T # {}
  <2>1. t.s = f /\ t.ok = FALSE
    BY <1>16, <1>33
  <2>2. fail[1] # "none"
    BY <1>31, <1>33
  <2>3. \A n \in D : AtMost(s, p, n) /\ ~Skipped(s, fail, n) => Uncounted(f, p, n)
    BY <1>28, <1>f
  <2> QED BY <1>17, <1>24, <2>1, <2>2, <2>3
<1>34. CASE U = {} /\ T = {}
  <2>0. PICK W : W = {m \in F \cap s.hw : e.ref[m] = 0}
    OBVIOUS
  <2>1. t = [ok |-> W = {}, s |-> h]
    BY <1>16, <1>34, <2>0
  <2>2. t.s = h /\ (t.ok = TRUE <=> W = {}) /\ (t.ok = TRUE \/ t.ok = FALSE)
    <3>1. CASE W = {}
      <4>1. t = [ok |-> TRUE, s |-> h]
        BY <2>1, <3>1, Zenon
      <4> QED BY <3>1, <4>1
    <3>2. CASE W # {}
      <4>1. t = [ok |-> FALSE, s |-> h]
        BY <2>1, <3>2
      <4> QED BY <3>2, <4>1
    <3> QED BY <3>1, <3>2
  <2>3. \A n \in D : AtMost(s, p, n) => Uncounted(h, p, n)
    BY <1>29, <1>34
  <2>4. W = {} => \A n \in D : AtMost(s, p, n) => Standby(h, p, n)
    BY <1>29, <1>34, <2>0
  <2>5. fail[1] = "none" => W = {}
    BY <1>31, <2>0
  <2> QED BY <1>17, <1>25, <2>2, <2>3, <2>4, <2>5
<1> QED BY <1>32, <1>33, <1>34

\* A neighbour before its cable changes to a state, and one that a failed
\* change leaves so that the change back may begin.
Ready(s, p, n) == IF s.cable[p] = "active" THEN Uncounted(s, p, n) ELSE AtMost(s, p, n)
Returns(s, p, n) == IF s.cable[p] = "active" THEN AtMost(s, p, n) ELSE Uncounted(s, p, n)

\* MuxNbrHandler::enable and disable together.
LEMMA HandleDoes ==
  ASSUME NEW s, Typed(s), NEW p \in Port, NEW new \in {"active", "standby"}, s.cable[p] = new,
         NEW fail, Failure(fail), NEW t, t = Handle(s, p, new, fail)
  PROVE  /\ Handled(s, t.s, p)
         /\ fail[1] = "none" => t.ok = TRUE
         /\ t.ok = TRUE \/ t.ok = FALSE
         /\ \A n \in Nbr : At(s, p, n) /\ Ready(s, p, n) =>
              /\ Returns(t.s, p, n) \/ (new = "standby" /\ Skipped(s, fail, n))
              /\ t.ok = TRUE => Settles(t.s, p, n)
<1>1. CASE new = "active"
  <2>1. t = Enabled(s, p, fail) /\ s.cable[p] = "active"
    BY <1>1 DEF Handle
  <2>2. /\ Handled(s, t.s, p)
        /\ fail[1] = "none" => t.ok = TRUE
        /\ t.ok = TRUE \/ t.ok = FALSE
        /\ \A n \in Nbr : At(s, p, n) /\ Uncounted(s, p, n) =>
             AtMost(t.s, p, n) /\ (t.ok = TRUE => Active(t.s, p, n))
    BY <2>1, EnabledDoes
  <2>3. t.s.cable[p] = "active"
    BY <2>1, <2>2 DEF Handled, Kept
  <2> QED BY <2>1, <2>2, <2>3 DEF Ready, Returns, Settles
<1>2. CASE new = "standby"
  <2>1. t = Disabled(s, p, fail) /\ s.cable[p] = "standby"
    BY <1>2 DEF Handle
  <2>2. /\ Handled(s, t.s, p)
        /\ fail[1] = "none" => t.ok = TRUE
        /\ t.ok = TRUE \/ t.ok = FALSE
        /\ \A n \in Nbr : At(s, p, n) /\ AtMost(s, p, n) =>
             /\ ~Skipped(s, fail, n) => Uncounted(t.s, p, n)
             /\ t.ok = TRUE => Standby(t.s, p, n)
    BY <2>1, DisabledDoes
  <2>3. t.s.cable[p] = "standby"
    BY <2>1, <2>2 DEF Handled, Kept
  <2> QED BY <1>2, <2>1, <2>2, <2>3 DEF Ready, Returns, Settles
<1> QED BY <1>1, <1>2

\* What a neighbour of a cable looks like to the handler once the state of the
\* cable is set, before the change and before the change back.
LEMMA BecomesReady ==
  ASSUME NEW s, Typed(s), NEW p \in Port, s.cable[p] # "none", NEW new \in {"active", "standby"},
         s.cable[p] # new, NEW z, SameButCable(s, z), z.cable[p] = new, NEW n \in Nbr
  PROVE  /\ NInv(s, n) /\ At(s, p, n) => Ready(z, p, n)
         /\ Returns(s, p, n) => Ready(z, p, n)
<1>1. s.cable[p] \in {"active", "standby"}
  BY DEF Typed, State, CableState
<1>2. /\ z.known = s.known /\ z.hw = s.hw /\ z.nh = s.nh /\ z.ref = s.ref /\ z.tb = s.tb
      /\ z.fdb = s.fdb /\ z.via = s.via
  BY DEF SameButCable, SameNeigh, SameRoute
<1>3. Count(z, n) = Count(s, n) /\ Count(s, n) \in Nat /\ s.ref[n] \in Nat
  <2>1. Count(z, n) = Count(s, n)
    BY <1>2 DEF Count, RoutesOf
  <2>2. Count(s, n) \in Nat
    BY CountType
  <2>3. s.ref[n] \in Nat
    BY DEF Typed, State
  <2> QED BY <2>1, <2>2, <2>3
<1>4. ASSUME Returns(s, p, n) PROVE Ready(z, p, n)
  <2>1. CASE new = "active"
    <3>1. Uncounted(s, p, n)
      BY <1>1, <1>4, <2>1 DEF Returns
    <3> QED BY <1>2, <2>1, <3>1 DEF Ready, Uncounted, Between, Belongs
  <2>2. CASE new = "standby"
    <3>1. AtMost(s, p, n)
      BY <1>1, <1>4, <2>2 DEF Returns
    <3> QED BY <1>2, <1>3, <2>2, <3>1 DEF Ready, AtMost, Between, Belongs
  <2> QED BY <2>1, <2>2
<1>5. ASSUME NInv(s, n), At(s, p, n) PROVE Returns(s, p, n)
  <2>1. /\ s.tb[n] = p /\ s.known[n] = "mac" /\ Belongs(s, p, n)
        /\ IF s.cable[p] = "standby" THEN Standing(s, p, n) ELSE Serving(s, p, n)
    BY <1>5 DEF NInv, Owned
  <2>2. Between(s, p, n)
    BY <1>5, <2>1 DEF NInv, Entry, Between
  <2>3. CASE s.cable[p] = "active"
    <3>1. s.nh[n] # Absent => s.ref[n] = Count(s, n)
      BY <1>5 DEF NInv, Counted
    <3> QED BY <1>3, <2>2, <2>3, <3>1 DEF Returns, AtMost
  <2>4. CASE s.cable[p] = "standby"
    <3>1. n \notin s.hw
      BY <2>1, <2>4 DEF Standing
    <3>2. s.nh[n] = Absent
      BY <2>2, <3>1 DEF Between
    <3> QED BY <2>2, <2>4, <3>2 DEF Returns, Uncounted
  <2> QED BY <1>1, <2>3, <2>4
<1> QED BY <1>4, <1>5

\* Every neighbour of a cable whose change of state is done is right.
LEMMA ChangeRight ==
  ASSUME NEW s, Good(s), NEW p \in Port, s.cable[p] # "none", NEW x, Typed(x),
         x.cable[p] # "none", \A q \in Port \ {p} : x.cable[q] = s.cable[q],
         \A q \in Port \ {p}, n \in Nbr : x.nbrs[q][n] = s.nbrs[q][n],
         x.tb = s.tb, x.alone = s.alone, x.known = s.known, x.fdb = s.fdb, x.via = s.via,
         s.excused \subseteq x.excused,
         \A m \in Nbr : ~At(s, p, m) => SameAt(s, x, m),
         \A n \in Nbr \ x.excused : At(s, p, n) => Settles(x, p, n)
  PROVE  Good(x)
<1>1. Typed(s) /\ Frame(s)
  BY DEF Good
<1>2. Frame(x)
  <2>1. \A q \in Port, n \in Nbr : x.cable[q] = "none" =>
          s.cable[q] = "none" /\ x.nbrs[q][n] \in {Absent, s.nbrs[q][n]}
    OBVIOUS
  <2> QED BY <1>1, <2>1, FrameKept
<1>3. PICK D : D = {n \in Nbr : At(s, p, n)}
  OBVIOUS
<1>4. \A m \in Nbr \ D : SameAt(s, x, m)
  BY <1>3
<1>5. ASSUME NEW n \in D, n \in Nbr \ x.excused PROVE NInv(x, n)
  <2>1. n \in Nbr /\ At(s, p, n) /\ NInv(s, n)
    BY <1>3, <1>5 DEF Good
  <2>2. Settles(x, p, n)
    BY <1>5, <2>1
  <2>3. x.tb[n] = p /\ x.known[n] = "mac" /\ n \notin x.alone /\ Belongs(x, p, n)
    BY <2>1 DEF NInv, Owned, Entry, Belongs
  <2>4. \A q \in Port : At(x, q, n) => q = p
    <3>1. \A q \in Port : At(s, q, n) => q = p
      BY <2>1 DEF NInv, Owned
    <3> QED BY <2>1, <3>1 DEF At
  <2> QED BY <2>1, <2>2, <2>3, <2>4, Settled
<1> QED BY <1>2, <1>4, <1>5, Together

\* The steps of setState: the state of the cable is set, the handler called
\* and, when it fails, the state set back and the handler called again.
StateSet(s, z, p, x) == z = WithCable(s, p, x)
Called(z, r, p, x, fail) == r = Handle(z, p, x, fail)
Recorded(s, t, p, x) == t = WithHwState(s, p, x)

\* A neighbour at another cable or at none does not see a change of state.
LEMMA ChangeElsewhere ==
  ASSUME NEW s, Typed(s), NEW p \in Port, s.cable[p] # "none", NEW x, x # "none",
         NEW z, SameButCable(s, z), z.cable[p] = x, \A q \in Port \ {p} : z.cable[q] = s.cable[q],
         NEW m \in Nbr, ~At(s, p, m)
  PROVE  SameAt(s, z, m)
BY DEF SameAt, At, SameButCable, SameNeigh, SameRoute, SameTunnel

\* The record of a state that was set is all that changes.
LEMMA RecordedDoes ==
  ASSUME NEW s, Typed(s), NEW p \in Port, NEW x \in CableState, NEW t, Recorded(s, t, p, x)
  PROVE  /\ Typed(t) /\ t.cable = s.cable /\ t.nbrs = s.nbrs /\ t.tb = s.tb /\ t.alone = s.alone
         /\ t.known = s.known /\ t.fdb = s.fdb /\ t.via = s.via /\ t.excused = s.excused
         /\ \A m \in Nbr : SameAt(s, t, m)
         /\ \A n \in Nbr : Settles(s, p, n) => Settles(t, p, n)
<1>1. PICK w : w = WithHwState(s, p, x)
  OBVIOUS
<1>2. Typed(w) /\ SameButCable(s, w) /\ w.cable = s.cable
  BY <1>1, WithHwStateDoes
<1>3. t = w
  BY <1>1 DEF Recorded
<1>4. Typed(t) /\ SameButCable(s, t) /\ t.cable = s.cable
  BY <1>2, <1>3
<1>5. /\ t.nbrs = s.nbrs /\ t.tb = s.tb /\ t.alone = s.alone
      /\ t.known = s.known /\ t.fdb = s.fdb /\ t.via = s.via /\ t.excused = s.excused
      /\ t.hw = s.hw /\ t.nh = s.nh /\ t.ref = s.ref /\ t.asicRoute = s.asicRoute
      /\ t.asicTunnel = s.asicTunnel /\ t.table = s.table
  BY <1>4 DEF SameButCable, SameNeigh, SameRoute, SameTunnel
<1>6. ASSUME NEW m \in Nbr PROVE SameAt(s, t, m)
  BY <1>4, <1>5 DEF SameAt
<1>7. ASSUME NEW n \in Nbr, Settles(s, p, n) PROVE Settles(t, p, n)
  <2>1. Count(t, n) = Count(s, n)
    BY <1>5 DEF Count, RoutesOf
  <2>2. Active(s, p, n) => Active(t, p, n)
    BY <1>5, <2>1 DEF Active
  <2>3. Standby(s, p, n) => Standby(t, p, n)
    BY <1>5 DEF Standby, Standing
  <2> QED BY <1>4, <1>7, <2>2, <2>3 DEF Settles
<1> QED BY <1>4, <1>5, <1>6, <1>7

\* What comes of setting the state of p to x and calling the handler.
Turned(s, r, p, x, fail) ==
  /\ Typed(r.s) /\ r.s.cable[p] = x /\ \A q \in Port \ {p} : r.s.cable[q] = s.cable[q]
  /\ \A q \in Port \ {p}, n \in Nbr : r.s.nbrs[q][n] = s.nbrs[q][n]
  /\ \A n \in Nbr : At(r.s, p, n) <=> At(s, p, n)
  /\ r.s.tb = s.tb /\ r.s.alone = s.alone /\ r.s.known = s.known /\ r.s.fdb = s.fdb
  /\ r.s.via = s.via /\ r.s.excused = s.excused
  /\ \A m \in Nbr : ~At(s, p, m) => SameAt(s, r.s, m)
  /\ fail[1] = "none" => r.ok = TRUE
  /\ r.ok = TRUE \/ r.ok = FALSE
  /\ \A n \in Nbr : At(s, p, n) /\ (NInv(s, n) \/ Returns(s, p, n)) =>
       /\ Returns(r.s, p, n) \/ (x = "standby" /\ Skipped(s, fail, n))
       /\ r.ok = TRUE => Settles(r.s, p, n)

\* Setting the state and calling the handler.
LEMMA TurnDoes ==
  ASSUME NEW s, Typed(s), NEW p \in Port, s.cable[p] # "none", NEW x \in {"active", "standby"},
         s.cable[p] # x, NEW fail, Failure(fail), NEW z, StateSet(s, z, p, x),
         NEW r, Called(z, r, p, x, fail)
  PROVE  Turned(s, r, p, x, fail)
<1>1. /\ Typed(z) /\ SameButCable(s, z) /\ z.cable[p] = x
      /\ \A q \in Port \ {p} : z.cable[q] = s.cable[q]
  <2>1. x \in CableState
    BY DEF CableState
  <2>2. PICK w : w = WithCable(s, p, x)
    OBVIOUS
  <2>3. /\ Typed(w) /\ SameButCable(s, w) /\ w.cable[p] = x
        /\ \A q \in Port \ {p} : w.cable[q] = s.cable[q]
    BY <2>1, <2>2, WithCableDoes
  <2>4. z = w
    BY <2>2 DEF StateSet
  <2> QED BY <2>3, <2>4
<1>2. PICK v : v = Handle(z, p, x, fail)
  OBVIOUS
<1>3. r = v
  BY <1>2 DEF Called
<1>4. /\ Handled(z, v.s, p)
      /\ fail[1] = "none" => v.ok = TRUE
      /\ v.ok = TRUE \/ v.ok = FALSE
      /\ \A n \in Nbr : At(z, p, n) /\ Ready(z, p, n) =>
           /\ Returns(v.s, p, n) \/ (x = "standby" /\ Skipped(z, fail, n))
           /\ v.ok = TRUE => Settles(v.s, p, n)
  <2>1. Typed(z) /\ z.cable[p] = x
    BY <1>1
  <2> QED BY <1>2, <2>1, HandleDoes
<1>5. PICK u : u = r.s
  OBVIOUS
<1>6. Handled(z, u, p)
  BY <1>3, <1>4, <1>5
<1>7. z.nbrs = s.nbrs /\ z.tb = s.tb /\ z.alone = s.alone /\ z.known = s.known /\ z.fdb = s.fdb
      /\ z.via = s.via /\ z.excused = s.excused
  BY <1>1 DEF SameButCable, SameNeigh, SameRoute
<1>8. /\ Typed(u) /\ u.cable[p] = x /\ \A q \in Port \ {p} : u.cable[q] = s.cable[q]
      /\ \A q \in Port \ {p}, n \in Nbr : u.nbrs[q][n] = s.nbrs[q][n]
      /\ \A n \in Nbr : At(u, p, n) <=> At(s, p, n)
      /\ u.tb = s.tb /\ u.alone = s.alone /\ u.known = s.known /\ u.fdb = s.fdb
      /\ u.via = s.via /\ u.excused = s.excused
  BY <1>1, <1>6, <1>7 DEF Handled, Kept, At
<1>9. ASSUME NEW m \in Nbr, ~At(s, p, m) PROVE SameAt(s, u, m)
  <2>1. SameAt(s, z, m)
    <3>1. x # "none"
      OBVIOUS
    <3> QED BY <1>1, <1>9, <3>1, ChangeElsewhere
  <2>2. SameAt(z, u, m)
    BY <1>6, <1>7, <1>9 DEF Handled, At
  <2> QED BY <2>1, <2>2, SameTwice
<1>10. ASSUME NEW n \in Nbr, At(s, p, n), NInv(s, n) \/ Returns(s, p, n)
       PROVE  /\ Returns(u, p, n) \/ (x = "standby" /\ Skipped(s, fail, n))
              /\ r.ok = TRUE => Settles(u, p, n)
  <2>1. Ready(z, p, n)
    BY <1>1, <1>10, BecomesReady
  <2>2. At(z, p, n)
    BY <1>7, <1>10 DEF At
  <2>3. Skipped(z, fail, n) => Skipped(s, fail, n)
    BY <1>7 DEF Skipped, Routed, RoutesOf
  <2>4. /\ Returns(u, p, n) \/ (x = "standby" /\ Skipped(z, fail, n))
        /\ r.ok = TRUE => Settles(u, p, n)
    BY <1>3, <1>4, <1>5, <2>1, <2>2
  <2> QED BY <2>3, <2>4
<1>11. (fail[1] = "none" => r.ok = TRUE) /\ (r.ok = TRUE \/ r.ok = FALSE)
  BY <1>3, <1>4
<1> QED BY <1>5, <1>8, <1>9, <1>10, <1>11 DEF Turned

StateChanged(s, t, p, new, fail) == t = setState(s, p, new, fail)

\* MuxCable::setState keeps the invariant, whichever call fails.
LEMMA SetStateGood ==
  ASSUME NEW s, Good(s), NEW p \in Port, s.cable[p] # "none", NEW new \in {"active", "standby"},
         NEW fail, Failure(fail), NEW t, StateChanged(s, t, p, new, fail)
  PROVE  Good(t)
<1>s. Typed(s)
  BY DEF Good
<1>1. PICK old : old = s.cable[p]
  OBVIOUS
<1>2. PICK z : z = WithCable(s, p, new)
  OBVIOUS
<1>3. PICK r : r = Handle(z, p, new, fail)
  OBVIOUS
<1>4. PICK u : u = r.s
  OBVIOUS
<1>5. PICK y : y = WithCable(u, p, old)
  OBVIOUS
<1>6. PICK none : none = <<"none", Absent>>
  OBVIOUS
<1>7. PICK b : b = Handle(y, p, old, none)
  OBVIOUS
<1>8. PICK K : K = IF fail[1] = "route" /\ new = "standby"
                   THEN {n \in Neighbors(s, p) : n >= fail[2] /\ RoutesOf(s, n) # {}} ELSE {}
  OBVIOUS
<1>9. PICK w : w = WithHwState(u, p, new)
  OBVIOUS
<1>10. PICK v : v = WithHwState(b.s, p, old)
  OBVIOUS
<1>11. t = IF old = new THEN WithHwState(s, p, new)
           ELSE IF r.ok THEN w
           ELSE [b.s EXCEPT !.hwState[p] = old, !.excused = @ \cup K]
  <2>1. StateChanged(s, t, p, new, fail)
    OBVIOUS
  <2> QED BY <1>1, <1>2, <1>3, <1>4, <1>5, <1>6, <1>7, <1>8, <1>9, <2>1
         DEF StateChanged, setState, WithCable, WithHwState
<1>12. old \in {"active", "standby"} /\ old \in CableState /\ new \in CableState
  BY <1>1, <1>s DEF Typed, State, CableState
<1>13. Failure(none) /\ none[1] = "none"
  BY <1>6 DEF Failure
<1>14. CASE old = new
  <2>1. Recorded(s, t, p, new)
    BY <1>11, <1>14 DEF Recorded
  <2>2. /\ Typed(t) /\ t.cable = s.cable /\ t.nbrs = s.nbrs /\ t.fdb = s.fdb
        /\ \A m \in Nbr : SameAt(s, t, m)
    BY <1>s, <1>12, <2>1, RecordedDoes
  <2>3. Frame(t)
    BY <2>2 DEF Good, Frame
  <2> QED BY <2>2, <2>3, Together
<1>15. CASE old # new
  <2>1. s.cable[p] # new
    BY <1>1, <1>15
  <2>2. StateSet(s, z, p, new) /\ Called(z, r, p, new, fail)
    BY <1>2, <1>3 DEF StateSet, Called
  <2>3. /\ Typed(u) /\ u.cable[p] = new /\ \A q \in Port \ {p} : u.cable[q] = s.cable[q]
        /\ \A q \in Port \ {p}, n \in Nbr : u.nbrs[q][n] = s.nbrs[q][n]
        /\ \A n \in Nbr : At(u, p, n) <=> At(s, p, n)
        /\ u.tb = s.tb /\ u.alone = s.alone /\ u.known = s.known /\ u.fdb = s.fdb
        /\ u.via = s.via /\ u.excused = s.excused
        /\ \A m \in Nbr : ~At(s, p, m) => SameAt(s, u, m)
        /\ r.ok = TRUE \/ r.ok = FALSE
        /\ \A n \in Nbr : At(s, p, n) /\ (NInv(s, n) \/ Returns(s, p, n)) =>
             /\ Returns(u, p, n) \/ (new = "standby" /\ Skipped(s, fail, n))
             /\ r.ok = TRUE => Settles(u, p, n)
    <3>1. Turned(s, r, p, new, fail)
      BY <1>s, <2>1, <2>2, TurnDoes
    <3> QED BY <1>4, <3>1 DEF Turned
  <2>4. CASE r.ok = TRUE
    <3>1. t = w
      BY <1>11, <1>15, <2>4
    <3>2. Recorded(u, t, p, new)
      BY <1>9, <3>1 DEF Recorded
    <3>3. /\ Typed(t) /\ t.cable = u.cable /\ t.nbrs = u.nbrs /\ t.tb = u.tb /\ t.alone = u.alone
          /\ t.known = u.known /\ t.fdb = u.fdb /\ t.via = u.via /\ t.excused = u.excused
          /\ \A m \in Nbr : SameAt(u, t, m)
          /\ \A n \in Nbr : Settles(u, p, n) => Settles(t, p, n)
      BY <1>12, <2>3, <3>2, RecordedDoes
    <3>4. \A m \in Nbr : ~At(s, p, m) => SameAt(s, t, m)
      BY <2>3, <3>3, SameTwice
    <3>5. \A n \in Nbr \ t.excused : At(s, p, n) => Settles(t, p, n)
      BY <2>3, <2>4, <3>3 DEF Good
    <3>6. /\ t.cable[p] # "none" /\ \A q \in Port \ {p} : t.cable[q] = s.cable[q]
          /\ \A q \in Port \ {p}, n \in Nbr : t.nbrs[q][n] = s.nbrs[q][n]
          /\ t.tb = s.tb /\ t.alone = s.alone /\ t.known = s.known /\ t.fdb = s.fdb /\ t.via = s.via
          /\ s.excused \subseteq t.excused
      BY <2>3, <3>3
    <3>7. Typed(t)
      BY <3>3
    <3> QED BY <3>4, <3>5, <3>6, <3>7, ChangeRight
  <2>5. CASE r.ok = FALSE
    <3>1. StateSet(u, y, p, old) /\ Called(y, b, p, old, none)
      BY <1>5, <1>7 DEF StateSet, Called
    <3>2. PICK x : x = b.s
      OBVIOUS
    <3>3. u.cable[p] # "none" /\ u.cable[p] # old /\ Typed(u)
      BY <1>15, <2>3
    <3>4. /\ Typed(x) /\ x.cable[p] = old /\ \A q \in Port \ {p} : x.cable[q] = u.cable[q]
          /\ \A q \in Port \ {p}, n \in Nbr : x.nbrs[q][n] = u.nbrs[q][n]
          /\ x.tb = u.tb /\ x.alone = u.alone /\ x.known = u.known /\ x.fdb = u.fdb
          /\ x.via = u.via /\ x.excused = u.excused
          /\ \A m \in Nbr : ~At(u, p, m) => SameAt(u, x, m)
          /\ b.ok = TRUE
          /\ \A n \in Nbr : At(u, p, n) /\ (NInv(u, n) \/ Returns(u, p, n)) =>
               (b.ok = TRUE => Settles(x, p, n))
      <4>1. Turned(u, b, p, old, none)
        BY <1>12, <1>13, <3>1, <3>3, TurnDoes
      <4> QED BY <1>13, <3>2, <4>1 DEF Turned
    <3>5. Recorded(x, v, p, old)
      BY <1>10, <3>2 DEF Recorded
    <3>6. /\ Typed(v) /\ v.cable = x.cable /\ v.nbrs = x.nbrs /\ v.tb = x.tb /\ v.alone = x.alone
          /\ v.known = x.known /\ v.fdb = x.fdb /\ v.via = x.via /\ v.excused = x.excused
          /\ \A m \in Nbr : SameAt(x, v, m)
          /\ \A n \in Nbr : Settles(x, p, n) => Settles(v, p, n)
      BY <1>12, <3>4, <3>5, RecordedDoes
    <3>7. t = Excuse(v, K)
      <4>1. t = [x EXCEPT !.hwState[p] = old, !.excused = @ \cup K]
        BY <1>11, <1>15, <2>5, <3>2
      <4>2. v = [x EXCEPT !.hwState[p] = old]
        BY <1>10, <3>2 DEF WithHwState
      <4>3. x \in State
        BY <3>4 DEF Typed
      <4> QED BY <4>1, <4>2, <4>3 DEF Excuse, State
    <3>8. K \in SUBSET Nbr
      BY <1>8 DEF Neighbors
    <3>9. /\ Typed(t) /\ SameMux(v, t) /\ SameNeigh(v, t) /\ SameRoute(v, t) /\ SameTunnel(v, t)
          /\ t.fdb = v.fdb /\ t.excused = v.excused \cup K
      BY <3>6, <3>7, <3>8, ExcuseDoes
    <3>10. \A m \in Nbr : SameAt(v, t, m)
      BY <3>9 DEF SameAt, SameMux, SameNeigh, SameRoute, SameTunnel
    <3>11. ASSUME NEW m \in Nbr, ~At(s, p, m) PROVE SameAt(s, t, m)
      <4>1. SameAt(s, u, m) /\ SameAt(u, x, m)
        BY <2>3, <3>4, <3>11
      <4>2. SameAt(s, x, m)
        BY <4>1, SameTwice
      <4>3. SameAt(s, v, m)
        BY <3>6, <4>2, SameTwice
      <4> QED BY <3>10, <4>3, SameTwice
    <3>12. ASSUME NEW n \in Nbr \ t.excused, At(s, p, n) PROVE Settles(t, p, n)
      <4>1. n \notin s.excused /\ n \notin K
        BY <2>3, <3>4, <3>6, <3>9, <3>12
      <4>2. ~(new = "standby" /\ Skipped(s, fail, n))
        <5>1. n \in Neighbors(s, p)
          BY <3>12 DEF At, Neighbors
        <5>2. n \in Routed(s) <=> RoutesOf(s, n) # {}
          BY DEF Routed
        <5> QED BY <1>8, <4>1, <5>1, <5>2 DEF Skipped
      <4>3. NInv(s, n)
        BY <4>1 DEF Good
      <4>4. Returns(u, p, n)
        BY <2>3, <3>12, <4>2, <4>3
      <4>5. Settles(v, p, n)
        BY <2>3, <3>4, <3>6, <3>12, <4>4
      <4>6. Count(t, n) = Count(v, n)
        BY <3>9 DEF Count, RoutesOf, SameRoute
      <4>7. Active(v, p, n) => Active(t, p, n)
        BY <3>9, <4>6 DEF Active, SameMux, SameNeigh, SameRoute, SameTunnel
      <4>8. Standby(v, p, n) => Standby(t, p, n)
        BY <3>9 DEF Standby, Standing, SameMux, SameNeigh, SameRoute, SameTunnel
      <4> QED BY <3>9, <4>5, <4>7, <4>8 DEF Settles, SameMux
    <3>13. t.cable = x.cable /\ t.nbrs = x.nbrs
      BY <3>6, <3>9 DEF SameMux
    <3>14. /\ t.tb = s.tb /\ t.alone = s.alone /\ t.known = s.known /\ t.fdb = s.fdb /\ t.via = s.via
           /\ s.excused \subseteq t.excused
      BY <2>3, <3>4, <3>6, <3>9 DEF SameMux, SameNeigh, SameRoute
    <3>15. /\ t.cable[p] # "none" /\ \A q \in Port \ {p} : t.cable[q] = s.cable[q]
           /\ \A q \in Port \ {p}, n \in Nbr : t.nbrs[q][n] = s.nbrs[q][n]
      BY <1>12, <2>3, <3>4, <3>13
    <3>16. Typed(t)
      BY <3>9
    <3> QED BY <3>11, <3>12, <3>14, <3>15, <3>16, ChangeRight
  <2> QED BY <2>3, <2>4, <2>5
<1> QED BY <1>14, <1>15

(***************************************************************************)
(* The specification                                                       *)
(***************************************************************************)

\* The inductive invariant.
IInv == Good(Now)

\* The variables are the record.
LEMMA NowIs ==
  /\ Now.cable = cable /\ Now.nbrs = nbrs /\ Now.tb = tb /\ Now.alone = alone
  /\ Now.known = known /\ Now.hw = hw /\ Now.nh = nh /\ Now.ref = ref /\ Now.gen = gen
  /\ Now.fdb = fdb /\ Now.via = via /\ Now.asicRoute = asicRoute
  /\ Now.asicTunnel = asicTunnel /\ Now.table = table /\ Now.hwState = hwState
  /\ Now.excused = excused
BY DEF Now

\* A request that ends in a good record ends in a good state.
LEMMA BecomeGood ==
  ASSUME NEW t, Good(t), Become(t)
  PROVE  IInv'
<1>1. t \in State
  BY DEF Good, Typed
<1>2. t = [cable |-> t.cable, nbrs |-> t.nbrs, tb |-> t.tb, alone |-> t.alone,
           known |-> t.known, hw |-> t.hw, nh |-> t.nh, ref |-> t.ref, gen |-> t.gen,
           fdb |-> t.fdb, via |-> t.via, asicRoute |-> t.asicRoute,
           asicTunnel |-> t.asicTunnel, table |-> t.table, hwState |-> t.hwState,
           excused |-> t.excused]
  BY <1>1 DEF State
<1>3. Now' = t
  BY <1>2 DEF Now, Become
<1> QED BY <1>3 DEF IInv

\* Nothing is configured and nothing is known.
LEMMA InitGood == Init => IInv
<1> SUFFICES ASSUME Init PROVE Good(Now)
  BY DEF IInv
<1>1. PICK s : s = Now
  OBVIOUS
<1>2. /\ s.cable = [p \in Port |-> "none"] /\ s.nbrs = [p \in Port |-> [n \in Nbr |-> Absent]]
      /\ s.tb = [n \in Nbr |-> NoEntry] /\ s.alone = {} /\ s.known = [n \in Nbr |-> "none"]
      /\ s.hw = {} /\ s.nh = [n \in Nbr |-> Absent] /\ s.ref = [n \in Nbr |-> 0]
      /\ s.gen = [n \in Nbr |-> 0] /\ s.fdb = [n \in Nbr |-> NoPort]
      /\ s.via = [r \in Route |-> Absent] /\ s.asicRoute = [r \in Route |-> Absent]
      /\ s.asicTunnel = {} /\ s.table = {} /\ s.hwState = [p \in Port |-> "none"]
      /\ s.excused = {}
  BY <1>1, NowIs DEF Init
<1>3. s \in State
  <2>1. s = [cable |-> s.cable, nbrs |-> s.nbrs, tb |-> s.tb, alone |-> s.alone,
             known |-> s.known, hw |-> s.hw, nh |-> s.nh, ref |-> s.ref, gen |-> s.gen,
             fdb |-> s.fdb, via |-> s.via, asicRoute |-> s.asicRoute,
             asicTunnel |-> s.asicTunnel, table |-> s.table, hwState |-> s.hwState,
             excused |-> s.excused]
    BY <1>1, NowIs DEF Now
  <2>2. /\ s.cable \in [Port -> CableState] /\ s.hwState \in [Port -> CableState]
        /\ s.tb \in [Nbr -> Port \cup {NoName, NoEntry}] /\ s.fdb \in [Nbr -> Port \cup {NoPort}]
        /\ s.known \in [Nbr -> {"none", "zero", "mac"}]
    BY <1>2 DEF CableState
  <2>3. /\ s.nbrs \in [Port -> [Nbr -> Int]] /\ s.nh \in [Nbr -> Int] /\ s.ref \in [Nbr -> Nat]
        /\ s.gen \in [Nbr -> Nat] /\ s.via \in [Route -> Nbr \cup {Absent}]
        /\ s.asicRoute \in [Route -> Int]
    BY <1>2, Codes
  <2>4. /\ s.alone \in SUBSET Nbr /\ s.hw \in SUBSET Nbr /\ s.asicTunnel \in SUBSET Nbr
        /\ s.table \in SUBSET Nbr /\ s.excused \in SUBSET Nbr
    BY <1>2
  <2> QED BY <2>1, <2>2, <2>3, <2>4 DEF State
<1>4. Typed(s)
  BY <1>2, <1>3 DEF Typed, Ids
<1>5. Frame(s)
  BY <1>2 DEF Frame
<1>6. ASSUME NEW n \in Nbr PROVE NInv(s, n)
  <2>1. \A r \in Route : s.via[r] # n
    <3>1. n # Absent
      BY MuxAssumption DEF Absent
    <3> QED BY <1>2, <3>1
  <2>2. Entry(s, n)
    BY <1>2, <2>1, Codes DEF Entry
  <2>3. Counted(s, n) /\ Followed(s, n)
    BY <1>2, <2>1 DEF Counted, Followed
  <2>4. Owned(s, n) /\ Loose(s, n) /\ Named(s, n)
    BY <1>2, MuxAssumption DEF Owned, Loose, Named, At
  <2> QED BY <2>2, <2>3, <2>4 DEF NInv
<1> QED BY <1>1, <1>4, <1>5, <1>6 DEF Good

\* handleMuxCfg SET.
LEMMA ConfigureStep ==
  ASSUME IInv, NEW p \in Port, ConfigureCable(p)
  PROVE  IInv'
<1>1. PICK s : s = Now
  OBVIOUS
<1>2. s.cable = cable /\ s.known = known /\ s.fdb = fdb /\ s.tb = tb /\ Good(s)
  BY <1>1, NowIs DEF IInv
<1>3. PICK H : H = {n \in Nbr : known[n] = "mac" /\ fdb[n] = p}
  OBVIOUS
<1>4. PICK U : U = {n \in H : tb[n] = NoEntry}
  OBVIOUS
<1>5. PICK a : a = Reset(s, p, "standby")
  OBVIOUS
<1>6. PICK b : b = Resolve(a, U)
  OBVIOUS
<1>7. PICK c : c = cableUpdateNeighbor(b, p, U, TRUE)
  OBVIOUS
<1>8. PICK t : t = Excuse(c, H \ U)
  OBVIOUS
<1>9. Become(t) /\ s.cable[p] = "none"
  BY <1>1, <1>2, <1>3, <1>4, <1>5, <1>6, <1>7, <1>8 DEF ConfigureCable, Request, Reset
<1>10. H \in SUBSET Nbr /\ U \in SUBSET H
  BY <1>3, <1>4
<1>11. \A n \in U : s.known[n] = "mac" /\ s.fdb[n] = p /\ s.tb[n] = NoEntry
  BY <1>2, <1>3, <1>4
<1>12. Configured(s, a, p) /\ Resolved(a, b, U) /\ Come(b, c, p, U)
  BY <1>5, <1>6, <1>7 DEF Configured, Resolved, Come
<1>13. Good(t)
  BY <1>2, <1>8, <1>9, <1>10, <1>11, <1>12, ConfigureGood
<1> QED BY <1>9, <1>13, BecomeGood

\* handleMuxCfg DEL.
LEMMA DeleteStep ==
  ASSUME IInv, NEW p \in Port, DeleteCable(p)
  PROVE  IInv'
<1>1. PICK s : s = Now
  OBVIOUS
<1>2. s.cable = cable /\ s.alone = alone /\ Good(s)
  BY <1>1, NowIs DEF IInv
<1>3. PICK X : X = Neighbors(s, p)
                     \cup (IF \A q \in Port \ {p} : cable[q] = "none" THEN alone ELSE {})
  OBVIOUS
<1>4. PICK t : t = Excuse(Reset(s, p, "none"), X)
  OBVIOUS
<1>5. s \in State
  BY <1>2 DEF Good, Typed
<1>6. t = [s EXCEPT !.cable[p] = "none", !.nbrs[p] = [n \in Nbr |-> Absent],
                    !.excused = @ \cup X]
  BY <1>4, <1>5 DEF Excuse, Reset, State
<1>7. Become(t)
  <2>1. Become([s EXCEPT !.cable[p] = "none", !.nbrs[p] = [n \in Nbr |-> Absent],
                !.excused = @ \cup Neighbors(s, p)
                    \cup (IF \A q \in Port \ {p} : cable[q] = "none" THEN alone ELSE {})])
    BY <1>1 DEF DeleteCable, Request
  <2>2. PICK E : E = s.excused \cup Neighbors(s, p)
                       \cup (IF \A q \in Port \ {p} : cable[q] = "none" THEN alone ELSE {})
    OBVIOUS
  <2>3. E = s.excused \cup X
    BY <1>3, <2>2
  <2> QED BY <1>6, <2>1, <2>2, <2>3
<1>8. Deleted(s, t, p, X)
  BY <1>4 DEF Deleted
<1>9. /\ X \in SUBSET Nbr /\ Neighbors(s, p) \subseteq X
      /\ (\A q \in Port \ {p} : s.cable[q] = "none") => s.alone \subseteq X
  BY <1>2, <1>3, <1>5 DEF State, Neighbors
<1>10. Good(t)
  BY <1>2, <1>8, <1>9, DeleteGood
<1> QED BY <1>7, <1>10, BecomeGood

\* A change of state, with or without a call that fails.
LEMMA SetStateStep ==
  ASSUME IInv, NEW p \in Port, NEW new \in {"active", "standby"}, SetState(p, new)
  PROVE  IInv'
<1>1. PICK s : s = Now
  OBVIOUS
<1>2. s.cable = cable /\ Good(s)
  BY <1>1, NowIs DEF IInv
<1>3. PICK fail \in {<<"none", Absent>>}
                      \cup ({"neighbor", "route", "tunnel"} \X Neighbors(s, p)) :
        Become(setState(s, p, new, fail))
  BY <1>1 DEF SetState, Request
<1>4. Failure(fail)
  BY <1>3 DEF Failure, Neighbors
<1>5. PICK t : t = setState(s, p, new, fail)
  OBVIOUS
<1>6. Become(t) /\ StateChanged(s, t, p, new, fail)
  BY <1>3, <1>5 DEF StateChanged
<1>7. s.cable[p] # "none"
  BY <1>2 DEF SetState
<1>8. Good(t)
  BY <1>2, <1>4, <1>6, <1>7, SetStateGood
<1> QED BY <1>6, <1>8, BecomeGood

\* A neighbour that resolves.
LEMMA AddNeighborStep ==
  ASSUME IInv, NEW n \in Nbr, AddNeighbor(n)
  PROVE  IInv'
<1>1. PICK s : s = Now
  OBVIOUS
<1>2. s.known = known /\ Good(s)
  BY <1>1, NowIs DEF IInv
<1>3. PICK a : a = IF isNeighborActive(s, n) THEN CreateNeighbors(s, {n}) ELSE s
  OBVIOUS
<1>4. PICK b : b = WithKnown(a, n, "mac")
  OBVIOUS
<1>5. PICK t : t = updateNeighbor(b, n, "mac", TRUE)
  OBVIOUS
<1>6. Become(t) /\ s.known[n] # "mac"
  BY <1>1, <1>2, <1>3, <1>4, <1>5 DEF AddNeighbor, Request, WithKnown
<1>7. Created(s, a, n) /\ Known(a, b, n, "mac")
  BY <1>3, <1>4 DEF Created, Known
<1>8. Good(t)
  BY <1>2, <1>5, <1>6, <1>7, AddNeighborGood
<1> QED BY <1>6, <1>8, BecomeGood

\* A neighbour that does not resolve.
LEMMA ZeroMacStep ==
  ASSUME IInv, NEW n \in Nbr, addZeroMacTunnelRoute(n)
  PROVE  IInv'
<1>1. PICK s : s = Now
  OBVIOUS
<1>2. s.known = known /\ Good(s) /\ s \in State
  BY <1>1, NowIs DEF IInv, Good, Typed
<1>3. PICK a : a = updateNeighbor(s, n, "zero", TRUE)
  OBVIOUS
<1>4. PICK t : t = WithKnown(a, n, "zero")
  OBVIOUS
<1>5. Become(t) /\ s.known[n] = "none" /\ n \in a.alone
  BY <1>1, <1>2, <1>3, <1>4 DEF addZeroMacTunnelRoute, Request, WithKnown
<1>6. n \notin s.alone \/ n \in s.excused
  <2>1. n \notin s.excused => (n \in s.alone <=> s.known[n] = "zero")
    BY <1>2 DEF Good, NInv, Entry
  <2> QED BY <1>5, <2>1
<1>7. Known(a, t, n, "zero")
  BY <1>4 DEF Known
<1>8. CASE \E p \in Port : s.cable[p] # "none"
  <2>1. PICK p \in Port : s.cable[p] # "none"
    BY <1>8
  <2>2. Alone(s, a, n)
    BY <1>3, <2>1 DEF updateNeighbor, isMuxExists, Alone
  <2>3. Good(t)
    BY <1>2, <1>5, <1>7, <2>1, <2>2, ZeroMacGood
  <2> QED BY <1>5, <2>3, BecomeGood
<1>9. CASE \A p \in Port : s.cable[p] = "none"
  <2>1. a = s
    BY <1>3, <1>9 DEF updateNeighbor, isMuxExists
  <2>2. Good(t)
    <3>1. Typed(s) /\ Frame(s)
      BY <1>2 DEF Good
    <3>2. Typed(t) /\ SameButKnown(s, t) /\ \A m \in Nbr \ {n} : SameAt(s, t, m)
      BY <1>4, <2>1, <3>1, WithKnownDoes
    <3>3. Frame(t)
      BY <3>1, <3>2 DEF Frame, SameButKnown, SameRest, SameMux
    <3>4. n \in t.excused
      BY <1>5, <1>6, <2>1, <3>2 DEF SameButKnown, SameRest
    <3>5. \A m \in {n} : m \in Nbr \ t.excused => NInv(t, m)
      BY <3>4
    <3> QED BY <1>2, <3>2, <3>3, <3>5, Together
  <2> QED BY <1>5, <2>2, BecomeGood
<1> QED BY <1>8, <1>9

\* A neighbour that is removed.
LEMMA RemoveNeighborStep ==
  ASSUME IInv, NEW n \in Nbr, RemoveNeighbor(n)
  PROVE  IInv'
<1>1. PICK s : s = Now
  OBVIOUS
<1>2. s.hw = hw /\ Good(s)
  BY <1>1, NowIs DEF IInv
<1>3. PICK a : a = IF n \in s.hw THEN updateNeighbor(s, n, "zero", FALSE) ELSE s
  OBVIOUS
<1>4. PICK b : b = IF n \in s.hw THEN DestroyNeighbors(a, {n}) ELSE a
  OBVIOUS
<1>5. PICK c : c = IF RoutesOf(s, n) # {} THEN Excuse(b, {n}) ELSE b
  OBVIOUS
<1>6. PICK d : d = WithKnown(c, n, "none")
  OBVIOUS
<1>7. PICK t : t = updateNeighbor(d, n, "zero", FALSE)
  OBVIOUS
<1>8. Become(t)
  BY <1>1, <1>2, <1>3, <1>4, <1>5, <1>6, <1>7 DEF RemoveNeighbor, Request, WithKnown, ExcuseIf
<1>9. Told(s, a, n) /\ Freed(s, a, b, n) /\ Unrouted(s, b, c, n) /\ Known(c, d, n, "none")
  BY <1>3, <1>4, <1>5, <1>6 DEF Told, Freed, Unrouted, Known
<1>10. Good(t)
  BY <1>2, <1>7, <1>9, RemoveNeighborGood
<1> QED BY <1>8, <1>10, BecomeGood

\* A MAC that is learnt.
LEMMA LearnStep ==
  ASSUME IInv, NEW n \in Nbr, NEW p \in Port, Learn(n, p)
  PROVE  IInv'
<1>1. PICK z : z = Now
  OBVIOUS
<1>2. Good(z)
  BY <1>1 DEF IInv
<1>3. PICK s : s = WithFdb(z, n, p)
  OBVIOUS
<1>4. PICK t : t = updateFdb(s, n, p)
  OBVIOUS
<1>5. Become(t) /\ Server[n] \in {NoPort, p}
  BY <1>1, <1>3, <1>4 DEF Learn, Request, WithFdb
<1>6. Learnt(z, s, n, p)
  BY <1>3 DEF Learnt
<1>7. Good(t)
  BY <1>2, <1>4, <1>5, <1>6, UpdateFdbGood
<1> QED BY <1>5, <1>7, BecomeGood

\* A MAC that ages.
LEMMA AgeStep ==
  ASSUME IInv, NEW n \in Nbr, Age(n)
  PROVE  IInv'
<1>1. PICK s : s = Now
  OBVIOUS
<1>2. PICK t : t = WithFdb(s, n, NoPort)
  OBVIOUS
<1>3. Become(t) /\ Learnt(s, t, n, NoPort)
  BY <1>1, <1>2 DEF Age, Request, WithFdb, Learnt
<1>4. Good(s)
  BY <1>1 DEF IInv
<1>5. Good(t)
  BY <1>3, <1>4, AgeGood
<1> QED BY <1>3, <1>5, BecomeGood

\* A route that is added.
LEMMA AddRouteStep ==
  ASSUME IInv, NEW r \in Route, NEW n \in Nbr, AddRoute(r, n)
  PROVE  IInv'
<1>1. PICK s : s = Now
  OBVIOUS
<1>2. s.via = via /\ Good(s)
  BY <1>1, NowIs DEF IInv
<1>3. PICK a : a = increaseNextHopRefCount(s, {n}, One)
  OBVIOUS
<1>4. PICK t : t = WithRoute(a, r, n, getNextHopId(s, n))
  OBVIOUS
<1>5. Become(t) /\ s.via[r] = Absent /\ hasNextHop(s, n)
  BY <1>1, <1>2, <1>3, <1>4 DEF AddRoute, Request, WithRoute
<1>6. Increased(s, a, n) /\ Routes(a, t, r, n, getNextHopId(s, n))
  BY <1>3, <1>4 DEF Increased, Routes
<1>7. Good(t)
  BY <1>2, <1>5, <1>6, AddRouteGood
<1> QED BY <1>5, <1>7, BecomeGood

\* A route that is removed.
LEMMA RemoveRouteStep ==
  ASSUME IInv, NEW r \in Route, RemoveRoute(r)
  PROVE  IInv'
<1>1. PICK s : s = Now
  OBVIOUS
<1>2. s.via = via /\ Good(s)
  BY <1>1, NowIs DEF IInv
<1>3. PICK n : n = s.via[r]
  OBVIOUS
<1>4. PICK a : a = decreaseNextHopRefCount(s, {n}, One)
  OBVIOUS
<1>5. PICK t : t = WithRoute(a, r, Absent, Absent)
  OBVIOUS
<1>6. Become(t) /\ n # Absent
  BY <1>1, <1>2, <1>3, <1>4, <1>5 DEF RemoveRoute, Request, WithRoute
<1>7. n \in Nbr
  BY <1>2, <1>3, <1>6 DEF Good, Typed, State
<1>8. Decreased(s, a, n) /\ Routes(a, t, r, Absent, Absent)
  BY <1>4, <1>5 DEF Decreased, Routes
<1>9. s.via[r] = n
  BY <1>3
<1>10. Good(t)
  BY <1>2, <1>7, <1>8, <1>9, RemoveRouteGood
<1> QED BY <1>6, <1>10, BecomeGood

\* Every step of the specification keeps the invariant.
LEMMA MuxStep == IInv /\ [Next]_vars => IInv'
<1> SUFFICES ASSUME IInv, [Next]_vars PROVE IInv'
  OBVIOUS
<1>1. CASE UNCHANGED vars
  <2>1. Now' = Now
    BY <1>1 DEF vars, state, Now
  <2> QED BY <2>1 DEF IInv
<1>2. ASSUME NEW p \in Port, ConfigureCable(p) \/ DeleteCable(p) PROVE IInv'
  BY <1>2, ConfigureStep, DeleteStep
<1>3. ASSUME NEW p \in Port, NEW new \in {"active", "standby"}, SetState(p, new) PROVE IInv'
  BY <1>3, SetStateStep
<1>4. ASSUME NEW n \in Nbr,
             AddNeighbor(n) \/ addZeroMacTunnelRoute(n) \/ RemoveNeighbor(n) \/ Age(n)
      PROVE  IInv'
  BY <1>4, AddNeighborStep, ZeroMacStep, RemoveNeighborStep, AgeStep
<1>5. ASSUME NEW n \in Nbr, NEW p \in Port, Learn(n, p) PROVE IInv'
  BY <1>5, LearnStep
<1>6. ASSUME NEW r \in Route, NEW n \in Nbr, AddRoute(r, n) PROVE IInv'
  BY <1>6, AddRouteStep
<1>7. ASSUME NEW r \in Route, RemoveRoute(r) PROVE IInv'
  BY <1>7, RemoveRouteStep
<1> QED BY <1>1, <1>2, <1>3, <1>4, <1>5, <1>6, <1>7 DEF Next

\* The invariant holds throughout.
LEMMA MuxInvariant == Spec => []IInv
<1>1. Init => IInv
  BY InitGood
<1>2. IInv /\ [Next]_vars => IInv'
  BY MuxStep
<1> QED BY <1>1, <1>2, PTL DEF Spec

\* The maps hold what their types say.
LEMMA IInvTypeOK == IInv => TypeOK
<1> SUFFICES ASSUME IInv PROVE TypeOK
  OBVIOUS
<1>1. PICK s : s = Now
  OBVIOUS
<1>2. /\ s.cable = cable /\ s.nbrs = nbrs /\ s.tb = tb /\ s.alone = alone
      /\ s.known = known /\ s.hw = hw /\ s.nh = nh /\ s.ref = ref /\ s.gen = gen
      /\ s.fdb = fdb /\ s.via = via /\ s.asicTunnel = asicTunnel /\ s.table = table
      /\ s.excused = excused
  BY <1>1, NowIs
<1>3. s \in State /\ Ids(s)
  BY <1>1 DEF IInv, Good, Typed
<1>4. /\ cable \in [Port -> {"none", "standby", "active"}]
      /\ tb \in [Nbr -> Port \cup {NoName, NoEntry}] /\ fdb \in [Nbr -> Port \cup {NoPort}]
      /\ known \in [Nbr -> {"none", "zero", "mac"}]
      /\ via \in [Route -> Nbr \cup {Absent}]
  BY <1>2, <1>3 DEF State, CableState
<1>5. \A n \in Nbr : ref[n] \in Nat
  BY <1>2, <1>3 DEF State
<1>6. /\ \A p \in Port, n \in Nbr : nbrs[p][n] \in {Absent, Tunnel} \cup 0 .. gen[n]
      /\ \A n \in Nbr : nh[n] \in {Absent} \cup 0 .. gen[n]
  BY <1>2, <1>3 DEF Ids
<1>7. UNION {hw, alone, asicTunnel, table, excused} \subseteq Nbr
  <2>1. hw \subseteq Nbr /\ alone \subseteq Nbr /\ asicTunnel \subseteq Nbr /\ table \subseteq Nbr
        /\ excused \subseteq Nbr
    BY <1>2, <1>3 DEF State
  <2> QED BY <2>1
<1> QED BY <1>4, <1>5, <1>6, <1>7 DEF TypeOK

\* The maps of MuxOrch agree with each other and with the tunnel routes, in the
\* ASIC and in TUNNEL_ROUTE_TABLE: whatever the order in which MuxOrch's
\* handlers run, a neighbour is at the cable that mux_nexthop_tb_ names, and no
\* tunnel route is left behind.
THEOREM MuxConsistent == Spec => []Consistent
<1>1. IInv => Consistent
  <2> SUFFICES ASSUME IInv PROVE Consistent
    OBVIOUS
  <2>1. PICK s : s = Now
    OBVIOUS
  <2>2. /\ s.cable = cable /\ s.nbrs = nbrs /\ s.tb = tb /\ s.alone = alone
        /\ s.known = known /\ s.asicTunnel = asicTunnel /\ s.table = table
        /\ s.excused = excused
    BY <2>1, NowIs
  <2>3. Good(s) /\ s \in State
    BY <2>1 DEF IInv, Good, Typed
  <2>4. OneOwner
    BY <2>2, <2>3 DEF OneOwner, Good, NInv, Owned, At
  <2>5. NoTunnelLeft
    <3>1. PICK S : S = UNION {Neighbors(s, p) : p \in {q \in Port : s.cable[q] = "standby"}}
      OBVIOUS
    <3>2. \A n \in Nbr : n \in S <=> \E p \in Port : s.cable[p] = "standby" /\ At(s, p, n)
      BY <3>1 DEF Neighbors, At
    <3>3. S \subseteq Nbr
      BY <3>1 DEF Neighbors
    <3>4. s.asicTunnel \subseteq Nbr /\ s.table \subseteq Nbr
      BY <2>3 DEF State
    <3>5. ASSUME NEW n \in Nbr \ s.excused
          PROVE  (n \in s.asicTunnel => n \in S \cup s.alone) /\ (n \in s.table <=> n \in S)
      <4>1. NInv(s, n)
        BY <2>3 DEF Good
      <4>2. CASE Nowhere(s, n)
        BY <3>2, <4>1, <4>2 DEF NInv, Loose, Nowhere
      <4>3. CASE ~Nowhere(s, n)
        <5>1. PICK p \in Port : At(s, p, n)
          BY <4>3 DEF Nowhere
        <5>2. \A q \in Port : At(s, q, n) => q = p
          BY <4>1, <5>1 DEF NInv, Owned
        <5>3. IF s.cable[p] = "standby" THEN Standing(s, p, n) ELSE Serving(s, p, n)
          BY <4>1, <5>1 DEF NInv, Owned
        <5>4. CASE s.cable[p] = "standby"
          BY <3>2, <5>1, <5>3, <5>4 DEF Standing
        <5>5. CASE s.cable[p] # "standby"
          BY <3>2, <5>2, <5>3, <5>5 DEF Serving
        <5> QED BY <5>4, <5>5
      <4> QED BY <4>2, <4>3
    <3>6. asicTunnel \ excused \subseteq S \cup alone
      BY <2>2, <3>4, <3>5
    <3>7. table \ excused = S \ excused
      BY <2>2, <3>3, <3>4, <3>5
    <3> QED BY <2>1, <2>2, <3>1, <3>6, <3>7 DEF NoTunnelLeft
  <2> QED BY <2>4, <2>5, IInvTypeOK DEF Consistent
<1> QED BY <1>1, MuxInvariant, PTL

\* A neighbour of a standby cable is out of the ASIC and reached through the
\* tunnel, one of an active cable is programmed: what MuxNbrHandler::enable and
\* disable do is done for each neighbour or undone, whichever SAI call fails.
THEOREM MuxSteered == Spec => []Steered
<1>1. IInv => Steered
  <2> SUFFICES ASSUME IInv PROVE Steered
    OBVIOUS
  <2>1. PICK s : s = Now
    OBVIOUS
  <2>2. /\ s.cable = cable /\ s.hw = hw /\ s.asicTunnel = asicTunnel /\ s.excused = excused
    BY <2>1, NowIs
  <2>3. Good(s)
    BY <2>1 DEF IInv
  <2>4. ASSUME NEW p \in Port, NEW n \in Neighbors(s, p) \ s.excused
        PROVE  IF s.cable[p] = "standby" THEN n \notin s.hw /\ n \in s.asicTunnel
               ELSE n \in s.hw /\ n \notin s.asicTunnel
    <3>1. n \in Nbr \ s.excused /\ At(s, p, n)
      BY <2>4 DEF Neighbors, At
    <3> QED BY <2>3, <3>1 DEF Good, NInv, Owned, Standing, Serving
  <2> QED BY <2>1, <2>2, <2>4 DEF Steered
<1> QED BY <1>1, MuxInvariant, PTL

\* A route follows its next hop: RouteOrch::updateNextHopRoutes and addRoute
\* leave it on the tunnel while the cable of the next hop is standby and on the
\* next hop that NeighOrch has otherwise.
THEOREM MuxRoutesFollow == Spec => []RoutesFollow
<1>1. IInv => RoutesFollow
  <2> SUFFICES ASSUME IInv PROVE RoutesFollow
    OBVIOUS
  <2>1. PICK s : s = Now
    OBVIOUS
  <2>2. /\ s.cable = cable /\ s.tb = tb /\ s.known = known /\ s.nh = nh /\ s.via = via
        /\ s.asicRoute = asicRoute /\ s.excused = excused
    BY <2>1, NowIs
  <2>3. Good(s) /\ s \in State
    BY <2>1 DEF IInv, Good, Typed
  <2>4. ASSUME NEW r \in Route, NEW n, n = s.via[r], n # Absent, n \notin s.excused
        PROVE  s.asicRoute[r] = IF isMuxExists(s, s.tb[n]) /\ s.cable[s.tb[n]] = "standby"
                                THEN Tunnel ELSE s.nh[n]
    <3>1. n \in Nbr
      BY <2>3, <2>4 DEF State
    <3>2. Followed(s, n)
      BY <2>3, <2>4, <3>1 DEF Good, NInv
    <3> QED BY <2>4, <3>2 DEF Followed
  <2> QED BY <2>1, <2>2, <2>4 DEF RoutesFollow
<1> QED BY <1>1, MuxInvariant, PTL

\* NeighOrch's reference count of a next hop is the number of routes through
\* it: increaseNextHopRefCount and decreaseNextHopRefCount balance, through
\* every change of state, failure and roll-back.
THEOREM MuxRefExact == Spec => []RefExact
<1>1. IInv => RefExact
  <2> SUFFICES ASSUME IInv PROVE RefExact
    OBVIOUS
  <2>1. PICK s : s = Now
    OBVIOUS
  <2>2. s.nh = nh /\ s.ref = ref /\ s.excused = excused
    BY <2>1, NowIs
  <2>3. Good(s)
    BY <2>1 DEF IInv
  <2>4. ASSUME NEW n \in Nbr \ s.excused, s.nh[n] # Absent
        PROVE  s.ref[n] = Cardinality(RoutesOf(s, n))
    BY <2>3, <2>4 DEF Good, NInv, Counted, Count
  <2> QED BY <2>1, <2>2, <2>4 DEF RefExact
<1> QED BY <1>1, MuxInvariant, PTL
=============================================================================
