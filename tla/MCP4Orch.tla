------------------------------ MODULE MCP4Orch ------------------------------
(* P4Orch with one interface and neighbor, one tunnel, a plain next hop    *)
(* and one through the tunnel, two groups and two routes.                  *)
EXTENDS P4Orch

Rif == <<"rif", "i">>
Nbr == <<"neighbor", "b">>
Tun == <<"tunnel", "t">>
Nh1 == <<"nexthop", "n1">>
Nh2 == <<"nexthop", "n2">>
Grp == <<"wcmp", "g">>
Grp2 == <<"wcmp", "g2">>
R1 == <<"route", "r1">>
R2 == <<"route", "r2">>

Set(k, e) == [op |-> "SET", key |-> k, entry |-> e]
Del(k) == [op |-> "DEL", key |-> k, entry |-> [none |-> TRUE]]
Nh(t, r, b) == [tunnel |-> t, rif |-> r, neighbor |-> b]
Via(a, t, m) == [action |-> a, target |-> t, meta |-> m]
Members(ms) == [members |-> ms]
M(n, p) == [nh |-> n, port |-> p]

Interfaces == {Set(Rif, [port |-> "p", mac |-> 1]), Set(Rif, [port |-> "p", mac |-> 2]),
               Del(Rif)}
Neighbors == {Set(Nbr, [rif |-> Rif, mac |-> 1]), Del(Nbr)}
Tunnels == {Set(Tun, [rif |-> Rif, neighbor |-> Nbr]), Del(Tun)}
Hops == {Set(Nh1, Nh(NoKey, Rif, Nbr)), Del(Nh1), Set(Nh2, Nh(Tun, NoKey, NoKey)), Del(Nh2)}
Groups == {Set(Grp, Members({M(Nh1, "p")})), Set(Grp, Members({M(Nh1, "p"), M(Nh2, "none")})),
           Del(Grp)}
OtherGroup == {Set(Grp2, Members({M(Nh1, "p")})), Set(Grp2, Members({M(Nh1, "none")})),
               Del(Grp2)}
Routes == {Set(R1, Via("wcmp", Grp, 1)), Set(R1, Via("drop", NoKey, 1)), Del(R1)}
OtherRoutes == {Set(R2, Via("nexthop", Nh1, 0)), Set(R2, Via("nexthop", Nh1, 1)), Del(R2)}
Unknown == Set(<<"unknown", "x">>, Malformed)

Requests == UNION {Interfaces, Neighbors, Tunnels, Hops, Groups, OtherGroup, Routes, OtherRoutes}
            \cup {Unknown, Set(R1, Malformed)}

\* Pairs of requests whose objects can depend on each other, or are of one table.
Pairs == (Interfaces \X Neighbors) \cup ({Del(Nbr)} \X Interfaces)
         \cup ({Del(Nbr)} \X Tunnels) \cup ({Del(Nh2)} \X Tunnels)
         \cup {<<Set(Nh1, Nh(NoKey, Rif, Nbr)), Del(Nh2)>>, <<Del(Nh1), Del(Nh2)>>}
         \cup (Hops \X Groups)
         \cup (Groups \X Routes) \cup ({Del(R1)} \X (Groups \cup Routes))
         \cup ({Set(R1, Via("drop", NoKey, 1))} \X Routes)
         \cup (Routes \X OtherRoutes) \cup (Groups \X OtherGroup)
         \cup {<<Unknown, Del(Grp)>>, <<Del(Grp), Unknown>>}

At(r, n) == [i |-> n, op |-> r.op, key |-> r.key, entry |-> r.entry]

\* One or two requests; only a route may be named twice.
MCBatches ==
    {<<At(r, 1)>> : r \in Requests}
    \cup {<<At(p[1], 1), At(p[2], 2)>> : p \in
            {q \in Pairs : q[1].key # q[2].key \/ Type(q[1].key) = "route"}}

\* A bound: the second group is explored without tunnels and routes.
SecondGroupAlone ==
    Grp2 \in DOMAIN table => OfType("tunnel") \cup OfType("route") = {}

\* A bound: the second MAC address is explored up to the first next hop.
SecondMacEarly ==
    OfType("nexthop") # {} => \A k \in OfType("rif") : table[k].mac = 1

\* A bound: a route that an update tore is explored without tunnels.
TornWithoutTunnels ==
    (\E k \in dropped : Type(k) = "route") => OfType("tunnel") = {}

\* A bound: an updated second route is not explored further.
SecondMetaLast == R2 \in DOMAIN table => table[R2].meta = 0
=============================================================================
