----------------------------- MODULE MCFdbOrch -----------------------------
(* One MAC, two ports and a tunnel.  One port is an MCLAG interface that   *)
(* is in other VLANs too.                                                  *)
EXTENDS FdbOrch

CONSTANTS p1, p2, vtep

Request(p, type, origin, dest) == [port |-> p, type |-> type, origin |-> origin, dest |-> dest]

MCRequests ==
    {Request(p1, "static", "provisioned", Unknown),
     Request(p2, "static", "provisioned", Unknown),
     Request(p2, "dynamic", "provisioned", Unknown),
     Request(p2, "dynamic", "mclag", Unknown),
     Request(p1, "dynamic_local", "mclag", Unknown),
     Request(vtep, "dynamic", "vxlan", Vtep),
     Request(p1, "dynamic", "vxlan", IfName(p1))}

\* Behaviours are followed to the second thing that the properties excuse.
OneExcuse ==
    MapThenSumSet(LAMBDA x : Cardinality(excused[x]), Excuses) <= 1
=============================================================================
