---------------------------- MODULE MCRouteOrch ----------------------------
(* Instances of RouteOrch: the default route, a route of the global VRF    *)
(* and one of another VRF, over three neighbours.                          *)
EXTENDS RouteOrch

CONSTANTS d, r1, r2, n1, n2, n3, global, blue

OrderDef == <<d, r1, r2>>
VrfOfDef == (d :> global) @@ (r1 :> global) @@ (r2 :> blue)
NextHopsDef == {n1, n2, n3}
NhgsDef == (d :> {{n1}}) @@ (r1 :> {{n1, n2}}) @@ (r2 :> {{n1, n2}, {n2, n3}})
SomeRefusals == {<<r1, "create", "exists">>, <<r2, "set", "full">>, <<d, "set", "full">>}

\* A route that falls back to the default route, and the default route.
SwapOrder == <<d, r1>>
SwapVrfOf == (d :> global) @@ (r1 :> global)
SwapNhgs == (d :> {{n1}}) @@ (r1 :> {{n1, n2}})
=============================================================================
