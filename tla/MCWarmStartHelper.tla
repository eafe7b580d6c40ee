------------------------- MODULE MCWarmStartHelper --------------------------
(* Instances of WarmStartHelper for TLC.                                   *)
EXTENDS WarmStartHelper

NoList == <<>>

Route(nexthop, weight) == [nexthop |-> nexthop, weight |-> weight]

\* One next hop; two, in either order; two with weights.
MCEntry == {Route(<<"a">>, NoList), Route(<<"a", "b">>, NoList),
            Route(<<"b", "a">>, NoList), Route(<<"a", "b">>, <<"a", "b">>)}

\* A prefix and a SID.
PrefixAndSid == [k \in Key |-> IF k = "prefix" THEN "ROUTE_TABLE" ELSE "SRV6_MY_SID_TABLE"]
=============================================================================
