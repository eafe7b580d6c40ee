---------------------------- MODULE MCRoutePath ----------------------------
(* Prefixes that are asked for a route with a next hop, one with a         *)
(* next-hop group, a blackhole, or their removal.                          *)
EXTENDS RoutePath

MCRoute == {[blackhole |-> "false", nexthop |-> "n", nexthop_group |-> ""],
            [blackhole |-> "false", nexthop |-> "", nexthop_group |-> "g"],
            [blackhole |-> "true", nexthop |-> "", nexthop_group |-> ""]}
=============================================================================
