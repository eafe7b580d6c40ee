------------------------ MODULE MCRouteSendCoalescer ------------------------
(* Instances of RouteSendCoalescer for TLC.                                *)
EXTENDS RouteSendCoalescer

\* Two operations on a route, so that one can arrive while an older one is in
\* flight, and one on a label route.
MCMaxOps == [t \in Table |-> IF t = "Route" THEN 2 ELSE 1]
=============================================================================
