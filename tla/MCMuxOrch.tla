----------------------------- MODULE MCMuxOrch -----------------------------
(* Two mux ports, a server of the first and a neighbour that may be at     *)
(* either, with one route each or two through one of them.                 *)
EXTENDS MuxOrch

CONSTANTS p1, p2

MCServer == <<p1, NoPort>>
=============================================================================
