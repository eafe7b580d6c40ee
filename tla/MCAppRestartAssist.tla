------------------------- MODULE MCAppRestartAssist -------------------------
(* Instances of AppRestartAssist for TLC.                                  *)
EXTENDS AppRestartAssist

\* neighsyncd writes the same fields for every neighbour.
NeighEntry == [Field -> Value]
=============================================================================
