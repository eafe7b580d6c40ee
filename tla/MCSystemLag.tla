---------------------------- MODULE MCSystemLag ----------------------------
(* Two line cards with a LAG each.                                         *)
EXTENDS SystemLag

CONSTANTS c1, c2, l1, l2

MCOwner == (l1 :> c1) @@ (l2 :> c2)
=============================================================================
