--------------------------- MODULE MCConsumerSync ---------------------------
(* Instances of ConsumerSync for TLC.                                      *)
EXTENDS ConsumerSync

CONSTANTS k1, k2, dep, attr, v1, v2

FV(d, a) == [f \in Field |-> IF f = DepField THEN d ELSE a]

\* A dependency, another one with an attribute, and an attribute alone.
MCInputFVs == {FV(v1, NoValue), FV(v2, v1), FV(NoValue, v1)}

=============================================================================
