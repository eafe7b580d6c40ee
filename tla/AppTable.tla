------------------------------ MODULE AppTable ------------------------------
(***************************************************************************)
(* A table of APP_DB as its producers and its consumer see it: the rows,   *)
(* and the operations staged in the ProducerStateTable of a sync daemon    *)
(* until orchagent's ConsumerStateTable pops them.  (swss-common, modelled *)
(* from its use in warmrestart/, neighsyncd/, fdbsyncd/ and fpmsyncd/.)    *)
(* A row maps every field to a value or to NoValue; a row without any      *)
(* value does not exist.                                                   *)
(***************************************************************************)
CONSTANTS Field, NoValue

NoRow == [f \in Field |-> NoValue]

\* HSET: the fields of fvs replace those of the row, the others stay.
HSet(row, fvs) == [f \in Field |-> IF fvs[f] = NoValue THEN row[f] ELSE fvs[f]]

\* Nothing is staged for a key.
NoStage == [del |-> FALSE, fvs |-> NoRow]

\* ProducerStateTable::set: fields accumulate until the consumer pops.
StageSet(s, fvs) == [del |-> s.del, fvs |-> HSet(s.fvs, fvs)]

\* ProducerStateTable::del: the key is deleted, staged fields are dropped.
StageDel(s) == [del |-> TRUE, fvs |-> NoRow]

\* ConsumerStateTable::pops: the row of a key after its staged operations.
Popped(row, s) == HSet(IF s.del THEN NoRow ELSE row, s.fvs)
=============================================================================
