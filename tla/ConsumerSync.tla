---------------------------- MODULE ConsumerSync ----------------------------
(***************************************************************************)
(* One consumer of an orch (orchagent/orch.cpp, orch.h): the SyncMap       *)
(* m_toSync that merges the updates of a table, the RetryCache beside it,  *)
(* and the main-loop turns that move tasks between them and apply them:    *)
(*   Consumer::execute    pops a batch, addToSync of each entry, drain     *)
(*   Orch::doTask()       retryToSync, then drain                          *)
(*   notifyRetry          another orch provides what tasks wait for        *)
(* The handler (Orch::doTask(Consumer&)) is that of the consumers that     *)
(* park SETs on a missing object: RouteOrch on a PIC context, Srv6Orch     *)
(* MY_SID on a VRF or next hop.  The object a SET needs is the value of    *)
(* its field DepField.                                                     *)
(***************************************************************************)
EXTENDS RetryCache, Sequences, SequencesExt

CONSTANTS DepField,     \* the field that names the object a SET depends on
          InputFVs,     \* the field-value lists producers send
          Threshold,    \* gBatchSize: tasks retried in one turn
          DelRetries    \* may the handler leave a DEL in m_toSync (need_retry)?

ASSUME DepFieldAssumption == DepField \in Field
ASSUME ConstraintAssumption == Constraint = Value
ASSUME InputAssumption == InputFVs \subseteq FieldValues
ASSUME ThresholdAssumption == Threshold \in Nat \ {0}
ASSUME DelRetriesAssumption == DelRetries \in BOOLEAN

NoEntry == [present |-> FALSE, fv |-> NoFields]
Entry(fv) == [present |-> TRUE, fv |-> fv]
Entries == {NoEntry} \cup {Entry(fv) : fv \in FieldValues}

VARIABLES
  m_toSync,     \* key -> sequence of tasks, in order of insertion
  rc,           \* the consumer's RetryCache
  retried,      \* tasks resolve() returned and addToSync has not added yet
  count,        \* tasks retried in this turn
  pos,          \* key -> iterator of the drain within the key's tasks, 0: done
  pc,           \* where the main thread is in this consumer's turn
  met,          \* objects that exist, of those tasks depend on
  applied,      \* key -> the fields the handler has accepted since the last DEL
  intent,       \* key -> what the producers asked for last
  due           \* history: the same, but for what a DEL left in m_toSync undoes

vars == <<m_toSync, rc, retried, count, pos, pc, met, applied, intent, due>>

\* TypeOK: every variable has its type.
TypeOK ==
  /\ m_toSync \in [Key -> Seq(Task)]
  /\ rc \in RetryCaches
  /\ retried \in SUBSET FailedTask
  /\ count \in Nat
  /\ pos \in [Key -> Nat]
  /\ pc \in {"idle", "pops", "retry", "drain"}
  /\ met \in SUBSET Constraint
  /\ applied \in [Key -> Entries]
  /\ intent \in [Key -> Entries]
  /\ due \in [Key -> Entries]

Init ==
  /\ m_toSync = [k \in Key |-> <<>>]
  /\ rc = EmptyRetryCache
  /\ retried = {}
  /\ count = 0
  /\ pos = [k \in Key |-> 0]
  /\ pc = "idle"
  /\ met = {}
  /\ applied = [k \in Key |-> NoEntry]
  /\ intent = [k \in Key |-> NoEntry]
  /\ due = [k \in Key |-> NoEntry]
-----------------------------------------------------------------------------
(* addToSync                                                               *)

\* Field by field, the newer list overrides the older one.
Merge(old, new) ==
  [f \in Field |-> IF new[f] # NoValue THEN new[f] ELSE old[f]]

SetPositions(q) == {i \in DOMAIN q : q[i].op = "SET"}

\* The SyncMap part of addToSyncInternal, on the tasks q of the entry's key:
\* a DEL replaces them, a SET joins the first SET or goes to the end.
AddToRange(q, task) ==
  IF q = <<>> \/ task.op = "DEL" THEN <<task>>
  ELSE IF SetPositions(q) = {} THEN Append(q, task)
  ELSE LET i == CHOOSE j \in SetPositions(q) : \A h \in SetPositions(q) : j <= h
       IN  [q EXCEPT ![i] = SetTask(Merge(q[i].fv, task.fv))]

\* The parked task the retry-cache part of addToSyncInternal takes out: the
\* SET a newer task of the key replaces or is merged with.  A parked SET that
\* equals the new entry, fields in the same order, makes it a duplicate.
IsDuplicate(task, key, sameOrder) ==
  Cardinality(Cached(rc, key)) = 1
    /\ \E t \in Cached(rc, key) : t.task = task /\ (task.op = "SET" => sameOrder)

\* Two parked tasks: the code takes them for a DEL and a SET and lets a new
\* DEL reuse the parked one.
ReusesParkedDel(task, key) == task.op = "DEL" /\ Cardinality(Cached(rc, key)) = 2

\* Mutant of RetryCacheAfter: the parked SET survives the newer task.
RetryCacheUntouched(key) == rc

RetryCacheAfter(key) ==
  IF CachedSets(rc, key) = {} \/ Cardinality(Cached(rc, key)) > 2 THEN rc
  ELSE Evict(rc, CHOOSE t \in CachedSets(rc, key) : TRUE)

\* The tasks of the key with the evicted SET put back for the merge.
RangeBeforeMerge(task, key) ==
  IF task.op = "DEL" \/ CachedSets(rc, key) = {} \/ Cardinality(Cached(rc, key)) > 2
  THEN m_toSync[key]
  ELSE Append(m_toSync[key], (CHOOSE t \in CachedSets(rc, key) : TRUE).task)

\* addToSyncInternal(entry, onRetry = false)
AddToSync(key, task) ==
  \E sameOrder \in BOOLEAN :
    IF IsDuplicate(task, key, sameOrder)
    THEN UNCHANGED <<m_toSync, rc>>
    ELSE /\ rc' = RetryCacheAfter(key)
         /\ m_toSync' = IF ReusesParkedDel(task, key) THEN m_toSync
                        ELSE [m_toSync EXCEPT ![key] =
                                AddToRange(RangeBeforeMerge(task, key), task)]
-----------------------------------------------------------------------------
(* Consumer::execute                                                       *)

\* Effect of a task on an entry as addToSync merges them: a DEL forgets what
\* came before it, a SET overrides the fields it carries.
Apply(e, task) ==
  IF task.op = "DEL" THEN NoEntry
  ELSE Entry(Merge(IF e.present THEN e.fv ELSE NoFields, task.fv))

\* pops() yields one more entry of the batch and addToSync takes it in.
Pops(key, task) ==
  /\ pc \in {"idle", "pops"}
  /\ AddToSync(key, task)
  /\ intent' = [intent EXCEPT ![key] = Apply(@, task)]
  /\ due' = [due EXCEPT ![key] = Apply(@, task)]
  /\ pc' = "pops"
  /\ UNCHANGED <<retried, count, pos, met, applied>>

\* refillToSync: at start-up and warm start the table itself is read back as
\* SETs (the drain that follows is the one of the main loop).
RefillToSync(key) ==
  /\ pc \in {"idle", "pops"}
  /\ intent[key].present
  /\ AddToSync(key, SetTask(intent[key].fv))
  /\ due' = [due EXCEPT ![key] = Apply(@, SetTask(intent[key].fv))]
  /\ pc' = "pops"
  /\ UNCHANGED <<retried, count, pos, met, applied, intent>>

\* drain(): the handler gets the SyncMap and walks it from the beginning.
StartDrain ==
  /\ \/ pc = "pops"
     \/ pc = "retry" /\ retried = {} /\ (rc.m_resolvedConstraints = {} \/ count >= Threshold)
  /\ pos' = [k \in Key |-> IF m_toSync[k] = <<>> THEN 0 ELSE 1]
  /\ pc' = "drain"
  /\ UNCHANGED <<m_toSync, rc, retried, count, met, applied, intent, due>>
-----------------------------------------------------------------------------
(* Orch::doTask(): retry, then drain                                       *)

DoTask ==
  /\ pc = "idle"
  /\ pc' = "retry"
  /\ count' = 0
  /\ UNCHANGED <<m_toSync, rc, retried, pos, met, applied, intent, due>>

\* One iteration of the loop of retryToSync: resolve() one constraint.
RetryToSync(cst) ==
  /\ pc = "retry"
  /\ retried = {}
  /\ cst \in rc.m_resolvedConstraints
  /\ count < Threshold
  /\ \E K \in ResolveChoices(rc, cst, Threshold - count) :
       /\ rc' = Resolve(rc, cst, K)
       /\ retried' = Waiting(rc, cst, K)
       /\ count' = count + Cardinality(Waiting(rc, cst, K))
  /\ UNCHANGED <<m_toSync, pos, pc, met, applied, intent, due>>

\* addToSync(tasks, onRetry = true): the retry cache is not consulted.
ReAdd(t) ==
  /\ pc = "retry"
  /\ t \in retried
  /\ m_toSync' = [m_toSync EXCEPT ![t.key] = AddToRange(@, t.task)]
  /\ retried' = retried \ {t}
  /\ UNCHANGED <<rc, count, pos, pc, met, applied, intent, due>>
-----------------------------------------------------------------------------
(* Orch::doTask(Consumer&): the handler, one task of the SyncMap           *)

NextPos(q, i) == IF i > Len(q) THEN 0 ELSE i

\* The task under the iterator is done with: erase(it++).
EraseTask(k) ==
  /\ m_toSync' = [m_toSync EXCEPT ![k] = RemoveAt(@, pos[k])]
  /\ pos' = [pos EXCEPT ![k] = NextPos(RemoveAt(m_toSync[k], @), @)]

AtTask(k) == pc = "drain" /\ pos[k] # 0
CurrentTask(k) == m_toSync[k][pos[k]]

\* Does the task wait for an object that does not exist yet?
Blocked(task) ==
  task.op = "SET" /\ task.fv[DepField] # NoValue /\ task.fv[DepField] \notin met

\* Has the walk left a task of the key behind?  It is a DEL, and undoes this one
\* when it is tried again.
Overtakes(k) == pos[k] > 1

\* addRoute/removeRoute, createUpdateMysidEntry/deleteMysidEntry succeed.
TaskSuccess(k) ==
  /\ AtTask(k)
  /\ ~Blocked(CurrentTask(k))
  /\ applied' = [applied EXCEPT ![k] = Apply(@, CurrentTask(k))]
  /\ due' = IF Overtakes(k) THEN [due EXCEPT ![k] = NoEntry] ELSE due
  /\ EraseTask(k)
  /\ UNCHANGED <<rc, retried, count, pc, met, intent>>

\* The dependency is missing: addToRetry and erase.
TaskCached(k) ==
  /\ AtTask(k)
  /\ Blocked(CurrentTask(k))
  /\ rc' = Insert(rc, k, CurrentTask(k), CurrentTask(k).fv[DepField])
  /\ EraseTask(k)
  /\ UNCHANGED <<retried, count, pc, met, applied, intent, due>>

\* A transient failure without a constraint (task_need_retry): it++.
TaskNeedRetry(k) ==
  /\ AtTask(k)
  /\ ~Blocked(CurrentTask(k))
  /\ CurrentTask(k).op = "DEL" => DelRetries
  /\ pos' = [pos EXCEPT ![k] = NextPos(m_toSync[k], @ + 1)]
  /\ UNCHANGED <<m_toSync, rc, retried, count, pc, met, applied, intent, due>>

EndDrain ==
  /\ pc = "drain"
  /\ \A k \in Key : pos[k] = 0
  /\ pc' = "idle"
  /\ UNCHANGED <<m_toSync, rc, retried, count, pos, met, applied, intent, due>>
-----------------------------------------------------------------------------
(* Other orchs, between this consumer's turns                              *)

\* The object is created and its orch calls notifyRetry.
NotifyRetry(c) ==
  /\ pc = "idle"
  /\ c \notin met
  /\ met' = met \cup {c}
  /\ rc' = MarkResolved(rc, c)
  /\ UNCHANGED <<m_toSync, retried, count, pos, pc, applied, intent, due>>

\* The object is removed: allowed once nothing programmed refers to it.
ObjectRemoved(c) ==
  /\ pc = "idle"
  /\ c \in met
  /\ \A k \in Key : applied[k].present => applied[k].fv[DepField] # c
  /\ met' = met \ {c}
  /\ UNCHANGED <<m_toSync, rc, retried, count, pos, pc, applied, intent, due>>

Input == \E k \in Key : \/ \E fv \in InputFVs : Pops(k, SetTask(fv))
                        \/ Pops(k, DelTask)
                        \/ RefillToSync(k)

Next ==
  \/ Input
  \/ StartDrain
  \/ DoTask
  \/ \E c \in Constraint : RetryToSync(c) \/ NotifyRetry(c) \/ ObjectRemoved(c)
  \/ \E t \in retried : ReAdd(t)
  \/ \E k \in Key : TaskSuccess(k) \/ TaskCached(k) \/ TaskNeedRetry(k)
  \/ EndDrain

Spec == Init /\ [][Next]_vars

\* The main loop keeps running: every turn that starts is finished, doTask()
\* is called again and again (select timeouts included), and a transient
\* failure does not last for ever.
Fairness ==
  /\ WF_vars(StartDrain) /\ WF_vars(EndDrain)
  /\ WF_vars(\E t \in retried : ReAdd(t))
  /\ SF_vars(DoTask)
  /\ WF_vars(\E c \in Constraint : RetryToSync(c))
  /\ \A k \in Key : SF_vars(TaskSuccess(k)) /\ WF_vars(TaskCached(k) \/ TaskNeedRetry(k))

FairSpec == Spec /\ Fairness
-----------------------------------------------------------------------------
(* Properties                                                              *)

\* The two maps of the RetryCache and its set of resolved constraints agree
\* after any mix of insert, evict and resolve: no parked task is unreachable
\* from its constraint, no key is listed without a task, and no resolved
\* constraint is left behind without keys (retryToSync would spin on it).
CacheIndexed == IndexExact(rc) /\ ResolvedAwaited(rc)

\* The tasks of one key in m_toSync: none, one, or a DEL and then a SET.
IsRange(q) ==
  \/ q = <<>>
  \/ \E t \in Task : q = <<t>>
  \/ \E fv \in FieldValues : q = <<DelTask, SetTask(fv)>>

Parked(k) == {t \in retried \cup rc.m_toRetry : t.key = k}

\* The SyncMap never holds more than a DEL followed by a SET for a key, and
\* no key has two parked tasks, or a parked SET and a queued SET at once (the
\* comment in addToSyncInternal: "We maintain maximum two values per key").
SyncMapShape ==
  \A k \in Key :
    /\ IsRange(m_toSync[k])
    /\ \A t \in Parked(k) : t.task.op = "SET" /\ SetPositions(m_toSync[k]) = {}
    /\ \A t, u \in Parked(k) : t = u

\* No resolution is lost: a parked task whose object exists by now has its
\* constraint recorded as resolved, so the next doTask() turns retry it.
NoLostResolution ==
  \A t \in rc.m_toRetry : t.cst \in met => t.cst \in rc.m_resolvedConstraints

\* Everything still pending for k, applied in order: the SyncMap, then the
\* SET that is parked or on its way back from the cache.
ApplyRange(e, q) ==
  IF Len(q) = 0 THEN e
  ELSE IF Len(q) = 1 THEN Apply(e, q[1])
  ELSE Apply(Apply(e, q[1]), q[2])

ThenParked(e, parked) ==
  IF parked = {} THEN e ELSE Apply(e, (CHOOSE t \in parked : TRUE).task)

Outcome(k) == ThenParked(ApplyRange(applied[k], m_toSync[k]), Parked(k))

\* No update is lost, duplicated or applied out of order, wherever it waits:
\* what is programmed plus what is pending is what the producers asked for
\* ("Store the latest 'golden' status", orch.h on m_toSync), where a DEL that the
\* handler left behind undoes the one SET it applied in the meantime.
Golden == \A k \in Key : Outcome(k) = due[k]

\* Once producers are quiet and every object exists for good, every entry is
\* programmed as asked (as due): neither the retry quota nor the index starves a task.
EventuallyApplied ==
  (<>[][~Input]_vars /\ <>[](met = Constraint)) => <>[](applied = due)
=============================================================================
