----------------------------- MODULE RetryCache -----------------------------
(***************************************************************************)
(* The retry cache of one consumer (orchagent/retrycache.h): tasks that    *)
(* failed because an object they depend on is missing are parked here,     *)
(* grouped by the missing constraint, and leave either when the constraint *)
(* is reported resolved or when a newer task of the same key evicts them.  *)
(*                                                                         *)
(* The cache is a value, a record with the three members of the class:     *)
(*   m_toRetry              the parked tasks, each with its constraint     *)
(*   m_retryKeys            constraint -> keys ({} is "no such entry")     *)
(*   m_resolvedConstraints  constraints notified and not yet retried       *)
(* so that modules can hold one cache per consumer.  The multimap          *)
(* m_toRetry is a set: the order of two tasks of one key is left open,     *)
(* which only adds behaviours.                                             *)
(***************************************************************************)
EXTENDS Naturals, FiniteSets

CONSTANTS Key,          \* keys of the consumer's table
          Field,        \* fields of an entry
          Value,        \* values of a field
          Constraint,   \* what a task may wait for
          NoValue       \* marks a field an entry does not carry

ASSUME NoValueAssumption == NoValue \notin Value

\* The field-value list of a task: which fields it carries and their values.
FieldValues == [Field -> Value \cup {NoValue}]
NoFields == [f \in Field |-> NoValue]

SetTask(fv) == [op |-> "SET", fv |-> fv]
DelTask == [op |-> "DEL", fv |-> NoFields]
Task == {SetTask(fv) : fv \in FieldValues} \cup {DelTask}

FailedTask == [key : Key, cst : Constraint, task : Task]

RetryCaches == [m_toRetry             : SUBSET FailedTask,
                m_retryKeys           : [Constraint -> SUBSET Key],
                m_resolvedConstraints : SUBSET Constraint]

EmptyRetryCache == [m_toRetry             |-> {},
                    m_retryKeys           |-> [c \in Constraint |-> {}],
                    m_resolvedConstraints |-> {}]

\* m_toRetry.equal_range(key)
Cached(rc, key) == {t \in rc.m_toRetry : t.key = key}
CachedSets(rc, key) == {t \in Cached(rc, key) : t.task.op = "SET"}
-----------------------------------------------------------------------------
Insert(rc, key, task, cst) ==
  [m_toRetry             |-> rc.m_toRetry \cup {[key |-> key, cst |-> cst, task |-> task]},
   m_retryKeys           |-> [rc.m_retryKeys EXCEPT ![cst] = @ \cup {key}],
   m_resolvedConstraints |-> rc.m_resolvedConstraints]

\* Once the last key of cst is gone, cst leaves both maps.
ForgetIfUnused(resolved, cst, keys) == IF keys = {} THEN resolved \ {cst} ELSE resolved

\* Mutant of Evict: the key stays listed under its constraint.
EvictKeepsKey(rc, t) == [rc EXCEPT !.m_toRetry = @ \ {t}]

\* Remove one parked task t (a SET) and unbind its key from its constraint.
Evict(rc, t) ==
  LET keys == rc.m_retryKeys[t.cst] \ {t.key}
  IN  [m_toRetry             |-> rc.m_toRetry \ {t},
       m_retryKeys           |-> [rc.m_retryKeys EXCEPT ![t.cst] = keys],
       m_resolvedConstraints |-> ForgetIfUnused(rc.m_resolvedConstraints, t.cst, keys)]

\* Mutant of MarkResolved: the keys are looked for under the wrong name, and not found.
MarkResolvedMissed(rc, cst) == rc

\* A resolution nobody waits for is ignored.
MarkResolved(rc, cst) ==
  IF rc.m_retryKeys[cst] = {} THEN rc
  ELSE [rc EXCEPT !.m_resolvedConstraints = @ \cup {cst}]

\* The tasks that wait for cst, of the keys in K.
Waiting(rc, cst, K) == {t \in rc.m_toRetry : t.cst = cst /\ t.key \in K}

\* The sets of keys one call of resolve(cst, threshold) may take out of the
\* hash set m_retryKeys[cst]: it stops at the first key that brings the
\* number of tasks to the threshold.
ResolveChoices(rc, cst, threshold) ==
  {K \in SUBSET rc.m_retryKeys[cst] :
     /\ K = rc.m_retryKeys[cst] \/ Cardinality(Waiting(rc, cst, K)) >= threshold
     /\ \E last \in K : Cardinality(Waiting(rc, cst, K \ {last})) < threshold}

\* Mutant of Resolve: the constraint is forgotten even when the threshold
\* left some of its keys behind.
ResolveForgets(rc, cst, K) ==
  [m_toRetry             |-> rc.m_toRetry \ Waiting(rc, cst, K),
   m_retryKeys           |-> [rc.m_retryKeys EXCEPT ![cst] = @ \ K],
   m_resolvedConstraints |-> rc.m_resolvedConstraints \ {cst}]

\* The keys in K, and the tasks they have parked on cst, leave the cache.
Resolve(rc, cst, K) ==
  LET keys == rc.m_retryKeys[cst] \ K
  IN  [m_toRetry             |-> rc.m_toRetry \ Waiting(rc, cst, K),
       m_retryKeys           |-> [rc.m_retryKeys EXCEPT ![cst] = keys],
       m_resolvedConstraints |-> ForgetIfUnused(rc.m_resolvedConstraints, cst, keys)]
-----------------------------------------------------------------------------
(* The index the class keeps by hand.                                      *)

\* Every parked task is reachable from its constraint, and every key listed
\* under a constraint has a task parked on it.
IndexExact(rc) ==
  \A k \in Key, c \in Constraint :
     k \in rc.m_retryKeys[c] <=> \E t \in rc.m_toRetry : t.key = k /\ t.cst = c

\* Only constraints somebody waits for are recorded as resolved.
ResolvedAwaited(rc) ==
  \A c \in rc.m_resolvedConstraints : rc.m_retryKeys[c] # {}
=============================================================================
