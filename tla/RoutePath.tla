----------------------------- MODULE RoutePath -----------------------------
(***************************************************************************)
(* The way of a route from fpmsyncd (RouteSync) to the handler of          *)
(* RouteOrch, over one of two transports:                                  *)
(*   "zmq"    the coalescing map of fpmsyncd, a ZMQ socket, the staging    *)
(*            map m_ingress that the poll thread of orchagent fills, and   *)
(*            m_toSync of ZmqRouteConsumer;                                *)
(*   "redis"  a ProducerStateTable, from which Consumer pops into          *)
(*            m_toSync.                                                    *)
(* The places merge in different ways: the maps of fpmsyncd and m_ingress  *)
(* keep the newest request of a key as a whole, a state table and m_toSync *)
(* merge field by field.  What RouteSync sends is made for that: over ZMQ  *)
(* every field, empty ones too; over Redis a DEL and only the fields that  *)
(* are not empty.                                                          *)
(*                                                                         *)
(* A request carries its number, for the properties only.  RouteSend-      *)
(* Coalescer models the first map with its failures, ConsumerSync m_toSync *)
(* with its retry cache.                                                   *)
(***************************************************************************)
EXTENDS Naturals, Sequences, FiniteSets, SequencesExt

CONSTANTS
    Keys,           \* route prefixes
    Route,          \* the routes RouteSync asks for
    Transports,     \* a subset of {"zmq", "redis"}
    gMaxBulkSize,   \* staged routes that wake the main loop at once
    MaxWire,        \* bound: messages the socket holds
    MaxAsks         \* bound: requests for all keys

Field == {"blackhole", "nexthop", "nexthop_group"}
Empty(f) == IF f = "blackhole" THEN "false" ELSE ""
NoRoute == [none |-> TRUE]
NoTask == [op |-> "none"]
NoFields == [f \in {} |-> ""]

\* RouteSync names the next hops of a route or its group, never both.
ASSUME RouteAssumption ==
    /\ Route \subseteq [Field -> STRING]
    /\ \A r \in Route : r["nexthop"] = "" \/ r["nexthop_group"] = ""
ASSUME TransportsAssumption == Transports \subseteq {"zmq", "redis"}
ASSUME BulkAssumption == gMaxBulkSize \in Nat \ {0}
ASSUME BoundsAssumption == MaxWire \in Nat \ {0} /\ MaxAsks \in Nat

VARIABLES
    transport,  \* fixed when the processes start
    out,        \* the coalescing map: key -> task or NoTask
    wire,       \* messages in the ZMQ socket: <<key, task>>
    m_ingress,  \* key -> task or NoTask
    burst,      \* has the poll thread a burst it has not announced?
    eventfd,    \* will the main loop call execute()?
    state,      \* Redis: key -> the temporary hash of the state table
    keyset, delset,     \* Redis: keys with news, keys with a DEL before it
    number,     \* Redis: key -> the number of the last request
    appdb,      \* Redis: key -> the hash of the table itself
    m_toSync,   \* key -> a DEL, a SET, or a DEL and a SET
    pc, todo,   \* the main thread, and the keys its walk has not passed
    log, at, shown      \* history and the routes as programmed

sender == <<out, wire>>
poll == <<m_ingress, burst, eventfd>>
redis == <<state, keyset, delset, number, appdb>>
main == <<m_toSync, pc, todo, at, shown>>
vars == <<transport, sender, poll, redis, main, log>>

Init ==
    /\ transport \in Transports
    /\ out = [k \in Keys |-> NoTask] /\ wire = <<>>
    /\ m_ingress = [k \in Keys |-> NoTask] /\ burst = FALSE /\ eventfd = FALSE
    /\ state = [k \in Keys |-> NoFields] /\ appdb = [k \in Keys |-> NoFields]
    /\ keyset = {} /\ delset = {} /\ number = [k \in Keys |-> 0]
    /\ m_toSync = [k \in Keys |-> <<>>] /\ pc = "idle" /\ todo = {}
    /\ log = [k \in Keys |-> <<>>] /\ at = [k \in Keys |-> 0]
    /\ shown = [k \in Keys |-> NoRoute]

-----------------------------------------------------------------------------
(* fpmsyncd                                                                *)

\* Mutant: the empty fields are left out over ZMQ too.
NonEmptyOnly(r) == [f \in {g \in Field : r[g] # Empty(g)} |-> r[f]]

\* The fields of a route: over ZMQ all of them, else those that are not empty.
fieldValueTupleVector(r) ==
    [f \in {g \in Field : transport = "zmq" \/ r[g] # Empty(g)} |-> r[f]]

DelTask(n) == [op |-> "DEL", fv |-> NoFields, n |-> n]
SetTask(r, n) == [op |-> "SET", fv |-> fieldValueTupleVector(r), n |-> n]

\* Mutant: the table is set without the DEL.
SetOnly(r, n) == <<SetTask(r, n)>>

KeyOpFieldsValuesTupleVector(r, n) ==
    IF transport = "zmq" THEN <<SetTask(r, n)>> ELSE <<DelTask(n), SetTask(r, n)>>

\* A ProducerStateTable takes a DEL or a SET.
Produce(t, st) ==
    IF t.op = "DEL" THEN [hash |-> NoFields, del |-> TRUE]
    ELSE [hash |-> [f \in DOMAIN st.hash \cup DOMAIN t.fv |->
                      IF f \in DOMAIN t.fv THEN t.fv[f] ELSE st.hash[f]],
          del |-> st.del]

\* It takes the tasks of k, one or two, in their order.
ProducerStateTable(k, tasks) ==
    LET one == Produce(tasks[1], [hash |-> state[k], del |-> k \in delset])
        st == IF Len(tasks) = 1 THEN one ELSE Produce(tasks[2], one)
    IN  /\ state' = [state EXCEPT ![k] = st.hash]
        /\ delset' = IF st.del THEN delset \cup {k} ELSE delset
        /\ keyset' = keyset \cup {k}
        /\ number' = [number EXCEPT ![k] = Last(tasks).n]
        /\ UNCHANGED appdb

\* RouteSync hands tasks for k to the coalescer or to the table.
Write(k, tasks) ==
    IF transport = "zmq"
    THEN /\ out' = [out EXCEPT ![k] = tasks[1]]
         /\ UNCHANGED <<wire, redis>>
    ELSE ProducerStateTable(k, tasks) /\ UNCHANGED sender

Asked == FoldFunction(LAMBDA l, n : Len(l) + n, 0, log)

setTableWithWarmRestart(k, r) ==
    /\ Asked < MaxAsks
    /\ log' = [log EXCEPT ![k] = Append(@, r)]
    /\ Write(k, KeyOpFieldsValuesTupleVector(r, Len(log[k]) + 1))
    /\ UNCHANGED <<transport, poll, main>>

delTableWithWarmRestart(k) ==
    /\ Asked < MaxAsks
    /\ log' = [log EXCEPT ![k] = Append(@, NoRoute)]
    /\ Write(k, <<DelTask(Len(log[k]) + 1)>>)
    /\ UNCHANGED <<transport, poll, main>>

\* The send thread of the coalescer posts what is pending for k.
Send(k) ==
    /\ out[k] # NoTask
    /\ Len(wire) < MaxWire
    /\ wire' = Append(wire, <<k, out[k]>>)
    /\ out' = [out EXCEPT ![k] = NoTask]
    /\ UNCHANGED <<transport, poll, redis, main, log>>

-----------------------------------------------------------------------------
(* The poll thread of orchagent                                            *)

\* Mutant: what is staged already wins.
FirstWriterWins(kcos) ==
    [k \in Keys |-> IF m_ingress[k] # NoTask THEN m_ingress[k]
                    ELSE LET own == {i \in DOMAIN kcos : kcos[i][1] = k}
                         IN  IF own = {} THEN NoTask ELSE kcos[Min(own)][2]]

\* m_ingress after kcos are staged, the newest of a key as a whole.
Stage(kcos) ==
    [k \in Keys |-> LET own == {i \in DOMAIN kcos : kcos[i][1] = k}
                    IN  IF own = {} THEN m_ingress[k] ELSE kcos[Max(own)][2]]

Staged(ingress) == Cardinality({k \in Keys : ingress[k] # NoTask})

IngressCallback(m) ==
    /\ m_ingress' = Stage(SubSeq(wire, 1, m))
    /\ wire' = SubSeq(wire, m + 1, Len(wire))
    /\ burst' = TRUE
    /\ eventfd' = (eventfd \/ Staged(m_ingress') >= gMaxBulkSize)
    /\ UNCHANGED <<transport, out, redis, main, log>>

\* Mutant: the end of a burst is not announced.
QuietQuiesce ==
    /\ burst
    /\ burst' = FALSE
    /\ UNCHANGED <<transport, sender, m_ingress, eventfd, redis, main, log>>

\* The burst is over: the poll thread notifies.
Quiesce ==
    /\ burst
    /\ burst' = FALSE
    /\ eventfd' = TRUE
    /\ UNCHANGED <<transport, sender, m_ingress, redis, main, log>>

-----------------------------------------------------------------------------
(* The main thread of orchagent                                            *)

Merge(old, new) ==
    [op |-> "SET", n |-> new.n,
     fv |-> [f \in DOMAIN old.fv \cup DOMAIN new.fv |->
               IF f \in DOMAIN new.fv THEN new.fv[f] ELSE old.fv[f]]]

\* Mutant: every SET is a task of its own.
AppendAlways(q, t) == IF t.op = "DEL" THEN <<t>> ELSE Append(q, t)

\* addToSync of one task to the tasks q of its key.
AddToRange(q, t) ==
    IF q = <<>> \/ t.op = "DEL" THEN <<t>>
    ELSE IF Last(q).op = "SET" THEN [q EXCEPT ![Len(q)] = Merge(@, t)]
    ELSE Append(q, t)

\* m_toSync is handed to the handler, which walks it.
Drain(q) ==
    /\ m_toSync' = q
    /\ todo' = {k \in Keys : q[k] # <<>>}
    /\ pc' = "drain"
    /\ UNCHANGED <<at, shown>>

\* ZmqRouteConsumer::execute
Execute ==
    /\ pc = "idle" /\ eventfd
    /\ eventfd' = FALSE
    /\ m_ingress' = [k \in Keys |-> NoTask]
    /\ Drain([k \in Keys |-> IF m_ingress[k] = NoTask THEN m_toSync[k]
                             ELSE AddToRange(m_toSync[k], m_ingress[k])])
    /\ UNCHANGED <<transport, sender, burst, redis, log>>

\* The hash of the table after pops() of k.
Popped(k) ==
    LET old == IF k \in delset THEN NoFields ELSE appdb[k]
    IN  [f \in DOMAIN old \cup DOMAIN state[k] |->
           IF f \in DOMAIN state[k] THEN state[k][f] ELSE old[f]]

\* A key without fields was deleted.
PopsTask(k) ==
    [op |-> IF state[k] = NoFields THEN "DEL" ELSE "SET", fv |-> state[k], n |-> number[k]]

\* Consumer::execute: a batch of keys leaves the state table.
ExecutePops(K) ==
    /\ pc = "idle"
    /\ K # {}
    /\ appdb' = [k \in Keys |-> IF k \in K THEN Popped(k) ELSE appdb[k]]
    /\ state' = [k \in Keys |-> IF k \in K THEN NoFields ELSE state[k]]
    /\ keyset' = keyset \ K
    /\ delset' = delset \ K
    /\ Drain([k \in Keys |-> IF k \in K THEN AddToRange(m_toSync[k], PopsTask(k))
                             ELSE m_toSync[k]])
    /\ UNCHANGED <<transport, sender, poll, number, log>>

\* Orch::doTask: the main loop drains what was left.
DoTask ==
    /\ pc = "idle"
    /\ \E k \in Keys : m_toSync[k] # <<>>
    /\ Drain(m_toSync)
    /\ UNCHANGED <<transport, sender, poll, redis, log>>

\* RouteOrch::doTask reads the fields of a SET; missing ones are empty.
Parsed(fv) == [f \in Field |-> IF f \in DOMAIN fv THEN fv[f] ELSE Empty(f)]

HasBoth(t) == Parsed(t.fv)["nexthop_group"] # "" /\ Parsed(t.fv)["nexthop"] # ""

\* The task at the head of k's tasks is done with.
Erase(k) ==
    /\ m_toSync' = [m_toSync EXCEPT ![k] = Tail(@)]
    /\ todo' = IF Len(m_toSync[k]) = 1 THEN todo \ {k} ELSE todo
    /\ UNCHANGED <<transport, sender, poll, redis, pc, log>>

Programmed(k, r) ==
    /\ at' = [at EXCEPT ![k] = m_toSync[k][1].n]
    /\ shown' = [shown EXCEPT ![k] = r]

\* removeRoute or addRoute succeeds.
TaskSuccess(k) ==
    /\ k \in todo
    /\ LET t == m_toSync[k][1]
       IN  IF t.op = "DEL" THEN Programmed(k, NoRoute)
           ELSE ~HasBoth(t) /\ Programmed(k, Parsed(t.fv))
    /\ Erase(k)

\* A VRF, a next hop, a group or the end of a resync is missing, or the SAI
\* call is to be retried: the tasks of k stay.
TaskWaits(k) ==
    /\ k \in todo
    /\ ~HasBoth(m_toSync[k][1])
    /\ todo' = todo \ {k}
    /\ UNCHANGED <<transport, sender, poll, redis, m_toSync, pc, at, shown, log>>

\* "Route %s has both nexthop_group and ips/aliases": the task is dropped.
TaskRejected(k) ==
    /\ k \in todo
    /\ HasBoth(m_toSync[k][1])
    /\ Erase(k)
    /\ UNCHANGED <<at, shown>>

EndDrain ==
    /\ pc = "drain" /\ todo = {}
    /\ pc' = "idle"
    /\ UNCHANGED <<transport, sender, poll, redis, m_toSync, todo, at, shown, log>>

Next ==
    \/ \E k \in Keys : \/ \E r \in Route : setTableWithWarmRestart(k, r)
                       \/ delTableWithWarmRestart(k)
                       \/ Send(k)
                       \/ TaskSuccess(k) \/ TaskWaits(k) \/ TaskRejected(k)
    \/ \E m \in DOMAIN wire : IngressCallback(m)
    \/ Quiesce
    \/ Execute
    \/ \E K \in SUBSET keyset : ExecutePops(K)
    \/ DoTask
    \/ EndDrain

Spec == Init /\ [][Next]_vars

\* The threads run, bursts end, and what a route waits for comes.
Fairness ==
    /\ WF_vars(\E k \in Keys : Send(k))
    /\ WF_vars(\E m \in DOMAIN wire : IngressCallback(m))
    /\ WF_vars(Quiesce) /\ SF_vars(Execute) /\ SF_vars(ExecutePops(keyset))
    /\ SF_vars(DoTask) /\ WF_vars(EndDrain)
    /\ \A k \in Keys : /\ SF_vars(TaskSuccess(k))
                       /\ WF_vars(TaskWaits(k) \/ TaskRejected(k))

FairSpec == Spec /\ Fairness

-----------------------------------------------------------------------------
(* Properties                                                              *)

\* The type of the state; m_toSync holds at most a DEL and a SET of a key.
TypeOK ==
    /\ transport \in Transports
    /\ \A k \in Keys : /\ out[k] = NoTask \/ out[k].op \in {"SET", "DEL"}
                       /\ m_ingress[k] = NoTask \/ m_ingress[k].op \in {"SET", "DEL"}
                       /\ Len(m_toSync[k]) <= 2
                       /\ at[k] \in 0 .. Len(log[k])
    /\ burst \in BOOLEAN /\ eventfd \in BOOLEAN
    /\ pc \in {"idle", "drain"} /\ todo \subseteq Keys
    /\ keyset \subseteq Keys /\ delset \subseteq keyset

\* Everything on the way for k.
Underway(k) ==
    {t \in {out[k], m_ingress[k]} : t # NoTask}
    \cup {m[2] : m \in {x \in Range(wire) : x[1] = k}}
    \cup Range(m_toSync[k])

\* The newest request for a prefix is never lost over ZMQ: it is programmed or
\* still on the way, as a whole.
NewestUnderway ==
    transport = "zmq" =>
        \A k \in Keys : LET n == Len(log[k]) IN
            \/ at[k] = n
            \/ \E t \in Underway(k) :
                 t.n = n /\ (IF t.op = "DEL" THEN NoRoute ELSE Parsed(t.fv)) = log[k][n]

\* What is staged is announced: the main loop will take it.
NoLostWakeup == (\E k \in Keys : m_ingress[k] # NoTask) => burst \/ eventfd

\* The newest request is underway and will be taken.
Consistent == TypeOK /\ NewestUnderway /\ NoLostWakeup

\* Over Redis the hash of a prefix is the route asked for last, as soon as it
\* is popped: no field of an earlier route is left.
DatabaseExact ==
    transport = "redis" =>
        \A k \in Keys : k \notin keyset /\ log[k] # <<>> =>
            IF Last(log[k]) = NoRoute THEN appdb[k] = NoFields
            ELSE Parsed(appdb[k]) = Last(log[k])

\* Over ZMQ what is programmed is compared with the register as a whole; over
\* Redis, where m_toSync mixes requests, only the order of the requests is.
Shown == [k \in Keys |-> IF transport = "zmq" \/ at[k] = 0 THEN shown[k] ELSE log[k][at[k]]]

Register == INSTANCE RouteRegister WITH shown <- Shown

\* The whole way implements the register.
ImplementsRegister == Register!Spec

\* Once no more is asked for, every prefix is programmed as asked over ZMQ.
EventuallyShown == <>[](transport = "zmq" => \A k \in Keys : at[k] = Len(log[k]))
=============================================================================
