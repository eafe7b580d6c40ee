-------------------------- MODULE RoutePathProofs --------------------------
(***************************************************************************)
(* Proofs about RoutePath, for any prefixes and routes, sockets and bursts *)
(* of any size, and any number of requests: over ZMQ the newest request is *)
(* never lost, over Redis the table holds exactly the last one, and the    *)
(* whole way implements a register per prefix.                             *)
(***************************************************************************)
EXTENDS RoutePath, WellFoundedInduction, SequenceTheorems, TLAPS

\* What a task may be.
Fields == UNION {[D -> STRING] : D \in SUBSET Field}
Task == [op : {"SET", "DEL"}, fv : Fields, n : Nat]
Slot == Task \cup {NoTask}
Request == Route \cup {NoRoute}

\* The types of the state.
Types ==
  /\ transport \in {"zmq", "redis"} /\ transport \in Transports
  /\ out \in [Keys -> Slot] /\ m_ingress \in [Keys -> Slot]
  /\ wire \in Seq(Keys \X Task)
  /\ burst \in BOOLEAN /\ eventfd \in BOOLEAN
  /\ state \in [Keys -> Fields] /\ appdb \in [Keys -> Fields]
  /\ keyset \in SUBSET Keys /\ delset \in SUBSET Keys
  /\ number \in [Keys -> Nat]
  /\ m_toSync \in [Keys -> Seq(Task)]
  /\ pc \in {"idle", "drain"} /\ todo \in SUBSET Keys
  /\ log \in [Keys -> Seq(Request)]
  /\ at \in [Keys -> Nat]
  /\ shown = [k \in Keys |-> shown[k]]

\* The tasks of a key in m_toSync: a DEL, a SET, or a DEL and a newer SET, all
\* newer than what is programmed.
Range2(q, low) ==
  /\ Len(q) <= 2
  /\ \A i \in 1 .. Len(q) : low < q[i].n
  /\ Len(q) = 2 => q[1].op = "DEL" /\ q[2].op = "SET" /\ q[1].n < q[2].n

Queues ==
  \A k \in Keys : /\ Range2(m_toSync[k], at[k])
                  /\ k \in todo => m_toSync[k] # <<>>
                  /\ at[k] <= Len(log[k])
                  /\ at[k] = 0 => shown[k] = NoRoute

\* The task over ZMQ for request r, the n-th of its key.
Whole(r, n) == IF r = NoRoute THEN DelTask(n) ELSE [op |-> "SET", fv |-> r, n |-> n]

\* A task that carries the whole of request t.n of k.
Carries(k, t) == t.n \in 1 .. Len(log[k]) /\ t = Whole(log[k][t.n], t.n)

OnWire(k) == {i \in 1 .. Len(wire) : wire[i][1] = k}

\* Every task carries its request.
Carried ==
  \A k \in Keys : /\ out[k] # NoTask => Carries(k, out[k])
                  /\ \A i \in OnWire(k) : Carries(k, wire[i][2])
                  /\ m_ingress[k] # NoTask => Carries(k, m_ingress[k])
                  /\ \A i \in 1 .. Len(m_toSync[k]) : Carries(k, m_toSync[k][i])
                  /\ at[k] # 0 => shown[k] = log[k][at[k]]

\* The places of the way are in the order of the requests.
InOrder(k) ==
  /\ out[k] # NoTask =>
       /\ at[k] < out[k].n
       /\ \A i \in OnWire(k) : wire[i][2].n < out[k].n
       /\ m_ingress[k] # NoTask => m_ingress[k].n < out[k].n
       /\ \A j \in 1 .. Len(m_toSync[k]) : m_toSync[k][j].n < out[k].n
  /\ \A i \in OnWire(k) :
       /\ at[k] < wire[i][2].n
       /\ \A j \in OnWire(k) : i < j => wire[i][2].n < wire[j][2].n
       /\ m_ingress[k] # NoTask => m_ingress[k].n < wire[i][2].n
       /\ \A j \in 1 .. Len(m_toSync[k]) : m_toSync[k][j].n < wire[i][2].n
  /\ m_ingress[k] # NoTask =>
       /\ at[k] < m_ingress[k].n
       /\ \A j \in 1 .. Len(m_toSync[k]) : m_toSync[k][j].n < m_ingress[k].n

\* The newest request is somewhere on the way, or programmed.
Newest(k) ==
  LET n == Len(log[k]) IN
    \/ at[k] = n
    \/ out[k] # NoTask /\ out[k].n = n
    \/ \E i \in OnWire(k) : wire[i][2].n = n
    \/ m_ingress[k] # NoTask /\ m_ingress[k].n = n
    \/ \E i \in 1 .. Len(m_toSync[k]) : m_toSync[k][i].n = n

\* Over ZMQ.
Zmq ==
  transport = "zmq" => /\ keyset = {} /\ delset = {} /\ Carried
                       /\ \A k \in Keys : InOrder(k) /\ Newest(k)

\* The hash of the table that the last of the requests l asks for.
Wanted(l) == IF l[Len(l)] = NoRoute THEN NoFields ELSE NonEmptyOnly(l[Len(l)])

\* Over Redis: the state table holds the last request until it is popped, the
\* table itself from then on.
Redis ==
  transport = "redis" =>
    /\ wire = <<>> /\ delset = keyset
    /\ \A k \in Keys :
         /\ out[k] = NoTask /\ m_ingress[k] = NoTask
         /\ number[k] = Len(log[k])
         /\ k \notin keyset => state[k] = NoFields
         /\ k \in keyset => log[k] # <<>> /\ state[k] = Wanted(log[k])
         /\ k \notin keyset /\ log[k] # <<>> => appdb[k] = Wanted(log[k])
         /\ \A i \in 1 .. Len(m_toSync[k]) :
              /\ m_toSync[k][i].n <= Len(log[k])
              /\ k \in keyset => m_toSync[k][i].n < Len(log[k])
         /\ k \in keyset => at[k] < Len(log[k])

IInv == Types /\ Queues /\ Zmq /\ Redis /\ NoLostWakeup
-----------------------------------------------------------------------------
(* The operators of the model                                              *)

\* A set of positions that is not empty has a last one.
LEMMA MaxOfPositions ==
  ASSUME NEW n \in Nat, NEW T \in SUBSET (1 .. n), T # {}
  PROVE  /\ Max(T) \in T
         /\ \A i \in T : i <= Max(T)
<1> DEFINE U == {n - i : i \in T}
<1>1. U \subseteq Nat /\ U # {}
  <2>1. U \subseteq Nat OBVIOUS
  <2>2. PICK z \in T : TRUE OBVIOUS
  <2>3. n - z \in U OBVIOUS
  <2> QED BY <2>1, <2>3
<1>2. PICK u \in U : \A v \in U : ~(<<v, u>> \in OpToRel(<, Nat))
  BY <1>1, WFMin, NatLessThanWellFounded, Zenon
<1>3. \A v \in U : ~(v < u)
  BY <1>1, <1>2 DEF OpToRel
<1>4. PICK x \in T : u = n - x OBVIOUS
<1>5. \A i \in T : i <= x BY <1>3, <1>4
<1>6. \E y \in T : \A i \in T : y >= i BY <1>5
<1>7. Max(T) \in T /\ \A i \in T : Max(T) >= i
  BY <1>6, Zenon DEF Max
<1> QED BY <1>7

\* No task is the mark of an empty slot.
LEMMA TaskIsSome == \A t \in Task : t # NoTask
BY DEF Task, NoTask

\* The empty field list is a field list.
LEMMA NoFieldsType == NoFields \in Fields
BY DEF NoFields, Fields

\* Fields that are laid over older ones.
LEMMA OverType ==
  ASSUME NEW f \in Fields, NEW g \in Fields
  PROVE  [x \in DOMAIN f \cup DOMAIN g |-> IF x \in DOMAIN g THEN g[x] ELSE f[x]] \in Fields
<1>1. PICK D \in SUBSET Field : f \in [D -> STRING] BY DEF Fields
<1>2. PICK E \in SUBSET Field : g \in [E -> STRING] BY DEF Fields
<1>3. D \cup E \in SUBSET Field OBVIOUS
<1>4. [x \in D \cup E |-> IF x \in E THEN g[x] ELSE f[x]] \in [D \cup E -> STRING]
  BY <1>1, <1>2
<1>5. DOMAIN f = D /\ DOMAIN g = E BY <1>1, <1>2
<1> QED BY <1>3, <1>4, <1>5 DEF Fields

\* addToSync's merge of two SETs is a SET as new as the second.
LEMMA MergeType ==
  ASSUME NEW s \in Task, NEW t \in Task
  PROVE  Merge(s, t) \in Task /\ Merge(s, t).op = "SET" /\ Merge(s, t).n = t.n
<1>1. s.fv \in Fields /\ t.fv \in Fields /\ t.n \in Nat BY DEF Task
<1>2. [f \in DOMAIN s.fv \cup DOMAIN t.fv |->
         IF f \in DOMAIN t.fv THEN t.fv[f] ELSE s.fv[f]] \in Fields
  BY <1>1, OverType
<1> QED BY <1>1, <1>2 DEF Merge, Task

\* A merge with a task that carries every field is that task.
LEMMA MergeWhole ==
  ASSUME NEW s \in Task, NEW t \in Task, t.op = "SET", t.fv \in [Field -> STRING]
  PROVE  Merge(s, t) = t
<1>1. PICK D \in SUBSET Field : s.fv \in [D -> STRING] BY DEF Task, Fields
<1>2. DOMAIN s.fv \cup DOMAIN t.fv = Field BY <1>1
<1>3. [f \in Field |-> IF f \in Field THEN t.fv[f] ELSE s.fv[f]] = t.fv OBVIOUS
<1>4. DOMAIN t.fv = Field OBVIOUS
<1>5. Merge(s, t) = [op |-> "SET", n |-> t.n, fv |-> t.fv]
  BY <1>2, <1>3, <1>4 DEF Merge
<1> QED BY <1>5 DEF Task

\* addToSync of a newer task: the range keeps its shape, the new task is its
\* last one, merged when a SET was last, and what is before it is old.
LEMMA AddToRangeShape ==
  ASSUME NEW q \in Seq(Task), NEW t \in Task, NEW low \in Nat, Range2(q, low),
         low < t.n, \A i \in 1 .. Len(q) : q[i].n < t.n,
         NEW p, p = AddToRange(q, t)
  PROVE  /\ p \in Seq(Task) /\ Range2(p, low) /\ p # <<>>
         /\ \A i \in 1 .. Len(p) : p[i].n <= t.n
         /\ p[Len(p)].n = t.n
         /\ \A i \in 1 .. Len(p) :
              \/ i <= Len(q) /\ p[i] = q[i]
              \/ i = Len(p) /\ (p[i] = t \/ \E s \in Task : t.op = "SET" /\ p[i] = Merge(s, t))
<1>0. t.n \in Nat /\ t.op \in {"SET", "DEL"} BY DEF Task
<1>a. \A i \in 1 .. Len(q) : q[i] \in Task /\ q[i].n \in Nat /\ q[i].op \in {"SET", "DEL"}
  <2>1. \A i \in 1 .. Len(q) : q[i] \in Task BY ElementOfSeq
  <2> QED BY <2>1 DEF Task
<1>b. PICK l \in Nat : l = Len(q) BY LenProperties
<1>c. l <= 2 BY <1>b DEF Range2
<1>d. q # <<>> => l >= 1
  <2>1. q # <<>> => Len(q) \in Nat \ {0} BY EmptySeq
  <2> QED BY <2>1, <1>b
<1>1. CASE q = <<>> \/ t.op = "DEL"
  <2>1. p = <<t>> BY <1>1 DEF AddToRange
  <2>2. p \in Seq(Task) /\ Len(p) = 1 /\ p[1] = t BY <2>1
  <2> QED BY <2>1, <2>2, <1>0 DEF Range2
<1>2. CASE q # <<>> /\ t.op # "DEL" /\ q[Len(q)].op = "SET"
  <2> DEFINE mg == Merge(q[l], t)
  <2>1. l \in 1 .. 2 BY <1>2, <1>c, <1>d
  <2>2. p = [q EXCEPT ![l] = mg] BY <1>2, <1>b DEF AddToRange, Last
  <2>3. q[l] \in Task BY <2>1, <1>a, <1>b
  <2>4. mg \in Task /\ mg.op = "SET" /\ mg.n = t.n BY <2>3, MergeType
  <2> HIDE DEF mg
  <2>5. p \in Seq(Task) /\ Len(p) = l /\ p[l] = mg /\ \A i \in 1 .. l : i # l => p[i] = q[i]
    BY <2>1, <2>2, <2>4, <1>b, ExceptSeq
  <2>6. t.op = "SET" BY <1>0, <1>2
  <2>7. p[l] = Merge(q[l], t) BY <2>5 DEF mg
  <2>8. Range2(p, low)
    BY <2>1, <2>4, <2>5, <1>0, <1>2, <1>a, <1>b DEF Range2
  <2>9. \A i \in 1 .. Len(p) : p[i].n <= t.n BY <2>1, <2>4, <2>5, <1>0, <1>a, <1>b
  <2>10. p # <<>> BY <2>1, <2>5
  <2>11. \A i \in 1 .. Len(p) :
              \/ i <= Len(q) /\ p[i] = q[i]
              \/ i = Len(p) /\ (p[i] = t \/ \E s \in Task : t.op = "SET" /\ p[i] = Merge(s, t))
    BY <2>1, <2>3, <2>5, <2>6, <2>7, <1>b
  <2> QED BY <2>4, <2>5, <2>8, <2>9, <2>10, <2>11
<1>3. CASE q # <<>> /\ t.op # "DEL" /\ q[Len(q)].op # "SET"
  <2>1. l = 1 BY <1>3, <1>b, <1>c, <1>d DEF Range2
  <2>2. p = Append(q, t) BY <1>3 DEF AddToRange, Last
  <2>3. /\ p \in Seq(Task) /\ Len(p) = l + 1 /\ p[l + 1] = t
        /\ \A i \in 1 .. l : p[i] = q[i]
    BY <2>2, <1>b, AppendProperties
  <2>4. p \in Seq(Task) /\ Len(p) = 2 /\ p[1] = q[1] /\ p[2] = t
    BY <2>1, <2>3
  <2> QED BY <2>1, <2>4, <1>0, <1>a, <1>b, <1>3 DEF Range2
<1> QED BY <1>1, <1>2, <1>3

\* Routes: what RouteSync sends for one, and what RouteOrch reads back.
LEMMA RouteFacts ==
  ASSUME NEW r \in Route
  PROVE  /\ r # NoRoute
         /\ Parsed(r) = r
         /\ NonEmptyOnly(r) \in Fields
         /\ Parsed(NonEmptyOnly(r)) = r
         /\ transport = "zmq" => fieldValueTupleVector(r) = r
         /\ transport = "redis" => fieldValueTupleVector(r) = NonEmptyOnly(r)
<1>0. r \in [Field -> STRING] BY RouteAssumption
<1>1. r # NoRoute BY <1>0 DEF NoRoute, Field
<1>2. Parsed(r) = r BY <1>0 DEF Parsed
<1>3. NonEmptyOnly(r) \in Fields
  <2> DEFINE D == {g \in Field : r[g] # Empty(g)}
  <2>1. [f \in D |-> r[f]] \in [D -> STRING] BY <1>0
  <2> QED BY <2>1 DEF NonEmptyOnly, Fields
<1>4. Parsed(NonEmptyOnly(r)) = r
  <2>1. Parsed(NonEmptyOnly(r)) = [f \in Field |-> r[f]] BY DEF Parsed, NonEmptyOnly
  <2> QED BY <2>1, <1>0
<1>5. transport = "zmq" => fieldValueTupleVector(r) = r
  <2> SUFFICES ASSUME transport = "zmq" PROVE fieldValueTupleVector(r) = r OBVIOUS
  <2>1. {g \in Field : transport = "zmq" \/ r[g] # Empty(g)} = Field OBVIOUS
  <2>2. fieldValueTupleVector(r) = [f \in Field |-> r[f]] BY <2>1 DEF fieldValueTupleVector
  <2> QED BY <2>2, <1>0
<1>6. transport = "redis" => fieldValueTupleVector(r) = NonEmptyOnly(r)
  BY DEF fieldValueTupleVector, NonEmptyOnly
<1> QED BY <1>1, <1>2, <1>3, <1>4, <1>5, <1>6

\* A route as RouteSync makes it never has next hops and a group.
LEMMA NeverBoth ==
  ASSUME NEW t, t.fv \in Route \cup {NoFields}
  PROVE  ~HasBoth(t)
<1>1. CASE t.fv \in Route
  BY <1>1, RouteAssumption, RouteFacts DEF HasBoth
<1>2. CASE t.fv = NoFields
  <2>1. Parsed(NoFields)["nexthop"] = "" BY DEF Parsed, NoFields, Empty, Field
  <2> QED BY <1>2, <2>1 DEF HasBoth
<1> QED BY <1>1, <1>2

\* The task that stands for a whole request parses back to that request.
LEMMA WholeFacts ==
  ASSUME NEW r \in Request, NEW n \in Nat
  PROVE  /\ Whole(r, n) \in Task /\ Whole(r, n).n = n
         /\ ~HasBoth(Whole(r, n))
         /\ (IF Whole(r, n).op = "DEL" THEN NoRoute ELSE Parsed(Whole(r, n).fv)) = r
         /\ Whole(r, n).op = "SET" => Whole(r, n).fv \in [Field -> STRING]
<1>1. CASE r = NoRoute
  <2>1. Whole(r, n) = DelTask(n) BY <1>1 DEF Whole
  <2>2. Whole(r, n).fv = NoFields BY <2>1 DEF DelTask
  <2>3. ~HasBoth(Whole(r, n)) BY <2>2, NeverBoth
  <2>4. DelTask(n) \in Task BY NoFieldsType DEF DelTask, Task
  <2> QED BY <1>1, <2>1, <2>3, <2>4 DEF DelTask
<1>2. CASE r # NoRoute
  <2>0. r \in Route /\ r \in [Field -> STRING] BY <1>2, RouteAssumption DEF Request
  <2>1. Whole(r, n) = [op |-> "SET", fv |-> r, n |-> n] BY <1>2 DEF Whole
  <2>2. Whole(r, n).fv = r BY <2>1
  <2>3. ~HasBoth(Whole(r, n)) BY <2>0, <2>2, NeverBoth
  <2>4. r \in Fields BY <2>0 DEF Fields
  <2>5. Whole(r, n) \in Task BY <2>1, <2>4 DEF Task
  <2>6. Parsed(r) = r BY <2>0, RouteFacts
  <2> QED BY <2>0, <2>1, <2>3, <2>5, <2>6
<1> QED BY <1>1, <1>2

\* The log of k grows by one request.
LEMMA LogGrows ==
  ASSUME Types, NEW k \in Keys, NEW r \in Request,
         log' = [log EXCEPT ![k] = Append(@, r)]
  PROVE  /\ log' \in [Keys -> Seq(Request)]
         /\ \A j \in Keys : Len(log[j]) \in Nat /\ Len(log'[j]) \in Nat
         /\ \A j \in Keys \ {k} : log'[j] = log[j]
         /\ Len(log'[k]) = Len(log[k]) + 1
         /\ log'[k][Len(log[k]) + 1] = r
         /\ \A j \in Keys : \A i \in 1 .. Len(log[j]) :
              i \in 1 .. Len(log'[j]) /\ log'[j][i] = log[j][i]
         /\ log'[k] # <<>>
<1>1. log \in [Keys -> Seq(Request)] BY DEF Types
<1>2. log[k] \in Seq(Request) BY <1>1
<1> DEFINE l == Append(log[k], r)
<1>3. /\ l \in Seq(Request) /\ Len(l) = Len(log[k]) + 1 /\ l # <<>>
      /\ \A i \in 1 .. Len(log[k]) : l[i] = log[k][i]
      /\ l[Len(log[k]) + 1] = r
  BY <1>2, AppendProperties
<1>4. log'[k] = l /\ \A j \in Keys \ {k} : log'[j] = log[j] BY <1>1
<1> HIDE DEF l
<1>5. log' \in [Keys -> Seq(Request)] BY <1>1, <1>3, <1>4
<1>6. \A j \in Keys : Len(log[j]) \in Nat BY <1>1, LenProperties
<1>7. \A j \in Keys : Len(log'[j]) \in Nat BY <1>5, LenProperties
<1>8. \A j \in Keys : \A i \in 1 .. Len(log[j]) : i \in 1 .. Len(log'[j]) /\ log'[j][i] = log[j][i]
  <2> TAKE j \in Keys
  <2>1. CASE j = k BY <2>1, <1>3, <1>4, <1>6
  <2>2. CASE j # k BY <2>2, <1>4, <1>6
  <2> QED BY <2>1, <2>2
<1> QED BY <1>3, <1>4, <1>5, <1>6, <1>7, <1>8

-----------------------------------------------------------------------------
(* fpmsyncd                                                                *)

LEMMA InitIInv == Init => IInv
<1> SUFFICES ASSUME Init PROVE IInv OBVIOUS
<1>1. Types
  <2>1. <<>> \in Seq(Keys \X Task) /\ <<>> \in Seq(Task) /\ <<>> \in Seq(Request) BY EmptySeq
  <2> QED BY <2>1, NoFieldsType, TransportsAssumption DEF Init, Types, Slot
<1>2. Queues BY EmptySeq DEF Init, Queues, Range2
<1>3. Zmq BY DEF Init, Zmq, Carried, InOrder, Newest, OnWire
<1>4. Redis BY DEF Init, Redis
<1>5. NoLostWakeup BY DEF Init, NoLostWakeup
<1> QED BY <1>1, <1>2, <1>3, <1>4, <1>5 DEF IInv

\* Every task on the way is a task.
LEMMA TaskTypes ==
  ASSUME Types
  PROVE  /\ \A j \in Keys : out[j] # NoTask => out[j] \in Task
         /\ \A j \in Keys : m_ingress[j] # NoTask => m_ingress[j] \in Task
         /\ \A i \in 1 .. Len(wire) : wire[i] \in Keys \X Task
         /\ \A j \in Keys : \A i \in OnWire(j) : wire[i][2] \in Task
         /\ \A j \in Keys : \A i \in 1 .. Len(m_toSync[j]) : m_toSync[j][i] \in Task
         /\ \A x \in Task : x.n \in Nat
<1>1. \A j \in Keys : out[j] # NoTask => out[j] \in Task BY DEF Types, Slot
<1>2. \A j \in Keys : m_ingress[j] # NoTask => m_ingress[j] \in Task BY DEF Types, Slot
<1>3. \A i \in 1 .. Len(wire) : wire[i] \in Keys \X Task BY ElementOfSeq DEF Types
<1>4. \A j \in Keys : \A i \in OnWire(j) : wire[i][2] \in Task BY <1>3 DEF OnWire
<1>5. \A j \in Keys : \A i \in 1 .. Len(m_toSync[j]) : m_toSync[j][i] \in Task
  BY ElementOfSeq DEF Types
<1>6. \A x \in Task : x.n \in Nat BY DEF Task
<1> QED BY <1>1, <1>2, <1>3, <1>4, <1>5, <1>6

\* A request over ZMQ: the coalescing map holds the newest one.
LEMMA AskZmq ==
  ASSUME IInv, transport = "zmq", NEW k \in Keys, NEW r \in Request,
         log' = [log EXCEPT ![k] = Append(@, r)],
         out' = [out EXCEPT ![k] = Whole(r, Len(log[k]) + 1)],
         UNCHANGED <<wire, redis, transport, poll, main>>
  PROVE  IInv'
<1>0. Types /\ Queues /\ Zmq /\ Carried /\ NoLostWakeup BY DEF IInv, Zmq
<1>a. PICK n : n = Len(log[k]) + 1 OBVIOUS
<1>b. PICK t : t = Whole(r, n) OBVIOUS
<1>1. /\ log' \in [Keys -> Seq(Request)]
      /\ \A j \in Keys : Len(log[j]) \in Nat /\ Len(log'[j]) \in Nat
      /\ \A j \in Keys \ {k} : log'[j] = log[j]
      /\ Len(log'[k]) = n /\ log'[k][n] = r
      /\ \A j \in Keys : \A i \in 1 .. Len(log[j]) :
              i \in 1 .. Len(log'[j]) /\ log'[j][i] = log[j][i]
  BY <1>0, <1>a, LogGrows
<1>2. n \in Nat /\ n \in 1 .. Len(log'[k]) BY <1>1, <1>a
<1>3. t \in Task /\ t.n = n BY <1>2, <1>b, WholeFacts
<1>4. out'[k] = t /\ \A j \in Keys \ {k} : out'[j] = out[j]
  BY <1>0, <1>a, <1>b DEF Types
<1>5. Carries(k, t)' BY <1>1, <1>2, <1>3, <1>b DEF Carries
<1> USE DEF redis, poll, main
<1>6. Types' BY <1>0, <1>1, <1>3, <1>a, <1>b DEF Types, Slot
<1>7. Queues'
  <2> SUFFICES ASSUME NEW j \in Keys PROVE at[j] <= Len(log'[j]) BY <1>0 DEF Queues
  <2>1. at[j] <= Len(log[j]) /\ at[j] \in Nat BY <1>0 DEF Queues, Types
  <2> QED BY <2>1, <1>1, <1>2, <1>a
<1>8. \A j \in Keys, x \in Task : Carries(j, x) => Carries(j, x)'
  BY <1>1 DEF Carries
<1>11. \A j \in Keys : OnWire(j)' = OnWire(j) BY DEF OnWire
<1>12. Carried'
  <2> SUFFICES ASSUME NEW j \in Keys
               PROVE  /\ out'[j] # NoTask => Carries(j, out[j])'
                      /\ \A i \in OnWire(j) : Carries(j, wire[i][2])'
                      /\ m_ingress[j] # NoTask => Carries(j, m_ingress[j])'
                      /\ \A i \in 1 .. Len(m_toSync[j]) : Carries(j, m_toSync[j][i])'
                      /\ at[j] # 0 => shown[j] = log'[j][at[j]]
    BY <1>11 DEF Carried
  <2>1. out'[j] # NoTask => Carries(j, out[j])'
    <3>1. CASE j = k BY <3>1, <1>4, <1>5
    <3>2. CASE j # k
      <4>1. out'[j] = out[j] BY <3>2, <1>4
      <4>2. log'[j] = log[j] BY <3>2, <1>1
      <4> QED BY <1>0, <4>1, <4>2 DEF Carried, Carries
    <3> QED BY <3>1, <3>2
  <2>2. \A i \in OnWire(j) : Carries(j, wire[i][2])' BY <1>0, <1>8, TaskTypes DEF Carried, Carries
  <2>3. m_ingress[j] # NoTask => Carries(j, m_ingress[j])'
    BY <1>0, <1>8, TaskTypes DEF Carried, Carries
  <2>4. \A i \in 1 .. Len(m_toSync[j]) : Carries(j, m_toSync[j][i])'
    BY <1>0, <1>8, TaskTypes DEF Carried, Carries
  <2>5. at[j] # 0 => shown[j] = log'[j][at[j]]
    <3>1. at[j] \in Nat /\ at[j] <= Len(log[j]) BY <1>0 DEF Types, Queues
    <3> QED BY <1>0, <1>1, <3>1 DEF Carried
  <2> QED BY <2>1, <2>2, <2>3, <2>4, <2>5
<1>13. \A j \in Keys : InOrder(j)' /\ Newest(j)'
  <2> TAKE j \in Keys
  <2>1. CASE j = k
    <3>1. \A i \in OnWire(k) : wire[i][2].n \in 1 .. Len(log[k]) BY <1>0 DEF Carried, Carries
    <3>2. m_ingress[k] # NoTask => m_ingress[k].n \in 1 .. Len(log[k]) BY <1>0 DEF Carried, Carries
    <3>3. \A i \in 1 .. Len(m_toSync[k]) : m_toSync[k][i].n \in 1 .. Len(log[k])
      BY <1>0 DEF Carried, Carries
    <3>4. at[k] \in Nat /\ at[k] <= Len(log[k]) BY <1>0 DEF Types, Queues
    <3>5. InOrder(k) BY DEF IInv, Zmq
    <3>6. out'[k] # NoTask BY <1>3, <1>4, TaskIsSome
    <3>7. InOrder(k)' BY <3>1, <3>2, <3>3, <3>4, <3>5, <1>1, <1>3, <1>4, <1>11, <1>a DEF InOrder
    <3>8. Newest(k)' BY <3>6, <1>1, <1>3, <1>4 DEF Newest
    <3> QED BY <2>1, <3>7, <3>8
  <2>2. CASE j # k
    <3>1. InOrder(j) /\ Newest(j) BY DEF IInv, Zmq
    <3> QED BY <2>2, <3>1, <1>1, <1>4, <1>11 DEF InOrder, Newest
  <2> QED BY <2>1, <2>2
<1>14. Zmq' BY <1>0, <1>12, <1>13 DEF Zmq
<1>15. Redis' BY DEF Redis
<1>16. NoLostWakeup' BY <1>0 DEF NoLostWakeup
<1> QED BY <1>6, <1>7, <1>14, <1>15, <1>16 DEF IInv

\* A request over Redis: the state table holds it, and nothing older.
LEMMA AskRedis ==
  ASSUME IInv, transport = "redis", NEW k \in Keys, NEW r \in Request,
         log' = [log EXCEPT ![k] = Append(@, r)],
         state' = [state EXCEPT ![k] = IF r = NoRoute THEN NoFields ELSE NonEmptyOnly(r)],
         keyset' = keyset \cup {k}, delset' = delset \cup {k},
         number' = [number EXCEPT ![k] = Len(log[k]) + 1],
         UNCHANGED <<sender, appdb, transport, poll, main>>
  PROVE  IInv'
<1>0. Types /\ Queues /\ Redis /\ NoLostWakeup BY DEF IInv
<1>a. PICK n : n = Len(log[k]) + 1 OBVIOUS
<1>1. /\ log' \in [Keys -> Seq(Request)]
      /\ \A j \in Keys : Len(log[j]) \in Nat /\ Len(log'[j]) \in Nat
      /\ \A j \in Keys \ {k} : log'[j] = log[j]
      /\ Len(log'[k]) = n /\ log'[k][n] = r
      /\ log'[k] # <<>>
  BY <1>0, <1>a, LogGrows
<1>2. n \in Nat /\ n = Len(log[k]) + 1 BY <1>1, <1>a
<1>3. \E w \in Fields : w = IF r = NoRoute THEN NoFields ELSE NonEmptyOnly(r)
  BY NoFieldsType, RouteFacts DEF Request
<1> USE DEF sender, poll, main
<1>4. Types' BY <1>0, <1>1, <1>2, <1>3 DEF Types
<1>5. Queues'
  <2> SUFFICES ASSUME NEW j \in Keys PROVE at[j] <= Len(log'[j]) BY <1>0 DEF Queues
  <2>1. at[j] <= Len(log[j]) /\ at[j] \in Nat BY <1>0 DEF Queues, Types
  <2> QED BY <2>1, <1>1, <1>2
<1>6. Zmq' BY DEF Zmq
<1>7. Wanted(log[k])' = IF r = NoRoute THEN NoFields ELSE NonEmptyOnly(r)
  BY <1>1 DEF Wanted
<1>8. /\ state'[k] = Wanted(log[k])' /\ number'[k] = n
      /\ \A j \in Keys \ {k} : state'[j] = state[j] /\ number'[j] = number[j]
  BY <1>0, <1>2, <1>7 DEF Types
<1>9. Redis'
  <2> SUFFICES ASSUME NEW j \in Keys
               PROVE
         /\ number'[j] = Len(log'[j])
         /\ j \notin keyset' => state'[j] = NoFields
         /\ j \in keyset' => log'[j] # <<>> /\ state'[j] = Wanted(log[j])'
         /\ j \notin keyset' /\ log'[j] # <<>> => appdb[j] = Wanted(log[j])'
         /\ \A i \in 1 .. Len(m_toSync[j]) :
              /\ m_toSync[j][i].n <= Len(log'[j])
              /\ j \in keyset' => m_toSync[j][i].n < Len(log'[j])
         /\ j \in keyset' => at[j] < Len(log'[j])
    BY <1>0 DEF Redis
  <2>0. at[j] <= Len(log[j]) /\ at[j] \in Nat BY <1>0 DEF Queues, Types
  <2>1. CASE j = k
    <3>1. \A i \in 1 .. Len(m_toSync[k]) : m_toSync[k][i].n \in Nat /\ m_toSync[k][i].n <= Len(log[k])
      BY <1>0, TaskTypes DEF Redis
    <3> QED BY <1>0, <1>1, <1>2, <1>8, <2>0, <2>1, <3>1
  <2>2. CASE j # k
    <3>1. Wanted(log[j])' = Wanted(log[j]) BY <1>1, <2>2 DEF Wanted
    <3>2. j \in keyset' <=> j \in keyset BY <2>2
    <3>3. log'[j] = log[j] /\ state'[j] = state[j] /\ number'[j] = number[j] BY <2>2, <1>1, <1>8
    <3> QED BY <1>0, <3>1, <3>2, <3>3 DEF Redis
  <2> QED BY <2>1, <2>2
<1>10. NoLostWakeup' BY <1>0 DEF NoLostWakeup
<1> QED BY <1>4, <1>5, <1>6, <1>9, <1>10 DEF IInv

\* The tables of RouteSync take a request of the route r.
LEMMA SetStep ==
  ASSUME IInv, NEW k \in Keys, NEW r \in Route, setTableWithWarmRestart(k, r)
  PROVE  IInv'
<1> DEFINE n == Len(log[k]) + 1
<1>0. Types /\ r \in Request /\ r # NoRoute BY RouteFacts DEF IInv, Request
<1>1. /\ log' = [log EXCEPT ![k] = Append(@, r)]
      /\ Write(k, KeyOpFieldsValuesTupleVector(r, n))
      /\ UNCHANGED <<transport, poll, main>>
  BY DEF setTableWithWarmRestart
<1>2. CASE transport = "zmq"
  <2>1. KeyOpFieldsValuesTupleVector(r, n) = <<Whole(r, n)>>
    BY <1>0, <1>2, RouteFacts DEF KeyOpFieldsValuesTupleVector, SetTask, Whole
  <2>2. out' = [out EXCEPT ![k] = Whole(r, n)] /\ UNCHANGED <<wire, redis>>
    BY <1>1, <1>2, <2>1 DEF Write
  <2> QED BY <1>0, <1>1, <1>2, <2>2, AskZmq
<1>3. CASE transport = "redis"
  <2> DEFINE ts == KeyOpFieldsValuesTupleVector(r, n)
  <2>1. ts = <<DelTask(n), SetTask(r, n)>> BY <1>3 DEF KeyOpFieldsValuesTupleVector
  <2>2. ProducerStateTable(k, ts) /\ UNCHANGED sender BY <1>1, <1>3 DEF Write
  <2>3. Len(ts) = 2 /\ ts[1] = DelTask(n) /\ ts[2] = SetTask(r, n) BY <2>1
  <2>4. SetTask(r, n).fv = NonEmptyOnly(r) /\ SetTask(r, n).op = "SET" /\ SetTask(r, n).n = n
    BY <1>3, RouteFacts DEF SetTask
  <2> DEFINE one == Produce(DelTask(n), [hash |-> state[k], del |-> k \in delset])
             two == Produce(SetTask(r, n), one)
  <2>5. one = [hash |-> NoFields, del |-> TRUE] BY DEF Produce, DelTask
  <2>6. two = [hash |-> NonEmptyOnly(r), del |-> TRUE]
    <3>1. DOMAIN one.hash = {} /\ one.del = TRUE BY <2>5 DEF NoFields
    <3>2. DOMAIN one.hash \cup DOMAIN NonEmptyOnly(r) = DOMAIN NonEmptyOnly(r) BY <3>1
    <3>3. [f \in DOMAIN NonEmptyOnly(r) |->
             IF f \in DOMAIN NonEmptyOnly(r) THEN NonEmptyOnly(r)[f] ELSE one.hash[f]] = NonEmptyOnly(r)
      BY DEF NonEmptyOnly
    <3> QED BY <3>1, <3>2, <3>3, <2>4 DEF Produce
  <2> HIDE DEF ts, one, two, n
  <2>7. /\ state' = [state EXCEPT ![k] = two.hash]
        /\ delset' = IF two.del THEN delset \cup {k} ELSE delset
        /\ keyset' = keyset \cup {k}
        /\ number' = [number EXCEPT ![k] = ts[2].n]
        /\ UNCHANGED appdb
    BY <2>2, <2>3 DEF ProducerStateTable, one, two, Last
  <2>8. /\ state' = [state EXCEPT ![k] = NonEmptyOnly(r)]
        /\ delset' = delset \cup {k} /\ keyset' = keyset \cup {k}
        /\ number' = [number EXCEPT ![k] = n]
        /\ UNCHANGED appdb
    BY <2>3, <2>4, <2>6, <2>7
  <2> USE DEF n
  <2> QED BY <1>0, <1>1, <1>3, <2>2, <2>8, AskRedis
<1> QED BY <1>0, <1>2, <1>3 DEF Types

\* The tables of RouteSync take a request to remove the route.
LEMMA DelStep ==
  ASSUME IInv, NEW k \in Keys, delTableWithWarmRestart(k)
  PROVE  IInv'
<1> DEFINE n == Len(log[k]) + 1
           ts == <<DelTask(n)>>
<1>0. Types /\ NoRoute \in Request BY DEF IInv, Request
<1>1. /\ log' = [log EXCEPT ![k] = Append(@, NoRoute)]
      /\ Write(k, ts)
      /\ UNCHANGED <<transport, poll, main>>
  BY DEF delTableWithWarmRestart
<1>2. CASE transport = "zmq"
  <2>1. Whole(NoRoute, n) = DelTask(n) BY DEF Whole
  <2>2. out' = [out EXCEPT ![k] = Whole(NoRoute, n)] /\ UNCHANGED <<wire, redis>>
    BY <1>1, <1>2, <2>1 DEF Write
  <2> QED BY <1>0, <1>1, <1>2, <2>2, AskZmq
<1>3. CASE transport = "redis"
  <2>2. ProducerStateTable(k, ts) /\ UNCHANGED sender BY <1>1, <1>3 DEF Write
  <2>3. Len(ts) = 1 /\ ts[1] = DelTask(n) /\ DelTask(n).n = n BY DEF DelTask
  <2> DEFINE one == Produce(DelTask(n), [hash |-> state[k], del |-> k \in delset])
  <2>5. one = [hash |-> NoFields, del |-> TRUE] BY DEF Produce, DelTask
  <2> HIDE DEF ts, one, n
  <2>7. /\ state' = [state EXCEPT ![k] = one.hash]
        /\ delset' = IF one.del THEN delset \cup {k} ELSE delset
        /\ keyset' = keyset \cup {k}
        /\ number' = [number EXCEPT ![k] = ts[1].n]
        /\ UNCHANGED appdb
    BY <2>2, <2>3 DEF ProducerStateTable, one, Last
  <2>8. /\ state' = [state EXCEPT ![k] = NoFields]
        /\ delset' = delset \cup {k} /\ keyset' = keyset \cup {k}
        /\ number' = [number EXCEPT ![k] = n]
        /\ UNCHANGED appdb
    BY <2>3, <2>5, <2>7
  <2> USE DEF n
  <2> QED BY <1>0, <1>1, <1>3, <2>2, <2>8, AskRedis
<1> QED BY <1>0, <1>2, <1>3 DEF Types

\* The coalescer posts the newest task of k: it is the last message of k.
LEMMA SendStep ==
  ASSUME IInv, NEW k \in Keys, Send(k)
  PROVE  IInv'
<1>0. Types /\ Queues /\ Zmq /\ Redis /\ NoLostWakeup BY DEF IInv
<1>1. transport = "zmq" /\ Carried BY <1>0 DEF Send, Types, Redis, Zmq
<1>a. PICK t : t = out[k] OBVIOUS
<1>2. t \in Task /\ t # NoTask BY <1>0, <1>a, TaskTypes DEF Send
<1>b. PICK l \in Nat : l = Len(wire) BY <1>0, LenProperties DEF Types
<1>3. <<k, t>> \in Keys \X Task BY <1>2
<1>4. /\ wire' \in Seq(Keys \X Task) /\ Len(wire') = l + 1
      /\ \A i \in 1 .. l : wire'[i] = wire[i]
      /\ wire'[l + 1] = <<k, t>>
  <2>1. wire' = Append(wire, <<k, t>>) BY <1>a DEF Send
  <2>2. wire \in Seq(Keys \X Task) BY <1>0 DEF Types
  <2> QED BY <2>1, <2>2, <1>3, <1>b, AppendProperties
<1>5. /\ OnWire(k)' = OnWire(k) \cup {l + 1}
      /\ \A j \in Keys \ {k} : OnWire(j)' = OnWire(j)
      /\ \A j \in Keys : \A i \in OnWire(j) : i <= l /\ i \in Nat /\ wire'[i] = wire[i]
      /\ wire'[l + 1][2] = t
  BY <1>4, <1>b DEF OnWire
<1>6. out' \in [Keys -> Slot] /\ out'[k] = NoTask /\ \A j \in Keys \ {k} : out'[j] = out[j]
  BY <1>0 DEF Types, Slot, Send
<1> USE DEF poll, redis, main
<1>7. UNCHANGED <<transport, poll, redis, main, log>> BY DEF Send
<1>8. Types' BY <1>0, <1>4, <1>6, <1>7 DEF Types
<1>9. Queues' BY <1>0, <1>7 DEF Queues
<1>10. Carried'
  <2>0. Carries(k, t) BY <1>1, <1>2, <1>a DEF Carried
  <2> SUFFICES ASSUME NEW j \in Keys
               PROVE  /\ out'[j] # NoTask => Carries(j, out[j])'
                      /\ \A i \in OnWire(j)' : Carries(j, wire[i][2])'
    BY <1>1, <1>7 DEF Carried, Carries
  <2>1. CASE j = k BY <1>1, <1>5, <1>6, <1>7, <2>0, <2>1 DEF Carried, Carries
  <2>2. CASE j # k BY <1>1, <1>5, <1>6, <1>7, <2>2 DEF Carried, Carries
  <2> QED BY <2>1, <2>2
<1>11. \A j \in Keys : InOrder(j)' /\ Newest(j)'
  <2> TAKE j \in Keys
  <2>0. InOrder(j) /\ Newest(j) BY <1>0, <1>1 DEF Zmq
  <2>1. CASE j = k
    <3>1. InOrder(k)' BY <2>0, <2>1, <1>2, <1>5, <1>6, <1>7, <1>a DEF InOrder
    <3>2. Newest(k)' BY <2>0, <2>1, <1>2, <1>5, <1>6, <1>7, <1>a DEF Newest
    <3> QED BY <2>1, <3>1, <3>2
  <2>2. CASE j # k
    <3>1. out'[j] = out[j] /\ OnWire(j)' = OnWire(j) /\ \A i \in OnWire(j) : wire'[i] = wire[i]
      BY <2>2, <1>5, <1>6
    <3>2. InOrder(j)' BY <2>0, <3>1, <1>7 DEF InOrder
    <3>3. Newest(j)' BY <2>0, <3>1, <1>7 DEF Newest
    <3> QED BY <3>2, <3>3
  <2> QED BY <2>1, <2>2
<1>12. Zmq' BY <1>0, <1>7, <1>10, <1>11 DEF Zmq
<1>13. Redis' BY <1>1, <1>7 DEF Redis
<1>14. NoLostWakeup' BY <1>0, <1>7 DEF NoLostWakeup
<1> QED BY <1>8, <1>9, <1>12, <1>13, <1>14 DEF IInv

-----------------------------------------------------------------------------
(* The poll thread                                                         *)

\* A burst of m messages is staged: the newest of each key takes its slot.
LEMMA IngressStep ==
  ASSUME IInv, NEW m \in DOMAIN wire, IngressCallback(m)
  PROVE  IInv'
<1>0. Types /\ Queues /\ Zmq /\ Redis /\ NoLostWakeup BY DEF IInv
<1>b. PICK l \in Nat : l = Len(wire) BY <1>0, LenProperties DEF Types
<1>1. DOMAIN wire = 1 .. l /\ m \in 1 .. l BY <1>0, <1>b, LenProperties DEF Types
<1>2. transport = "zmq" /\ Carried
  <2>1. wire = <<>> => l = 0 BY <1>b
  <2> QED BY <1>0, <1>1, <2>1 DEF Types, Redis, Zmq
<1>3. \A i \in 1 .. l : wire[i] \in Keys \X Task BY <1>0, <1>b, TaskTypes
<1>4. PICK head : head = SubSeq(wire, 1, m) OBVIOUS
<1>5. head \in Seq(Keys \X Task) /\ Len(head) = m /\ \A i \in 1 .. m : head[i] = wire[i]
  <2>1. \A i \in 1 .. m : wire[i] \in Keys \X Task BY <1>1, <1>3
  <2> QED BY <2>1, <1>1, <1>4, SubSeqProperties
<1>6. /\ wire' \in Seq(Keys \X Task) /\ Len(wire') = l - m
      /\ \A i \in 1 .. l - m : wire'[i] = wire[m + i]
  <2>1. wire' = SubSeq(wire, m + 1, l) BY <1>b DEF IngressCallback
  <2>2. \A i \in m + 1 .. l : wire[i] \in Keys \X Task BY <1>1, <1>3
  <2>3. /\ SubSeq(wire, m + 1, l) \in Seq(Keys \X Task)
        /\ Len(SubSeq(wire, m + 1, l)) = IF m + 1 <= l THEN l - (m + 1) + 1 ELSE 0
        /\ \A i \in 1 .. l - (m + 1) + 1 : SubSeq(wire, m + 1, l)[i] = wire[(m + 1) + i - 1]
    BY <2>2, <1>1, SubSeqProperties
  <2>4. wire' \in Seq(Keys \X Task) /\ Len(wire') = l - m BY <2>1, <2>3, <1>1
  <2>5. \A i \in 1 .. l - m : wire'[i] = wire[m + i]
    <3> TAKE i \in 1 .. l - m
    <3>1. i \in 1 .. l - (m + 1) + 1 /\ (m + 1) + i - 1 = m + i BY <1>1
    <3> QED BY <2>1, <2>3, <3>1
  <2> QED BY <2>4, <2>5
<1> DEFINE own(j) == {i \in OnWire(j) : i <= m}
<1>7. \A j \in Keys : \A i \in OnWire(j)' :
        m + i \in OnWire(j) /\ wire'[i] = wire[m + i] /\ i \in Nat /\ i >= 1
  BY <1>1, <1>6, <1>b DEF OnWire
<1>8. \A j \in Keys : \A i \in OnWire(j) : i > m =>
        i - m \in OnWire(j)' /\ wire'[i - m] = wire[i]
  <2> SUFFICES ASSUME NEW j \in Keys, NEW i \in OnWire(j), i > m
               PROVE  i - m \in OnWire(j)' /\ wire'[i - m] = wire[i]
    OBVIOUS
  <2>1. i \in 1 .. l /\ wire[i][1] = j BY <1>b DEF OnWire
  <2>2. i - m \in 1 .. l - m /\ m + (i - m) = i BY <2>1, <1>1
  <2>3. wire'[i - m] = wire[i] BY <2>2, <1>6
  <2> QED BY <2>1, <2>2, <2>3, <1>6 DEF OnWire
<1>9. \A j \in Keys :
        \/ own(j) = {} /\ m_ingress'[j] = m_ingress[j]
        \/ \E i \in own(j) : (\A x \in own(j) : x <= i) /\ m_ingress'[j] = wire[i][2]
  <2> TAKE j \in Keys
  <2>1. {i \in DOMAIN head : head[i][1] = j} = own(j)
    <3>1. DOMAIN head = 1 .. m BY <1>5, LenProperties
    <3> QED BY <3>1, <1>1, <1>5, <1>b DEF OnWire
  <2>2. m_ingress'[j] = IF own(j) = {} THEN m_ingress[j] ELSE head[Max(own(j))][2]
    <3>1. m_ingress' = Stage(head) BY <1>4 DEF IngressCallback
    <3> HIDE DEF own
    <3> QED BY <3>1, <2>1 DEF Stage
  <2>3. own(j) \in SUBSET (1 .. m) BY <1>1 DEF OnWire
  <2>4. CASE own(j) # {}
    <3>1. Max(own(j)) \in own(j) /\ \A x \in own(j) : x <= Max(own(j))
      <4>1. m \in Nat BY <1>1
      <4> HIDE DEF own
      <4> QED BY <2>3, <2>4, <4>1, MaxOfPositions
    <3>2. head[Max(own(j))] = wire[Max(own(j))] BY <2>3, <3>1, <1>5
    <3> QED BY <2>2, <2>4, <3>1, <3>2
  <2> QED BY <2>2, <2>4
<1>10. \A j \in Keys : m_ingress'[j] \in Slot
  BY <1>0, <1>9, TaskTypes DEF Slot, Types
<1> USE DEF redis, main
<1>11. UNCHANGED <<transport, out, redis, main, log>> /\ burst' = TRUE BY DEF IngressCallback
<1>12. m_ingress' = [j \in Keys |-> m_ingress'[j]]
  <2>1. m_ingress' = Stage(head) BY <1>4 DEF IngressCallback
  <2> QED BY <2>1 DEF Stage
<1>13. eventfd' \in BOOLEAN BY <1>0 DEF IngressCallback, Types
<1>14. Types'
  <2>1. m_ingress' \in [Keys -> Slot] BY <1>10, <1>12
  <2> QED BY <1>0, <1>6, <1>11, <1>13, <2>1 DEF Types
<1>15. Queues' BY <1>0, <1>11 DEF Queues
<1>16. Carried'
  <2> SUFFICES ASSUME NEW j \in Keys
               PROVE  /\ \A i \in OnWire(j)' : Carries(j, wire[i][2])'
                      /\ m_ingress'[j] # NoTask => Carries(j, m_ingress[j])'
    BY <1>2, <1>11 DEF Carried, Carries
  <2>1. \A i \in OnWire(j)' : Carries(j, wire[i][2])'
    BY <1>2, <1>7, <1>11 DEF Carried, Carries
  <2>2. m_ingress'[j] # NoTask => Carries(j, m_ingress[j])'
    BY <1>2, <1>9, <1>11 DEF Carried, Carries
  <2> QED BY <2>1, <2>2
<1>17. \A j \in Keys : InOrder(j)' /\ Newest(j)'
  <2> TAKE j \in Keys
  <2>0. InOrder(j) /\ Newest(j) BY <1>0, <1>2 DEF Zmq
  <2>a. \A i \in OnWire(j) : i \in Nat /\ wire[i][2] \in Task /\ wire[i][2].n \in Nat /\ wire[i][2] # NoTask
    <3>1. \A i \in OnWire(j) : i \in Nat BY <1>b DEF OnWire
    <3> QED BY <3>1, <1>0, TaskTypes, TaskIsSome
  <2>b. m \in Nat BY <1>1
  <2>1. CASE own(j) = {} /\ m_ingress'[j] = m_ingress[j]
    <3>1. InOrder(j)' BY <2>0, <2>1, <2>a, <2>b, <1>7, <1>11 DEF InOrder
    <3>2. Newest(j)'
      <4>1. \A i \in OnWire(j) : i > m BY <2>1, <2>a, <2>b
      <4> QED BY <2>0, <2>1, <4>1, <1>8, <1>11 DEF Newest
    <3> QED BY <3>1, <3>2
  <2>2. ASSUME NEW c \in own(j), \A x \in own(j) : x <= c, m_ingress'[j] = wire[c][2]
        PROVE  InOrder(j)' /\ Newest(j)'
    <3>0. c \in OnWire(j) /\ c <= m OBVIOUS
    <3>1. \A i \in OnWire(j)' : c < m + i BY <3>0, <2>a, <2>b, <1>7
    <3>2. InOrder(j)'
      <4>1. PICK t : t = wire[c][2] OBVIOUS
      <4>2. t \in Task /\ t # NoTask /\ m_ingress'[j] = t BY <4>1, <3>0, <2>a, <2>2
      <4>3. /\ at[j] < t.n
            /\ \A i \in OnWire(j) : c < i => t.n < wire[i][2].n
            /\ \A i \in 1 .. Len(m_toSync[j]) : m_toSync[j][i].n < t.n
            /\ out[j] # NoTask => t.n < out[j].n
        BY <4>1, <3>0, <2>0 DEF InOrder
      <4>4. \A i \in OnWire(j)' : t.n < wire'[i][2].n BY <4>3, <3>1, <1>7
      <4>5. \A i \in OnWire(j)' : /\ at[j] < wire'[i][2].n
                                  /\ out[j] # NoTask => wire'[i][2].n < out[j].n
                                  /\ \A x \in 1 .. Len(m_toSync[j]) : m_toSync[j][x].n < wire'[i][2].n
        BY <2>0, <1>7 DEF InOrder
      <4>6. \A i, x \in OnWire(j)' : i < x => wire'[i][2].n < wire'[x][2].n
        <5> TAKE i, x \in OnWire(j)'
        <5>1. i < x => m + i < m + x BY <1>7, <2>b
        <5> QED BY <5>1, <2>0, <1>7 DEF InOrder
      <4>7. out[j] # NoTask =>
              /\ at[j] < out[j].n
              /\ \A x \in 1 .. Len(m_toSync[j]) : m_toSync[j][x].n < out[j].n
        BY <2>0 DEF InOrder
      <4> QED BY <4>2, <4>3, <4>4, <4>5, <4>6, <4>7, <1>11 DEF InOrder
    <3>3. Newest(j)'
      <4>1. CASE at[j] = Len(log[j]) BY <4>1, <1>11 DEF Newest
      <4>2. CASE out[j] # NoTask /\ out[j].n = Len(log[j]) BY <4>2, <1>11 DEF Newest
      <4>3. ASSUME NEW i \in OnWire(j), wire[i][2].n = Len(log[j]) PROVE Newest(j)'
        <5>1. CASE i > m BY <4>3, <5>1, <1>8, <1>11 DEF Newest
        <5>2. CASE i <= m
          <6>1. i <= c BY <5>2, <2>2
          <6>2. i = c
            <7>1. CASE i < c
              <8>1. wire[i][2].n < wire[c][2].n BY <7>1, <3>0, <2>0 DEF InOrder
              <8>2. wire[c][2].n <= Len(log[j]) BY <3>0, <1>2 DEF Carried, Carries
              <8> QED BY <8>1, <8>2, <4>3, <2>a, <3>0
            <7> QED BY <7>1, <6>1, <2>a, <3>0
          <6> QED BY <6>2, <4>3, <2>2, <2>a, <1>11 DEF Newest
        <5> QED BY <5>1, <5>2, <2>a, <2>b
      <4>4. CASE m_ingress[j] # NoTask /\ m_ingress[j].n = Len(log[j])
        <5>1. m_ingress[j].n < wire[c][2].n BY <4>4, <3>0, <2>0 DEF InOrder
        <5>2. wire[c][2].n <= Len(log[j]) BY <3>0, <1>2 DEF Carried, Carries
        <5>3. m_ingress[j].n \in Nat BY <1>0, <4>4, TaskTypes
        <5> QED BY <4>4, <5>1, <5>2, <5>3, <2>a, <3>0
      <4>5. CASE \E i \in 1 .. Len(m_toSync[j]) : m_toSync[j][i].n = Len(log[j])
        BY <4>5, <1>11 DEF Newest
      <4> QED BY <4>1, <4>2, <4>3, <4>4, <4>5, <2>0 DEF Newest
    <3> QED BY <3>2, <3>3
  <2> QED BY <2>1, <2>2, <1>9
<1>18. Zmq' BY <1>0, <1>11, <1>16, <1>17 DEF Zmq
<1>19. Redis' BY <1>2, <1>11 DEF Redis
<1>20. NoLostWakeup' BY <1>11 DEF NoLostWakeup
<1> QED BY <1>14, <1>15, <1>18, <1>19, <1>20 DEF IInv

\* The end of a burst is announced.
LEMMA QuiesceStep == ASSUME IInv, Quiesce PROVE IInv'
<1> USE DEF IInv, Quiesce, sender, redis, main
<1>1. Types' BY DEF Types
<1>2. Queues' BY DEF Queues
<1>3. Zmq' BY DEF Zmq, Carried, InOrder, Newest, OnWire, Carries
<1>4. Redis' BY DEF Redis, Wanted
<1>5. NoLostWakeup' BY DEF NoLostWakeup
<1> QED BY <1>1, <1>2, <1>3, <1>4, <1>5

-----------------------------------------------------------------------------
(* The main thread                                                         *)

\* Over ZMQ, the staged task of j joins m_toSync: its request is the newest
\* there, and a merge leaves nothing of an older one.
LEMMA JoinZmq ==
  ASSUME IInv, transport = "zmq", NEW j \in Keys, m_ingress[j] # NoTask,
         NEW p, p = AddToRange(m_toSync[j], m_ingress[j])
  PROVE  /\ p \in Seq(Task) /\ Range2(p, at[j]) /\ p # <<>>
         /\ \A i \in 1 .. Len(p) : Carries(j, p[i]) /\ p[i].n <= m_ingress[j].n
         /\ \E i \in 1 .. Len(p) : p[i].n = m_ingress[j].n
<1>0. Types /\ Queues /\ Carried /\ InOrder(j) BY DEF IInv, Zmq
<1>a. PICK t : t = m_ingress[j] OBVIOUS
<1>b. PICK q : q = m_toSync[j] OBVIOUS
<1>1. t \in Task /\ q \in Seq(Task) /\ at[j] \in Nat BY <1>0, <1>a, <1>b, TaskTypes DEF Types
<1>2. at[j] < t.n /\ \A i \in 1 .. Len(q) : q[i].n < t.n BY <1>0, <1>a, <1>b DEF InOrder
<1>3. Range2(q, at[j]) BY <1>0, <1>b DEF Queues
<1>4. /\ p \in Seq(Task) /\ Range2(p, at[j]) /\ p # <<>>
      /\ \A i \in 1 .. Len(p) : p[i].n <= t.n
      /\ p[Len(p)].n = t.n
      /\ \A i \in 1 .. Len(p) :
              \/ i <= Len(q) /\ p[i] = q[i]
              \/ i = Len(p) /\ (p[i] = t \/ \E s \in Task : t.op = "SET" /\ p[i] = Merge(s, t))
  BY <1>1, <1>2, <1>3, <1>a, <1>b, AddToRangeShape
<1>5. Carries(j, t) BY <1>0, <1>a DEF Carried
<1>6. t.op = "SET" => t.fv \in [Field -> STRING]
  <2>1. log[j] \in Seq(Request) BY <1>0 DEF Types
  <2>2. t.n \in 1 .. Len(log[j]) /\ t = Whole(log[j][t.n], t.n) BY <1>5 DEF Carries
  <2>3. log[j][t.n] \in Request /\ t.n \in Nat BY <2>1, <2>2, ElementOfSeq
  <2> QED BY <2>2, <2>3, WholeFacts
<1>7. \A s \in Task : t.op = "SET" => Merge(s, t) = t BY <1>1, <1>6, MergeWhole
<1>8. \A i \in 1 .. Len(p) : Carries(j, p[i])
  <2> TAKE i \in 1 .. Len(p)
  <2>0. Len(q) \in Nat BY <1>1, LenProperties
  <2>1. CASE i <= Len(q) /\ p[i] = q[i]
    <3>1. i \in 1 .. Len(q) BY <2>0, <2>1
    <3> QED BY <2>1, <3>1, <1>0, <1>b DEF Carried
  <2>2. CASE p[i] = t BY <2>2, <1>5
  <2>3. CASE \E s \in Task : t.op = "SET" /\ p[i] = Merge(s, t) BY <2>3, <1>5, <1>7
  <2> QED BY <2>1, <2>2, <2>3, <1>4
<1>9. \E i \in 1 .. Len(p) : p[i].n = t.n
  <2>1. Len(p) \in Nat \ {0} BY <1>4, EmptySeq
  <2>2. PICK l \in Nat : l = Len(p) /\ l >= 1 BY <2>1
  <2>3. l \in 1 .. l BY <2>2
  <2> QED BY <1>4, <2>2, <2>3
<1> QED BY <1>4, <1>8, <1>9, <1>a

\* execute() of ZmqRouteConsumer: all that is staged moves to m_toSync.
LEMMA ExecuteStep == ASSUME IInv, Execute PROVE IInv'
<1>0. Types /\ Queues /\ Zmq /\ Redis /\ NoLostWakeup BY DEF IInv
<1> USE DEF sender, redis
<1>1. /\ UNCHANGED <<transport, sender, burst, redis, log, at, shown>>
      /\ eventfd' = FALSE /\ pc' = "drain"
      /\ m_ingress' = [k \in Keys |-> NoTask]
      /\ m_toSync' = [k \in Keys |-> IF m_ingress[k] = NoTask THEN m_toSync[k]
                                     ELSE AddToRange(m_toSync[k], m_ingress[k])]
      /\ todo' = {k \in Keys : m_toSync'[k] # <<>>}
  BY DEF Execute, Drain
<1>2. \A k \in Keys : m_ingress'[k] = NoTask BY <1>1
<1>3. \A k \in Keys : m_ingress[k] = NoTask => m_toSync'[k] = m_toSync[k] BY <1>1
<1>4. \A k \in Keys : m_ingress[k] # NoTask => m_toSync'[k] = AddToRange(m_toSync[k], m_ingress[k])
  BY <1>1
<1>5. \A k \in Keys : m_ingress[k] # NoTask => transport = "zmq" BY <1>0 DEF Redis, Types
<1>6. \A k \in Keys : m_ingress[k] # NoTask =>
         /\ m_toSync'[k] \in Seq(Task) /\ Range2(m_toSync'[k], at[k]) /\ m_toSync'[k] # <<>>
         /\ \A i \in 1 .. Len(m_toSync'[k]) : Carries(k, m_toSync'[k][i]) /\ m_toSync'[k][i].n <= m_ingress[k].n
         /\ \E i \in 1 .. Len(m_toSync'[k]) : m_toSync'[k][i].n = m_ingress[k].n
  BY <1>4, <1>5, JoinZmq
<1>7. \A k \in Keys : m_toSync'[k] \in Seq(Task) BY <1>0, <1>3, <1>6 DEF Types
<1>8. Types'
  <2>1. m_toSync' \in [Keys -> Seq(Task)] BY <1>1, <1>7
  <2>2. m_ingress' \in [Keys -> Slot] BY <1>1 DEF Slot
  <2> QED BY <1>0, <1>1, <2>1, <2>2 DEF Types
<1>9. Queues' BY <1>0, <1>1, <1>3, <1>6 DEF Queues
<1>10. \A k \in Keys : OnWire(k)' = OnWire(k) BY <1>1 DEF OnWire
<1>11. transport = "zmq" => /\ Carried' /\ keyset' = {} /\ delset' = {}
                            /\ \A k \in Keys : InOrder(k)' /\ Newest(k)'
  <2> SUFFICES ASSUME transport = "zmq"
               PROVE  /\ Carried' /\ keyset' = {} /\ delset' = {}
                      /\ \A k \in Keys : InOrder(k)' /\ Newest(k)'
    OBVIOUS
  <2>0. Carried /\ keyset = {} /\ delset = {} /\ \A k \in Keys : InOrder(k) /\ Newest(k) BY <1>0 DEF Zmq
  <2>1. Carried'
    <3> SUFFICES ASSUME NEW k \in Keys
                 PROVE  \A i \in 1 .. Len(m_toSync'[k]) : Carries(k, m_toSync[k][i])'
      BY <2>0, <1>1, <1>2, <1>10 DEF Carried, Carries
    <3>1. \A i \in 1 .. Len(m_toSync'[k]) : Carries(k, m_toSync'[k][i])
      BY <2>0, <1>3, <1>6 DEF Carried
    <3> QED BY <3>1, <1>1 DEF Carries
  <2>2. ASSUME NEW k \in Keys PROVE InOrder(k)' /\ Newest(k)'
    <3>0. InOrder(k) /\ Newest(k) BY <2>0
    <3>1. CASE m_ingress[k] = NoTask
      <4>1. InOrder(k)' BY <3>0, <3>1, <1>1, <1>2, <1>3, <1>10 DEF InOrder
      <4>2. Newest(k)' BY <3>0, <3>1, <1>1, <1>2, <1>3, <1>10 DEF Newest
      <4> QED BY <4>1, <4>2
    <3>2. CASE m_ingress[k] # NoTask
      <4>a. PICK n : n = m_ingress[k].n OBVIOUS
      <4>1. n \in Nat BY <3>2, <4>a, <1>0, TaskTypes
      <4>b. \A i \in OnWire(k) : wire[i][2].n \in Nat BY <1>0, TaskTypes
      <4>c. out[k] # NoTask => out[k].n \in Nat BY <1>0, TaskTypes
      <4>2. \A i \in 1 .. Len(m_toSync'[k]) : m_toSync'[k][i].n \in Nat /\ m_toSync'[k][i].n <= n
        BY <1>6, <3>2, <4>a DEF Carries
      <4>3. \A i \in OnWire(k) : n < wire[i][2].n BY <3>0, <3>2, <4>a DEF InOrder
      <4>4. out[k] # NoTask => n < out[k].n BY <3>0, <3>2, <4>a DEF InOrder
      <4>5. \A i \in OnWire(k) : \A x \in 1 .. Len(m_toSync'[k]) : m_toSync'[k][x].n < wire[i][2].n
        BY <4>1, <4>2, <4>3, <4>b
      <4>6. out[k] # NoTask => \A x \in 1 .. Len(m_toSync'[k]) : m_toSync'[k][x].n < out[k].n
        BY <4>1, <4>2, <4>4, <4>c
      <4>7. InOrder(k)' BY <3>0, <4>5, <4>6, <1>1, <1>2, <1>10 DEF InOrder
      <4>8. Newest(k)'
        <5>1. CASE at[k] = Len(log[k]) BY <5>1, <1>1 DEF Newest
        <5>2. CASE out[k] # NoTask /\ out[k].n = Len(log[k]) BY <5>2, <1>1 DEF Newest
        <5>3. CASE \E i \in OnWire(k) : wire[i][2].n = Len(log[k]) BY <5>3, <1>1, <1>10 DEF Newest
        <5>4. CASE n = Len(log[k]) BY <5>4, <1>1, <1>6, <3>2, <4>a DEF Newest
        <5>5. CASE \E i \in 1 .. Len(m_toSync[k]) : m_toSync[k][i].n = Len(log[k])
          <6>1. PICK i \in 1 .. Len(m_toSync[k]) : m_toSync[k][i].n = Len(log[k]) BY <5>5
          <6>2. m_toSync[k][i].n < n BY <3>0, <3>2, <4>a DEF InOrder
          <6>3. n <= Len(log[k]) /\ Len(log[k]) \in Nat
            BY <2>0, <3>2, <4>a, <1>0, LenProperties DEF Carried, Carries, Types
          <6> QED BY <6>1, <6>2, <6>3, <4>1
        <5> QED BY <3>0, <5>1, <5>2, <5>3, <5>4, <5>5, <4>a DEF Newest
      <4> QED BY <4>7, <4>8
    <3> QED BY <3>1, <3>2
  <2> QED BY <2>0, <2>1, <2>2, <1>1
<1>12. Zmq' BY <1>1, <1>11 DEF Zmq
<1>13. Redis'
  <2> SUFFICES ASSUME transport = "redis" PROVE Redis' BY <1>1 DEF Redis
  <2>1. \A k \in Keys : m_toSync'[k] = m_toSync[k] BY <1>0, <1>3 DEF Redis
  <2> QED BY <2>1, <1>0, <1>1, <1>2 DEF Redis, Wanted
<1>14. NoLostWakeup' BY <1>2 DEF NoLostWakeup
<1> QED BY <1>8, <1>9, <1>12, <1>13, <1>14 DEF IInv

\* execute() of Consumer: the last request of every key of K moves to the
\* table and joins m_toSync, in which it is the newest.
LEMMA ExecutePopsStep ==
  ASSUME IInv, NEW K \in SUBSET keyset, ExecutePops(K)
  PROVE  IInv'
<1>0. Types /\ Queues /\ Zmq /\ Redis /\ NoLostWakeup BY DEF IInv
<1> USE DEF sender, poll
<1>1. transport = "redis" /\ K \subseteq Keys /\ K \subseteq delset
  BY <1>0 DEF ExecutePops, Zmq, Redis, Types
<1>2. /\ UNCHANGED <<transport, sender, poll, number, log, at, shown>>
      /\ pc' = "drain"
      /\ appdb' = [k \in Keys |-> IF k \in K THEN Popped(k) ELSE appdb[k]]
      /\ state' = [k \in Keys |-> IF k \in K THEN NoFields ELSE state[k]]
      /\ keyset' = keyset \ K /\ delset' = delset \ K
      /\ m_toSync' = [k \in Keys |-> IF k \in K THEN AddToRange(m_toSync[k], PopsTask(k))
                                     ELSE m_toSync[k]]
      /\ todo' = {k \in Keys : m_toSync'[k] # <<>>}
  BY DEF ExecutePops, Drain
<1>3. \A k \in Keys : k \notin K =>
        m_toSync'[k] = m_toSync[k] /\ appdb'[k] = appdb[k] /\ state'[k] = state[k]
  BY <1>2
<1>4. \A k \in K : Popped(k) = state[k]
  <2> TAKE k \in K
  <2>1. state[k] \in Fields BY <1>0, <1>1 DEF Types
  <2>2. PICK D \in SUBSET Field : state[k] \in [D -> STRING] BY <2>1 DEF Fields
  <2>3. DOMAIN NoFields \cup DOMAIN state[k] = D BY <2>2 DEF NoFields
  <2>4. Popped(k) = [f \in D |-> IF f \in D THEN state[k][f] ELSE NoFields[f]]
    BY <1>1, <2>2, <2>3 DEF Popped
  <2> QED BY <2>2, <2>4
<1>5. \A k \in K : appdb'[k] = state[k] /\ state'[k] = NoFields BY <1>1, <1>2, <1>4
<1>6. \A k \in K : PopsTask(k) \in Task /\ PopsTask(k).n = Len(log[k]) /\ Len(log[k]) \in Nat
  <2> TAKE k \in K
  <2>1. state[k] \in Fields /\ number[k] \in Nat /\ number[k] = Len(log[k])
    BY <1>0, <1>1 DEF Types, Redis
  <2> QED BY <2>1 DEF PopsTask, Task
<1>7. \A k \in K : /\ m_toSync'[k] \in Seq(Task) /\ Range2(m_toSync'[k], at[k]) /\ m_toSync'[k] # <<>>
                   /\ \A i \in 1 .. Len(m_toSync'[k]) : m_toSync'[k][i].n <= Len(log[k])
  <2> TAKE k \in K
  <2>a. PICK t : t = PopsTask(k) OBVIOUS
  <2>b. PICK q : q = m_toSync[k] OBVIOUS
  <2>1. k \in Keys /\ k \in keyset BY <1>1
  <2>2. q \in Seq(Task) /\ at[k] \in Nat BY <1>0, <2>1, <2>b DEF Types
  <2>3. t \in Task /\ t.n = Len(log[k]) BY <1>6, <2>a
  <2>4. Range2(q, at[k]) /\ at[k] < t.n /\ \A i \in 1 .. Len(q) : q[i].n < t.n
    BY <1>0, <1>1, <2>1, <2>3, <2>b DEF Queues, Redis
  <2>5. m_toSync'[k] = AddToRange(q, t) BY <1>2, <2>1, <2>a, <2>b
  <2> QED BY <2>2, <2>3, <2>4, <2>5, AddToRangeShape
<1>8. Types'
  <2>1. \A k \in Keys : m_toSync'[k] \in Seq(Task) BY <1>0, <1>3, <1>7 DEF Types
  <2>2. m_toSync' \in [Keys -> Seq(Task)] BY <1>2, <2>1
  <2>3. \A k \in Keys : appdb'[k] \in Fields /\ state'[k] \in Fields
    BY <1>0, <1>3, <1>5, NoFieldsType DEF Types
  <2>4. appdb' \in [Keys -> Fields] /\ state' \in [Keys -> Fields] BY <1>2, <2>3
  <2> QED BY <1>0, <1>2, <2>2, <2>4 DEF Types
<1>9. Queues' BY <1>0, <1>2, <1>3, <1>7 DEF Queues
<1>10. Zmq' BY <1>1, <1>2 DEF Zmq
<1>11. Redis'
  <2> SUFFICES ASSUME NEW k \in Keys
               PROVE
         /\ number'[k] = Len(log'[k])
         /\ k \notin keyset' => state'[k] = NoFields
         /\ k \in keyset' => log'[k] # <<>> /\ state'[k] = Wanted(log[k])'
         /\ k \notin keyset' /\ log'[k] # <<>> => appdb'[k] = Wanted(log[k])'
         /\ \A i \in 1 .. Len(m_toSync'[k]) :
              /\ m_toSync'[k][i].n <= Len(log'[k])
              /\ k \in keyset' => m_toSync'[k][i].n < Len(log'[k])
         /\ k \in keyset' => at[k] < Len(log'[k])
    BY <1>0, <1>1, <1>2 DEF Redis
  <2>1. Wanted(log[k])' = Wanted(log[k]) BY <1>2 DEF Wanted
  <2>2. CASE k \in K BY <1>0, <1>1, <1>2, <1>5, <1>7, <2>1, <2>2 DEF Redis
  <2>3. CASE k \notin K
    <3>1. k \in keyset' <=> k \in keyset BY <2>3, <1>2
    <3> QED BY <1>0, <1>1, <1>2, <1>3, <2>1, <2>3, <3>1 DEF Redis
  <2> QED BY <2>2, <2>3
<1>12. NoLostWakeup' BY <1>0, <1>2 DEF NoLostWakeup
<1> QED BY <1>8, <1>9, <1>10, <1>11, <1>12 DEF IInv

\* Steps that change only the walk: the parts other than Types and Queues
\* do not depend on it.
LEMMA WalkStep ==
  ASSUME IInv, pc' \in {"idle", "drain"}, todo' \in SUBSET Keys,
         \A k \in todo' : m_toSync[k] # <<>>,
         UNCHANGED <<transport, sender, poll, redis, m_toSync, at, shown, log>>
  PROVE  IInv'
<1> USE DEF IInv, sender, poll, redis
<1>1. Types' BY DEF Types
<1>2. Queues' BY DEF Queues
<1>3. Zmq' BY DEF Zmq, Carried, InOrder, Newest, OnWire, Carries
<1>4. Redis' BY DEF Redis, Wanted
<1>5. NoLostWakeup' BY DEF NoLostWakeup
<1> QED BY <1>1, <1>2, <1>3, <1>4, <1>5

\* DoTask starts a walk over the keys with tasks.
LEMMA DoTaskStep == ASSUME IInv, DoTask PROVE IInv'
<1>1. /\ UNCHANGED <<transport, sender, poll, redis, m_toSync, at, shown, log>>
      /\ pc' = "drain" /\ todo' = {k \in Keys : m_toSync[k] # <<>>}
  BY DEF DoTask, Drain
<1> QED BY <1>1, WalkStep

\* A task that has to wait is left where it is.
LEMMA TaskWaitsStep == ASSUME IInv, NEW k \in Keys, TaskWaits(k) PROVE IInv'
<1>1. /\ UNCHANGED <<transport, sender, poll, redis, m_toSync, at, shown, log>>
      /\ pc' = pc /\ todo' = todo \ {k}
  BY DEF TaskWaits
<1>2. pc \in {"idle", "drain"} /\ todo \in SUBSET Keys /\ \A j \in todo : m_toSync[j] # <<>>
  BY DEF IInv, Types, Queues
<1> QED BY <1>1, <1>2, WalkStep

\* The end of a walk leaves all tasks where they are.
LEMMA EndDrainStep == ASSUME IInv, EndDrain PROVE IInv'
<1>1. /\ UNCHANGED <<transport, sender, poll, redis, m_toSync, at, shown, log>>
      /\ pc' = "idle" /\ todo' = {}
  BY DEF EndDrain
<1> QED BY <1>1, WalkStep

\* The head of the tasks of k goes; what is left keeps its shape.
LEMMA EraseFacts ==
  ASSUME Types, Queues, NEW k \in Keys, k \in todo, Erase(k)
  PROVE  /\ m_toSync' \in [Keys -> Seq(Task)]
         /\ \A j \in Keys \ {k} : m_toSync'[j] = m_toSync[j]
         /\ 1 \in 1 .. Len(m_toSync[k]) /\ m_toSync[k][1] \in Task
         /\ \A i \in 1 .. Len(m_toSync'[k]) :
              i + 1 \in 1 .. Len(m_toSync[k]) /\ m_toSync'[k][i] = m_toSync[k][i + 1]
         /\ \A i \in 1 .. Len(m_toSync[k]) :
              i = 1 \/ (i - 1 \in 1 .. Len(m_toSync'[k]) /\ m_toSync'[k][i - 1] = m_toSync[k][i])
         /\ Range2(m_toSync'[k], m_toSync[k][1].n) /\ Range2(m_toSync'[k], at[k])
         /\ at[k] < m_toSync[k][1].n
         /\ \A j \in Keys : j \in todo' => m_toSync'[j] # <<>>
         /\ todo' \in SUBSET Keys
<1>a. PICK q : q = m_toSync[k] OBVIOUS
<1>b. PICK p : p = m_toSync'[k] OBVIOUS
<1>1. q \in Seq(Task) /\ q # <<>> /\ Range2(q, at[k]) BY <1>a DEF Types, Queues
<1>2. PICK l \in Nat : l = Len(q) /\ l >= 1
  <2>1. Len(q) \in Nat \ {0} BY <1>1, EmptySeq
  <2> QED BY <2>1
<1>3. l <= 2 BY <1>1, <1>2 DEF Range2
<1>4. p = Tail(q) /\ \A j \in Keys \ {k} : m_toSync'[j] = m_toSync[j] BY <1>a, <1>b DEF Erase, Types
<1>5. p \in Seq(Task) /\ Len(p) = l - 1 /\ \A i \in 1 .. l - 1 : p[i] = q[i + 1]
  BY <1>1, <1>2, <1>4, HeadTailProperties
<1>6. m_toSync' \in [Keys -> Seq(Task)] BY <1>5, <1>b, <1>4 DEF Types, Erase
<1>7. 1 \in 1 .. l /\ q[1] \in Task /\ q[1].n \in Nat /\ at[k] < q[1].n /\ at[k] \in Nat
  <2>1. 1 \in 1 .. l BY <1>2
  <2>2. q[1] \in Task BY <2>1, <1>1, <1>2, ElementOfSeq
  <2> QED BY <2>1, <2>2, <1>1, <1>2 DEF Range2, Task, Types
<1>8. \A i \in 1 .. l - 1 : q[i + 1].n \in Nat
  <2> TAKE i \in 1 .. l - 1
  <2>1. i + 1 \in 1 .. l BY <1>2
  <2>2. q[i + 1] \in Task BY <2>1, <1>1, <1>2, ElementOfSeq
  <2> QED BY <2>2 DEF Task
<1>9. Range2(p, q[1].n) /\ Range2(p, at[k])
  <2>1. CASE l = 1 BY <2>1, <1>5 DEF Range2
  <2>2. CASE l = 2
    <3>1. Len(p) = 1 /\ p[1] = q[2] BY <2>2, <1>5
    <3>a. (l = 2 => q[1].n < q[2].n) /\ \A i \in 1 .. l : at[k] < q[i].n BY <1>1, <1>2 DEF Range2
    <3>2. q[1].n < q[2].n /\ at[k] < q[2].n BY <2>2, <3>a
    <3> QED BY <3>1, <3>2 DEF Range2
  <2> QED BY <2>1, <2>2, <1>2, <1>3
<1>10. \A i \in 1 .. Len(p) : i + 1 \in 1 .. Len(q) /\ p[i] = q[i + 1] BY <1>2, <1>5
<1>11. \A i \in 1 .. Len(q) : i = 1 \/ (i - 1 \in 1 .. Len(p) /\ p[i - 1] = q[i])
  <2> SUFFICES ASSUME NEW i \in 1 .. l, i # 1 PROVE i - 1 \in 1 .. l - 1 /\ p[i - 1] = q[i]
    BY <1>2, <1>5
  <2>1. i - 1 \in 1 .. l - 1 /\ (i - 1) + 1 = i BY <1>2
  <2> QED BY <2>1, <1>5
<1>12. todo' \in SUBSET Keys BY DEF Erase, Types
<1>13. \A j \in Keys : j \in todo' => m_toSync'[j] # <<>>
  <2> SUFFICES ASSUME NEW j \in Keys, j \in todo' PROVE m_toSync'[j] # <<>> OBVIOUS
  <2>0. j \in todo BY DEF Erase
  <2>1. CASE j # k BY <2>0, <2>1, <1>4 DEF Queues
  <2>2. CASE j = k
    <3>1. l # 1 BY <2>2, <1>2, <1>a DEF Erase
    <3>2. Len(p) = 1 BY <3>1, <1>2, <1>3, <1>5
    <3>3. p # <<>> BY <3>2
    <3> QED BY <2>2, <3>3, <1>b
  <2> QED BY <2>1, <2>2
<1> QED BY <1>2, <1>4, <1>6, <1>7, <1>9, <1>10, <1>11, <1>12, <1>13, <1>a, <1>b

\* A task that carries its request is programmed as asked.
LEMMA CarriedContent ==
  ASSUME Types, NEW k \in Keys, NEW t \in Task, Carries(k, t)
  PROVE  /\ ~HasBoth(t)
         /\ (IF t.op = "DEL" THEN NoRoute ELSE Parsed(t.fv)) = log[k][t.n]
<1>1. log[k] \in Seq(Request) BY DEF Types
<1>2. t.n \in 1 .. Len(log[k]) /\ t = Whole(log[k][t.n], t.n) BY DEF Carries
<1>3. log[k][t.n] \in Request /\ t.n \in Nat BY <1>1, <1>2, ElementOfSeq
<1> QED BY <1>2, <1>3, WholeFacts

\* What the handler programs is the next request of k; over ZMQ, as asked.
LEMMA SuccessFacts ==
  ASSUME IInv, NEW k \in Keys, TaskSuccess(k)
  PROVE  /\ at' = [at EXCEPT ![k] = m_toSync[k][1].n]
         /\ at[k] < m_toSync[k][1].n
         /\ m_toSync[k][1].n \in 1 .. Len(log[k])
         /\ \E r :
              /\ shown' = [shown EXCEPT ![k] = r]
              /\ transport = "zmq" => r = log[k][m_toSync[k][1].n]
         /\ Erase(k)
<1>0. Types /\ Queues /\ Zmq /\ Redis BY DEF IInv
<1>a. PICK t : t = m_toSync[k][1] OBVIOUS
<1>1. k \in todo /\ Erase(k) BY DEF TaskSuccess
<1>2. t \in Task /\ 1 \in 1 .. Len(m_toSync[k]) /\ at[k] < t.n BY <1>0, <1>1, <1>a, EraseFacts
<1>3. at' = [at EXCEPT ![k] = t.n] BY <1>a DEF TaskSuccess, Programmed
<1> DEFINE r == IF t.op = "DEL" THEN NoRoute ELSE Parsed(t.fv)
<1>4. shown' = [shown EXCEPT ![k] = r] BY <1>a DEF TaskSuccess, Programmed
<1>6. transport = "zmq" => Carries(k, t) BY <1>0, <1>2, <1>a DEF Zmq, Carried
<1>7. transport = "zmq" => r = log[k][t.n] BY <1>0, <1>2, <1>6, CarriedContent
<1>8. t.n \in 1 .. Len(log[k])
  <2>1. CASE transport = "zmq" BY <2>1, <1>6 DEF Carries
  <2>2. CASE transport = "redis"
    <3>1. t.n <= Len(log[k]) BY <1>0, <1>2, <1>a, <2>2 DEF Redis
    <3>2. t.n \in Nat /\ at[k] \in Nat /\ Len(log[k]) \in Nat
      BY <1>0, <1>2, LenProperties DEF Task, Types
    <3> QED BY <3>1, <3>2, <1>2
  <2> QED BY <1>0, <2>1, <2>2 DEF Types
<1> QED BY <1>1, <1>2, <1>3, <1>4, <1>7, <1>8, <1>a

\* A task that succeeds is shown and leaves m_toSync.
LEMMA TaskSuccessStep == ASSUME IInv, NEW k \in Keys, TaskSuccess(k) PROVE IInv'
<1>0. Types /\ Queues /\ Zmq /\ Redis /\ NoLostWakeup BY DEF IInv
<1>a. PICK n : n = m_toSync[k][1].n OBVIOUS
<1>1. PICK r :
         /\ at' = [at EXCEPT ![k] = n] /\ at[k] < n /\ n \in 1 .. Len(log[k])
         /\ shown' = [shown EXCEPT ![k] = r]
         /\ transport = "zmq" => r = log[k][n]
         /\ Erase(k)
  BY <1>a, SuccessFacts
<1>2. k \in todo BY DEF TaskSuccess
<1> DEFINE P == m_toSync'[k]
           Q == m_toSync[k]
<1>3. /\ m_toSync' \in [Keys -> Seq(Task)]
      /\ \A j \in Keys \ {k} : m_toSync'[j] = m_toSync[j]
      /\ 1 \in 1 .. Len(Q) /\ Q[1] \in Task
      /\ \A i \in 1 .. Len(P) : i + 1 \in 1 .. Len(Q) /\ P[i] = Q[i + 1]
      /\ \A i \in 1 .. Len(Q) : i = 1 \/ (i - 1 \in 1 .. Len(P) /\ P[i - 1] = Q[i])
      /\ Range2(P, n)
      /\ \A j \in Keys : j \in todo' => m_toSync'[j] # <<>>
      /\ todo' \in SUBSET Keys
  BY <1>0, <1>1, <1>2, <1>a, EraseFacts
<1>4. at'[k] = n /\ shown'[k] = r /\ \A j \in Keys \ {k} : at'[j] = at[j] /\ shown'[j] = shown[j]
  BY <1>0, <1>1 DEF Types
<1>5. n \in Nat /\ n # 0 /\ n <= Len(log[k]) /\ Len(log[k]) \in Nat
  <2>1. Len(log[k]) \in Nat BY <1>0, LenProperties DEF Types
  <2> QED BY <1>1, <2>1
<1> USE DEF sender, poll, redis
<1>6. UNCHANGED <<transport, sender, poll, redis, pc, log>> BY <1>1 DEF Erase
<1>7. Types' BY <1>0, <1>1, <1>3, <1>5, <1>6 DEF Types
<1>8. Queues'
  <2> SUFFICES ASSUME NEW j \in Keys
               PROVE  /\ Range2(m_toSync'[j], at'[j])
                      /\ at'[j] <= Len(log[j])
                      /\ at'[j] = 0 => shown'[j] = NoRoute
    BY <1>3, <1>6 DEF Queues
  <2>1. CASE j = k BY <1>3, <1>4, <1>5, <2>1
  <2>2. CASE j # k BY <1>0, <1>3, <1>4, <2>2 DEF Queues
  <2> QED BY <2>1, <2>2
<1>9. \A j \in Keys : OnWire(j)' = OnWire(j) BY <1>6 DEF OnWire
<1>10. transport = "zmq" => Carried' /\ \A j \in Keys : InOrder(j)' /\ Newest(j)'
  <2> SUFFICES ASSUME transport = "zmq", NEW j \in Keys
               PROVE  /\ \A i \in 1 .. Len(m_toSync'[j]) : Carries(j, m_toSync[j][i])'
                      /\ at'[j] # 0 => shown'[j] = log[j][at'[j]]
                      /\ InOrder(j)' /\ Newest(j)'
    BY <1>0, <1>6, <1>9 DEF Zmq, Carried, Carries
  <2>0. Carried /\ InOrder(j) /\ Newest(j) BY <1>0 DEF Zmq
  <2>1. CASE j = k
    <3>1. \A i \in 1 .. Len(m_toSync'[k]) : Carries(k, m_toSync[k][i])'
      <4> TAKE i \in 1 .. Len(m_toSync'[k])
      <4>1. i + 1 \in 1 .. Len(Q) /\ P[i] = Q[i + 1] BY <1>3
      <4>2. Carries(k, Q[i + 1]) BY <4>1, <2>0 DEF Carried
      <4>3. Carries(k, P[i]) BY <4>1, <4>2
      <4> QED BY <4>3, <1>6 DEF Carries
    <3>2. at'[k] # 0 => shown'[k] = log[k][at'[k]] BY <1>1, <1>4
    <3>3. InOrder(k)'
      <4>1. /\ out[k] # NoTask => n < out[k].n /\ \A i \in 1 .. Len(P) : P[i].n < out[k].n
            /\ \A x \in OnWire(k) : n < wire[x][2].n /\ \A i \in 1 .. Len(P) : P[i].n < wire[x][2].n
            /\ m_ingress[k] # NoTask => n < m_ingress[k].n /\ \A i \in 1 .. Len(P) : P[i].n < m_ingress[k].n
        BY <2>0, <2>1, <1>3, <1>a DEF InOrder
      <4> QED BY <2>0, <2>1, <4>1, <1>4, <1>6, <1>9 DEF InOrder
    <3>4. Newest(k)'
      <4>1. CASE at[k] = Len(log[k])
        <5>1. at[k] \in Nat BY <1>0 DEF Types
        <5> QED BY <5>1, <4>1, <1>1, <1>5
      <4>2. CASE \E i \in 1 .. Len(Q) : Q[i].n = Len(log[k])
        <5>1. PICK i \in 1 .. Len(Q) : Q[i].n = Len(log[k]) BY <4>2
        <5>2. CASE i = 1 BY <5>1, <5>2, <1>4, <1>6, <1>a DEF Newest
        <5>3. CASE i # 1 BY <5>1, <5>3, <1>3, <1>6 DEF Newest
        <5> QED BY <5>2, <5>3
      <4>3. CASE ~(at[k] = Len(log[k])) /\ ~(\E i \in 1 .. Len(Q) : Q[i].n = Len(log[k]))
        BY <4>3, <2>0, <2>1, <1>6, <1>9 DEF Newest
      <4> QED BY <4>1, <4>2, <4>3
    <3> QED BY <2>1, <3>1, <3>2, <3>3, <3>4
  <2>2. CASE j # k
    <3>1. m_toSync'[j] = m_toSync[j] /\ at'[j] = at[j] /\ shown'[j] = shown[j] BY <2>2, <1>3, <1>4
    <3>2. InOrder(j)' BY <2>0, <3>1, <1>6, <1>9 DEF InOrder
    <3>3. Newest(j)' BY <2>0, <3>1, <1>6, <1>9 DEF Newest
    <3>4. \A i \in 1 .. Len(m_toSync'[j]) : Carries(j, m_toSync[j][i])'
      BY <2>0, <3>1, <1>6 DEF Carried, Carries
    <3>5. at'[j] # 0 => shown'[j] = log[j][at'[j]] BY <2>0, <3>1 DEF Carried
    <3> QED BY <3>2, <3>3, <3>4, <3>5
  <2> QED BY <2>1, <2>2
<1>11. Zmq' BY <1>0, <1>6, <1>10 DEF Zmq
<1>12. Redis'
  <2> SUFFICES ASSUME transport = "redis", NEW j \in Keys
               PROVE  /\ \A i \in 1 .. Len(m_toSync'[j]) :
                           /\ m_toSync'[j][i].n <= Len(log[j])
                           /\ j \in keyset => m_toSync'[j][i].n < Len(log[j])
                      /\ j \in keyset => at'[j] < Len(log[j])
    BY <1>0, <1>6 DEF Redis, Wanted
  <2>1. CASE j = k
    <3>1. \A i \in 1 .. Len(Q) : Q[i].n <= Len(log[k]) /\ (k \in keyset => Q[i].n < Len(log[k]))
      BY <1>0 DEF Redis
    <3>2. \A i \in 1 .. Len(P) : P[i].n <= Len(log[k]) /\ (k \in keyset => P[i].n < Len(log[k]))
      <4> TAKE i \in 1 .. Len(P)
      <4>1. i + 1 \in 1 .. Len(Q) /\ P[i] = Q[i + 1] BY <1>3
      <4> QED BY <3>1, <4>1
    <3>3. k \in keyset => at'[k] < Len(log[k]) BY <3>1, <1>3, <1>4, <1>a
    <3> QED BY <2>1, <3>2, <3>3
  <2>2. CASE j # k BY <1>0, <1>3, <1>4, <2>2 DEF Redis
  <2> QED BY <2>1, <2>2
<1>13. NoLostWakeup' BY <1>0, <1>6 DEF NoLostWakeup
<1> QED BY <1>7, <1>8, <1>11, <1>12, <1>13 DEF IInv

\* Only over Redis, where m_toSync mixes the fields of requests, can a task
\* have next hops and a group.
LEMMA TaskRejectedStep == ASSUME IInv, NEW k \in Keys, TaskRejected(k) PROVE IInv'
<1>0. Types /\ Queues /\ Zmq /\ Redis /\ NoLostWakeup BY DEF IInv
<1>1. k \in todo /\ Erase(k) /\ UNCHANGED <<at, shown>> /\ HasBoth(m_toSync[k][1]) BY DEF TaskRejected
<1> DEFINE P == m_toSync'[k]
           Q == m_toSync[k]
<1>2. /\ m_toSync' \in [Keys -> Seq(Task)]
      /\ \A j \in Keys \ {k} : m_toSync'[j] = m_toSync[j]
      /\ 1 \in 1 .. Len(Q) /\ Q[1] \in Task
      /\ \A i \in 1 .. Len(P) : i + 1 \in 1 .. Len(Q) /\ P[i] = Q[i + 1]
      /\ Range2(P, at[k])
      /\ \A j \in Keys : j \in todo' => m_toSync'[j] # <<>>
      /\ todo' \in SUBSET Keys
  BY <1>0, <1>1, EraseFacts
<1>3. transport = "redis"
  <2>1. CASE transport = "zmq"
    <3>1. Carries(k, m_toSync[k][1]) BY <1>0, <1>2, <2>1 DEF Zmq, Carried
    <3> QED BY <3>1, <1>0, <1>1, <1>2, CarriedContent
  <2> QED BY <2>1, <1>0 DEF Types
<1> USE DEF sender, poll, redis
<1>4. UNCHANGED <<transport, sender, poll, redis, pc, log>> BY <1>1 DEF Erase
<1>5. Types' BY <1>0, <1>1, <1>2, <1>4 DEF Types
<1>6. Queues'
  <2> SUFFICES ASSUME NEW j \in Keys PROVE Range2(m_toSync'[j], at[j])
    BY <1>0, <1>1, <1>2, <1>4 DEF Queues
  <2>1. CASE j = k BY <1>2, <2>1
  <2>2. CASE j # k BY <1>0, <1>2, <2>2 DEF Queues
  <2> QED BY <2>1, <2>2
<1>7. Zmq' BY <1>3, <1>4 DEF Zmq
<1>8. Redis'
  <2> SUFFICES ASSUME NEW j \in Keys
               PROVE  \A i \in 1 .. Len(m_toSync'[j]) :
                           /\ m_toSync'[j][i].n <= Len(log[j])
                           /\ j \in keyset => m_toSync'[j][i].n < Len(log[j])
    BY <1>0, <1>1, <1>3, <1>4 DEF Redis, Wanted
  <2>1. CASE j = k BY <1>0, <1>2, <1>3, <2>1 DEF Redis
  <2>2. CASE j # k BY <1>0, <1>2, <1>3, <2>2 DEF Redis
  <2> QED BY <2>1, <2>2
<1>9. NoLostWakeup' BY <1>0, <1>4 DEF NoLostWakeup
<1> QED BY <1>5, <1>6, <1>7, <1>8, <1>9 DEF IInv

-----------------------------------------------------------------------------
(* The theorems                                                            *)

LEMMA StutterStep == ASSUME IInv, UNCHANGED vars PROVE IInv'
<1>1. /\ UNCHANGED <<transport, sender, poll, redis, m_toSync, at, shown, log>>
      /\ pc' = pc /\ todo' = todo
  BY DEF vars, main
<1>2. pc \in {"idle", "drain"} /\ todo \in SUBSET Keys /\ \A j \in todo : m_toSync[j] # <<>>
  BY DEF IInv, Types, Queues
<1> QED BY <1>1, <1>2, WalkStep

\* Every step of the way keeps the inductive invariant.
LEMMA NextIInv == IInv /\ [Next]_vars => IInv'
<1> SUFFICES ASSUME IInv, [Next]_vars PROVE IInv' OBVIOUS
<1>1. ASSUME NEW k \in Keys, NEW r \in Route, setTableWithWarmRestart(k, r) PROVE IInv'
  BY <1>1, SetStep
<1>2. ASSUME NEW k \in Keys, delTableWithWarmRestart(k) PROVE IInv' BY <1>2, DelStep
<1>3. ASSUME NEW k \in Keys, Send(k) PROVE IInv' BY <1>3, SendStep
<1>4. ASSUME NEW k \in Keys, TaskSuccess(k) PROVE IInv' BY <1>4, TaskSuccessStep
<1>5. ASSUME NEW k \in Keys, TaskWaits(k) PROVE IInv' BY <1>5, TaskWaitsStep
<1>6. ASSUME NEW k \in Keys, TaskRejected(k) PROVE IInv' BY <1>6, TaskRejectedStep
<1>7. ASSUME NEW m \in DOMAIN wire, IngressCallback(m) PROVE IInv' BY <1>7, IngressStep
<1>8. CASE Quiesce BY <1>8, QuiesceStep
<1>9. CASE Execute BY <1>9, ExecuteStep
<1>10. ASSUME NEW K \in SUBSET keyset, ExecutePops(K) PROVE IInv' BY <1>10, ExecutePopsStep
<1>11. CASE DoTask BY <1>11, DoTaskStep
<1>12. CASE EndDrain BY <1>12, EndDrainStep
<1>13. CASE UNCHANGED vars BY <1>13, StutterStep
<1> QED
  BY <1>1, <1>2, <1>3, <1>4, <1>5, <1>6, <1>7, <1>8, <1>9, <1>10, <1>11, <1>12, <1>13 DEF Next

\* The invariant holds in every reachable state.
LEMMA SpecIInv == Spec => []IInv
<1>1. Init => IInv BY InitIInv
<1>2. IInv /\ [Next]_vars => IInv' BY NextIInv
<1> QED BY <1>1, <1>2, PTL DEF Spec

\* The invariant implies the type of the state.
LEMMA IInvTypeOK == IInv => TypeOK
<1> SUFFICES ASSUME IInv PROVE TypeOK OBVIOUS
<1>0. Types /\ Queues /\ Zmq /\ Redis BY DEF IInv
<1>1. delset \subseteq keyset
  <2>1. CASE transport = "zmq" BY <1>0, <2>1 DEF Zmq
  <2>2. CASE transport = "redis" BY <1>0, <2>2 DEF Redis
  <2> QED BY <1>0, <2>1, <2>2 DEF Types
<1>2. \A k \in Keys : /\ out[k] = NoTask \/ out[k].op \in {"SET", "DEL"}
                      /\ m_ingress[k] = NoTask \/ m_ingress[k].op \in {"SET", "DEL"}
  BY <1>0, TaskTypes DEF Task
<1>3. \A k \in Keys : at[k] \in 0 .. Len(log[k])
  <2> TAKE k \in Keys
  <2>1. at[k] \in Nat /\ Len(log[k]) \in Nat /\ at[k] <= Len(log[k])
    BY <1>0, LenProperties DEF Types, Queues
  <2> QED BY <2>1
<1>4. \A k \in Keys : Len(m_toSync[k]) <= 2 BY <1>0 DEF Queues, Range2
<1> QED BY <1>0, <1>1, <1>2, <1>3, <1>4 DEF TypeOK, Types

\* The invariant implies that the newest request is shown or under way.
LEMMA IInvNewest == IInv => NewestUnderway
<1> SUFFICES ASSUME IInv, transport = "zmq", NEW k \in Keys
             PROVE  \/ at[k] = Len(log[k])
                    \/ \E t \in Underway(k) :
                         /\ t.n = Len(log[k])
                         /\ (IF t.op = "DEL" THEN NoRoute ELSE Parsed(t.fv)) = log[k][Len(log[k])]
  BY DEF NewestUnderway
<1>0. Types /\ Carried /\ Newest(k) BY DEF IInv, Zmq
<1>1. ASSUME NEW t \in Underway(k), t \in Task, Carries(k, t), t.n = Len(log[k])
      PROVE  \E x \in Underway(k) :
               /\ x.n = Len(log[k])
               /\ (IF x.op = "DEL" THEN NoRoute ELSE Parsed(x.fv)) = log[k][Len(log[k])]
  BY <1>0, <1>1, CarriedContent
<1>2. CASE out[k] # NoTask /\ out[k].n = Len(log[k])
  <2>1. out[k] \in Underway(k) BY <1>2 DEF Underway
  <2> QED BY <1>0, <1>1, <1>2, <2>1, TaskTypes DEF Carried
<1>3. ASSUME NEW i \in OnWire(k), wire[i][2].n = Len(log[k])
      PROVE  \E x \in Underway(k) :
               /\ x.n = Len(log[k])
               /\ (IF x.op = "DEL" THEN NoRoute ELSE Parsed(x.fv)) = log[k][Len(log[k])]
  <2>1. i \in DOMAIN wire /\ wire[i][1] = k BY <1>0, LenProperties DEF OnWire, Types
  <2>2. wire[i] \in Range(wire) BY <2>1 DEF Range
  <2>3. wire[i][2] \in Underway(k) BY <2>1, <2>2 DEF Underway
  <2> QED BY <1>0, <1>1, <1>3, <2>3, TaskTypes DEF Carried
<1>4. CASE m_ingress[k] # NoTask /\ m_ingress[k].n = Len(log[k])
  <2>1. m_ingress[k] \in Underway(k) BY <1>4 DEF Underway
  <2> QED BY <1>0, <1>1, <1>4, <2>1, TaskTypes DEF Carried
<1>5. ASSUME NEW i \in 1 .. Len(m_toSync[k]), m_toSync[k][i].n = Len(log[k])
      PROVE  \E x \in Underway(k) :
               /\ x.n = Len(log[k])
               /\ (IF x.op = "DEL" THEN NoRoute ELSE Parsed(x.fv)) = log[k][Len(log[k])]
  <2>1. i \in DOMAIN m_toSync[k] BY <1>0, LenProperties DEF Types
  <2>2. m_toSync[k][i] \in Underway(k) BY <2>1 DEF Underway, Range
  <2> QED BY <1>0, <1>1, <1>5, <2>2, TaskTypes DEF Carried
<1> QED BY <1>0, <1>2, <1>3, <1>4, <1>5 DEF Newest

\* The type invariant; over ZMQ the newest request of a prefix is programmed or
\* on the way as a whole, whatever the coalescer, the bursts and the handler
\* do; and what is staged has a wakeup to come.
THEOREM SpecConsistent == Spec => []Consistent
<1>1. IInv => Consistent BY IInvTypeOK, IInvNewest DEF Consistent, IInv
<1> QED BY <1>1, SpecIInv, PTL

\* Over Redis the hash of a prefix is exactly the route asked for last, from
\* the moment it is popped: the DEL that RouteSync sends before a SET leaves no
\* field of an earlier route behind.
THEOREM SpecDatabaseExact == Spec => []DatabaseExact
<1>1. IInv => DatabaseExact
  <2> SUFFICES ASSUME IInv, transport = "redis", NEW k \in Keys, k \notin keyset, log[k] # <<>>
               PROVE  IF log[k][Len(log[k])] = NoRoute THEN appdb[k] = NoFields
                      ELSE Parsed(appdb[k]) = log[k][Len(log[k])]
    BY DEF DatabaseExact, Last
  <2>1. Types /\ appdb[k] = Wanted(log[k]) BY DEF IInv, Redis
  <2>2. log[k][Len(log[k])] \in Request
    <3>1. log[k] \in Seq(Request) BY <2>1 DEF Types
    <3>2. Len(log[k]) \in Nat \ {0} BY <3>1, EmptySeq
    <3>3. PICK l \in Nat : l = Len(log[k]) /\ l >= 1 BY <3>2
    <3>4. l \in 1 .. Len(log[k]) BY <3>3
    <3> QED BY <3>1, <3>3, <3>4, ElementOfSeq
  <2> QED BY <2>1, <2>2, RouteFacts DEF Wanted, Request
<1> QED BY <1>1, SpecIInv, PTL

\* A step of the way is a step of the register or leaves it as it is.
LEMMA RefinesNext == IInv /\ [Next]_vars => [Register!Next]_(Register!vars)
<1> SUFFICES ASSUME IInv, [Next]_vars PROVE [Register!Next]_(Register!vars) OBVIOUS
<1>0. Types /\ Queues /\ Zmq BY DEF IInv
<1>1. ASSUME UNCHANGED <<transport, log, at, shown>> PROVE [Register!Next]_(Register!vars)
  <2>1. Shown' = Shown BY <1>1 DEF Shown
  <2> QED BY <1>1, <2>1 DEF Register!vars
<1>2. ASSUME NEW k \in Keys, NEW r \in Request, log' = [log EXCEPT ![k] = Append(@, r)],
             UNCHANGED <<transport, at, shown>>
      PROVE  [Register!Next]_(Register!vars)
  <2>1. \A j \in Keys : \A i \in 1 .. Len(log[j]) : log'[j][i] = log[j][i] BY <1>0, <1>2, LogGrows
  <2>2. \A j \in Keys : at[j] # 0 => at[j] \in 1 .. Len(log[j])
    <3> TAKE j \in Keys
    <3>1. at[j] \in Nat /\ Len(log[j]) \in Nat /\ at[j] <= Len(log[j])
      BY <1>0, LenProperties DEF Types, Queues
    <3> QED BY <3>1
  <2>3. Shown' = Shown BY <1>2, <2>1, <2>2 DEF Shown
  <2>4. Register!Ask(k, r) BY <1>2, <2>3 DEF Register!Ask
  <2> QED BY <2>4 DEF Register!Next, Request
<1>3. ASSUME NEW k \in Keys, TaskSuccess(k) PROVE [Register!Next]_(Register!vars)
  <2>a. PICK n : n = m_toSync[k][1].n OBVIOUS
  <2>1. PICK r : /\ at' = [at EXCEPT ![k] = n] /\ at[k] < n /\ n \in 1 .. Len(log[k])
                 /\ shown' = [shown EXCEPT ![k] = r]
                 /\ transport = "zmq" => r = log[k][n]
                 /\ Erase(k)
    BY <1>3, <2>a, SuccessFacts
  <2>2. UNCHANGED <<transport, log>> BY <2>1 DEF Erase
  <2>3. n \in Nat /\ at[k] \in Nat /\ Len(log[k]) \in Nat /\ n # 0
    <3>1. Len(log[k]) \in Nat BY <1>0, LenProperties DEF Types
    <3> QED BY <1>0, <2>1, <3>1 DEF Types
  <2>4. at'[k] = n /\ \A j \in Keys \ {k} : at'[j] = at[j] BY <1>0, <2>1 DEF Types
  <2>5. shown'[k] = r /\ \A j \in Keys \ {k} : shown'[j] = shown[j] BY <1>0, <2>1 DEF Types
  <2>6. Shown' = [Shown EXCEPT ![k] = log[k][n]]
    <3>1. Shown'[k] = log[k][n] BY <2>1, <2>2, <2>3, <2>4, <2>5 DEF Shown
    <3>2. \A j \in Keys \ {k} : Shown'[j] = Shown[j] BY <2>2, <2>4, <2>5 DEF Shown
    <3>3. Shown' = [j \in Keys |-> Shown'[j]] /\ Shown = [j \in Keys |-> Shown[j]] BY DEF Shown
    <3> QED BY <3>1, <3>2, <3>3
  <2>7. Register!Show(k, n) BY <2>1, <2>2, <2>3, <2>6 DEF Register!Show
  <2>8. n \in DOMAIN log[k] BY <1>0, <2>1, LenProperties DEF Types
  <2> QED BY <2>7, <2>8 DEF Register!Next
<1>4. ASSUME NEW k \in Keys, NEW r \in Route, setTableWithWarmRestart(k, r)
      PROVE  [Register!Next]_(Register!vars)
  BY <1>2, <1>4 DEF setTableWithWarmRestart, main, Request
<1>5. ASSUME NEW k \in Keys, delTableWithWarmRestart(k) PROVE [Register!Next]_(Register!vars)
  BY <1>2, <1>5 DEF delTableWithWarmRestart, main, Request
<1>6. ASSUME NEW k \in Keys, Send(k) \/ TaskWaits(k) \/ TaskRejected(k)
      PROVE  [Register!Next]_(Register!vars)
  BY <1>1, <1>6 DEF Send, TaskWaits, TaskRejected, Erase, main
<1>7. ASSUME NEW m \in DOMAIN wire, IngressCallback(m) PROVE [Register!Next]_(Register!vars)
  BY <1>1, <1>7 DEF IngressCallback, main
<1>8. CASE Quiesce \/ DoTask \/ EndDrain \/ Execute
  BY <1>1, <1>8 DEF Quiesce, DoTask, EndDrain, Execute, Drain, main
<1>9. ASSUME NEW K \in SUBSET keyset, ExecutePops(K) PROVE [Register!Next]_(Register!vars)
  BY <1>1, <1>9 DEF ExecutePops, Drain
<1>10. CASE UNCHANGED vars BY <1>1, <1>10 DEF vars, main
<1> QED BY <1>3, <1>4, <1>5, <1>6, <1>7, <1>8, <1>9, <1>10 DEF Next

\* The whole way, over either transport, implements a register per prefix: it
\* may skip requests, but never goes back to an older one, and over ZMQ what
\* is programmed is a request as a whole.
THEOREM SpecImplementsRegister == Spec => ImplementsRegister
<1>1. Init => Register!Init
  <2> SUFFICES ASSUME Init PROVE Register!Init OBVIOUS
  <2>1. Shown = [k \in Keys |-> NoRoute] BY DEF Init, Shown
  <2> QED BY <2>1 DEF Init, Register!Init
<1>2. IInv /\ [Next]_vars => [Register!Next]_(Register!vars) BY RefinesNext
<1> QED BY <1>1, <1>2, SpecIInv, PTL DEF Spec, ImplementsRegister, Register!Spec
=============================================================================
