---------------------- MODULE RouteSendCoalescerProofs ----------------------
(***************************************************************************)
(* Proofs about RouteSendCoalescer, for any number of keys, any batch size *)
(* and any pattern of failing sends: no operation is dropped and none is   *)
(* overtaken by an older one, and what is reported as lost or congested is *)
(* so.                                                                     *)
(***************************************************************************)
EXTENDS RouteSendCoalescer, WellFoundedInduction, FiniteSetTheorems, TLAPS

SendPc == {"wait", "cycle", "pull", "send", "judge", "recovered", "evaluate", "assert",
           "record", "backoff", "final", "strand", "exited", "crashed"}

\* The types the argument needs.
DataTypes ==
  /\ map \in [Table -> Ops] /\ latest \in [Table -> Ops] /\ sent \in [Table -> Ops]
  /\ chunk \in Ops /\ cur \in Table /\ pc \in SendPc

\* Only a send has operations in flight.
FlightInSend == pc # "send" => \A k \in Key : chunk[k] = 0

\* The main thread owns the tables only when the send thread is gone.
OwnsAlone == main = "retired" => pc = "exited"

\* What has been delivered, and what is in flight, was asked for.
Asked == \A t \in Table, k \in Key : sent[t][k] <= latest[t][k]

\* A chunk in flight is at least as new as what was delivered.
FlightNewer == \A k \in Key : chunk[k] # 0 => sent[cur][k] <= chunk[k] /\ chunk[k] <= latest[cur][k]

\* A pending operation is the last one asked for; so is one in flight when
\* none is pending, and the delivered one when there is none at all.
Freshest ==
  main # "retired" =>
    \A t \in Table, k \in Key :
      /\ map[t][k] # 0 => map[t][k] = latest[t][k]
      /\ map[t][k] = 0 /\ InFlight(t, k) # 0 => InFlight(t, k) = latest[t][k]
      /\ map[t][k] = 0 /\ InFlight(t, k) = 0 => sent[t][k] = latest[t][k]

IInv == DataTypes /\ FlightInSend /\ OwnsAlone /\ Asked /\ FlightNewer /\ Freshest
-----------------------------------------------------------------------------
\* Initially nothing was asked for, and nothing is pending, in flight or sent.
LEMMA InitIInv == Init => IInv
<1> SUFFICES ASSUME Init PROVE IInv OBVIOUS
<1> USE DEF Init, NoOps
<1>1. DataTypes BY DEF DataTypes, Ops, SendPc, Table
<1>2. FlightInSend /\ OwnsAlone /\ Asked /\ FlightNewer
  BY DEF FlightInSend, OwnsAlone, Asked, FlightNewer, Table
<1>3. Freshest BY DEF Freshest, InFlight, Table
<1> QED BY <1>1, <1>2, <1>3 DEF IInv

\* upsertKco: the new operation is the last one asked for, and pending.
LEMMA UpsertStep ==
  ASSUME IInv, NEW t \in Table, NEW k \in Key, UpsertKco(t, k) PROVE IInv'
<1> USE DEF IInv, UpsertKco, DataTypes, Ops, loopVars
<1>1. DataTypes' OBVIOUS
<1>2. FlightInSend' /\ OwnsAlone' BY DEF FlightInSend, OwnsAlone
<1>3. Asked' BY DEF Asked
<1>4. FlightNewer' BY DEF FlightNewer
<1>5. Freshest' BY DEF Freshest, InFlight
<1> QED BY <1>1, <1>2, <1>3, <1>4, <1>5

\* The main thread writes the tables itself, in order.
LEMMA DirectStep ==
  ASSUME IInv, NEW t \in Table, NEW k \in Key, DirectSet(t, k) PROVE IInv'
<1> USE DEF IInv, DirectSet, DataTypes, Ops, loopVars
<1>1. DataTypes' OBVIOUS
<1>2. FlightInSend' /\ OwnsAlone' BY DEF FlightInSend, OwnsAlone
<1>3. Asked' BY DEF Asked
<1>4. FlightNewer' BY DEF FlightNewer, FlightInSend, OwnsAlone
<1>5. Freshest' BY DEF Freshest
<1> QED BY <1>1, <1>2, <1>3, <1>4, <1>5

\* A chunk leaves the map and is in flight.
LEMMA PullStep == ASSUME IInv, PullChunk PROVE IInv'
<1> DEFINE pulled == First(ChunkCap)
<1>1. pulled \subseteq PendingKeys(cur) BY DEF First, Ahead
<1>2. /\ pc = "pull" /\ pc' = "send"
      /\ chunk' = [k \in Key |-> IF k \in pulled THEN map[cur][k] ELSE 0]
      /\ map' = [map EXCEPT ![cur] = [k \in Key |-> IF k \in pulled THEN 0 ELSE map[cur][k]]]
      /\ UNCHANGED <<latest, sent, main, cur>>
  BY DEF PullChunk
<1> HIDE DEF pulled
<1> USE <1>2 DEF IInv, DataTypes, Ops
<1>3. DataTypes' BY DEF SendPc
<1>4. FlightInSend' /\ OwnsAlone' BY DEF FlightInSend, OwnsAlone
<1>5. Asked' BY DEF Asked
<1>6. main # "retired" BY DEF OwnsAlone
<1>7. \A k \in Key : chunk[k] = 0 BY DEF FlightInSend
<1>8. \A k \in pulled : k \in Key /\ map[cur][k] # 0 /\ map[cur][k] = latest[cur][k]
  BY <1>1, <1>6 DEF PendingKeys, Freshest
<1>9. FlightNewer' BY <1>8 DEF FlightNewer, Asked
<1>10. Freshest' BY <1>6, <1>7, <1>8 DEF Freshest, InFlight
<1> QED BY <1>3, <1>4, <1>5, <1>9, <1>10

\* A delivered chunk is what the table now holds.
LEMMA SendOkStep == ASSUME IInv, NEW t \in Table, SendOk(t) PROVE IInv'
<1> USE DEF IInv, DataTypes, Ops, SendOk, NoOps
<1>1. DataTypes' BY DEF SendPc
<1>2. FlightInSend' /\ OwnsAlone' BY DEF FlightInSend, OwnsAlone
<1>3. Asked' BY DEF Asked, FlightNewer
<1>4. FlightNewer' BY DEF FlightNewer
<1>5. Freshest' BY DEF Freshest, InFlight
<1> QED BY <1>1, <1>2, <1>3, <1>4, <1>5

\* A chunk that was not delivered is pending again, unless a newer operation is.
LEMMA SendFailStep == ASSUME IInv, SendFail PROVE IInv'
<1>1. /\ pc = "send" /\ chunk' = [k \in Key |-> 0]
      /\ map' = [map EXCEPT ![cur] = [k \in Key |-> IF map[cur][k] # 0 THEN map[cur][k] ELSE chunk[k]]]
      /\ UNCHANGED <<latest, sent, main>>
  BY DEF SendFail, Remerge, NoOps
<1>2. cur' \in Table /\ pc' \in {"pull", "strand", "judge"}
  BY DEF SendFail, TurnAfterFailure, Turn, Table
<1> USE <1>1, <1>2 DEF IInv, DataTypes, Ops
<1>3. DataTypes' BY DEF SendPc
<1>4. FlightInSend' /\ OwnsAlone' BY DEF FlightInSend, OwnsAlone
<1>5. Asked' BY DEF Asked
<1>6. FlightNewer' BY DEF FlightNewer
<1>7. Freshest' BY DEF Freshest, InFlight
<1> QED BY <1>3, <1>4, <1>5, <1>6, <1>7

\* Every other step leaves the operations alone; outside a send the table
\* drainTable is working on does not matter.
Quiet ==
  /\ map' = map /\ latest' = latest /\ sent' = sent /\ chunk' = chunk
  /\ pc' \in SendPc /\ cur' \in Table
  /\ \/ pc' = pc /\ cur' = cur
     \/ pc \notin {"send", "exited"} /\ pc' # "send"
  /\ \/ main' = main
     \/ main # "retired" /\ (main' = "retired" => pc = "exited" /\ pc' = pc)

\* A quiet step keeps the invariant.
LEMMA QuietStep == IInv /\ Quiet => IInv'
<1> SUFFICES ASSUME IInv, Quiet PROVE IInv' OBVIOUS
<1> USE DEF IInv, DataTypes, Quiet
<1>1. DataTypes' OBVIOUS
<1>2. FlightInSend' /\ OwnsAlone' BY DEF FlightInSend, OwnsAlone
<1>3. Asked' BY DEF Asked
<1>4. FlightNewer' BY DEF FlightNewer, FlightInSend
<1>5. Freshest' BY DEF Freshest, InFlight, FlightInSend
<1> QED BY <1>1, <1>2, <1>3, <1>4, <1>5

\* The invariant is inductive.
LEMMA NextIInv == IInv /\ [Next]_vars => IInv'
<1> SUFFICES ASSUME IInv, [Next]_vars PROVE IInv' OBVIOUS
<1>t. pc \in SendPc /\ cur \in Table BY DEF IInv, DataTypes
<1>1. CASE \E t \in Table, k \in Key : UpsertKco(t, k) \/ DirectSet(t, k)
  BY <1>1, UpsertStep, DirectStep
<1>2. CASE PullChunk BY <1>2, PullStep
<1>3. CASE \E t \in Table : SendOk(t) BY <1>3, SendOkStep
<1>4. CASE SendFail BY <1>4, SendFailStep
<1>5. CASE Wait \/ EndCycle \/ Backoff \/ JudgeCycle \/ OnEpisodeRecovered \/ CountStranded
  <2>1. Quiet
    BY <1>5, <1>t
    DEF Quiet, Wait, EndCycle, Backoff, JudgeCycle, OnEpisodeRecovered, CountStranded, loopVars,
        dataVars, SendPc
  <2> QED BY <2>1, QuietStep
<1>6. CASE SampleDepths
  <2>1. Quiet BY <1>6, <1>t DEF Quiet, SampleDepths, dataVars, SendPc, Table
  <2> QED BY <2>1, QuietStep
<1>7. CASE TableDone
  <2>1. Quiet BY <1>7, <1>t DEF Quiet, TableDone, Turn, dataVars, SendPc, Table
  <2> QED BY <2>1, QuietStep
<1>8. CASE EvaluateAssertThresholds \/ WriteAssertRecord \/ ExitProcess
  <2>1. main # "retired"
    BY <1>8 DEF IInv, OwnsAlone, EvaluateAssertThresholds, WriteAssertRecord, ExitProcess
  <2>2. Quiet
    BY <1>8, <2>1, <1>t
    DEF Quiet, EvaluateAssertThresholds, WriteAssertRecord, ExitProcess, dataVars, loopVars, SendPc
  <2> QED BY <2>2, QuietStep
<1>9. CASE Stop \/ StopReturns
  <2>1. Quiet BY <1>9, <1>t DEF Quiet, Stop, StopReturns, dataVars, loopVars
  <2> QED BY <2>1, QuietStep
<1>10. CASE Tick
  <2>1. Quiet BY <1>10, <1>t DEF Quiet, Tick, dataVars, loopVars
  <2> QED BY <2>1, QuietStep
<1>11. CASE UNCHANGED vars
  <2>1. Quiet BY <1>11, <1>t DEF Quiet, vars, dataVars, loopVars
  <2> QED BY <2>1, QuietStep
<1> QED
  BY <1>1, <1>2, <1>3, <1>4, <1>5, <1>6, <1>7, <1>8, <1>9, <1>10, <1>11
  DEF Next, SendThread, Terminated
-----------------------------------------------------------------------------
\* IInv holds in every reachable state.
LEMMA Invariance == Spec => []IInv
BY InitIInv, NextIInv, PTL DEF Spec

\* "no route is dropped": whatever fails and whatever arrives during a send,
\* the last operation asked for is pending, in flight or delivered.
THEOREM CoalescerDropsNothing == Spec => []NothingDropped
<1>1. IInv => NothingDropped
  BY DEF IInv, NothingDropped, Freshest, Newest
<1> QED BY <1>1, Invariance, PTL

\* A write never brings back an older operation on a key: not a retry, and
\* not the send thread when the main thread has taken the tables over.
LEMMA WriteStep ==
  IInv /\ [Next]_vars => [\A t \in Table, k \in Key : sent'[t][k] >= sent[t][k]]_vars
<1> SUFFICES ASSUME IInv, Next, NEW t \in Table, NEW k \in Key
             PROVE  sent'[t][k] >= sent[t][k]
  OBVIOUS
<1> USE DEF IInv, DataTypes, Ops
<1>1. CASE \E u \in Table : SendOk(u) BY <1>1 DEF SendOk, FlightNewer
<1>2. CASE \E u \in Table, j \in Key : DirectSet(u, j)
  <2> PICK u \in Table, j \in Key : DirectSet(u, j) BY <1>2
  <2> QED BY DEF DirectSet, Asked
<1>3. CASE UNCHANGED sent BY <1>3
<1>4. (\E u \in Table, j \in Key : UpsertKco(u, j)) => UNCHANGED sent BY DEF UpsertKco
<1>5. SendThread \/ SendFail \/ Stop \/ StopReturns \/ Tick \/ Terminated => UNCHANGED sent
  BY DEF SendThread, SendFail, Stop, StopReturns, Tick, Terminated, vars, dataVars, Wait,
         SampleDepths, PullChunk, TableDone, JudgeCycle, OnEpisodeRecovered,
         EvaluateAssertThresholds, WriteAssertRecord, ExitProcess, EndCycle, Backoff,
         CountStranded
<1> QED BY <1>1, <1>2, <1>3, <1>4, <1>5 DEF Next

\* No stale write: for every number of keys and every pattern of failures, the
\* operations on a key reach the table in the order they were asked for.
THEOREM CoalescerNoStaleWrite == Spec => NoStaleWrite
BY Invariance, WriteStep, PTL DEF Spec, NoStaleWrite
-----------------------------------------------------------------------------
(* What is counted                                                         *)

\* The operations of one table that wait are finitely many.
LEMMA PendingFinite ==
  ASSUME NEW t \in Table
  PROVE  IsFiniteSet(PendingKeys(t)) /\ PendingKeys(t) \subseteq Key /\ Depth(t) \in Nat
         /\ (Depth(t) = 0 <=> PendingKeys(t) = {})
<1>1. IsFiniteSet(Key) BY KeyAssumption, FS_Interval DEF Key
<1>2. PendingKeys(t) \in SUBSET Key BY DEF PendingKeys
<1>3. IsFiniteSet(PendingKeys(t)) BY <1>1, <1>2, FS_Subset
<1>4. Cardinality(PendingKeys(t)) \in Nat BY <1>3, FS_CardinalityType
<1> QED BY <1>2, <1>3, <1>4, FS_EmptySet DEF Depth

\* Is there work left in the maps?
Waiting == \E t \in Table, k \in Key : map[t][k] # 0

\* The depths tell.
LEMMA DepthOfWaiting == TotalDepth \in Nat /\ (TotalDepth # 0 <=> Waiting)
<1>1. "Route" \in Table /\ "LabelRoute" \in Table /\ \A t \in Table : t = "Route" \/ t = "LabelRoute"
  BY DEF Table
<1>2. /\ Depth("Route") \in Nat /\ (Depth("Route") = 0 <=> PendingKeys("Route") = {})
      /\ Depth("LabelRoute") \in Nat /\ (Depth("LabelRoute") = 0 <=> PendingKeys("LabelRoute") = {})
  BY <1>1, PendingFinite
<1>3. TotalDepth \in Nat BY <1>2 DEF TotalDepth
<1>4. TotalDepth # 0 <=> PendingKeys("Route") # {} \/ PendingKeys("LabelRoute") # {}
  BY <1>2 DEF TotalDepth
<1>5. Waiting <=> PendingKeys("Route") # {} \/ PendingKeys("LabelRoute") # {}
  BY <1>1 DEF Waiting, PendingKeys
<1> QED BY <1>3, <1>4, <1>5

\* A set of keys that is not empty has a first one.
LEMMA FirstKey ==
  ASSUME NEW T \in SUBSET Nat, T # {}
  PROVE  \E x \in T : \A y \in T : x <= y
<1>1. PICK x \in T : \A y \in T : ~(<<y, x>> \in OpToRel(<, Nat))
  BY WFMin, NatLessThanWellFounded, Zenon
<1>2. \A y \in T : y \in Nat /\ ~(y < x) BY <1>1 DEF OpToRel
<1>3. \A y \in T : x <= y BY <1>2
<1> QED BY <1>3

\* The keys ahead of the cursor.
LEMMA AheadFacts ==
  ASSUME cur \in Table
  PROVE  Ahead \subseteq PendingKeys(cur) /\ Ahead \in SUBSET Nat /\ IsFiniteSet(Ahead)
<1>1. Ahead \in SUBSET PendingKeys(cur) BY DEF Ahead
<1>2. IsFiniteSet(PendingKeys(cur)) /\ PendingKeys(cur) \subseteq Key BY PendingFinite
<1>3. IsFiniteSet(Ahead) BY <1>1, <1>2, FS_Subset
<1>4. Key \in SUBSET Nat BY KeyAssumption DEF Key
<1> QED BY <1>1, <1>2, <1>3, <1>4

\* The first n keys of a map are n at most, and at least one when n is not 0.
LEMMA FirstFacts ==
  ASSUME cur \in Table, NEW n \in Nat
  PROVE  /\ IsFiniteSet(First(n)) /\ First(n) \subseteq Ahead /\ Cardinality(First(n)) <= n
         /\ n # 0 /\ Ahead # {} => First(n) # {}
<1>a. PICK A : A = Ahead OBVIOUS
<1>0. A \in SUBSET Nat /\ IsFiniteSet(A) BY <1>a, AheadFacts
<1>n. \A j \in A : j \in Nat BY <1>0
<1> DEFINE Below(k) == {j \in A : j < k}
<1>1. ASSUME NEW k \in A PROVE IsFiniteSet(Below(k)) /\ Cardinality(Below(k)) \in Nat
  <2>1. Below(k) \in SUBSET A OBVIOUS
  <2>2. IsFiniteSet(Below(k)) BY <2>1, <1>0, FS_Subset
  <2> QED BY <2>2, FS_CardinalityType
<1>2. First(n) = {k \in A : Cardinality(Below(k)) < n} BY <1>a DEF First
<1>3. ASSUME NEW k \in A, NEW m \in A, k < m PROVE Cardinality(Below(k)) < Cardinality(Below(m))
  <2>1. k \in Nat /\ m \in Nat BY <1>0
  <2>2. k \notin Below(k) BY <2>1
  <2>3. Cardinality(Below(k) \cup {k}) = Cardinality(Below(k)) + 1 BY <1>1, <2>2, FS_AddElement
  <2>4. Below(k) \cup {k} \in SUBSET Below(m)
    <3>1. \A j \in A : j < k => j < m BY <1>3, <1>n, <2>1
    <3> QED BY <1>3, <3>1
  <2>5. Cardinality(Below(k) \cup {k}) <= Cardinality(Below(m))
    <3>1. IsFiniteSet(Below(m)) BY <1>1
    <3> HIDE DEF Below
    <3> QED BY <2>4, <3>1, FS_Subset
  <2>6. Cardinality(Below(k)) \in Nat /\ Cardinality(Below(m)) \in Nat BY <1>1
  <2> HIDE DEF Below
  <2> QED BY <2>3, <2>5, <2>6
<1>f. PICK F : F = First(n) OBVIOUS
<1>4. F \in SUBSET A BY <1>2, <1>f
<1>5. IsFiniteSet(F) BY <1>0, <1>4, FS_Subset
<1>6. Cardinality(F) <= n
  <2>g. PICK g : g = [k \in F |-> Cardinality(Below(k))] OBVIOUS
  <2>1. g \in [F -> 0 .. n - 1]
    <3>1. \A k \in F : Cardinality(Below(k)) \in Nat /\ Cardinality(Below(k)) < n BY <1>1, <1>2, <1>4, <1>f
    <3> HIDE DEF Below
    <3>2. \A k \in F : Cardinality(Below(k)) \in 0 .. n - 1 BY <3>1
    <3> QED BY <3>2, <2>g
  <2>2. ASSUME NEW k \in F, NEW m \in F, g[k] = g[m] PROVE k = m
    <3>1. k \in A /\ m \in A /\ k \in Nat /\ m \in Nat BY <1>0, <1>4
    <3>2. Cardinality(Below(k)) = Cardinality(Below(m)) BY <2>2, <2>g
    <3>3. Cardinality(Below(k)) \in Nat /\ Cardinality(Below(m)) \in Nat BY <1>1, <3>1
    <3>4. ~(k < m) /\ ~(m < k)
      <4>1. k < m => Cardinality(Below(k)) < Cardinality(Below(m)) BY <1>3, <3>1
      <4>2. m < k => Cardinality(Below(m)) < Cardinality(Below(k)) BY <1>3, <3>1
      <4> HIDE DEF Below
      <4> QED BY <4>1, <4>2, <3>2, <3>3
    <3> QED BY <3>1, <3>4
  <2>3. g \in Injection(F, 0 .. n - 1) BY <2>1, <2>2 DEF Injection, IsInjective
  <2>4. IsFiniteSet(0 .. n - 1) /\ Cardinality(0 .. n - 1) = n
    <3>1. 0 \in Int /\ n - 1 \in Int OBVIOUS
    <3>2. IsFiniteSet(0 .. n - 1) /\ Cardinality(0 .. n - 1) = IF 0 > n - 1 THEN 0 ELSE (n - 1) - 0 + 1
      BY <3>1, FS_Interval
    <3> QED BY <3>2
  <2>5. Cardinality(F) <= Cardinality(0 .. n - 1) BY <2>3, <2>4, FS_Injection
  <2> QED BY <2>4, <2>5
<1>7. ASSUME n # 0, A # {} PROVE F # {}
  <2>1. PICK x \in A : \A y \in A : x <= y BY <1>0, <1>7, FirstKey
  <2>2. Below(x) = {}
    <3>1. \A y \in A : ~(y < x) BY <2>1, <1>n
    <3> QED BY <3>1
  <2>3. Cardinality(Below(x)) = 0 BY <2>2, FS_EmptySet
  <2>4. x \in F BY <1>2, <1>7, <2>3, <1>f
  <2> QED BY <2>4
<1> QED BY <1>4, <1>5, <1>6, <1>7, <1>a, <1>f
-----------------------------------------------------------------------------
(* What is reported                                                        *)

Flight == {k \in Key : chunk[k] # 0}

\* A send has something to send, and no more than fits a message and than what is
\* left of the budget.
SendsSome ==
  /\ remaining <= budget[cur]
  /\ pc = "send" => /\ Flight # {}
                    /\ Cardinality(Flight) <= remaining
                    /\ Cardinality(Flight) <= maxBatchEntries

\* The final drain is after stop(), and the process exits with both threads.
StopOrder ==
  /\ m_stop => main # "run"
  /\ pc \in {"final", "strand", "exited"} \/ (pc \in {"pull", "send"} /\ final) => m_stop
  /\ pc = "crashed" => main = "gone"

\* What waits, and what of it was there when the depth was sampled.
Pending == {p \in Table \X Key : map[p[1]][p[2]] # 0}
Old == Pending \ late

\* The loss is counted once, at the end.
Counted ==
  /\ pc \notin {"assert", "record", "crashed"} => late = {}
  /\ pc \in {"assert", "record", "crashed"} => sampled = Cardinality(Old)
  /\ lost = IF pc = "exited" THEN Cardinality(Pending)
            ELSE IF pc \in {"record", "crashed"} THEN sampled ELSE 0

\* What waits is newer than what is in flight, and that than what was delivered.
Strict ==
  main # "retired" =>
    /\ \A t \in Table, k \in Key : map[t][k] # 0 => sent[t][k] < map[t][k]
    /\ \A k \in Key : chunk[k] # 0 =>
         sent[cur][k] < chunk[k] /\ (map[cur][k] # 0 => chunk[k] < map[cur][k])

\* A failed send leaves work in a map that the cycle does not come to again.
Episode ==
  /\ pc \in {"pull", "send"} /\ ok = FALSE => cur = "LabelRoute" /\ \E k \in Key : map["Route"][k] # 0
  /\ pc \in {"judge", "evaluate"} /\ ok = FALSE => Waiting
  /\ pc = "recovered" => ok = TRUE
  /\ pc = "backoff" => Waiting
  /\ pc \in {"evaluate", "wait"} /\ m_inEpisode = TRUE => Waiting

Reports == TypeOK /\ SendsSome /\ StopOrder /\ Counted /\ Strict /\ Episode

\* A step that leaves the maps alone leaves their depths alone.
LEMMA DepthFrame == ASSUME map' = map PROVE TotalDepth' = TotalDepth /\ (Waiting' <=> Waiting)
BY DEF TotalDepth, Depth, PendingKeys, Waiting

\* So does it leave alone what is counted.
LEMMA CountedFrame ==
  ASSUME Counted, map' = map, late' = late, sampled' = sampled, lost' = lost,
         \/ pc' = pc
         \/ {pc, pc'} \cap {"assert", "record", "crashed", "exited"} = {}
  PROVE  Counted'
<1>1. Pending' = Pending /\ Old' = Old BY DEF Pending, Old
<1> QED BY <1>1 DEF Counted

\* Initially there is nothing to report.
LEMMA InitReports == Init => Reports
<1> SUFFICES ASSUME Init PROVE Reports OBVIOUS
<1> USE DEF Init
<1>1. TypeOK
  <2>1. NoOps \in Ops BY DEF NoOps, Ops
  <2>2. cur \in Table BY DEF Table
  <2>3. /\ map \in [Table -> Ops] /\ latest \in [Table -> Ops] /\ sent \in [Table -> Ops] /\ chunk \in Ops
    BY <2>1
  <2>4. budget \in [Table -> Nat] /\ successAge \in [Table -> Nat] /\ pendingAge \in [Table -> Nat] OBVIOUS
  <2>5. /\ remaining \in Nat /\ cursor \in Nat /\ failures \in 0 .. 2 /\ lost \in Nat
        /\ sampled \in Nat /\ late \subseteq Table \X Key
    OBVIOUS
  <2> QED BY <2>2, <2>3, <2>4, <2>5 DEF TypeOK
<1>2. SendsSome
  <2>1. budget[cur] = 0 BY DEF Table
  <2> QED BY <2>1 DEF SendsSome
<1>4. StopOrder /\ Counted /\ Episode BY DEF StopOrder, Counted, Episode
<1>3. Strict BY DEF Strict, NoOps, Table
<1> QED BY <1>1, <1>2, <1>3, <1>4 DEF Reports

\* upsertKco.
LEMMA UpsertReports ==
  ASSUME IInv, Reports, NEW t \in Table, NEW k \in Key, UpsertKco(t, k) PROVE Reports'
<1> USE DEF loopVars, restVars
<1>0. TypeOK /\ SendsSome /\ StopOrder /\ Counted /\ Strict /\ Episode BY DEF Reports
<1>1. /\ main = "run" /\ latest' = [latest EXCEPT ![t][k] = latest[t][k] + 1]
      /\ map' = [map EXCEPT ![t][k] = latest[t][k] + 1]
      /\ pendingAge' = IF PendingKeys(t) = {} THEN [pendingAge EXCEPT ![t] = 0] ELSE pendingAge
      /\ UNCHANGED <<sent, main, m_stop, pc, cur, chunk, budget, remaining, cursor, ok, final,
                     failures, m_inEpisode, lost, sampled, successAge>>
      /\ late' = IF pc \in {"assert", "record"} /\ map[t][k] = 0 THEN late \cup {<<t, k>>} ELSE late
  BY DEF UpsertKco
<1>2. TypeOK'
  <2>1. latest[t][k] + 1 \in Nat BY <1>0 DEF TypeOK, Ops
  <2>2. latest' \in [Table -> Ops] /\ map' \in [Table -> Ops] BY <1>0, <1>1, <2>1 DEF TypeOK, Ops
  <2>3. pendingAge' \in [Table -> Nat] BY <1>0, <1>1 DEF TypeOK
  <2>4. late' \subseteq Table \X Key BY <1>0, <1>1 DEF TypeOK
  <2> QED BY <1>0, <1>1, <2>2, <2>3, <2>4 DEF TypeOK
<1>3. SendsSome' /\ StopOrder' BY <1>0, <1>1 DEF SendsSome, StopOrder, Flight
<1>4. pc \notin {"exited", "crashed"} BY <1>0, <1>1 DEF StopOrder
<1>6. /\ map'[t][k] = latest[t][k] + 1
      /\ \A u \in Table, j \in Key : u # t \/ j # k => map'[u][j] = map[u][j]
  BY <1>0, <1>1 DEF TypeOK, Ops
<1>n. latest[t][k] \in Nat BY <1>0 DEF TypeOK, Ops
<1>7. \A u \in Table, j \in Key : map[u][j] # 0 => map'[u][j] # 0
  <2> SUFFICES ASSUME NEW u \in Table, NEW j \in Key, map[u][j] # 0 PROVE map'[u][j] # 0
    OBVIOUS
  <2>1. CASE u = t /\ j = k BY <1>6, <1>n, <2>1
  <2>2. CASE u # t \/ j # k BY <1>6, <2>2
  <2> QED BY <2>1, <2>2
<1>5. Counted'
  <2>1. CASE pc \in {"assert", "record"}
    <3>1. map'[t][k] # 0 BY <1>0, <1>6 DEF TypeOK, Ops
    <3>2. \A p \in Table \X Key : p \in Old' <=> p \in Old
      <4> SUFFICES ASSUME NEW u \in Table, NEW j \in Key PROVE <<u, j>> \in Old' <=> <<u, j>> \in Old
        OBVIOUS
      <4>1. CASE u = t /\ j = k
        <5>1. map[t][k] = 0 => <<t, k>> \in late' BY <1>1, <2>1
        <5>2. map[t][k] # 0 => late' = late BY <1>1
        <5> QED BY <3>1, <4>1, <5>1, <5>2 DEF Old, Pending
      <4>2. CASE u # t \/ j # k
        <5>1. map'[u][j] = map[u][j] BY <1>6, <4>2
        <5>2. <<u, j>> \in late' <=> <<u, j>> \in late BY <1>1, <4>2
        <5> QED BY <5>1, <5>2 DEF Old, Pending
      <4> QED BY <4>1, <4>2
    <3>3. Old \subseteq Table \X Key /\ Old' \subseteq Table \X Key BY DEF Old, Pending
    <3>4. Old' = Old BY <3>2, <3>3
    <3> QED BY <1>0, <1>1, <2>1, <3>4 DEF Counted
  <2>2. CASE pc \notin {"assert", "record"} BY <1>0, <1>1, <1>4, <2>2 DEF Counted
  <2> QED BY <2>1, <2>2
<1>8. Strict'
  <2>1. sent[t][k] < map'[t][k] BY <1>0, <1>6 DEF IInv, Asked, TypeOK, Ops
  <2>2. cur = t /\ chunk[k] # 0 => chunk[k] < map'[t][k] BY <1>0, <1>6 DEF IInv, FlightNewer, TypeOK, Ops
  <2>3. cur \in Table BY <1>0 DEF TypeOK
  <2> QED BY <1>0, <1>1, <1>6, <2>1, <2>2, <2>3 DEF Strict
<1>9. Episode'
  <2>1. Waiting => Waiting' BY <1>7 DEF Waiting
  <2>2. "Route" \in Table BY DEF Table
  <2> QED BY <1>0, <1>1, <1>7, <2>1, <2>2 DEF Episode
<1> QED BY <1>2, <1>3, <1>5, <1>8, <1>9 DEF Reports

\* The main thread writes the tables itself.
LEMMA DirectReports ==
  ASSUME IInv, Reports, NEW t \in Table, NEW k \in Key, DirectSet(t, k) PROVE Reports'
<1> USE DEF loopVars, restVars, ageVars
<1>0. TypeOK /\ SendsSome /\ StopOrder /\ Counted /\ Strict /\ Episode BY DEF Reports
<1>1. /\ main = "retired" /\ latest' = [latest EXCEPT ![t][k] = latest[t][k] + 1]
      /\ sent' = [sent EXCEPT ![t][k] = latest[t][k] + 1]
      /\ UNCHANGED <<map, main, m_stop, pc, cur, chunk, budget, remaining, cursor, ok, final,
                     failures, m_inEpisode, lost, sampled, late, successAge, pendingAge>>
  BY DEF DirectSet
<1>2. TypeOK'
  <2>1. latest[t][k] + 1 \in Nat BY <1>0 DEF TypeOK, Ops
  <2>2. latest' \in [Table -> Ops] /\ sent' \in [Table -> Ops] BY <1>0, <1>1, <2>1 DEF TypeOK, Ops
  <2> QED BY <1>0, <1>1, <2>2 DEF TypeOK
<1>3. SendsSome' /\ StopOrder' BY <1>0, <1>1 DEF SendsSome, StopOrder, Flight
<1>4. Counted' BY <1>0, <1>1, CountedFrame
<1>5. Strict' BY <1>1 DEF Strict
<1>6. Episode' BY <1>0, <1>1, DepthFrame DEF Episode
<1> QED BY <1>2, <1>3, <1>4, <1>5, <1>6 DEF Reports

\* A chunk leaves the map: it is not empty and not too large.
LEMMA PullReports == ASSUME IInv, Reports, PullChunk PROVE Reports'
<1> USE DEF restVars, ageVars
<1>0. TypeOK /\ SendsSome /\ StopOrder /\ Counted /\ Strict /\ Episode BY DEF Reports
<1>p. PICK pulled : pulled = First(ChunkCap) OBVIOUS
<1>1. /\ pc = "pull" /\ pc' = "send" /\ remaining # 0 /\ Ahead # {}
      /\ chunk' = [k \in Key |-> IF k \in pulled THEN map[cur][k] ELSE 0]
      /\ map' = [map EXCEPT ![cur] = [k \in Key |-> IF k \in pulled THEN 0 ELSE map[cur][k]]]
      /\ cursor' = CursorAfter(pulled)
      /\ UNCHANGED <<latest, sent, main, m_stop, cur, budget, remaining, ok, final,
                     failures, m_inEpisode, lost, sampled, late, successAge, pendingAge>>
  BY <1>p DEF PullChunk
<1>a. cur \in Table /\ remaining \in Nat /\ map[cur] \in Ops /\ chunk \in Ops BY <1>0 DEF TypeOK
<1>2. ChunkCap \in Nat /\ ChunkCap # 0 /\ ChunkCap <= remaining /\ ChunkCap <= maxBatchEntries
  BY <1>1, <1>a, BatchAssumption DEF ChunkCap
<1>3. /\ IsFiniteSet(pulled) /\ pulled \subseteq Ahead /\ Cardinality(pulled) <= ChunkCap /\ pulled # {}
  BY <1>1, <1>2, <1>a, <1>p, FirstFacts
<1>4. \A k \in pulled : k \in Key /\ map[cur][k] # 0 BY <1>3 DEF Ahead, PendingKeys
<1>5. /\ map'[cur] = [k \in Key |-> IF k \in pulled THEN 0 ELSE map[cur][k]]
      /\ \A u \in Table \ {cur} : map'[u] = map[u]
  BY <1>0, <1>1 DEF TypeOK
<1>6. chunk' \in Ops /\ map'[cur] \in Ops /\ map' \in [Table -> Ops]
  <2>1. chunk' \in Ops /\ map'[cur] \in Ops BY <1>1, <1>5, <1>a DEF Ops
  <2>2. map' \in [Table -> Ops] BY <1>0, <1>1, <1>5, <2>1 DEF TypeOK
  <2> QED BY <2>1, <2>2
<1>7. cursor' \in Nat
  <2>1. CASE Ahead \ pulled = {} BY <2>1, <1>1, KeyAssumption DEF CursorAfter
  <2>2. CASE Ahead \ pulled # {}
    <3>r. PICK R : R = Ahead \ pulled OBVIOUS
    <3>1. R \in SUBSET Nat /\ R # {} BY <2>2, <3>r, <1>a, AheadFacts
    <3>2. \E x \in R : \A y \in R : x <= y BY <3>1, FirstKey
    <3>3. cursor' = CHOOSE k \in R : \A j \in R : k <= j BY <1>1, <2>2, <3>r DEF CursorAfter
    <3>4. cursor' \in R BY <3>2, <3>3, Zenon
    <3> QED BY <3>1, <3>4
  <2> QED BY <2>1, <2>2
<1>8. TypeOK' BY <1>0, <1>1, <1>6, <1>7 DEF TypeOK
<1>9. SendsSome'
  <2>1. Flight' = pulled BY <1>1, <1>4 DEF Flight
  <2>2. Cardinality(pulled) \in Nat BY <1>3, FS_CardinalityType
  <2>3. Cardinality(pulled) <= remaining /\ Cardinality(pulled) <= maxBatchEntries
    BY <1>2, <1>3, <1>a, <2>2, BatchAssumption
  <2>4. remaining' <= budget'[cur'] BY <1>0, <1>1 DEF SendsSome
  <2> QED BY <1>1, <1>3, <2>1, <2>3, <2>4 DEF SendsSome
<1>10. StopOrder' BY <1>0, <1>1 DEF StopOrder
<1>11. Counted' BY <1>0, <1>1 DEF Counted
<1>12. Strict'
  <2> SUFFICES ASSUME main # "retired" PROVE Strict' BY <1>1 DEF Strict
  <2>1. ASSUME NEW t \in Table, NEW k \in Key, map'[t][k] # 0 PROVE sent[t][k] < map'[t][k]
    <3>1. map'[t][k] = map[t][k] BY <1>5, <2>1
    <3> QED BY <1>0, <2>1, <3>1 DEF Strict
  <2>2. ASSUME NEW k \in Key, chunk'[k] # 0 PROVE sent[cur][k] < chunk'[k] /\ map'[cur][k] = 0
    <3>1. k \in pulled BY <1>1, <2>2
    <3>2. chunk'[k] = map[cur][k] /\ map'[cur][k] = 0 BY <1>1, <1>5, <3>1
    <3> QED BY <1>0, <1>a, <2>2, <3>2 DEF Strict
  <2> QED BY <1>1, <2>1, <2>2 DEF Strict
<1>13. Episode'
  <2>1. ASSUME ok = FALSE PROVE cur = "LabelRoute" /\ \E k \in Key : map'["Route"][k] # 0
    <3>1. cur = "LabelRoute" /\ \E k \in Key : map["Route"][k] # 0 BY <1>0, <1>1, <2>1 DEF Episode
    <3>2. map'["Route"] = map["Route"] BY <1>5, <3>1 DEF Table
    <3> QED BY <3>1, <3>2
  <2> QED BY <1>1, <2>1 DEF Episode
<1> QED BY <1>8, <1>9, <1>10, <1>11, <1>12, <1>13 DEF Reports

\* A chunk is delivered: the budget has room for it.
LEMMA SendOkReports == ASSUME IInv, Reports, NEW t \in Table, SendOk(t) PROVE Reports'
<1> USE DEF restVars, NoOps
<1>0. TypeOK /\ SendsSome /\ StopOrder /\ Counted /\ Strict /\ Episode BY DEF Reports
<1>1. /\ pc = "send" /\ pc' = "pull" /\ t = cur
      /\ sent' = [sent EXCEPT ![t] = [k \in Key |-> IF chunk[k] # 0 THEN chunk[k] ELSE sent[t][k]]]
      /\ chunk' = [k \in Key |-> 0] /\ remaining' = remaining - Cardinality(Flight)
      /\ successAge' = [successAge EXCEPT ![t] = 0]
      /\ UNCHANGED <<map, latest, main, m_stop, cur, budget, cursor, ok, final,
                     failures, m_inEpisode, lost, sampled, late, pendingAge>>
  BY DEF SendOk, Flight
<1>a. chunk \in Ops /\ sent[t] \in Ops /\ remaining \in Nat BY <1>0 DEF TypeOK
<1>2. /\ sent'[t] = [k \in Key |-> IF chunk[k] # 0 THEN chunk[k] ELSE sent[t][k]]
      /\ \A u \in Table \ {t} : sent'[u] = sent[u]
  BY <1>0, <1>1 DEF TypeOK
<1>3. TypeOK' /\ SendsSome'
  <2>1. sent'[t] \in Ops /\ chunk' \in Ops BY <1>1, <1>2, <1>a DEF Ops
  <2>2. sent' \in [Table -> Ops] BY <1>0, <1>1, <1>2, <2>1 DEF TypeOK
  <2>3. remaining' \in Nat /\ remaining' <= remaining
    <3>1. IsFiniteSet(Key) BY KeyAssumption, FS_Interval DEF Key
    <3>2. Flight \in SUBSET Key BY DEF Flight
    <3>3. IsFiniteSet(Flight) BY <3>1, <3>2, FS_Subset
    <3>4. Cardinality(Flight) \in Nat BY <3>3, FS_CardinalityType
    <3>5. Cardinality(Flight) <= remaining BY <1>0, <1>1 DEF SendsSome
    <3> QED BY <3>4, <3>5, <1>1, <1>a
  <2>4. successAge' \in [Table -> Nat] BY <1>0, <1>1 DEF TypeOK
  <2>5. SendsSome'
    <3>1. cur \in Table /\ budget[cur] \in Nat BY <1>0 DEF TypeOK
    <3>2. remaining' <= budget'[cur'] BY <1>0, <1>1, <1>a, <2>3, <3>1 DEF SendsSome
    <3> QED BY <1>1, <3>2 DEF SendsSome
  <2> QED BY <1>0, <1>1, <2>1, <2>2, <2>3, <2>4, <2>5 DEF TypeOK
<1>4. StopOrder' BY <1>0, <1>1 DEF StopOrder
<1>5. Counted' BY <1>0, <1>1 DEF Counted
<1>6. Strict'
  <2>1. ASSUME main # "retired", NEW u \in Table, NEW k \in Key, map[u][k] # 0
        PROVE  sent'[u][k] < map[u][k]
    <3>1. CASE u = t /\ chunk[k] # 0 BY <1>0, <1>1, <1>2, <2>1, <3>1 DEF Strict
    <3>2. CASE ~(u = t /\ chunk[k] # 0)
      <4>1. sent'[u][k] = sent[u][k] BY <1>2, <3>2
      <4> QED BY <1>0, <2>1, <4>1 DEF Strict
    <3> QED BY <3>1, <3>2
  <2> QED BY <1>1, <2>1 DEF Strict
<1>7. Episode' BY <1>0, <1>1, DepthFrame DEF Episode
<1> QED BY <1>3, <1>4, <1>5, <1>6, <1>7 DEF Reports

\* The turn from one table to the next, or to the end of the cycle.
LEMMA TurnFacts ==
  ASSUME TypeOK, Turn
  PROVE  /\ cur' \in Table /\ remaining' \in Nat /\ cursor' \in Nat
         /\ remaining' <= budget[cur']
         /\ cur = "Route" => cur' = "LabelRoute" /\ pc' = "pull"
         /\ cur # "Route" => pc' = IF final THEN "strand" ELSE "judge"
<1>1. budget["LabelRoute"] \in Nat /\ budget["Route"] \in Nat BY DEF TypeOK, Table
<1> QED BY <1>1 DEF Turn, Table

\* A send fails: its chunk waits again.
LEMMA SendFailReports == ASSUME IInv, Reports, SendFail PROVE Reports'
<1> USE DEF restVars, ageVars
<1>0. TypeOK /\ SendsSome /\ StopOrder /\ Counted /\ Strict /\ Episode BY DEF Reports
<1>1. /\ pc = "send" /\ chunk' = [k \in Key |-> 0] /\ ok' = FALSE /\ Turn
      /\ map' = [map EXCEPT ![cur] = [k \in Key |-> IF map[cur][k] # 0 THEN map[cur][k] ELSE chunk[k]]]
      /\ UNCHANGED <<latest, sent, main, m_stop, budget, final, failures, m_inEpisode, lost, sampled, late,
                     successAge, pendingAge>>
  BY DEF SendFail, Remerge, NoOps, TurnAfterFailure
<1>2. /\ cur' \in Table /\ remaining' \in Nat /\ cursor' \in Nat /\ remaining' <= budget[cur']
      /\ cur = "Route" => cur' = "LabelRoute" /\ pc' = "pull"
      /\ cur # "Route" => pc' = IF final THEN "strand" ELSE "judge"
  BY <1>0, <1>1, TurnFacts
<1>a. chunk \in Ops /\ cur \in Table /\ map[cur] \in Ops BY <1>0 DEF TypeOK
<1>3. /\ map'[cur] = [k \in Key |-> IF map[cur][k] # 0 THEN map[cur][k] ELSE chunk[k]]
      /\ \A u \in Table \ {cur} : map'[u] = map[u]
  BY <1>0, <1>1 DEF TypeOK
<1>4. pc' \in {"pull", "strand", "judge"} BY <1>2, <1>a DEF Table
<1>5. TypeOK'
  <2>1. map'[cur] \in Ops /\ chunk' \in Ops BY <1>1, <1>3, <1>a DEF Ops
  <2>2. map' \in [Table -> Ops] BY <1>0, <1>1, <1>3, <2>1 DEF TypeOK
  <2> QED BY <1>0, <1>1, <1>2, <1>4, <2>1, <2>2 DEF TypeOK
<1>6. SendsSome' BY <1>1, <1>2, <1>4 DEF SendsSome
<1>7. StopOrder' BY <1>0, <1>1, <1>2, <1>4, <1>a DEF StopOrder
<1>8. Counted' BY <1>0, <1>1, <1>4 DEF Counted
<1>9. Strict'
  <2>1. ASSUME main # "retired", NEW u \in Table, NEW k \in Key, map'[u][k] # 0
        PROVE  sent[u][k] < map'[u][k]
    <3>1. CASE map[u][k] # 0
      <4>1. map'[u][k] = map[u][k] BY <1>3, <3>1
      <4> QED BY <1>0, <2>1, <3>1, <4>1 DEF Strict
    <3>2. CASE map[u][k] = 0
      <4>1. u = cur /\ map'[u][k] = chunk[k] BY <1>3, <2>1, <3>2
      <4> QED BY <1>0, <2>1, <4>1 DEF Strict
    <3> QED BY <3>1, <3>2
  <2> QED BY <1>1, <2>1 DEF Strict
<1>10. Episode'
  <2>1. PICK k \in Key : chunk[k] # 0 BY <1>0, <1>1 DEF SendsSome, Flight
  <2>2. map'[cur][k] # 0 BY <1>3, <2>1
  <2>3. Waiting' BY <1>a, <2>2 DEF Waiting
  <2>4. CASE cur = "Route" BY <1>2, <2>2, <2>4 DEF Episode
  <2>5. CASE cur # "Route"
    <3>1. pc' \in {"strand", "judge"} BY <1>2, <2>5
    <3> QED BY <2>3, <3>1 DEF Episode
  <2> QED BY <2>4, <2>5
<1> QED BY <1>5, <1>6, <1>7, <1>8, <1>9, <1>10 DEF Reports

\* A table is drained as far as this cycle goes.
LEMMA TableDoneReports == ASSUME IInv, Reports, TableDone PROVE Reports'
<1> USE DEF restVars, ageVars, dataVars
<1>0. TypeOK /\ SendsSome /\ StopOrder /\ Counted /\ Strict /\ Episode BY DEF Reports
<1>1. /\ pc = "pull" /\ Turn
      /\ UNCHANGED <<map, latest, sent, main, m_stop, chunk, budget, ok, final, failures,
                     m_inEpisode, lost, sampled, late, successAge, pendingAge>>
  BY DEF TableDone
<1>2. /\ cur' \in Table /\ remaining' \in Nat /\ cursor' \in Nat /\ remaining' <= budget[cur']
      /\ cur = "Route" => cur' = "LabelRoute" /\ pc' = "pull"
      /\ cur # "Route" => pc' = IF final THEN "strand" ELSE "judge"
  BY <1>0, <1>1, TurnFacts
<1>4. pc' \in {"pull", "strand", "judge"} BY <1>2
<1>5. TypeOK' BY <1>0, <1>1, <1>2, <1>4 DEF TypeOK
<1>6. SendsSome' BY <1>1, <1>2, <1>4 DEF SendsSome
<1>7. StopOrder' BY <1>0, <1>1, <1>2, <1>4 DEF StopOrder
<1>8. Counted' BY <1>0, <1>1, <1>4 DEF Counted
<1>9. Strict'
  <2>1. \A k \in Key : chunk[k] = 0 BY <1>1 DEF IInv, FlightInSend
  <2> QED BY <1>0, <1>1, <2>1 DEF Strict
<1>10. Episode'
  <2>1. ok = FALSE => cur # "Route" /\ Waiting BY <1>0, <1>1 DEF Episode, Waiting, Table
  <2>2. Waiting => Waiting' BY <1>1, DepthFrame
  <2> QED BY <1>1, <1>2, <1>4, <2>1, <2>2 DEF Episode
<1> QED BY <1>5, <1>6, <1>7, <1>8, <1>9, <1>10 DEF Reports

\* A step that leaves the operations alone.
LEMMA StrictFrame ==
  ASSUME IInv, Strict, UNCHANGED <<map, sent, chunk>>, main' # "retired" => main # "retired",
         cur' = cur \/ pc # "send"
  PROVE  Strict'
<1>1. CASE cur' = cur BY <1>1 DEF Strict
<1>2. CASE pc # "send"
  <2>1. \A k \in Key : chunk[k] = 0 BY <1>2 DEF IInv, FlightInSend
  <2> QED BY <2>1 DEF Strict
<1> QED BY <1>1, <1>2

\* The send thread wakes up.
LEMMA WaitReports == ASSUME IInv, Reports, Wait PROVE Reports'
<1> USE DEF dataVars, loopVars, restVars, ageVars
<1>0. TypeOK /\ SendsSome /\ StopOrder /\ Counted /\ Strict /\ Episode BY DEF Reports
<1>1. /\ pc = "wait" /\ (m_stop \/ TotalDepth # 0) /\ pc' = IF TotalDepth = 0 THEN "final" ELSE "cycle"
      /\ UNCHANGED <<map, latest, sent, main, m_stop, cur, chunk, budget, remaining, cursor, ok, final,
                     failures, m_inEpisode, lost, sampled, late, successAge, pendingAge>>
  BY DEF Wait
<1>2. pc' \in {"final", "cycle"} /\ (pc' = "final" => m_stop) BY <1>1
<1>3. TypeOK' BY <1>0, <1>1, <1>2 DEF TypeOK
<1>4. SendsSome' /\ Counted' BY <1>0, <1>1, <1>2, CountedFrame DEF SendsSome
<1>5. StopOrder' BY <1>0, <1>1, <1>2 DEF StopOrder
<1>6. Strict' BY <1>0, <1>1, StrictFrame
<1>7. Episode' BY <1>2 DEF Episode
<1> QED BY <1>3, <1>4, <1>5, <1>6, <1>7 DEF Reports

\* A cycle begins.
LEMMA SampleReports == ASSUME IInv, Reports, SampleDepths PROVE Reports'
<1> USE DEF dataVars, restVars, ageVars
<1>0. TypeOK /\ SendsSome /\ StopOrder /\ Counted /\ Strict /\ Episode BY DEF Reports
<1>1. /\ pc \in {"cycle", "final"} /\ pc' = "pull" /\ budget' = [t \in Table |-> Depth(t)]
      /\ cur' = "Route" /\ remaining' = Depth("Route") /\ cursor' = 0 /\ ok' = TRUE
      /\ final' = (pc = "final")
      /\ UNCHANGED <<map, latest, sent, main, m_stop, chunk, failures, m_inEpisode, lost, sampled, late,
                     successAge, pendingAge>>
  BY DEF SampleDepths
<1>2. \A t \in Table : Depth(t) \in Nat BY PendingFinite
<1>3. "Route" \in Table BY DEF Table
<1>4. TypeOK'
  <2>1. budget' \in [Table -> Nat] /\ remaining' \in Nat /\ cur' \in Table BY <1>1, <1>2, <1>3
  <2> QED BY <1>0, <1>1, <2>1 DEF TypeOK
<1>5. SendsSome' /\ Counted'
  <2>1. remaining' = budget'[cur'] BY <1>1, <1>3
  <2>2. remaining' \in Nat BY <1>1, <1>2, <1>3
  <2> QED BY <1>0, <1>1, <2>1, <2>2, CountedFrame DEF SendsSome
<1>6. StopOrder' BY <1>0, <1>1 DEF StopOrder
<1>7. Strict' BY <1>0, <1>1, StrictFrame
<1>8. Episode' BY <1>1 DEF Episode
<1> QED BY <1>4, <1>5, <1>6, <1>7, <1>8 DEF Reports

\* The cycle is judged: an episode that stays open has work.
LEMMA JudgeReports == ASSUME IInv, Reports, JudgeCycle PROVE Reports'
<1> USE DEF dataVars, loopVars, ageVars
<1>0. TypeOK /\ SendsSome /\ StopOrder /\ Counted /\ Strict /\ Episode BY DEF Reports
<1>1. /\ pc = "judge" /\ pc' = IF ok /\ TotalDepth = 0 THEN "recovered" ELSE "evaluate"
      /\ failures' = IF ok THEN 0 ELSE IF failures = 2 THEN 2 ELSE failures + 1
      /\ m_inEpisode' = (m_inEpisode \/ (~ok /\ failures >= 1))
      /\ UNCHANGED <<map, latest, sent, main, m_stop, cur, chunk, budget, remaining, cursor, ok, final,
                     lost, sampled, late, successAge, pendingAge>>
  BY DEF JudgeCycle, ClosesEpisode
<1>p. pc' \in {"recovered", "evaluate"} BY <1>1
<1>2. TypeOK'
  <2>1. failures' \in 0 .. 2 BY <1>0, <1>1 DEF TypeOK
  <2>2. m_inEpisode' \in BOOLEAN BY <1>0, <1>1 DEF TypeOK
  <2> QED BY <1>0, <1>1, <1>p, <2>1, <2>2 DEF TypeOK
<1>3. SendsSome' /\ Counted' BY <1>0, <1>1, <1>p, CountedFrame DEF SendsSome
<1>4. StopOrder' BY <1>0, <1>1, <1>p DEF StopOrder
<1>5. Strict' BY <1>0, <1>1, StrictFrame
<1>6. Episode'
  <2>1. ok \in BOOLEAN BY <1>0 DEF TypeOK
  <2>2. CASE ok = FALSE
    <3>1. Waiting' BY <1>0, <1>1, <2>2, DepthFrame DEF Episode
    <3>2. pc' = "evaluate" BY <1>1, <2>2
    <3> QED BY <1>1, <3>1, <3>2 DEF Episode
  <2>3. CASE ok = TRUE /\ TotalDepth = 0
    <3>1. pc' = "recovered" /\ ok' = TRUE BY <1>1, <2>3
    <3> QED BY <3>1 DEF Episode
  <2>4. CASE ok = TRUE /\ TotalDepth # 0
    <3>1. Waiting' BY <1>1, <2>4, DepthOfWaiting, DepthFrame
    <3>2. pc' = "evaluate" BY <1>1, <2>4
    <3> QED BY <1>1, <2>4, <3>1, <3>2 DEF Episode
  <2> QED BY <2>1, <2>2, <2>3, <2>4
<1> QED BY <1>2, <1>3, <1>4, <1>5, <1>6 DEF Reports

\* The episode is closed.
LEMMA RecoveredReports == ASSUME IInv, Reports, OnEpisodeRecovered PROVE Reports'
<1> USE DEF dataVars, loopVars, ageVars
<1>0. TypeOK /\ SendsSome /\ StopOrder /\ Counted /\ Strict /\ Episode BY DEF Reports
<1>1. /\ pc = "recovered" /\ pc' = "evaluate" /\ m_inEpisode' = FALSE
      /\ UNCHANGED <<map, latest, sent, main, m_stop, cur, chunk, budget, remaining, cursor, ok, final,
                     failures, lost, sampled, late, successAge, pendingAge>>
  BY DEF OnEpisodeRecovered
<1>2. TypeOK' BY <1>0, <1>1 DEF TypeOK
<1>3. SendsSome' /\ Counted' BY <1>0, <1>1, CountedFrame DEF SendsSome
<1>4. StopOrder' BY <1>0, <1>1 DEF StopOrder
<1>5. Strict' BY <1>0, <1>1, StrictFrame
<1>6. Episode' BY <1>0, <1>1 DEF Episode
<1> QED BY <1>2, <1>3, <1>4, <1>5, <1>6 DEF Reports

\* The operations that wait are as many as the depths tell.
LEMMA PendingPairs == Cardinality(Pending) = TotalDepth /\ Cardinality(Pending) \in Nat
<1> DEFINE P(t) == {t} \X PendingKeys(t)
<1>2. "Route" \in Table /\ "LabelRoute" \in Table /\ \A t \in Table : t = "Route" \/ t = "LabelRoute"
  BY DEF Table
<1>3. Pending = P("Route") \cup P("LabelRoute")
  <2>1. \A t \in Table, k \in Key : <<t, k>> \in Pending <=> k \in PendingKeys(t) BY DEF Pending, PendingKeys
  <2>2. Pending \subseteq Table \X Key BY DEF Pending
  <2>3. \A t \in Table : PendingKeys(t) \subseteq Key BY DEF PendingKeys
  <2>4. Pending \subseteq P("Route") \cup P("LabelRoute") BY <1>2, <2>1, <2>2
  <2>5. P("Route") \subseteq Pending BY <1>2, <2>1, <2>3
  <2>6. P("LabelRoute") \subseteq Pending BY <1>2, <2>1, <2>3
  <2> QED BY <2>4, <2>5, <2>6
<1>4. ASSUME NEW t \in Table PROVE IsFiniteSet(P(t)) /\ Cardinality(P(t)) = Depth(t)
  <2>1. IsFiniteSet({t}) /\ Cardinality({t}) = 1 BY FS_Singleton
  <2>2. IsFiniteSet(PendingKeys(t)) /\ Depth(t) \in Nat BY PendingFinite
  <2>3. IsFiniteSet(P(t)) /\ Cardinality(P(t)) = 1 * Cardinality(PendingKeys(t))
    BY <2>1, <2>2, FS_Product
  <2> QED BY <2>2, <2>3 DEF Depth
<1>5. P("Route") \cap P("LabelRoute") = {} OBVIOUS
<1>6. /\ IsFiniteSet(P("Route")) /\ Cardinality(P("Route")) = Depth("Route") /\ Depth("Route") \in Nat
      /\ IsFiniteSet(P("LabelRoute")) /\ Cardinality(P("LabelRoute")) = Depth("LabelRoute")
      /\ Depth("LabelRoute") \in Nat
  BY <1>2, <1>4, PendingFinite
<1> HIDE DEF P
<1>7. Cardinality(P("Route") \cup P("LabelRoute")) = Depth("Route") + Depth("LabelRoute") - Cardinality({})
  BY <1>5, <1>6, FS_Union
<1>8. Cardinality({}) = 0 BY FS_EmptySet
<1> QED BY <1>3, <1>6, <1>7, <1>8 DEF TotalDepth

\* The process is about to exit: the depth is sampled, counted, and the exit takes
\* both threads; what comes in between is late.
LEMMA AssertReports ==
  ASSUME IInv, Reports, EvaluateAssertThresholds \/ WriteAssertRecord \/ ExitProcess
  PROVE  Reports'
<1> USE DEF dataVars, loopVars, restVars, ageVars
<1>0. TypeOK /\ SendsSome /\ StopOrder /\ Counted /\ Strict /\ Episode BY DEF Reports
<1>1. /\ \/ pc = "evaluate" /\ pc' = "assert" /\ sampled' = TotalDepth /\ lost' = lost /\ main' = main
         \/ pc = "assert" /\ pc' = "record" /\ sampled' = sampled /\ lost' = lost + sampled /\ main' = main
         \/ pc = "record" /\ pc' = "crashed" /\ sampled' = sampled /\ lost' = lost /\ main' = "gone"
      /\ UNCHANGED <<map, latest, sent, m_stop, cur, chunk, budget, remaining, cursor, ok, final,
                     failures, m_inEpisode, late, successAge, pendingAge>>
  BY DEF EvaluateAssertThresholds, WriteAssertRecord, ExitProcess, LostOnExit
<1>2. pc' \in {"assert", "record", "crashed"} /\ pc \in {"evaluate", "assert", "record"} BY <1>1
<1>3. main' \in {main, "gone"} /\ (pc' = "crashed" => main' = "gone") BY <1>1
<1>4. TypeOK'
  <2>1. lost \in Nat /\ sampled \in Nat /\ lost + sampled \in Nat BY <1>0 DEF TypeOK
  <2>2. lost' \in Nat /\ sampled' \in Nat BY <1>1, <2>1, DepthOfWaiting
  <2> QED BY <1>0, <1>1, <1>2, <1>3, <2>2 DEF TypeOK
<1>5. SendsSome' BY <1>0, <1>1, <1>2 DEF SendsSome
<1>6. Counted'
  <2>1. Pending' = Pending /\ Old' = Old BY <1>1 DEF Pending, Old
  <2>2. CASE pc = "evaluate"
    <3>1. late = {} /\ lost = 0 BY <1>0, <2>2 DEF Counted
    <3>2. Old = Pending BY <3>1 DEF Old
    <3>3. pc' = "assert" /\ sampled' = TotalDepth /\ lost' = 0 BY <1>1, <2>2, <3>1
    <3> QED BY <2>1, <3>2, <3>3, PendingPairs DEF Counted
  <2>3. CASE pc = "assert"
    <3>1. lost = 0 /\ sampled = Cardinality(Old) BY <1>0, <2>3 DEF Counted
    <3>2. sampled \in Nat BY <1>0 DEF TypeOK
    <3>3. pc' = "record" /\ sampled' = sampled /\ lost' = sampled BY <1>1, <2>3, <3>1, <3>2
    <3> QED BY <2>1, <3>1, <3>3 DEF Counted
  <2>4. CASE pc = "record"
    <3>1. lost = sampled /\ sampled = Cardinality(Old) BY <1>0, <2>4 DEF Counted
    <3>2. pc' = "crashed" /\ sampled' = sampled /\ lost' = lost BY <1>1, <2>4
    <3> QED BY <2>1, <3>1, <3>2 DEF Counted
  <2> QED BY <1>2, <2>2, <2>3, <2>4
<1>7. StopOrder' BY <1>0, <1>1, <1>2, <1>3 DEF StopOrder
<1>8. Strict'
  <2>1. main # "retired" BY <1>2 DEF IInv, OwnsAlone
  <2> QED BY <1>0, <1>1, <2>1, StrictFrame
<1>9. Episode' BY <1>2 DEF Episode
<1> QED BY <1>4, <1>5, <1>6, <1>7, <1>8, <1>9 DEF Reports

\* The final drain is over: what waits is counted.
LEMMA StrandReports == ASSUME IInv, Reports, CountStranded PROVE Reports'
<1> USE DEF dataVars, loopVars, ageVars
<1>0. TypeOK /\ SendsSome /\ StopOrder /\ Counted /\ Strict /\ Episode BY DEF Reports
<1>1. /\ pc = "strand" /\ pc' = "exited" /\ lost' = lost + TotalDepth
      /\ UNCHANGED <<map, latest, sent, main, m_stop, cur, chunk, budget, remaining, cursor, ok, final,
                     failures, m_inEpisode, sampled, late, successAge, pendingAge>>
  BY DEF CountStranded, LostOnExit
<1>2. lost = 0 /\ lost' = TotalDepth /\ late = {} BY <1>0, <1>1, DepthOfWaiting DEF Counted
<1>4. TypeOK' BY <1>0, <1>1, <1>2, DepthOfWaiting DEF TypeOK
<1>5. SendsSome' BY <1>0, <1>1 DEF SendsSome
<1>6. Counted'
  <2>1. Pending' = Pending BY <1>1 DEF Pending
  <2> QED BY <1>1, <1>2, <2>1, PendingPairs DEF Counted
<1>7. StopOrder' BY <1>0, <1>1 DEF StopOrder
<1>8. Strict' BY <1>0, <1>1, StrictFrame
<1>9. Episode' BY <1>1 DEF Episode
<1> QED BY <1>4, <1>5, <1>6, <1>7, <1>8, <1>9 DEF Reports

\* The cycle ends, after a pause when a send failed.
LEMMA EndReports == ASSUME IInv, Reports, EndCycle \/ Backoff PROVE Reports'
<1> USE DEF dataVars, loopVars, restVars, ageVars
<1>0. TypeOK /\ SendsSome /\ StopOrder /\ Counted /\ Strict /\ Episode BY DEF Reports
<1>1. /\ \/ pc = "evaluate" /\ pc' = IF ok THEN "wait" ELSE "backoff"
         \/ pc = "backoff" /\ pc' = IF m_stop THEN "final" ELSE "wait"
      /\ UNCHANGED <<map, latest, sent, main, m_stop, cur, chunk, budget, remaining, cursor, ok, final,
                     failures, m_inEpisode, lost, sampled, late, successAge, pendingAge>>
  BY DEF EndCycle, Backoff
<1>2. pc' \in {"wait", "backoff", "final"} /\ pc \in {"evaluate", "backoff"} /\ (pc' = "final" => m_stop) BY <1>1
<1>3. TypeOK' BY <1>0, <1>1, <1>2 DEF TypeOK
<1>4. SendsSome' /\ Counted' BY <1>0, <1>1, <1>2, CountedFrame DEF SendsSome
<1>5. StopOrder' BY <1>0, <1>1, <1>2 DEF StopOrder
<1>6. Strict' BY <1>0, <1>1, StrictFrame
<1>7. Episode'
  <2>1. Waiting' <=> Waiting BY <1>1, DepthFrame
  <2>2. ok \in BOOLEAN BY <1>0 DEF TypeOK
  <2>3. CASE pc = "backoff"
    <3>1. Waiting' BY <1>0, <2>1, <2>3 DEF Episode
    <3> QED BY <1>2, <3>1 DEF Episode
  <2>4. CASE pc = "evaluate" /\ ok = FALSE
    <3>1. Waiting' BY <1>0, <2>1, <2>4 DEF Episode
    <3> QED BY <1>2, <3>1 DEF Episode
  <2>5. CASE pc = "evaluate" /\ ok = TRUE
    <3>1. pc' = "wait" BY <1>1, <2>5
    <3>2. m_inEpisode' = TRUE => Waiting' BY <1>0, <1>1, <2>1, <2>5 DEF Episode
    <3> QED BY <3>1, <3>2 DEF Episode
  <2> QED BY <1>2, <2>2, <2>3, <2>4, <2>5
<1> QED BY <1>3, <1>4, <1>5, <1>6, <1>7 DEF Reports

\* stop() signals and joins the send thread.
LEMMA StopReports == ASSUME IInv, Reports, Stop \/ StopReturns PROVE Reports'
<1> USE DEF dataVars, loopVars, restVars, ageVars
<1>0. TypeOK /\ SendsSome /\ StopOrder /\ Counted /\ Strict /\ Episode BY DEF Reports
<1>1. /\ \/ main = "run" /\ main' = "stopping" /\ m_stop' = TRUE
         \/ main = "stopping" /\ main' = "retired" /\ m_stop' = m_stop
      /\ UNCHANGED <<map, latest, sent, pc, cur, chunk, budget, remaining, cursor, ok, final,
                     failures, m_inEpisode, lost, sampled, late, successAge, pendingAge>>
  BY DEF Stop, StopReturns
<1>2. TypeOK' BY <1>0, <1>1 DEF TypeOK
<1>3. SendsSome' BY <1>0, <1>1 DEF SendsSome, Flight
<1>4. Counted' BY <1>0, <1>1, CountedFrame
<1>5. StopOrder' BY <1>0, <1>1 DEF StopOrder
<1>6. Strict' BY <1>0, <1>1, StrictFrame
<1>7. Episode' BY <1>0, <1>1, DepthFrame DEF Episode
<1> QED BY <1>2, <1>3, <1>4, <1>5, <1>6, <1>7 DEF Reports

\* Time passes, or nothing happens.
LEMMA TickReports == ASSUME IInv, Reports, Tick \/ UNCHANGED vars PROVE Reports'
<1> USE DEF dataVars, loopVars, restVars, ageVars
<1>0. TypeOK /\ SendsSome /\ StopOrder /\ Counted /\ Strict /\ Episode BY DEF Reports
<1>1. UNCHANGED <<map, latest, sent, main, m_stop, pc, cur, chunk, budget, remaining, cursor, ok, final,
                  failures, m_inEpisode, lost, sampled, late>>
  BY DEF Tick, vars
<1>2. successAge' \in [Table -> Nat] /\ pendingAge' \in [Table -> Nat]
  <2>0. successAge \in [Table -> Nat] /\ pendingAge \in [Table -> Nat] BY <1>0 DEF TypeOK
  <2>1. CASE Tick BY <2>0, <2>1, BoundsAssumption DEF Tick, Older
  <2>2. CASE UNCHANGED vars BY <2>0, <2>2 DEF vars
  <2> QED BY <2>1, <2>2
<1>3. TypeOK' BY <1>0, <1>1, <1>2 DEF TypeOK
<1>4. SendsSome' BY <1>0, <1>1 DEF SendsSome, Flight
<1>5. Counted' BY <1>0, <1>1, CountedFrame
<1>6. StopOrder' BY <1>0, <1>1 DEF StopOrder
<1>7. Strict' BY <1>0, <1>1, StrictFrame
<1>8. Episode' BY <1>0, <1>1, DepthFrame DEF Episode
<1> QED BY <1>3, <1>4, <1>5, <1>6, <1>7, <1>8 DEF Reports

\* Every step keeps what the reports rest on.
LEMMA NextReports == IInv /\ Reports /\ [Next]_vars => Reports'
<1> SUFFICES ASSUME IInv, Reports, [Next]_vars PROVE Reports' OBVIOUS
<1>1. CASE \E t \in Table, k \in Key : UpsertKco(t, k) \/ DirectSet(t, k)
  BY <1>1, UpsertReports, DirectReports
<1>2. CASE \E t \in Table : SendOk(t) BY <1>2, SendOkReports
<1>3. CASE SendFail BY <1>3, SendFailReports
<1>4. CASE SendThread
  BY <1>4, WaitReports, SampleReports, PullReports, TableDoneReports, JudgeReports, RecoveredReports,
     AssertReports, StrandReports, EndReports
  DEF SendThread
<1>5. CASE Stop \/ StopReturns BY <1>5, StopReports
<1>6. CASE Tick \/ UNCHANGED vars BY <1>6, TickReports
<1> QED BY <1>1, <1>2, <1>3, <1>4, <1>5, <1>6 DEF Next, Terminated

\* IInv and Reports hold in every reachable state.
LEMMA ReportsInvariance == Spec => [](IInv /\ Reports)
<1>1. Init => IInv /\ Reports BY InitIInv, InitReports
<1>2. IInv /\ Reports /\ [Next]_vars => IInv' /\ Reports' BY NextIInv, NextReports
<1> QED BY <1>1, <1>2, PTL DEF Spec

\* When the send thread is gone, what was not delivered is what waits.
LEMMA UndeliveredWaits ==
  ASSUME IInv, Reports, pc \in {"exited", "crashed"}, main # "retired"
  PROVE  Undelivered = Pending
<1>0. TypeOK /\ Strict BY DEF Reports
<1>1. ASSUME NEW t \in Table, NEW k \in Key PROVE sent[t][k] # latest[t][k] <=> map[t][k] # 0
  <2>1. \A j \in Key : chunk[j] = 0 BY DEF IInv, FlightInSend
  <2>2. map[t][k] = 0 => sent[t][k] = latest[t][k] BY <2>1 DEF IInv, Freshest, InFlight
  <2>3. map[t][k] # 0 => map[t][k] = latest[t][k] /\ sent[t][k] < map[t][k] BY <1>0 DEF IInv, Freshest, Strict
  <2>4. sent[t][k] \in Nat BY <1>0 DEF TypeOK, Ops
  <2>5. map[t][k] # 0 => sent[t][k] # latest[t][k] BY <2>3, <2>4
  <2> QED BY <2>2, <2>5
<1> QED BY <1>1 DEF Undelivered, Pending

\* Every send has something to send and respects the size of a message and the
\* budget of its table, which is what was there when the cycle began: a sweep ends
\* however fast new routes arrive.
THEOREM CoalescerSendsInBudget == Spec => []SendsInBudget
<1>1. Reports => SendsInBudget
  <2> SUFFICES ASSUME Reports PROVE SendsInBudget OBVIOUS
  <2>1. SendsSome BY DEF Reports
  <2>2. Flight # {} => \E k \in Key : chunk[k] # 0 BY DEF Flight
  <2> QED BY <2>1, <2>2 DEF SendsInBudget, SendsSome, Flight
<1> QED BY <1>1, ReportsInvariance, PTL

\* The reports of the coalescer are true: routes_lost_total is the number of
\* routes that were asked for and never delivered (but for those that came when
\* the process was about to exit), and a congestion episode is open between two
\* cycles only while there is work left.
THEOREM CoalescerReportsTrue == Spec => []ReportsTrue
<1>1. IInv /\ Reports => ReportsTrue
  <2> SUFFICES ASSUME IInv, Reports PROVE LossCounted /\ EpisodeOwesWork BY DEF ReportsTrue
  <2>0. Counted /\ StopOrder BY DEF Reports
  <2>1. LossCounted
    <3>1. ASSUME pc = "exited", main # "retired" PROVE lost = Cardinality(Undelivered)
      <4>1. Undelivered = Pending BY <3>1, UndeliveredWaits
      <4> QED BY <2>0, <3>1, <4>1 DEF Counted
    <3>2. ASSUME pc = "crashed" PROVE lost = Cardinality(Undelivered \ late)
      <4>1. main # "retired" BY <2>0, <3>2 DEF StopOrder
      <4>2. Undelivered = Pending BY <3>2, <4>1, UndeliveredWaits
      <4> QED BY <2>0, <3>2, <4>2 DEF Counted, Old
    <3> QED BY <3>1, <3>2 DEF LossCounted
  <2>2. EpisodeOwesWork
    <3>1. m_inEpisode \in BOOLEAN BY DEF Reports, TypeOK
    <3> QED BY <3>1, DepthOfWaiting DEF EpisodeOwesWork, Reports, Episode
  <2> QED BY <2>1, <2>2
<1> QED BY <1>1, ReportsInvariance, PTL
=============================================================================
