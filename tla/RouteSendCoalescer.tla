------------------------- MODULE RouteSendCoalescer -------------------------
(***************************************************************************)
(* fpmsyncd/routesendcoalescer.cpp: the main thread of fpmsyncd upserts    *)
(* routes into last-writer-wins maps, one per table, and a send thread     *)
(* drains them in chunks over ZMQ.  A chunk leaves the map under the lock, *)
(* is sent without it, and is merged back when the send fails; new routes  *)
(* arrive all the time.                                                    *)
(* An operation on a key (a SET or a DEL of the route) is the number of    *)
(* the upsert that brought it; 0 is none.  A step is one critical section  *)
(* of m_mutex or one send.  Time is a tick that ages the timestamps.       *)
(***************************************************************************)
EXTENDS Integers, FiniteSets

CONSTANTS NumKeys,          \* route keys are numbers, in the order of the map
          maxBatchEntries,  \* operations per chunk
          tFail,            \* ticks without success before the process exits
          mMax,             \* bound on the depth of the maps
          MaxOps,           \* bound on the operations of a key, per table
          Healthy           \* tables whose sends succeed now and then

Table == {"Route", "LabelRoute"}
Key == 1 .. NumKeys

ASSUME KeyAssumption == NumKeys \in Nat
ASSUME BatchAssumption == maxBatchEntries \in Nat \ {0}
ASSUME BoundsAssumption == tFail \in Nat /\ mMax \in Nat /\ MaxOps \in [Table -> Nat]
ASSUME HealthyAssumption == Healthy \subseteq Table

VARIABLES
  map,          \* m_routeMap and m_labelMap: table -> key -> operation
  latest,       \* the last operation asked for: table -> key -> operation
  sent,         \* the last operation written to the ZMQ table
  main,         \* the main thread: "run", "stopping", "retired", "gone"
  m_stop,
  pc,           \* the send thread
  cur,          \* the table drainTable is working on
  chunk,        \* the operations in flight: key -> operation
  budget,       \* depths sampled at the start of the cycle: table -> number
  remaining,    \* what is left of the budget of cur
  cursor,       \* the key the sweep resumes at
  ok,           \* has no send failed in this cycle?
  final,        \* is this the drain after stop()?
  failures,     \* m_consecutiveOuterFailures, up to 2
  m_inEpisode,
  lost,         \* m_routesLostTotal
  sampled,      \* the depth evaluateAssertThresholds has found too large or too old
  late,         \* history: <<table, key>> that came to a map after that
  successAge,   \* ticks since m_lastSuccess: table -> number
  pendingAge    \* ticks since m_pendingSince: table -> number

loopVars == <<cur, chunk, budget, remaining, cursor, ok, final>>
ageVars == <<successAge, pendingAge>>
dataVars == <<map, latest, sent>>
restVars == <<failures, m_inEpisode, lost, sampled>>
vars == <<dataVars, main, m_stop, pc, loopVars, restVars, late, ageVars>>

Ops == [Key -> Nat]
NoOps == [k \in Key |-> 0]

\* TypeOK: every variable has its type; the budget never goes below zero.
TypeOK ==
  /\ map \in [Table -> Ops] /\ latest \in [Table -> Ops] /\ sent \in [Table -> Ops]
  /\ main \in {"run", "stopping", "retired", "gone"} /\ m_stop \in BOOLEAN
  /\ pc \in {"wait", "cycle", "pull", "send", "judge", "recovered", "evaluate", "assert",
             "record", "backoff", "final", "strand", "exited", "crashed"}
  /\ cur \in Table /\ chunk \in Ops
  /\ budget \in [Table -> Nat] /\ remaining \in Nat /\ cursor \in Nat
  /\ ok \in BOOLEAN /\ final \in BOOLEAN
  /\ failures \in 0 .. 2 /\ m_inEpisode \in BOOLEAN /\ lost \in Nat
  /\ sampled \in Nat /\ late \subseteq Table \X Key
  /\ successAge \in [Table -> Nat] /\ pendingAge \in [Table -> Nat]

Init ==
  /\ map = [t \in Table |-> NoOps] /\ latest = [t \in Table |-> NoOps]
  /\ sent = [t \in Table |-> NoOps]
  /\ main = "run" /\ m_stop = FALSE
  /\ pc = "wait" /\ cur = "Route" /\ chunk = NoOps
  /\ budget = [t \in Table |-> 0] /\ remaining = 0 /\ cursor = 0
  /\ ok = TRUE /\ final = FALSE
  /\ failures = 0 /\ m_inEpisode = FALSE /\ lost = 0
  /\ sampled = 0 /\ late = {}
  /\ successAge = [t \in Table |-> 0] /\ pendingAge = [t \in Table |-> 0]
-----------------------------------------------------------------------------
PendingKeys(t) == {k \in Key : map[t][k] # 0}
Depth(t) == Cardinality(PendingKeys(t))
TotalDepth == Depth("Route") + Depth("LabelRoute")
-----------------------------------------------------------------------------
(* The main thread: RouteSync                                              *)

\* upsertKco: the newer operation supersedes the pending one.  (A SET without
\* fields is dropped before it gets here.)
UpsertKco(t, k) ==
  /\ main = "run"
  /\ latest[t][k] < MaxOps[t]
  /\ latest' = [latest EXCEPT ![t][k] = @ + 1]
  /\ map' = [map EXCEPT ![t][k] = latest[t][k] + 1]
  /\ pendingAge' = IF PendingKeys(t) = {} THEN [pendingAge EXCEPT ![t] = 0] ELSE pendingAge
  /\ late' = IF pc \in {"assert", "record"} /\ map[t][k] = 0 THEN late \cup {<<t, k>>} ELSE late
  /\ UNCHANGED <<sent, main, m_stop, pc, loopVars, restVars, successAge>>

\* retireRouteCoalescer: stop() signals the send thread ...
Stop ==
  /\ main = "run"
  /\ main' = "stopping"
  /\ m_stop' = TRUE
  /\ UNCHANGED <<dataVars, pc, loopVars, restVars, ageVars, late>>

\* Mutant of StopReturns: the send thread is not joined.
StopReturnsEarly ==
  /\ main = "stopping"
  /\ main' = "retired"
  /\ UNCHANGED <<dataVars, m_stop, pc, loopVars, restVars, ageVars, late>>

\* ... and joins it.
StopReturns ==
  /\ main = "stopping"
  /\ pc = "exited"
  /\ main' = "retired"
  /\ UNCHANGED <<dataVars, m_stop, pc, loopVars, restVars, ageVars, late>>

\* From then on the main thread writes the tables itself (setTableWithWarmRestart:
\* to the table, or to the refresh map that reconcile writes to the table).
DirectSet(t, k) ==
  /\ main = "retired"
  /\ latest[t][k] < MaxOps[t]
  /\ latest' = [latest EXCEPT ![t][k] = @ + 1]
  /\ sent' = [sent EXCEPT ![t][k] = latest[t][k] + 1]
  /\ UNCHANGED <<map, main, m_stop, pc, loopVars, restVars, ageVars, late>>
-----------------------------------------------------------------------------
(* The send thread: sendLoop, drainOnce, drainTable                        *)

\* m_cv.wait_for; a tick without work only publishes telemetry.
Wait ==
  /\ pc = "wait"
  /\ m_stop \/ TotalDepth # 0
  /\ pc' = IF TotalDepth = 0 THEN "final" ELSE "cycle"
  /\ UNCHANGED <<dataVars, main, m_stop, loopVars, restVars, ageVars, late>>

\* Both depths are sampled: the pair fixes the fair share of each table.
SampleDepths ==
  /\ pc \in {"cycle", "final"}
  /\ pc' = "pull"
  /\ budget' = [t \in Table |-> Depth(t)]
  /\ cur' = "Route"
  /\ remaining' = Depth("Route")
  /\ cursor' = 0
  /\ ok' = TRUE
  /\ final' = (pc = "final")
  /\ UNCHANGED <<dataVars, main, m_stop, chunk, restVars, ageVars, late>>

\* Keys of the map at or above the cursor, and the first n of them.
Ahead == {k \in PendingKeys(cur) : k >= cursor}

First(n) == {k \in Ahead : Cardinality({j \in Ahead : j < k}) < n}

ChunkCap == IF maxBatchEntries < remaining THEN maxBatchEntries ELSE remaining

\* The cursor after a chunk: the next key, or one past every key.
CursorAfter(pulled) ==
  IF Ahead \ pulled = {} THEN NumKeys + 1
  ELSE CHOOSE k \in Ahead \ pulled : \A j \in Ahead \ pulled : k <= j

\* A chunk leaves the map under the lock.
PullChunk ==
  /\ pc = "pull"
  /\ remaining # 0
  /\ Ahead # {}
  /\ LET pulled == First(ChunkCap)
     IN  /\ chunk' = [k \in Key |-> IF k \in pulled THEN map[cur][k] ELSE 0]
         /\ map' = [map EXCEPT ![cur] = [k \in Key |-> IF k \in pulled THEN 0 ELSE map[cur][k]]]
         /\ cursor' = CursorAfter(pulled)
  /\ pc' = "send"
  /\ UNCHANGED <<latest, sent, main, m_stop, cur, budget, remaining, ok, final, restVars, ageVars, late>>

\* table->set(chunk) succeeds.
SendOk(t) ==
  /\ pc = "send"
  /\ t = cur
  /\ sent' = [sent EXCEPT ![t] = [k \in Key |-> IF chunk[k] # 0 THEN chunk[k] ELSE sent[t][k]]]
  /\ chunk' = NoOps
  /\ remaining' = remaining - Cardinality({k \in Key : chunk[k] # 0})
  /\ successAge' = [successAge EXCEPT ![t] = 0]
  /\ pc' = "pull"
  /\ UNCHANGED <<map, latest, main, m_stop, cur, budget, cursor, ok, final, restVars, pendingAge, late>>

\* Where drainTable returns to: the other table of the cycle, or its end.
Turn ==
  IF cur = "Route"
  THEN cur' = "LabelRoute" /\ remaining' = budget["LabelRoute"] /\ cursor' = 0 /\ pc' = "pull"
  ELSE cur' = "Route" /\ remaining' = 0 /\ cursor' = 0 /\ pc' = IF final THEN "strand" ELSE "judge"

\* Mutant of TurnAfterFailure: a stalled table ends the cycle.
TurnEndsCycle ==
  cur' = "Route" /\ remaining' = 0 /\ cursor' = 0 /\ pc' = IF final THEN "strand" ELSE "judge"

\* Both tables are drained regardless of either outcome.
TurnAfterFailure == Turn

TableDone ==
  /\ pc = "pull"
  /\ remaining = 0 \/ Ahead = {}
  /\ Turn
  /\ UNCHANGED <<dataVars, main, m_stop, chunk, budget, ok, final, restVars, ageVars, late>>

\* Mutant of Remerge: the chunk overwrites what arrived during the send.
RemergeOverwrites(k) == IF chunk[k] # 0 THEN chunk[k] ELSE map[cur][k]

\* What is in the map already is newer than the chunk.
Remerge(k) == IF map[cur][k] # 0 THEN map[cur][k] ELSE chunk[k]

\* The send throws: the chunk is merged back.
SendFail ==
  /\ pc = "send"
  /\ map' = [map EXCEPT ![cur] = [k \in Key |-> Remerge(k)]]
  /\ chunk' = NoOps
  /\ ok' = FALSE
  /\ TurnAfterFailure
  /\ UNCHANGED <<latest, sent, main, m_stop, budget, final, restVars, ageVars, late>>

\* Mutant of ClosesEpisode: an episode is never closed.
NeverCloses == FALSE

\* An episode closes with a success that leaves the maps empty.
ClosesEpisode == ok /\ TotalDepth = 0

\* onEpisodeStart on the second failure in a row; after a success the maps are
\* looked at under the lock ...
JudgeCycle ==
  /\ pc = "judge"
  /\ failures' = IF ok THEN 0 ELSE IF failures = 2 THEN 2 ELSE failures + 1
  /\ m_inEpisode' = (m_inEpisode \/ (~ok /\ failures >= 1))
  /\ pc' = IF ClosesEpisode THEN "recovered" ELSE "evaluate"
  /\ UNCHANGED <<dataVars, main, m_stop, loopVars, lost, sampled, ageVars, late>>

\* ... and onEpisodeRecovered takes it again.
OnEpisodeRecovered ==
  /\ pc = "recovered"
  /\ m_inEpisode' = FALSE
  /\ pc' = "evaluate"
  /\ UNCHANGED <<dataVars, main, m_stop, loopVars, failures, lost, sampled, ageVars, late>>

\* stuckMsLocked of one table: a timestamp is as old as the younger of both.
StuckAge(t) ==
  IF PendingKeys(t) = {} THEN 0
  ELSE IF successAge[t] < pendingAge[t] THEN successAge[t] ELSE pendingAge[t]

Trips == (\E t \in Table : StuckAge(t) > tFail) \/ TotalDepth > mMax

\* evaluateAssertThresholds: under the lock the depth is found too large, or too
\* old ...
EvaluateAssertThresholds ==
  /\ pc = "evaluate"
  /\ Trips
  /\ sampled' = TotalDepth
  /\ pc' = "assert"
  /\ UNCHANGED <<dataVars, main, m_stop, loopVars, failures, m_inEpisode, lost, ageVars, late>>

\* Mutant of LostOnExit: the stranded entries are not counted.
NothingLost(depth) == lost

LostOnExit(depth) == lost + depth

\* ... without it that depth is counted as lost ...
WriteAssertRecord ==
  /\ pc = "assert"
  /\ lost' = LostOnExit(sampled)
  /\ pc' = "record"
  /\ UNCHANGED <<dataVars, main, m_stop, loopVars, failures, m_inEpisode, sampled, ageVars, late>>

\* ... and, when the record is in STATE_DB or could not be written, the process
\* exits, with both threads.
ExitProcess ==
  /\ pc = "record"
  /\ pc' = "crashed"
  /\ main' = "gone"
  /\ UNCHANGED <<dataVars, m_stop, loopVars, restVars, ageVars, late>>

\* Or it goes on, after a pause when a send failed.
EndCycle ==
  /\ pc = "evaluate"
  /\ ~Trips
  /\ pc' = IF ok THEN "wait" ELSE "backoff"
  /\ UNCHANGED <<dataVars, main, m_stop, loopVars, restVars, ageVars, late>>

Backoff ==
  /\ pc = "backoff"
  /\ pc' = IF m_stop THEN "final" ELSE "wait"
  /\ UNCHANGED <<dataVars, main, m_stop, loopVars, restVars, ageVars, late>>

\* What the final drain could not deliver is lost, and counted.
CountStranded ==
  /\ pc = "strand"
  /\ lost' = LostOnExit(TotalDepth)
  /\ pc' = "exited"
  /\ UNCHANGED <<dataVars, main, m_stop, loopVars, failures, m_inEpisode, sampled, ageVars, late>>
-----------------------------------------------------------------------------
Older(age) == IF age > tFail THEN age ELSE age + 1

\* Time passes (ages are not told apart beyond tFail + 1).
Tick ==
  /\ pc \notin {"exited", "crashed"}
  /\ successAge' = [t \in Table |-> Older(successAge[t])]
  /\ pendingAge' = [t \in Table |-> Older(pendingAge[t])]
  /\ UNCHANGED <<dataVars, main, m_stop, pc, loopVars, restVars, late>>

\* The send thread is gone and the main thread has nothing left to write.
Terminated == pc \in {"exited", "crashed"} /\ UNCHANGED vars

SendThread ==
  \/ Wait \/ SampleDepths \/ PullChunk \/ TableDone \/ JudgeCycle \/ OnEpisodeRecovered
  \/ EvaluateAssertThresholds \/ WriteAssertRecord \/ ExitProcess
  \/ EndCycle \/ Backoff \/ CountStranded

Next ==
  \/ SendThread
  \/ \E t \in Table : SendOk(t)
  \/ SendFail
  \/ \E t \in Table, k \in Key : UpsertKco(t, k) \/ DirectSet(t, k)
  \/ Stop \/ StopReturns
  \/ Tick \/ Terminated

Spec == Init /\ [][Next]_vars

\* The send thread keeps running, every send ends, and the sends of a healthy
\* table do not fail for ever.
FairSpec ==
  /\ Spec
  /\ WF_vars(SendThread)
  /\ WF_vars(SendFail \/ \E t \in Table : SendOk(t))
  /\ \A t \in Healthy : SF_vars(SendOk(t))
-----------------------------------------------------------------------------
(* Properties                                                              *)

InFlight(t, k) == IF t = cur THEN chunk[k] ELSE 0

\* The newest operation the coalescer has for a key.
Newest(t, k) ==
  IF map[t][k] # 0 THEN map[t][k]
  ELSE IF InFlight(t, k) # 0 THEN InFlight(t, k) ELSE sent[t][k]

\* "no route is dropped": the last operation asked for is in the map, in
\* flight or delivered, whatever fails and whatever arrives meanwhile.
NothingDropped == \A t \in Table, k \in Key : Newest(t, k) = latest[t][k] \/ main = "retired"

\* No stale write: an older operation of a key is never written after a newer
\* one, neither by a retry nor by the send thread after the main thread has
\* taken the tables over.
NoStaleWrite == [][\A t \in Table, k \in Key : sent'[t][k] >= sent[t][k]]_vars

Undelivered == {p \in Table \X Key : sent[p[1]][p[2]] # latest[p[1]][p[2]]}

\* routes_lost_total: after stop() it counts exactly the routes that were asked
\* for and not delivered; when the process exits, exactly those of them that had
\* come before the depth was sampled.
LossCounted ==
  /\ pc = "exited" /\ main # "retired" => lost = Cardinality(Undelivered)
  /\ pc = "crashed" => lost = Cardinality(Undelivered \ late)

\* A congestion episode is open only while there is work left: between two
\* cycles with empty maps it has been closed (or RECOVERED is not reported).
EpisodeOwesWork == pc = "wait" /\ m_inEpisode => TotalDepth # 0

\* What the coalescer reports is true: the count of lost routes, and the end of
\* an episode.
ReportsTrue == LossCounted /\ EpisodeOwesWork

\* A send has something to send, no more than fits a message and no more than the
\* table is owed in this cycle: what arrives meanwhile cannot keep the sweep going.
SendsInBudget ==
  /\ remaining <= budget[cur]
  /\ pc = "send" => /\ \E k \in Key : chunk[k] # 0
                    /\ Cardinality({k \in Key : chunk[k] # 0}) <= maxBatchEntries
                    /\ Cardinality({k \in Key : chunk[k] # 0}) <= remaining

\* A healthy table is delivered in the end, even when the sends of the other
\* one fail for ever, unless the coalescer is stopped or the process exits.
EventuallyDelivered ==
  \/ <>(m_stop \/ pc = "crashed")
  \/ \A t \in Healthy : <>[](sent[t] = latest[t])
=============================================================================
