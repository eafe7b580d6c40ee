------------------------------ MODULE OrchRing ------------------------------
(***************************************************************************)
(* The ring thread of orchagent (option -R): RingBuffer in                 *)
(* orchagent/orch.cpp, and the two threads around it in orchdaemon.cpp:    *)
(*   main thread   OrchDaemon::start, flush, warmRestartCheck and          *)
(*                 Executor::processAnyTask                                *)
(*   ring thread   OrchDaemon::popRingBuffer, which runs the batches of    *)
(*                 the executors the ring serves (ROUTE_TABLE)             *)
(* Neither push, pop nor notify takes the mutex of the condition variable, *)
(* so a step of one thread is one access to the shared fields.  Batches    *)
(* are numbered in the order the main thread pushes them.  The fields are  *)
(* plain, so a target may show the store of the idle flag late (in_order). *)
(***************************************************************************)
EXTENDS Integers

CONSTANTS Size,       \* slots of the buffer (RING_SIZE)
          MaxPushed   \* bound on the batches pushed

ASSUME SizeAssumption == Size \in Nat /\ Size > 1
ASSUME MaxPushedAssumption == MaxPushed \in Nat

VARIABLES
  buffer, head, tail,  \* the slots and the two indices
  idle_written,        \* idle_status as the ring thread wrote it last
  idle_status,         \* idle_status as the main thread reads it
  thread_exited,
  rpc,                 \* where the ring thread is
  func,                \* the batch it popped last
  mpc, goal,           \* where the main thread is, and what it is checking for
  pushed, done,        \* batches pushed, batches run by the ring thread
  pending,             \* is some m_toSync not empty?
  in_order             \* does the target show the stores in program order?

ringVars == <<idle_written, rpc, func, head, done>>
mainVars == <<mpc, goal, tail, buffer, pushed, thread_exited, in_order>>
allVars == <<ringVars, mainVars, idle_status, pending>>

Slots == 0 .. Size - 1
RingPc == {"start", "check", "pred", "block", "waiting", "woken", "pop", "run",
           "drained", "exited"}
MainPc == {"select", "dispatch", "push", "notify", "empty", "idle", "work",
           "direct", "restart", "destroy", "join", "frozen", "exited"}

\* What the main thread wants the ring empty and idle for: the task of an
\* executor the ring does not serve, the doTask() round after an execute, the
\* periodic flush, the flush and the doTask() round of a select timeout, and
\* the warm restart freeze.
Goal == {"execute", "retry", "periodic", "flush", "timeout", "freeze"}

\* RingTypeOK: every variable has its type; a slot holds a batch number.
RingTypeOK ==
  /\ buffer \in [Slots -> Nat] /\ head \in Slots /\ tail \in Slots
  /\ idle_written \in BOOLEAN /\ idle_status \in BOOLEAN
  /\ thread_exited \in BOOLEAN
  /\ rpc \in RingPc /\ func \in Nat
  /\ mpc \in MainPc /\ goal \in Goal
  /\ pushed \in Nat /\ done \in Nat
  /\ pending \in BOOLEAN /\ in_order \in BOOLEAN

RingInit ==
  /\ buffer = [i \in Slots |-> 0] /\ head = 0 /\ tail = 0
  /\ idle_written = TRUE /\ idle_status = TRUE
  /\ thread_exited = FALSE
  /\ rpc = "start" /\ func = 0
  /\ mpc = "select" /\ goal = "retry"
  /\ pushed = 0 /\ done = 0
  /\ pending \in BOOLEAN /\ in_order \in BOOLEAN
-----------------------------------------------------------------------------
(* RingBuffer                                                              *)

\* (i + 1) % size
After(i) == IF i + 1 = Size THEN 0 ELSE i + 1

\* Mutant of IsFull: a slot too many is used.
IsFullLate == FALSE

IsFull == After(tail) = head
IsEmpty == tail = head

thread_created == rpc # "start"

\* Mutant of Notify: only the exit is notified.
NotifyExitOnly == rpc' = IF rpc = "waiting" /\ thread_exited THEN "pred" ELSE rpc

\* notify(): only a thread that is already waiting is woken.
Notify ==
  rpc' = IF rpc = "waiting" /\ (thread_exited \/ (~IsEmpty /\ idle_status))
         THEN "pred" ELSE rpc

SetIdle(idle) ==
  /\ idle_written' = idle
  /\ idle_status' = IF in_order THEN idle ELSE idle_status
-----------------------------------------------------------------------------
(* The ring thread                                                         *)

RingStep(from, to) == rpc = from /\ rpc' = to

RingStart ==
  /\ RingStep("start", "check")
  /\ UNCHANGED <<idle_written, func, head, done, mainVars, idle_status, pending>>

\* while (!thread_exited)
RingCheck ==
  /\ RingStep("check", IF thread_exited THEN "exited" ELSE "pred")
  /\ UNCHANGED <<idle_written, func, head, done, mainVars, idle_status, pending>>

\* pauseThread(): the predicate of cv.wait.
RingPred ==
  /\ RingStep("pred", IF ~IsEmpty \/ thread_exited THEN "woken" ELSE "block")
  /\ UNCHANGED <<idle_written, func, head, done, mainVars, idle_status, pending>>

\* cv.wait() releases the mutex, earlier stores are visible, and blocks.
RingBlock ==
  /\ RingStep("block", "waiting")
  /\ idle_status' = idle_written
  /\ UNCHANGED <<idle_written, func, head, done, mainVars, pending>>

\* A condition variable may wake a thread for no reason.
SpuriousWakeup ==
  /\ RingStep("waiting", "pred")
  /\ UNCHANGED <<idle_written, func, head, done, mainVars, idle_status, pending>>

SetBusy ==
  /\ RingStep("woken", "pop")
  /\ SetIdle(FALSE)
  /\ UNCHANGED <<func, head, done, mainVars, pending>>

Pop ==
  /\ ~IsEmpty
  /\ RingStep("pop", "run")
  /\ func' = buffer[head]
  /\ head' = After(head)
  /\ UNCHANGED <<idle_written, done, mainVars, idle_status, pending>>

\* func(): addToSync and drain of the batch, which may leave tasks behind.
Run ==
  /\ RingStep("run", "pop")
  /\ done' = done + 1
  /\ pending' \in BOOLEAN
  /\ UNCHANGED <<idle_written, func, head, mainVars, idle_status>>

PopNothing ==
  /\ IsEmpty
  /\ RingStep("pop", "drained")
  /\ UNCHANGED <<idle_written, func, head, done, mainVars, idle_status, pending>>

SetRested ==
  /\ RingStep("drained", "check")
  /\ SetIdle(TRUE)
  /\ UNCHANGED <<func, head, done, mainVars, pending>>

\* A store the ring thread made earlier reaches the main thread.
StoreVisible ==
  /\ idle_status # idle_written
  /\ idle_status' = idle_written
  /\ UNCHANGED <<ringVars, mainVars, pending>>

RingThread ==
  \/ RingStart \/ RingCheck \/ RingPred \/ RingBlock \/ SetBusy \/ Pop \/ Run
  \/ PopNothing \/ SetRested
-----------------------------------------------------------------------------
(* The main thread: OrchDaemon::start                                      *)

Goto(from, to) == mpc = from /\ mpc' = to
Seek(from, g) == Goto(from, "empty") /\ goal' = g

\* SELECT_TIMEOUT has passed since the last flush.
PeriodicFlush ==
  /\ Seek("select", "periodic")
  /\ UNCHANGED <<ringVars, tail, buffer, pushed, thread_exited, in_order, idle_status, pending>>

Select ==
  /\ Goto("select", "dispatch")
  /\ UNCHANGED <<ringVars, goal, tail, buffer, pushed, thread_exited, in_order, idle_status, pending>>

SelectTimeout ==
  /\ Seek("dispatch", "flush")
  /\ UNCHANGED <<ringVars, tail, buffer, pushed, thread_exited, in_order, idle_status, pending>>

\* A Notifier or ExecutableTimer: execute() calls the orch at once.
SelectDirect ==
  /\ Goto("dispatch", "direct")
  /\ UNCHANGED <<ringVars, goal, tail, buffer, pushed, thread_exited, in_order, idle_status, pending>>

DirectDone ==
  /\ Seek("direct", "retry")
  /\ pending' \in BOOLEAN
  /\ UNCHANGED <<ringVars, tail, buffer, pushed, thread_exited, in_order, idle_status>>

\* processAnyTask before the ring thread runs: the task is run immediately.
SelectEarly ==
  /\ ~thread_created
  /\ Goto("dispatch", "work")
  /\ goal' = "execute"
  /\ UNCHANGED <<ringVars, tail, buffer, pushed, thread_exited, in_order, idle_status, pending>>

\* processAnyTask of an executor that the ring does not serve.
SelectUnserved ==
  /\ thread_created
  /\ Seek("dispatch", "execute")
  /\ UNCHANGED <<ringVars, tail, buffer, pushed, thread_exited, in_order, idle_status, pending>>

\* processAnyTask of an executor that the ring serves.
SelectServed ==
  /\ thread_created
  /\ pushed < MaxPushed
  /\ Goto("dispatch", "push")
  /\ UNCHANGED <<ringVars, goal, tail, buffer, pushed, thread_exited, in_order, idle_status, pending>>

PushFull ==
  /\ mpc = "push"
  /\ IsFull
  /\ Notify
  /\ UNCHANGED <<idle_written, func, head, done, mainVars, idle_status, pending>>

Push ==
  /\ ~IsFull
  /\ Goto("push", "notify")
  /\ buffer' = [buffer EXCEPT ![tail] = pushed + 1]
  /\ tail' = After(tail)
  /\ pushed' = pushed + 1
  /\ UNCHANGED <<ringVars, goal, thread_exited, in_order, idle_status, pending>>

NotifyPushed ==
  /\ Seek("notify", "retry")
  /\ Notify
  /\ UNCHANGED <<idle_written, func, head, done, tail, buffer, pushed, thread_exited,
                 in_order, idle_status, pending>>

\* Where the main thread goes once a goal is met or given up.
Continue(g) ==
  CASE g = "execute"  -> {<<"empty", "retry">>}
    [] g = "retry"    -> {<<"restart", "retry">>}
    [] g = "periodic" -> {<<"dispatch", "periodic">>}
    [] g = "flush"    -> {<<"empty", "timeout">>}
    [] g = "timeout"  -> {<<"select", "timeout">>}
    [] g = "freeze"   -> {<<"frozen", "freeze">>, <<"select", "freeze">>}

\* Goals the main thread waits for; the others it gives up for this time.
WaitsFor(g) == g \in {"execute", "freeze"}

\* Mutant of NotifiesOnFailure: the flush and timeout paths do not notify.
NotifiesInLoops(g) == WaitsFor(g)

\* Does the main thread call notify() when the ring is not empty and idle?
NotifiesOnFailure(g) == g # "retry"

NotNow ==
  /\ IF NotifiesOnFailure(goal) THEN Notify ELSE UNCHANGED rpc
  /\ \E to \in IF WaitsFor(goal) THEN {<<"empty", goal>>} ELSE Continue(goal) :
       mpc' = to[1] /\ goal' = to[2]
  /\ UNCHANGED <<idle_written, func, head, done, tail, buffer, pushed, thread_exited,
                 in_order, idle_status, pending>>

\* IsEmpty() && IsIdle(): two reads, the ring thread may move in between.
CheckEmpty ==
  /\ mpc = "empty"
  /\ \/ ~IsEmpty /\ NotNow
     \/ /\ IsEmpty
        /\ mpc' = "idle"
        /\ UNCHANGED <<ringVars, goal, tail, buffer, pushed, thread_exited, in_order, idle_status, pending>>

\* Mutant of CheckIdle: an empty ring is taken for an idle one.
IdleIgnored ==
  /\ mpc = "idle"
  /\ mpc' = "work"
  /\ UNCHANGED <<ringVars, goal, tail, buffer, pushed, thread_exited, in_order, idle_status, pending>>

CheckIdle ==
  /\ mpc = "idle"
  /\ \/ ~idle_status /\ NotNow
     \/ /\ idle_status
        /\ mpc' = "work"
        /\ UNCHANGED <<ringVars, goal, tail, buffer, pushed, thread_exited, in_order, idle_status, pending>>

\* The main thread runs the task, flushResponses() or the doTask() round.
WorkDone ==
  /\ mpc = "work"
  /\ \E to \in Continue(goal) : mpc' = to[1] /\ goal' = to[2]
  /\ pending' \in IF goal \in {"execute", "retry", "timeout"} THEN BOOLEAN ELSE {pending}
  /\ UNCHANGED <<ringVars, tail, buffer, pushed, thread_exited, in_order, idle_status>>

\* No restart is asked for, or warmRestartCheck() answers NOT_READY.
NoRestart ==
  /\ Goto("restart", "select")
  /\ UNCHANGED <<ringVars, goal, tail, buffer, pushed, thread_exited, in_order, idle_status, pending>>

\* warmRestartCheck() answers READY; then the ring is drained.
RestartReady ==
  /\ ~pending
  /\ Seek("restart", "freeze")
  /\ UNCHANGED <<ringVars, tail, buffer, pushed, thread_exited, in_order, idle_status, pending>>

\* start() has returned and ~OrchDaemon runs.
Shutdown ==
  /\ Goto("select", "destroy")
  /\ thread_exited' = TRUE
  /\ UNCHANGED <<ringVars, goal, tail, buffer, pushed, in_order, idle_status, pending>>

NotifyExit ==
  /\ Goto("destroy", "join")
  /\ Notify
  /\ UNCHANGED <<idle_written, func, head, done, goal, tail, buffer, pushed, thread_exited,
                 in_order, idle_status, pending>>

Join ==
  /\ rpc = "exited"
  /\ Goto("join", "exited")
  /\ UNCHANGED <<ringVars, goal, tail, buffer, pushed, thread_exited, in_order, idle_status, pending>>

\* The process is gone.
Terminated == mpc = "exited" /\ UNCHANGED allVars

Dispatch == SelectTimeout \/ SelectDirect \/ SelectEarly \/ SelectUnserved \/ SelectServed

MainThread ==
  \/ Select \/ Dispatch \/ DirectDone \/ PushFull \/ Push \/ NotifyPushed
  \/ CheckEmpty \/ CheckIdle \/ WorkDone \/ NoRestart \/ RestartReady
  \/ NotifyExit \/ Join

RingNext == RingThread \/ StoreVisible \/ SpuriousWakeup \/ MainThread \/ PeriodicFlush \/ Shutdown
            \/ Terminated

RingSpec == RingInit /\ [][RingNext]_allVars

\* Both threads keep running, a store becomes visible in the end, and the
\* periodic flush comes round.
RingFairness ==
  /\ WF_allVars(RingThread) /\ WF_allVars(MainThread) /\ WF_allVars(StoreVisible)
  /\ SF_allVars(PeriodicFlush)

FairRing == RingSpec /\ RingFairness
-----------------------------------------------------------------------------
(* Properties                                                              *)

\* Orch work that checked the ring first runs only when every batch pushed
\* before is done and the ring thread runs nothing: a batch of another table
\* neither overtakes the routes before it nor races with them.  Where the
\* stores are seen late this does not hold.
Serialised == in_order /\ mpc = "work" => done = pushed /\ rpc # "run"

\* Number of batches in the buffer, and the distance of slot i from head.
Count == IF tail >= head THEN tail - head ELSE tail - head + Size
Distance(i) == IF i >= head THEN i - head ELSE i - head + Size

Taken == IF rpc = "run" THEN 1 ELSE 0

\* Batches run in the order they were pushed, each once; none is overwritten
\* while it waits in its slot, also when the buffer wraps around or is full.
Fifo ==
  /\ rpc = "run" => func = done + 1
  /\ pushed = done + Taken + Count
  /\ \A i \in Slots : Distance(i) < Count => buffer[i] = done + Taken + Distance(i) + 1

ShuttingDown == mpc \in {"destroy", "join", "exited"}

\* Every batch pushed is run, although a notification may be lost.
EventuallyRun ==
  \A n \in 1 .. MaxPushed : (pushed >= n) ~> (done >= n \/ ShuttingDown)

\* The busy-waiting loops of the main thread end: a full ring gets room, and
\* an executor outside the ring gets its turn.
WaitsEnd ==
  /\ (mpc = "push") ~> (mpc # "push")
  /\ (mpc = "empty" /\ WaitsFor(goal)) ~> (mpc = "work")

\* Neither thread waits for ever: pushed batches are run (RingBuffer::notify may
\* come too early) and the main thread's loops end.
NobodyWaitsForEver == EventuallyRun /\ WaitsEnd
=============================================================================
