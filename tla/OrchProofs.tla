------------------------------ MODULE OrchProofs ------------------------------
(***************************************************************************)
(* Proofs about the two parts of Orch that every orch runs on.             *)
(*                                                                         *)
(* OrchRing, for every buffer size and any number of batches: the buffer   *)
(* is first in, first out, and where the idle flag becomes visible in      *)
(* order, checked work in the main thread never overlaps with the ring     *)
(* thread and comes after every batch pushed before it.                    *)
(*                                                                         *)
(* ConsumerSync, for every set of keys, fields, values and objects, every  *)
(* retry threshold, and whether or not the handler leaves DELs behind.     *)
(***************************************************************************)
EXTENDS ConsumerSync, OrchRing, SequenceTheorems, FiniteSetTheorems, TLAPS

-----------------------------------------------------------------------------
(* OrchRing                                                                *)

\* The idle flag is down exactly while the ring thread pops and runs batches.
IdleFlag == idle_written <=> rpc \notin {"pop", "run", "drained"}

\* In program order the main thread reads what was written last.
IdleSeen == in_order => idle_status = idle_written

\* The ring thread leaves its wait only for a batch or to exit, which is
\* asked for in the destructor only.
Woken ==
  /\ rpc = "woken" => ~IsEmpty \/ thread_exited
  /\ rpc = "exited" => thread_exited
  /\ thread_exited => ShuttingDown

\* Before the ring thread runs nothing is pushed.
NotStarted == rpc = "start" => IsEmpty /\ mpc \notin {"push", "notify"}

\* What the main thread has read stays true until it acts on it.
Checked ==
  /\ mpc \in {"idle", "work"} => IsEmpty
  /\ mpc = "work" /\ in_order => rpc \in {"start", "check", "pred", "block", "waiting"}

Flags == IdleFlag /\ IdleSeen /\ Woken /\ NotStarted /\ Checked
RingIInv == RingTypeOK /\ Fifo /\ Flags
-----------------------------------------------------------------------------
\* Continue leads to program points only.
LEMMA ContinueType ==
  \A g \in Goal : \A to \in Continue(g) :
    to[1] \in MainPc \ {"push", "notify", "idle", "work", "destroy", "join", "exited"} /\ to[2] \in Goal
BY DEF Goal, Continue, MainPc

\* Initially the invariant holds.
LEMMA RingInitIInv == RingInit => RingIInv
<1> SUFFICES ASSUME RingInit PROVE RingIInv OBVIOUS
<1> USE SizeAssumption DEF RingInit
<1>1. RingTypeOK
  <2>1. buffer \in [Slots -> Nat] BY DEF Slots
  <2>2. head \in Slots /\ tail \in Slots BY DEF Slots
  <2>3. idle_written \in BOOLEAN /\ idle_status \in BOOLEAN /\ thread_exited \in BOOLEAN
    OBVIOUS
  <2>4. pending \in BOOLEAN BY Zenon
  <2>5. rpc \in RingPc /\ mpc \in MainPc /\ goal \in Goal BY DEF RingPc, MainPc, Goal
  <2>6. func \in Nat /\ pushed \in Nat /\ done \in Nat OBVIOUS
  <2> QED BY <2>1, <2>2, <2>3, <2>4, <2>5, <2>6, Zenon DEF RingTypeOK
<1>2. Fifo BY DEF Fifo, Count, Taken, Distance, Slots
<1>3. Flags BY DEF Flags, IdleFlag, IdleSeen, Woken, NotStarted, Checked, IsEmpty, ShuttingDown
<1> QED BY <1>1, <1>2, <1>3 DEF RingIInv

\* Type correctness is preserved by every step.
LEMMA RingTypeStep == RingTypeOK /\ [RingNext]_allVars => RingTypeOK'
<1> SUFFICES ASSUME RingTypeOK, [RingNext]_allVars PROVE RingTypeOK' OBVIOUS
<1> USE SizeAssumption DEF RingTypeOK, RingPc, MainPc, ringVars, mainVars
<1>a. \A i \in Slots : After(i) \in Slots BY DEF Slots, After
<1>n. Notify => rpc' \in RingPc BY DEF Notify
<1>1. CASE RingStart BY <1>1 DEF RingStart, RingStep
<1>2. CASE RingCheck BY <1>2 DEF RingCheck, RingStep
<1>3. CASE RingPred BY <1>3 DEF RingPred, RingStep
<1>4. CASE RingBlock BY <1>4 DEF RingBlock, RingStep
<1>5. CASE SpuriousWakeup BY <1>5 DEF SpuriousWakeup, RingStep
<1>6. CASE SetBusy BY <1>6 DEF SetBusy, RingStep, SetIdle
<1>7. CASE Pop BY <1>7, <1>a DEF Pop, RingStep
<1>8. CASE Run BY <1>8 DEF Run, RingStep
<1>9. CASE PopNothing BY <1>9 DEF PopNothing, RingStep
<1>10. CASE SetRested BY <1>10 DEF SetRested, RingStep, SetIdle
<1>11. CASE StoreVisible BY <1>11 DEF StoreVisible
<1>12. CASE PeriodicFlush BY <1>12 DEF PeriodicFlush, Seek, Goto, Goal
<1>13. CASE Select BY <1>13 DEF Select, Goto
<1>14. CASE SelectTimeout BY <1>14 DEF SelectTimeout, Seek, Goto, Goal
<1>15. CASE SelectDirect BY <1>15 DEF SelectDirect, Goto
<1>16. CASE DirectDone BY <1>16 DEF DirectDone, Seek, Goto, Goal
<1>17. CASE SelectEarly BY <1>17 DEF SelectEarly, Goto, Goal
<1>18. CASE SelectUnserved BY <1>18 DEF SelectUnserved, Seek, Goto, Goal
<1>19. CASE SelectServed BY <1>19 DEF SelectServed, Goto
<1>20. CASE PushFull BY <1>20, <1>n DEF PushFull
<1>21. CASE Push BY <1>21, <1>a DEF Push, Goto
<1>22. CASE NotifyPushed BY <1>22, <1>n DEF NotifyPushed, Seek, Goto, Goal
<1>23. NotNow => RingTypeOK'
  BY <1>n, ContinueType DEF NotNow
<1>24. CASE CheckEmpty BY <1>24, <1>23 DEF CheckEmpty
<1>25. CASE CheckIdle BY <1>25, <1>23 DEF CheckIdle
<1>26. CASE WorkDone BY <1>26, ContinueType DEF WorkDone
<1>27. CASE NoRestart BY <1>27 DEF NoRestart, Goto
<1>28. CASE RestartReady BY <1>28 DEF RestartReady, Seek, Goto, Goal
<1>29. CASE Shutdown BY <1>29 DEF Shutdown, Goto
<1>30. CASE NotifyExit BY <1>30, <1>n DEF NotifyExit, Goto
<1>31. CASE Join BY <1>31 DEF Join, Goto
<1>32. CASE UNCHANGED allVars BY <1>32 DEF allVars
<1> QED
  BY <1>1, <1>2, <1>3, <1>4, <1>5, <1>6, <1>7, <1>8, <1>9, <1>10, <1>11, <1>12, <1>13,
     <1>14, <1>15, <1>16, <1>17, <1>18, <1>19, <1>20, <1>21, <1>22, <1>24, <1>25, <1>26,
     <1>27, <1>28, <1>29, <1>30, <1>31, <1>32
  DEF RingNext, RingThread, MainThread, Dispatch, Terminated
-----------------------------------------------------------------------------
\* What Fifo speaks of, the ring thread's being in a batch included.
queueVars == <<buffer, head, tail, func, done, pushed>>

\* A step outside Push, Pop and Run leaves the queue alone.
LEMMA QueueUnchanged ==
  [RingNext]_allVars => \/ Push \/ Pop \/ Run
                        \/ UNCHANGED queueVars /\ (rpc' = "run" <=> rpc = "run")
<1> SUFFICES ASSUME [RingNext]_allVars, ~Push, ~Pop, ~Run
             PROVE  UNCHANGED queueVars /\ (rpc' = "run" <=> rpc = "run")
  OBVIOUS
<1> USE DEF queueVars, ringVars, mainVars, RingStep
<1>n. Notify => (rpc' = "run" <=> rpc = "run") BY DEF Notify
<1>1. CASE RingThread
  BY <1>1 DEF RingThread, RingStart, RingCheck, RingPred, RingBlock, SetBusy, PopNothing, SetRested
<1>2. CASE SpuriousWakeup \/ StoreVisible \/ PeriodicFlush \/ Shutdown
  BY <1>2 DEF SpuriousWakeup, StoreVisible, PeriodicFlush, Shutdown
<1>3. CASE Dispatch \/ Select \/ DirectDone
  BY <1>3 DEF Dispatch, SelectTimeout, SelectDirect, SelectEarly, SelectUnserved, SelectServed,
              Select, DirectDone
<1>4. NotNow => UNCHANGED queueVars /\ (rpc' = "run" <=> rpc = "run")
  BY <1>n DEF NotNow
<1>5. CASE CheckEmpty \/ CheckIdle BY <1>4, <1>5 DEF CheckEmpty, CheckIdle
<1>6. CASE PushFull \/ NotifyPushed \/ NotifyExit
  BY <1>6, <1>n DEF PushFull, NotifyPushed, NotifyExit
<1>7. CASE WorkDone \/ NoRestart \/ RestartReady \/ Join
  BY <1>7 DEF WorkDone, NoRestart, RestartReady, Join
<1>8. CASE UNCHANGED allVars BY <1>8 DEF allVars
<1> QED BY <1>1, <1>2, <1>3, <1>5, <1>6, <1>7, <1>8 DEF RingNext, MainThread, Terminated

\* The queue stays first in, first out.
LEMMA FifoStep == RingTypeOK /\ Fifo /\ [RingNext]_allVars => Fifo'
<1> SUFFICES ASSUME RingTypeOK, Fifo, [RingNext]_allVars PROVE Fifo' OBVIOUS
<1> USE SizeAssumption DEF RingTypeOK, Slots
<1>1. CASE Push
  <2> USE <1>1 DEF Push, Goto, ringVars
  <2>1. Count' = Count + 1 /\ Taken' = Taken
    BY DEF Count, Taken, IsFull, After
  <2>2. pushed' = done' + Taken' + Count' /\ (rpc' = "run" => func' = done' + 1)
    <3>1. pushed = done + Taken + Count /\ (rpc = "run" => func = done + 1) BY DEF Fifo
    <3>2. Count \in Int /\ Taken \in Int BY DEF Count, Taken
    <3> QED BY <2>1, <3>1, <3>2
  <2>3. ASSUME NEW i \in Slots, Distance(i)' < Count'
        PROVE  buffer'[i] = done' + Taken' + Distance(i)' + 1
    <3>1. CASE i = tail
      <4>1. Distance(i) = Count /\ Distance(i)' = Distance(i)
        BY <3>1 DEF Distance, Count
      <4>2. pushed = done + Taken + Count BY DEF Fifo
      <4>3. buffer'[i] = pushed + 1 BY <3>1
      <4>4. Count \in Int /\ Taken \in Int BY DEF Count, Taken
      <4> QED BY <4>1, <4>2, <4>3, <4>4, <2>1
    <3>2. CASE i # tail
      <4>1. Distance(i)' = Distance(i) /\ Distance(i) < Count
        BY <2>1, <2>3, <3>2 DEF Distance, Count
      <4>2. buffer[i] = done + Taken + Distance(i) + 1 BY <4>1 DEF Fifo
      <4> QED BY <4>1, <4>2, <3>2, <2>1
    <3> QED BY <3>1, <3>2
  <2> QED BY <2>2, <2>3 DEF Fifo
<1>2. CASE Pop
  <2> USE <1>2 DEF Pop, RingStep, mainVars
  <2>1. Count' = Count - 1 /\ Taken' = 1 /\ Taken = 0 /\ Count >= 1 /\ Count \in Int
    BY DEF Count, Taken, IsEmpty, After
  <2>2. Distance(head) = 0 BY DEF Distance
  <2>3. func' = done + 1
    BY <2>1, <2>2 DEF Fifo
  <2>4. pushed' = done' + Taken' + Count' BY <2>1 DEF Fifo
  <2>5. ASSUME NEW i \in Slots, Distance(i)' < Count'
        PROVE  buffer'[i] = done' + Taken' + Distance(i)' + 1
    <3>1. Distance(i)' = Distance(i) - 1 /\ Distance(i) < Count /\ Distance(i) \in Int
      BY <2>1, <2>5 DEF Distance, After, Count
    <3>2. buffer[i] = done + Taken + Distance(i) + 1 BY <3>1 DEF Fifo
    <3> QED BY <3>1, <3>2, <2>1
  <2> QED BY <2>3, <2>4, <2>5 DEF Fifo
<1>3. CASE Run
  <2> USE <1>3 DEF Run, RingStep, mainVars
  <2>1. Taken = 1 /\ Taken' = 0 /\ Count' = Count /\ done' = done + 1 /\ Count \in Int
    BY DEF Taken, Count
  <2>2. \A i \in Slots : Distance(i)' = Distance(i) /\ Distance(i) \in Int BY DEF Distance
  <2>3. pushed' = done' + Taken' + Count' BY <2>1 DEF Fifo
  <2>4. ASSUME NEW i \in Slots, Distance(i)' < Count'
        PROVE  buffer'[i] = done' + Taken' + Distance(i)' + 1
    BY <2>1, <2>2, <2>4 DEF Fifo
  <2> QED BY <2>3, <2>4 DEF Fifo
<1>4. CASE UNCHANGED queueVars /\ (rpc' = "run" <=> rpc = "run")
  BY <1>4 DEF Fifo, queueVars, Count, Distance, Taken
<1> QED BY <1>1, <1>2, <1>3, <1>4, QueueUnchanged
-----------------------------------------------------------------------------
\* The flags agree with what the threads do.
LEMMA FlagsStep == RingTypeOK /\ Flags /\ [RingNext]_allVars => Flags'
<1> SUFFICES ASSUME RingTypeOK, Flags, [RingNext]_allVars PROVE Flags' OBVIOUS
<1> USE SizeAssumption
    DEF Flags, IdleFlag, IdleSeen, Woken, NotStarted, Checked, IsEmpty, ShuttingDown, ringVars, mainVars
<1>1. CASE RingStart BY <1>1 DEF RingStart, RingStep
<1>2. CASE RingCheck BY <1>2 DEF RingCheck, RingStep
<1>3. CASE RingPred BY <1>3 DEF RingPred, RingStep
<1>4. CASE RingBlock BY <1>4 DEF RingBlock, RingStep
<1>5. CASE SpuriousWakeup BY <1>5 DEF SpuriousWakeup, RingStep
<1>6. CASE SetBusy BY <1>6 DEF SetBusy, RingStep, SetIdle
<1>7. CASE Pop BY <1>7 DEF Pop, RingStep
<1>8. CASE Run BY <1>8 DEF Run, RingStep
<1>9. CASE PopNothing BY <1>9 DEF PopNothing, RingStep
<1>10. CASE SetRested BY <1>10 DEF SetRested, RingStep, SetIdle
<1>11. CASE StoreVisible BY <1>11 DEF StoreVisible
<1>12. CASE PeriodicFlush BY <1>12 DEF PeriodicFlush, Seek, Goto
<1>13. CASE Select BY <1>13 DEF Select, Goto
<1>14. CASE SelectTimeout BY <1>14 DEF SelectTimeout, Seek, Goto
<1>15. CASE SelectDirect BY <1>15 DEF SelectDirect, Goto
<1>16. CASE DirectDone BY <1>16 DEF DirectDone, Seek, Goto
<1>17. CASE SelectEarly BY <1>17 DEF SelectEarly, Goto, thread_created
<1>18. CASE SelectUnserved BY <1>18 DEF SelectUnserved, Seek, Goto
<1>19. CASE SelectServed BY <1>19 DEF SelectServed, Goto, thread_created
<1>20. CASE PushFull BY <1>20 DEF PushFull, Notify
<1>21. CASE Push
  <2>1. tail' # head' BY <1>21 DEF Push, IsFull, RingTypeOK, Slots, After
  <2> QED BY <2>1, <1>21 DEF Push, Goto
<1>22. CASE NotifyPushed BY <1>22 DEF NotifyPushed, Seek, Goto, Notify
<1>23. ASSUME NotNow, mpc \in {"empty", "idle"} PROVE Flags'
  <2>1. mpc' \notin {"push", "notify", "idle", "work", "destroy", "join", "exited"}
    BY <1>23, ContinueType DEF NotNow, RingTypeOK
  <2>2. rpc' = rpc \/ (rpc = "waiting" /\ rpc' = "pred") BY <1>23 DEF NotNow, Notify
  <2>3. UNCHANGED <<idle_written, idle_status, head, tail, thread_exited, in_order>>
    BY <1>23 DEF NotNow
  <2> QED BY <1>23, <2>1, <2>2, <2>3
<1>24. CASE CheckEmpty BY <1>24, <1>23 DEF CheckEmpty
<1>25. CASE CheckIdle
  <2>1. mpc = "idle" BY <1>25 DEF CheckIdle
  <2>2. CASE NotNow BY <2>1, <2>2, <1>23
  <2>3. CASE ~NotNow
    <3>1. idle_status /\ mpc' = "work" BY <1>25, <2>3 DEF CheckIdle
    <3>2. UNCHANGED <<ringVars, tail, thread_exited, in_order, idle_status>>
      BY <1>25, <2>3 DEF CheckIdle
    <3>3. tail = head /\ rpc # "woken" /\ ~thread_exited BY <2>1
    <3>4. in_order => rpc \notin {"pop", "run", "drained"} BY <3>1
    <3>5. in_order => rpc \in {"start", "check", "pred", "block", "waiting"} \cup {"exited"}
      BY <3>3, <3>4 DEF RingTypeOK, RingPc
    <3>6. rpc # "exited" BY <3>3
    <3> QED BY <3>1, <3>2, <3>3, <3>5, <3>6
  <2> QED BY <2>2, <2>3
<1>26. CASE WorkDone
  <2>1. mpc' \notin {"push", "notify", "idle", "work", "destroy", "join", "exited"}
    BY <1>26, ContinueType DEF WorkDone, RingTypeOK
  <2> QED BY <1>26, <2>1 DEF WorkDone
<1>27. CASE NoRestart BY <1>27 DEF NoRestart, Goto
<1>28. CASE RestartReady BY <1>28 DEF RestartReady, Seek, Goto
<1>29. CASE Shutdown BY <1>29 DEF Shutdown, Goto
<1>30. CASE NotifyExit BY <1>30 DEF NotifyExit, Goto, Notify
<1>31. CASE Join BY <1>31 DEF Join, Goto
<1>32. CASE UNCHANGED allVars BY <1>32 DEF allVars
<1> QED
  BY <1>1, <1>2, <1>3, <1>4, <1>5, <1>6, <1>7, <1>8, <1>9, <1>10, <1>11, <1>12, <1>13,
     <1>14, <1>15, <1>16, <1>17, <1>18, <1>19, <1>20, <1>21, <1>22, <1>24, <1>25, <1>26,
     <1>27, <1>28, <1>29, <1>30, <1>31, <1>32
  DEF RingNext, RingThread, MainThread, Dispatch, Terminated
-----------------------------------------------------------------------------
\* The inductive invariant of both threads.
LEMMA RingInvariant == RingSpec => []RingIInv
<1>1. RingInit => RingIInv BY RingInitIInv
<1>2. RingIInv /\ [RingNext]_allVars => RingIInv' BY RingTypeStep, FifoStep, FlagsStep DEF RingIInv
<1> QED BY <1>1, <1>2, PTL DEF RingSpec

\* RingBuffer::push and pop keep the batches in order, whatever the size of
\* the buffer and the memory order.
THEOREM RingFifo == RingSpec => [](RingTypeOK /\ Fifo)
<1>1. RingIInv => RingTypeOK /\ Fifo BY DEF RingIInv
<1> QED BY <1>1, RingInvariant, PTL

\* The IsEmpty-then-IsIdle check of processAnyTask and of the main loop
\* serialises the two threads, for every size of the buffer, as long as the
\* stores of the ring thread are seen in program order.
THEOREM RingSerialised == RingSpec => []Serialised
<1>1. RingIInv => Serialised
  <2> SUFFICES ASSUME RingIInv, in_order, mpc = "work" PROVE done = pushed /\ rpc # "run"
    BY DEF Serialised
  <2>1. tail = head /\ rpc # "run"
    BY DEF RingIInv, Flags, Checked, IsEmpty
  <2>2. Count = 0 /\ Taken = 0 BY <2>1 DEF Count, Taken, RingIInv, RingTypeOK, Slots
  <2>3. pushed = done + 0 + 0 BY <2>2 DEF RingIInv, Fifo
  <2> QED BY <2>1, <2>3 DEF RingIInv, RingTypeOK
<1> QED BY <1>1, RingInvariant, PTL

-----------------------------------------------------------------------------
(* ConsumerSync                                                            *)

USE NoValueAssumption, DepFieldAssumption, ConstraintAssumption,
    InputAssumption, ThresholdAssumption

\* The iterators of the drain stay inside the tasks of their key, and tasks
\* are on their way out of the cache only during the retry turn.
TurnOK ==
  /\ \A k \in Key : pos[k] <= Len(m_toSync[k]) /\ (pc # "drain" => pos[k] = 0)
  /\ pc # "retry" => retried = {}
  /\ retried \cap rc.m_toRetry = {}

CacheFinite == IsFiniteSet(rc.m_toRetry)

\* The inductive invariant behind SyncMapShape and CacheIndexed: a queued SET
\* and a parked task of one key exclude each other, so a key is parked at most
\* once, so taking the key out of the index never strands a second task.
IInv == TypeOK /\ CacheFinite /\ TurnOK /\ SyncMapShape /\ CacheIndexed
-----------------------------------------------------------------------------
(* Tasks and ranges                                                        *)

\* A sequence of one element.
LEMMA OneElement ==
  ASSUME NEW S, NEW u \in Seq(S), Len(u) = 1
  PROVE  u = <<u[1]>>
<1>1. u[1] \in S
  OBVIOUS
<1> DEFINE v == <<u[1]>>
<1>2. v \in Seq(S) /\ Len(v) = 1 /\ v[1] = u[1]
  BY <1>1
<1> HIDE DEF v
<1>3. \A i \in 1..Len(u) : u[i] = v[i]
  BY <1>2
<1>4. u = v
  BY <1>2, <1>3, SeqEqual
<1>5. QED BY <1>4 DEF v

\* Erasing from the at most two tasks of a key.
LEMMA RemoveAtTwo ==
  ASSUME NEW a, NEW b
  PROVE  /\ RemoveAt(<<a>>, 1) = <<>>
         /\ RemoveAt(<<a, b>>, 1) = <<b>>
         /\ RemoveAt(<<a, b>>, 2) = <<a>>
<1> DEFINE S == {a, b}
           s == <<a, b>>
<1>0. /\ \A m, n \in 1..2 : \A i \in m..n : s[i] \in S
      /\ s \in Seq(S) /\ Len(s) = 2 /\ <<b>> \in Seq(S) /\ <<a>> \in Seq(S)
  OBVIOUS
<1>1. SubSeq(s, 1, 0) = <<>> /\ SubSeq(s, 3, 2) = <<>>
  BY SubSeqEmpty
<1>2. /\ SubSeq(s, 2, 2) \in Seq(S) /\ Len(SubSeq(s, 2, 2)) = 1
      /\ SubSeq(s, 2, 2)[1] = b
  BY <1>0, SubSeqProperties
<1>3. /\ SubSeq(s, 1, 1) \in Seq(S) /\ Len(SubSeq(s, 1, 1)) = 1
      /\ SubSeq(s, 1, 1)[1] = a
  BY <1>0, SubSeqProperties
<1>4. SubSeq(s, 2, 2) = <<b>>
  BY <1>2, OneElement
<1>5. SubSeq(s, 1, 1) = <<a>>
  BY <1>3, OneElement
<1>6. RemoveAt(s, 1) = SubSeq(s, 1, 0) \o SubSeq(s, 2, 2)
  BY <1>0 DEF RemoveAt
<1>7. RemoveAt(s, 2) = SubSeq(s, 1, 1) \o SubSeq(s, 3, 2)
  BY <1>0 DEF RemoveAt
<1>8. RemoveAt(<<a>>, 1) = <<>>
  BY DEF RemoveAt
<1> HIDE DEF s, S
<1>9. RemoveAt(s, 1) = <<b>> /\ RemoveAt(s, 2) = <<a>>
  BY <1>0, <1>1, <1>4, <1>5, <1>6, <1>7, ConcatEmptySeq
<1>10. QED BY <1>8, <1>9 DEF s

\* A task of the model has an operation and a field-value list.
LEMMA TaskType ==
  ASSUME NEW t \in Task
  PROVE  /\ t.op \in {"SET", "DEL"} /\ t.fv \in FieldValues
         /\ t.op = "SET" => t = SetTask(t.fv)
         /\ t.op = "DEL" => t = DelTask
BY DEF Task, SetTask, DelTask, NoFields, FieldValues

\* Merging fields gives fields.
LEMMA MergeType ==
  ASSUME NEW old \in FieldValues, NEW new \in FieldValues
  PROVE  Merge(old, new) \in FieldValues
BY DEF Merge, FieldValues

\* DelTask is a task with operation DEL.
LEMMA DelTaskType == DelTask \in Task /\ DelTask.op = "DEL"
BY DEF Task, DelTask

\* SetTask is a task with operation SET that carries its fields.
LEMMA SetTaskType ==
  ASSUME NEW fv \in FieldValues
  PROVE  SetTask(fv) \in Task /\ SetTask(fv).op = "SET" /\ SetTask(fv).fv = fv
BY DEF Task, SetTask

\* Which positions of a range hold a SET.
LEMMA SetPositionsOf ==
  /\ SetPositions(<<>>) = {}
  /\ \A t \in Task : SetPositions(<<t>>) = IF t.op = "SET" THEN {1} ELSE {}
  /\ \A fv \in FieldValues : SetPositions(<<DelTask, SetTask(fv)>>) = {2}
<1>1. SetPositions(<<>>) = {}
  BY DEF SetPositions
<1>2. ASSUME NEW t \in Task
      PROVE  SetPositions(<<t>>) = IF t.op = "SET" THEN {1} ELSE {}
  <2>1. DOMAIN <<t>> = {1} /\ <<t>>[1] = t
    OBVIOUS
  <2>2. QED BY <2>1 DEF SetPositions
<1>3. ASSUME NEW fv \in FieldValues
      PROVE  SetPositions(<<DelTask, SetTask(fv)>>) = {2}
  <2> DEFINE q == <<DelTask, SetTask(fv)>>
  <2>1. DOMAIN q = {1, 2} /\ q[1] = DelTask /\ q[2] = SetTask(fv)
    OBVIOUS
  <2> HIDE DEF q
  <2>2. SetPositions(q) = {2}
    BY <2>1, DelTaskType, SetTaskType DEF SetPositions
  <2>3. QED BY <2>2 DEF q
<1>4. QED BY <1>1, <1>2, <1>3

\* What AddToRange returns, range by range.
LEMMA AddToRangeValue ==
  ASSUME NEW q, NEW task \in Task
  PROVE  /\ q = <<>> \/ task.op = "DEL" => AddToRange(q, task) = <<task>>
         /\ \A t \in Task : q = <<t>> /\ t.op = "DEL" /\ task.op = "SET"
              => AddToRange(q, task) = <<DelTask, task>>
         /\ \A t \in Task : q = <<t>> /\ t.op = "SET" /\ task.op = "SET"
              => AddToRange(q, task) = <<SetTask(Merge(t.fv, task.fv))>>
         /\ \A fv \in FieldValues : q = <<DelTask, SetTask(fv)>> /\ task.op = "SET"
              => AddToRange(q, task) = <<DelTask, SetTask(Merge(fv, task.fv))>>
<1>1. q = <<>> \/ task.op = "DEL" => AddToRange(q, task) = <<task>>
  BY DEF AddToRange
<1>2. ASSUME NEW t \in Task, q = <<t>>, t.op = "DEL", task.op = "SET"
      PROVE  AddToRange(q, task) = <<DelTask, task>>
  <2>1. SetPositions(q) = {} /\ q # <<>> /\ task.op # "DEL" /\ t = DelTask
    BY <1>2, SetPositionsOf, TaskType
  <2>2. AddToRange(q, task) = Append(q, task)
    BY <2>1 DEF AddToRange
  <2>3. QED BY <1>2, <2>1, <2>2
<1>3. ASSUME NEW t \in Task, q = <<t>>, t.op = "SET", task.op = "SET"
      PROVE  AddToRange(q, task) = <<SetTask(Merge(t.fv, task.fv))>>
  <2> DEFINE i == CHOOSE j \in SetPositions(q) : \A h \in SetPositions(q) : j <= h
  <2>1. SetPositions(q) = {1} /\ q # <<>> /\ task.op # "DEL" /\ q[1] = t
    BY <1>3, SetPositionsOf
  <2>2. i = 1
    BY <2>1
  <2>3. AddToRange(q, task) = [q EXCEPT ![i] = SetTask(Merge(q[i].fv, task.fv))]
    BY <2>1 DEF AddToRange
  <2> HIDE DEF i
  <2>4. [q EXCEPT ![1] = SetTask(Merge(t.fv, task.fv))] = <<SetTask(Merge(t.fv, task.fv))>>
    BY <1>3
  <2>5. QED BY <2>1, <2>2, <2>3, <2>4
<1>4. ASSUME NEW fv \in FieldValues, q = <<DelTask, SetTask(fv)>>, task.op = "SET"
      PROVE  AddToRange(q, task) = <<DelTask, SetTask(Merge(fv, task.fv))>>
  <2> DEFINE i == CHOOSE j \in SetPositions(q) : \A h \in SetPositions(q) : j <= h
  <2>1. SetPositions(q) = {2} /\ q # <<>> /\ task.op # "DEL" /\ q[2].fv = fv
    BY <1>4, SetPositionsOf, SetTaskType
  <2>2. i = 2
    BY <2>1
  <2>3. AddToRange(q, task) = [q EXCEPT ![i] = SetTask(Merge(q[i].fv, task.fv))]
    BY <2>1 DEF AddToRange
  <2> HIDE DEF i
  <2>4. [q EXCEPT ![2] = SetTask(Merge(fv, task.fv))] = <<DelTask, SetTask(Merge(fv, task.fv))>>
    BY <1>4
  <2>5. QED BY <2>1, <2>2, <2>3, <2>4
<1>5. QED BY <1>1, <1>2, <1>3, <1>4

\* A task added to a range leaves a range; a DEL leaves no SET in it.
LEMMA AddToRangeShape ==
  ASSUME NEW q, IsRange(q), NEW task \in Task
  PROVE  /\ IsRange(AddToRange(q, task))
         /\ task.op = "DEL" => SetPositions(AddToRange(q, task)) = {}
<1> DEFINE r == AddToRange(q, task)
<1>1. CASE q = <<>> \/ task.op = "DEL"
  <2>1. r = <<task>>
    BY <1>1, AddToRangeValue
  <2>2. QED BY <2>1, SetPositionsOf, TaskType DEF IsRange
<1>2. CASE q # <<>> /\ task.op = "SET"
  <2>0. task.fv \in FieldValues /\ task = SetTask(task.fv)
    BY <1>2, TaskType
  <2>1. CASE \E t \in Task : q = <<t>>
    <3>1. PICK t \in Task : q = <<t>>
      BY <2>1
    <3>2. CASE t.op = "DEL"
      <4>1. r = <<DelTask, SetTask(task.fv)>>
        BY <3>1, <3>2, <1>2, <2>0, AddToRangeValue
      <4>2. IsRange(r)
        BY <4>1, <2>0 DEF IsRange
      <4>3. QED BY <4>2, <1>2
    <3>3. CASE t.op = "SET"
      <4>1. r = <<SetTask(Merge(t.fv, task.fv))>>
        BY <3>1, <3>3, <1>2, AddToRangeValue
      <4>2. SetTask(Merge(t.fv, task.fv)) \in Task
        BY <2>0, TaskType, MergeType, SetTaskType
      <4>3. IsRange(r)
        BY <4>1, <4>2 DEF IsRange
      <4>4. QED BY <4>3, <1>2
    <3>4. QED BY <3>2, <3>3, TaskType
  <2>2. CASE \E fv \in FieldValues : q = <<DelTask, SetTask(fv)>>
    <3>1. PICK fv \in FieldValues : q = <<DelTask, SetTask(fv)>>
      BY <2>2
    <3>2. r = <<DelTask, SetTask(Merge(fv, task.fv))>>
      BY <3>1, <1>2, AddToRangeValue
    <3>3. IsRange(r)
      BY <3>2, <2>0, MergeType DEF IsRange
    <3>4. QED BY <3>3, <1>2
  <2>3. QED BY <1>2, <2>1, <2>2 DEF IsRange
<1>3. QED BY <1>1, <1>2, TaskType

\* What appending to an empty and to a one-element range gives.
LEMMA AppendTwo ==
  ASSUME NEW S, NEW a \in S, NEW b \in S
  PROVE  Append(<<>>, b) = <<b>> /\ Append(<<a>>, b) = <<a, b>>
<1>1. <<>> \in Seq(S) /\ <<a>> \in Seq(S)
  OBVIOUS
<1>2. Append(<<>>, b) = <<b>>
  BY <1>1, AppendIsConcat, ConcatEmptySeq
<1> DEFINE u == <<a, b>>
           v == Append(<<a>>, b)
<1>3. u \in Seq(S) /\ Len(u) = 2 /\ u[1] = a /\ u[2] = b
  OBVIOUS
<1>4. v \in Seq(S) /\ Len(v) = 2 /\ v[1] = a /\ v[2] = b
  BY <1>1, AppendProperties
<1> HIDE DEF u, v
<1>5. \A i \in 1..Len(v) : v[i] = u[i]
  BY <1>3, <1>4
<1>6. v = u
  BY <1>3, <1>4, <1>5, SeqEqual
<1>7. QED BY <1>2, <1>6 DEF u, v

\* A range without a SET takes one at its end.
LEMMA AppendSet ==
  ASSUME NEW q, IsRange(q), SetPositions(q) = {}, NEW fv \in FieldValues
  PROVE  /\ q = <<>> \/ q = <<DelTask>>
         /\ q = <<>> => Append(q, SetTask(fv)) = <<SetTask(fv)>>
         /\ q = <<DelTask>> => Append(q, SetTask(fv)) = <<DelTask, SetTask(fv)>>
         /\ IsRange(Append(q, SetTask(fv)))
<1>1. q = <<>> \/ q = <<DelTask>>
  <2>1. ASSUME NEW t \in Task, q = <<t>>
        PROVE  q = <<DelTask>>
    BY <2>1, SetPositionsOf, TaskType
  <2>2. \A f \in FieldValues : q # <<DelTask, SetTask(f)>>
    BY SetPositionsOf
  <2>3. QED BY <2>1, <2>2 DEF IsRange
<1>2. q = <<>> => Append(q, SetTask(fv)) = <<SetTask(fv)>>
  BY AppendTwo, SetTaskType, DelTaskType
<1>3. q = <<DelTask>> => Append(q, SetTask(fv)) = <<DelTask, SetTask(fv)>>
  BY AppendTwo, SetTaskType, DelTaskType
<1>4. QED BY <1>1, <1>2, <1>3, SetTaskType DEF IsRange

\* Erasing a task leaves a range, and no SET if the erased task was one.
LEMMA RemoveFromRange ==
  ASSUME NEW q, IsRange(q), NEW i \in 1..Len(q)
  PROVE  /\ IsRange(RemoveAt(q, i))
         /\ q[i] \in Task
         /\ q[i].op = "SET" => SetPositions(RemoveAt(q, i)) = {}
         /\ SetPositions(q) = {} => SetPositions(RemoveAt(q, i)) = {}
<1>1. CASE \E t \in Task : q = <<t>>
  <2>1. PICK t \in Task : q = <<t>>
    BY <1>1
  <2>2. i = 1 /\ q[i] = t
    BY <2>1
  <2>3. RemoveAt(q, i) = <<>>
    BY <2>1, <2>2, RemoveAtTwo
  <2>4. QED BY <2>2, <2>3, SetPositionsOf DEF IsRange
<1>2. CASE \E fv \in FieldValues : q = <<DelTask, SetTask(fv)>>
  <2>1. PICK fv \in FieldValues : q = <<DelTask, SetTask(fv)>>
    BY <1>2
  <2>2. i \in {1, 2} /\ q[1] = DelTask /\ q[2] = SetTask(fv)
    BY <2>1
  <2>3. RemoveAt(q, 1) = <<SetTask(fv)>> /\ RemoveAt(q, 2) = <<DelTask>>
    BY <2>1, RemoveAtTwo
  <2>4. SetPositions(q) # {} /\ SetPositions(<<DelTask>>) = {}
    BY <2>1, SetPositionsOf, DelTaskType
  <2>5. IsRange(<<SetTask(fv)>>) /\ IsRange(<<DelTask>>)
    BY SetTaskType, DelTaskType DEF IsRange
  <2>6. QED BY <2>2, <2>3, <2>4, <2>5, SetTaskType, DelTaskType
<1>3. q # <<>>
  OBVIOUS
<1>4. QED BY <1>1, <1>2, <1>3 DEF IsRange
-----------------------------------------------------------------------------
(* The retry cache                                                         *)

\* A well-formed cache: typed, finite, its index exact.
CacheOK(c) ==
  c \in RetryCaches /\ IsFiniteSet(c.m_toRetry) /\ IndexExact(c) /\ ResolvedAwaited(c)

\* insert() keeps the index exact.
LEMMA InsertOK ==
  ASSUME NEW c, CacheOK(c), NEW k \in Key, NEW task \in Task, NEW cst \in Constraint
  PROVE  CacheOK(Insert(c, k, task, cst))
<1> DEFINE f == [key |-> k, cst |-> cst, task |-> task]
           d == Insert(c, k, task, cst)
<1>1. /\ d.m_toRetry = c.m_toRetry \cup {f}
      /\ d.m_retryKeys = [c.m_retryKeys EXCEPT ![cst] = @ \cup {k}]
      /\ d.m_resolvedConstraints = c.m_resolvedConstraints
      /\ d \in RetryCaches
  BY DEF CacheOK, Insert, RetryCaches, FailedTask
<1>f. f.key = k /\ f.cst = cst
  OBVIOUS
<1> HIDE DEF f, d
<1>2. IsFiniteSet(d.m_toRetry)
  BY <1>1, FS_AddElement DEF CacheOK
<1>3. IndexExact(d)
  BY <1>1, <1>f DEF CacheOK, IndexExact, RetryCaches, FailedTask
<1>4. ResolvedAwaited(d)
  BY <1>1 DEF CacheOK, ResolvedAwaited, RetryCaches
<1>5. QED BY <1>1, <1>2, <1>3, <1>4 DEF CacheOK, d

\* evict() keeps the index exact when the evicted task is its key's only one.
LEMMA EvictOK ==
  ASSUME NEW c, CacheOK(c), NEW t \in c.m_toRetry,
         \A u \in c.m_toRetry : u.key = t.key => u = t
  PROVE  CacheOK(Evict(c, t)) /\ Evict(c, t).m_toRetry = c.m_toRetry \ {t}
<1> DEFINE d == Evict(c, t)
           keys == c.m_retryKeys[t.cst] \ {t.key}
<1>0. t.key \in Key /\ t.cst \in Constraint
  BY DEF CacheOK, RetryCaches, FailedTask
<1>1. /\ d.m_toRetry = c.m_toRetry \ {t}
      /\ d.m_retryKeys = [c.m_retryKeys EXCEPT ![t.cst] = keys]
      /\ d.m_resolvedConstraints = IF keys = {} THEN c.m_resolvedConstraints \ {t.cst}
                                   ELSE c.m_resolvedConstraints
      /\ d \in RetryCaches
  BY <1>0 DEF CacheOK, Evict, RetryCaches, ForgetIfUnused
<1>2. IsFiniteSet(d.m_toRetry)
  BY <1>1, FS_RemoveElement DEF CacheOK
<1>3. IndexExact(d)
  BY <1>0, <1>1 DEF CacheOK, IndexExact, RetryCaches
<1>4. ResolvedAwaited(d)
  BY <1>0, <1>1 DEF CacheOK, ResolvedAwaited, RetryCaches
<1>5. QED BY <1>1, <1>2, <1>3, <1>4 DEF CacheOK

\* resolve() keeps the index exact, whatever keys it takes.
LEMMA ResolveOK ==
  ASSUME NEW c, CacheOK(c), NEW cst \in Constraint, NEW K \in SUBSET Key
  PROVE  /\ CacheOK(Resolve(c, cst, K))
         /\ Resolve(c, cst, K).m_toRetry = c.m_toRetry \ Waiting(c, cst, K)
         /\ IsFiniteSet(Waiting(c, cst, K))
<1> DEFINE d == Resolve(c, cst, K)
           keys == c.m_retryKeys[cst] \ K
<1>1. /\ d.m_toRetry = c.m_toRetry \ Waiting(c, cst, K)
      /\ d.m_retryKeys = [c.m_retryKeys EXCEPT ![cst] = keys]
      /\ d.m_resolvedConstraints = IF keys = {} THEN c.m_resolvedConstraints \ {cst}
                                   ELSE c.m_resolvedConstraints
      /\ d \in RetryCaches
  BY DEF CacheOK, Resolve, RetryCaches, ForgetIfUnused
<1>2. IsFiniteSet(d.m_toRetry) /\ IsFiniteSet(Waiting(c, cst, K))
  BY <1>1, FS_Subset DEF CacheOK, Waiting
<1>3. IndexExact(d)
  BY <1>1 DEF CacheOK, IndexExact, RetryCaches, Waiting
<1>4. ResolvedAwaited(d)
  BY <1>1 DEF CacheOK, ResolvedAwaited, RetryCaches
<1>5. QED BY <1>1, <1>2, <1>3, <1>4 DEF CacheOK

\* mark_resolved() records only constraints somebody waits for.
LEMMA MarkResolvedOK ==
  ASSUME NEW c, CacheOK(c), NEW cst \in Constraint
  PROVE  CacheOK(MarkResolved(c, cst)) /\ MarkResolved(c, cst).m_toRetry = c.m_toRetry
BY DEF CacheOK, MarkResolved, RetryCaches, IndexExact, ResolvedAwaited
-----------------------------------------------------------------------------
(* addToSync                                                               *)

LEMMA RangeType ==
  ASSUME NEW q, IsRange(q)
  PROVE  q \in Seq(Task)
<1>1. <<>> \in Seq(Task) /\ \A t \in Task : <<t>> \in Seq(Task)
  OBVIOUS
<1>2. \A t, u \in Task : <<t, u>> \in Seq(Task)
  OBVIOUS
<1>3. QED BY <1>1, <1>2, DelTaskType, SetTaskType DEF IsRange

\* Outside the retry turn, what is parked for a key is what is cached.
LEMMA ParkedIsCached ==
  ASSUME retried = {}, NEW k
  PROVE  Parked(k) = Cached(rc, k)
BY DEF Parked, Cached

\* addToSync when nothing, or one SET, is cached for the key.
LEMMA AddToSyncValue ==
  ASSUME IInv, retried = {}, NEW key \in Key, NEW task \in Task, AddToSync(key, task)
  PROVE  \/ /\ rc' = rc /\ m_toSync' = m_toSync
            /\ \E t \in Cached(rc, key) : t.task = task
         \/ /\ Cached(rc, key) = {} /\ rc' = rc
            /\ m_toSync' = [m_toSync EXCEPT ![key] = AddToRange(m_toSync[key], task)]
         \/ \E t \in rc.m_toRetry :
              /\ Cached(rc, key) = {t} /\ t.task.op = "SET" /\ t.key = key
              /\ SetPositions(m_toSync[key]) = {}
              /\ rc' = Evict(rc, t)
              /\ m_toSync' = [m_toSync EXCEPT ![key] =
                   AddToRange(IF task.op = "DEL" THEN m_toSync[key]
                              ELSE Append(m_toSync[key], t.task), task)]
<1>0. \A t, u \in Cached(rc, key) :
        t = u /\ t.task.op = "SET" /\ SetPositions(m_toSync[key]) = {}
  BY ParkedIsCached DEF IInv, SyncMapShape
<1>1. PICK sameOrder \in BOOLEAN :
        IF IsDuplicate(task, key, sameOrder)
        THEN UNCHANGED <<m_toSync, rc>>
        ELSE /\ rc' = RetryCacheAfter(key)
             /\ m_toSync' = IF ReusesParkedDel(task, key) THEN m_toSync
                            ELSE [m_toSync EXCEPT ![key] =
                                    AddToRange(RangeBeforeMerge(task, key), task)]
  BY DEF AddToSync
<1>2. CASE IsDuplicate(task, key, sameOrder)
  BY <1>1, <1>2 DEF IsDuplicate
<1>3. CASE ~IsDuplicate(task, key, sameOrder) /\ Cached(rc, key) = {}
  <2>1. Cardinality(Cached(rc, key)) = 0 /\ CachedSets(rc, key) = {}
    BY <1>3, FS_EmptySet DEF CachedSets
  <2>2. /\ ~ReusesParkedDel(task, key)
        /\ RangeBeforeMerge(task, key) = m_toSync[key]
        /\ RetryCacheAfter(key) = rc
    BY <2>1 DEF ReusesParkedDel, RangeBeforeMerge, RetryCacheAfter
  <2>3. QED BY <1>1, <1>3, <2>2
<1>4. CASE ~IsDuplicate(task, key, sameOrder) /\ Cached(rc, key) # {}
  <2>1. PICK t \in Cached(rc, key) : TRUE
    BY <1>4
  <2>2. Cached(rc, key) = {t} /\ CachedSets(rc, key) = {t}
    BY <2>1, <1>0 DEF CachedSets
  <2>3. Cardinality(Cached(rc, key)) = 1
    BY <2>2, FS_Singleton
  <2>4. (CHOOSE u \in CachedSets(rc, key) : TRUE) = t
    BY <2>2
  <2>5. /\ ~ReusesParkedDel(task, key)
        /\ RangeBeforeMerge(task, key) = IF task.op = "DEL" THEN m_toSync[key]
                                         ELSE Append(m_toSync[key], t.task)
        /\ RetryCacheAfter(key) = Evict(rc, t)
    BY <2>2, <2>3, <2>4 DEF ReusesParkedDel, RangeBeforeMerge, RetryCacheAfter
  <2>6. t \in rc.m_toRetry /\ t.key = key
    BY <2>1 DEF Cached
  <2>7. QED BY <1>0, <1>1, <1>4, <2>2, <2>5, <2>6
<1>5. QED BY <1>2, <1>3, <1>4

\* addToSync keeps the SyncMap in shape and the cache well formed.
LEMMA AddToSyncStep ==
  ASSUME IInv, retried = {}, NEW key \in Key, NEW task \in Task,
         AddToSync(key, task), retried' = retried
  PROVE  /\ CacheOK(rc')
         /\ m_toSync' \in [Key -> Seq(Task)]
         /\ SyncMapShape'
<1>0. /\ CacheOK(rc) /\ m_toSync \in [Key -> Seq(Task)]
      /\ \A k \in Key : IsRange(m_toSync[k])
  BY DEF IInv, TypeOK, CacheFinite, CacheIndexed, CacheOK, SyncMapShape
<1>1. CASE rc' = rc /\ m_toSync' = m_toSync
  BY <1>0, <1>1 DEF IInv, SyncMapShape, Parked
<1>2. CASE /\ Cached(rc, key) = {} /\ rc' = rc
           /\ m_toSync' = [m_toSync EXCEPT ![key] = AddToRange(m_toSync[key], task)]
  <2>1. IsRange(AddToRange(m_toSync[key], task))
    BY <1>0, AddToRangeShape
  <2>2. AddToRange(m_toSync[key], task) \in Seq(Task)
    BY <2>1, RangeType
  <2>3. Parked(key) = {}
    BY <1>2, ParkedIsCached
  <2>4. SyncMapShape'
    BY <1>0, <1>2, <2>1, <2>3 DEF IInv, SyncMapShape, Parked
  <2>5. QED BY <1>0, <1>2, <2>2, <2>4
<1>3. ASSUME NEW t \in rc.m_toRetry,
             Cached(rc, key) = {t}, t.task.op = "SET", t.key = key,
             SetPositions(m_toSync[key]) = {},
             rc' = Evict(rc, t),
             m_toSync' = [m_toSync EXCEPT ![key] =
                   AddToRange(IF task.op = "DEL" THEN m_toSync[key]
                              ELSE Append(m_toSync[key], t.task), task)]
      PROVE  CacheOK(rc') /\ m_toSync' \in [Key -> Seq(Task)] /\ SyncMapShape'
  <2> DEFINE q == IF task.op = "DEL" THEN m_toSync[key] ELSE Append(m_toSync[key], t.task)
  <2>1. t.task \in Task /\ t.task = SetTask(t.task.fv) /\ t.task.fv \in FieldValues
    BY <1>0, <1>3, TaskType DEF CacheOK, RetryCaches, FailedTask
  <2>2. IsRange(q)
    BY <1>0, <1>3, <2>1, AppendSet
  <2>3. IsRange(AddToRange(q, task)) /\ AddToRange(q, task) \in Seq(Task)
    BY <2>2, AddToRangeShape, RangeType
  <2>4. \A u \in rc.m_toRetry : u.key = t.key => u = t
    BY <1>3 DEF Cached
  <2>5. CacheOK(rc') /\ rc'.m_toRetry = rc.m_toRetry \ {t}
    BY <1>0, <1>3, <2>4, EvictOK
  <2> HIDE DEF q
  <2>6. SyncMapShape'
    <3> SUFFICES ASSUME NEW k \in Key
                 PROVE  /\ IsRange(m_toSync'[k])
                        /\ \A u \in Parked(k)' : u.task.op = "SET" /\ SetPositions(m_toSync'[k]) = {}
                        /\ \A u, v \in Parked(k)' : u = v
      BY DEF SyncMapShape
    <3>1. Parked(key)' = {}
      BY <2>4, <2>5, <1>3 DEF Parked
    <3>2. Parked(k)' \subseteq Parked(k)
      BY <2>5 DEF Parked
    <3>3. m_toSync'[key] = AddToRange(q, task) /\ (k # key => m_toSync'[k] = m_toSync[k])
      BY <1>0, <1>3 DEF q
    <3>4. CASE k = key
      BY <3>1, <3>3, <3>4, <2>3
    <3>5. CASE k # key
      BY <3>2, <3>3, <3>5 DEF IInv, SyncMapShape
    <3>6. QED BY <3>4, <3>5
  <2>7. m_toSync' \in [Key -> Seq(Task)]
    BY <1>0, <1>3, <2>3 DEF q
  <2>8. QED BY <2>5, <2>6, <2>7
<1>4. QED BY <1>1, <1>2, <1>3, AddToSyncValue
-----------------------------------------------------------------------------
(* The invariant                                                           *)

LEMMA ApplyType ==
  ASSUME NEW e \in Entries, NEW task \in Task
  PROVE  Apply(e, task) \in Entries
<1>1. e.fv \in FieldValues /\ NoFields \in FieldValues /\ task.fv \in FieldValues
  BY TaskType DEF Entries, NoEntry, Entry, FieldValues, NoFields
<1>2. QED BY <1>1, MergeType DEF Apply, Entries, Entry

\* The initial state satisfies the invariant.
LEMMA InitInv == Init => IInv
<1> SUFFICES ASSUME Init PROVE IInv
  OBVIOUS
<1>1. TypeOK
  BY DEF Init, TypeOK, EmptyRetryCache, RetryCaches, Entries, NoEntry
<1>2. CacheFinite /\ CacheIndexed
  BY FS_EmptySet DEF Init, CacheFinite, CacheIndexed, EmptyRetryCache, IndexExact, ResolvedAwaited
<1>3. TurnOK
  BY DEF Init, TurnOK, EmptyRetryCache
<1>4. SyncMapShape
  BY DEF Init, SyncMapShape, IsRange, Parked, EmptyRetryCache
<1>5. QED BY <1>1, <1>2, <1>3, <1>4 DEF IInv

\* Pops and RefillToSync: an entry is taken in, the drain has not begun.
LEMMA IntakeInv ==
  ASSUME IInv, pc \in {"idle", "pops"}, NEW key \in Key, NEW task \in Task,
         AddToSync(key, task), pc' = "pops", intent' \in [Key -> Entries],
         due' \in [Key -> Entries],
         UNCHANGED <<retried, count, pos, met, applied>>
  PROVE  IInv'
<1>1. retried = {} /\ retried' = retried
  BY DEF IInv, TurnOK
<1>2. CacheOK(rc') /\ m_toSync' \in [Key -> Seq(Task)] /\ SyncMapShape'
  BY <1>1, AddToSyncStep
<1>3. TypeOK'
  BY <1>2 DEF IInv, TypeOK, CacheOK
<1>4. TurnOK'
  <2>1. \A k \in Key : pos'[k] = 0 /\ Len(m_toSync'[k]) \in Nat
    BY <1>2 DEF IInv, TurnOK
  <2>2. QED BY <1>1, <2>1 DEF TurnOK
<1>5. QED BY <1>2, <1>3, <1>4 DEF IInv, CacheOK, CacheFinite, CacheIndexed

\* The handler is done with the task under k's iterator.
LEMMA EraseTaskInv ==
  ASSUME IInv, NEW k \in Key, AtTask(k), EraseTask(k)
  PROVE  /\ CurrentTask(k) \in Task
         /\ m_toSync' = [m_toSync EXCEPT ![k] = RemoveAt(m_toSync[k], pos[k])]
         /\ IsRange(RemoveAt(m_toSync[k], pos[k]))
         /\ m_toSync' \in [Key -> Seq(Task)]
         /\ pos' \in [Key -> Nat]
         /\ \A j \in Key : pos'[j] <= Len(m_toSync'[j])
         /\ CurrentTask(k).op = "SET" => SetPositions(m_toSync'[k]) = {}
         /\ SetPositions(m_toSync[k]) = {} => SetPositions(m_toSync'[k]) = {}
<1> DEFINE r == RemoveAt(m_toSync[k], pos[k])
<1>0. IsRange(m_toSync[k]) /\ m_toSync[k] \in Seq(Task) /\ pos[k] \in 1..Len(m_toSync[k])
  BY DEF IInv, TypeOK, TurnOK, SyncMapShape, AtTask
<1>1. /\ IsRange(r) /\ CurrentTask(k) \in Task
      /\ CurrentTask(k).op = "SET" => SetPositions(r) = {}
      /\ SetPositions(m_toSync[k]) = {} => SetPositions(r) = {}
  BY <1>0, RemoveFromRange DEF CurrentTask
<1>2. r \in Seq(Task)
  BY <1>1, RangeType
<1>3. m_toSync' = [m_toSync EXCEPT ![k] = r] /\ pos' = [pos EXCEPT ![k] = NextPos(r, pos[k])]
  BY DEF EraseTask
<1> HIDE DEF r
<1>4. NextPos(r, pos[k]) \in Nat /\ NextPos(r, pos[k]) <= Len(r)
  BY <1>0, <1>2 DEF NextPos
<1>5. m_toSync' \in [Key -> Seq(Task)] /\ pos' \in [Key -> Nat] /\ m_toSync'[k] = r
  BY <1>2, <1>3, <1>4 DEF IInv, TypeOK
<1>6. \A j \in Key : pos'[j] <= Len(m_toSync'[j])
  BY <1>3, <1>4, <1>5 DEF IInv, TypeOK, TurnOK
<1>7. QED BY <1>1, <1>3, <1>5, <1>6 DEF r

\* Every step of the consumer and of the orchs around it keeps IInv.
LEMMA NextInv == IInv /\ [Next]_vars => IInv'
<1> SUFFICES ASSUME IInv, [Next]_vars PROVE IInv'
  OBVIOUS
<1>0. CacheOK(rc)
  BY DEF IInv, TypeOK, CacheFinite, CacheIndexed, CacheOK
<1>1. ASSUME NEW k \in Key, NEW task \in Task, Pops(k, task)
      PROVE  IInv'
  <2>1. intent' \in [Key -> Entries] /\ due' \in [Key -> Entries]
    BY <1>1, ApplyType DEF Pops, IInv, TypeOK
  <2>2. QED BY <1>1, <2>1, IntakeInv DEF Pops
<1>2. ASSUME NEW k \in Key, RefillToSync(k)
      PROVE  IInv'
  <2>1. intent[k].fv \in FieldValues
    BY DEF IInv, TypeOK, Entries, NoEntry, Entry, NoFields, FieldValues
  <2>2. intent' \in [Key -> Entries] /\ SetTask(intent[k].fv) \in Task
    BY <1>2, <2>1, SetTaskType DEF RefillToSync, IInv, TypeOK
  <2>3. due' \in [Key -> Entries]
    BY <1>2, <2>2, ApplyType DEF RefillToSync, IInv, TypeOK
  <2>4. QED BY <1>2, <2>2, <2>3, IntakeInv DEF RefillToSync
<1>3. CASE StartDrain
  <2>1. \A k \in Key : m_toSync[k] # <<>> => Len(m_toSync[k]) >= 1
    BY DEF IInv, TypeOK
  <2>2. TypeOK'
    BY <1>3 DEF StartDrain, IInv, TypeOK
  <2>3. TurnOK'
    BY <1>3, <2>1 DEF StartDrain, IInv, TypeOK, TurnOK
  <2>4. QED
    BY <1>3, <2>2, <2>3 DEF StartDrain, IInv, CacheFinite, SyncMapShape, CacheIndexed, Parked
<1>4. CASE DoTask
  <2>1. TypeOK' /\ TurnOK'
    BY <1>4 DEF DoTask, IInv, TypeOK, TurnOK
  <2>2. QED
    BY <1>4, <2>1 DEF DoTask, IInv, CacheFinite, SyncMapShape, CacheIndexed, Parked
<1>5. ASSUME NEW c \in Constraint, RetryToSync(c)
      PROVE  IInv'
  <2>1. PICK K \in SUBSET rc.m_retryKeys[c] :
          /\ rc' = Resolve(rc, c, K)
          /\ retried' = Waiting(rc, c, K)
          /\ count' = count + Cardinality(Waiting(rc, c, K))
    BY <1>5 DEF RetryToSync, ResolveChoices
  <2>2. K \in SUBSET Key
    BY <1>0 DEF CacheOK, RetryCaches
  <2>3. /\ CacheOK(rc') /\ rc'.m_toRetry = rc.m_toRetry \ Waiting(rc, c, K)
        /\ IsFiniteSet(Waiting(rc, c, K))
    BY <1>0, <2>1, <2>2, ResolveOK
  <2>4. count' \in Nat
    BY <2>1, <2>3, FS_CardinalityType DEF IInv, TypeOK
  <2>5. retried = {} /\ UNCHANGED <<m_toSync, pos, pc, met, applied, intent, due>>
    BY <1>5 DEF RetryToSync
  <2>6. Waiting(rc, c, K) \subseteq rc.m_toRetry /\ rc.m_toRetry \subseteq FailedTask
    BY <1>0 DEF Waiting, CacheOK, RetryCaches
  <2>7. TypeOK'
    BY <2>1, <2>3, <2>4, <2>5, <2>6 DEF IInv, TypeOK, CacheOK
  <2>8. TurnOK'
    BY <1>5, <2>1, <2>3, <2>5 DEF IInv, TurnOK, RetryToSync
  <2>9. \A k \in Key : Parked(k)' = Parked(k)
    BY <2>1, <2>3, <2>5, <2>6 DEF Parked
  <2>10. SyncMapShape'
    BY <2>5, <2>9 DEF IInv, SyncMapShape
  <2>11. QED BY <2>3, <2>7, <2>8, <2>10 DEF IInv, CacheOK, CacheFinite, CacheIndexed
<1>6. ASSUME NEW t \in retried, ReAdd(t)
      PROVE  IInv'
  <2>1. t.key \in Key /\ t.task \in Task
    BY DEF IInv, TypeOK, FailedTask
  <2> DEFINE q == AddToRange(m_toSync[t.key], t.task)
  <2>2. IsRange(q) /\ q \in Seq(Task)
    BY <2>1, AddToRangeShape, RangeType DEF IInv, SyncMapShape
  <2>3. /\ m_toSync' = [m_toSync EXCEPT ![t.key] = q] /\ retried' = retried \ {t}
        /\ pc = "retry" /\ UNCHANGED <<rc, count, pos, pc, met, applied, intent, due>>
    BY <1>6 DEF ReAdd
  <2> HIDE DEF q
  <2>4. TypeOK'
    BY <2>1, <2>2, <2>3 DEF IInv, TypeOK
  <2>5. TurnOK'
    <3>1. \A k \in Key : pos'[k] = 0 /\ Len(m_toSync'[k]) \in Nat
      BY <2>3, <2>4 DEF IInv, TurnOK, TypeOK
    <3>2. QED BY <2>3, <3>1 DEF IInv, TurnOK
  <2>6. SyncMapShape'
    <3> SUFFICES ASSUME NEW k \in Key
                 PROVE  /\ IsRange(m_toSync'[k])
                        /\ \A u \in Parked(k)' : u.task.op = "SET" /\ SetPositions(m_toSync'[k]) = {}
                        /\ \A u, v \in Parked(k)' : u = v
      BY DEF SyncMapShape
    <3>1. CASE k # t.key
      <4>1. m_toSync'[k] = m_toSync[k] /\ Parked(k)' \subseteq Parked(k)
        BY <2>3, <3>1 DEF Parked, IInv, TypeOK
      <4>2. QED BY <4>1 DEF IInv, SyncMapShape
    <3>2. CASE k = t.key
      <4>1. m_toSync'[k] = q
        BY <2>1, <2>3, <3>2 DEF IInv, TypeOK
      <4>2. CASE t \notin rc.m_toRetry
        <5>1. t \in Parked(k) /\ \A u \in Parked(k) : u = t
          BY <3>2 DEF Parked, IInv, SyncMapShape
        <5>2. Parked(k)' = {}
          BY <2>3, <4>2, <5>1 DEF Parked
        <5>3. QED BY <2>2, <4>1, <5>2
      <4>3. CASE t \in rc.m_toRetry
        BY <4>3 DEF IInv, TurnOK
      <4>4. QED BY <4>2, <4>3
    <3>3. QED BY <3>1, <3>2
  <2>7. QED
    BY <2>3, <2>4, <2>5, <2>6 DEF IInv, CacheFinite, CacheIndexed
<1>7. ASSUME NEW k \in Key, TaskSuccess(k)
      PROVE  IInv'
  <2>1. AtTask(k) /\ EraseTask(k) /\ UNCHANGED <<rc, retried, count, pc, met, intent>>
    BY <1>7 DEF TaskSuccess
  <2>2. applied' \in [Key -> Entries] /\ due' \in [Key -> Entries]
    <3>1. applied' \in [Key -> Entries]
      BY <1>7, <2>1, EraseTaskInv, ApplyType DEF TaskSuccess, IInv, TypeOK
    <3>2. NoEntry \in Entries /\ due \in [Key -> Entries]
      BY DEF Entries, IInv, TypeOK
    <3>3. due' \in [Key -> Entries]
      BY <1>7, <3>2 DEF TaskSuccess
    <3>4. QED BY <3>1, <3>3
  <2>3. TypeOK' /\ TurnOK'
    BY <2>1, <2>2, EraseTaskInv DEF IInv, TypeOK, TurnOK, AtTask
  <2>4. SyncMapShape'
    <3>1. \A j \in Key : Parked(j)' = Parked(j)
      BY <2>1 DEF Parked
    <3>2. \A j \in Key \ {k} : m_toSync'[j] = m_toSync[j]
      BY <2>1, EraseTaskInv DEF IInv, TypeOK
    <3>3. /\ IsRange(m_toSync'[k])
          /\ SetPositions(m_toSync[k]) = {} => SetPositions(m_toSync'[k]) = {}
      BY <2>1, EraseTaskInv DEF IInv, TypeOK
    <3>4. QED BY <3>1, <3>2, <3>3 DEF IInv, SyncMapShape
  <2>5. QED BY <2>1, <2>3, <2>4 DEF IInv, CacheFinite, CacheIndexed
<1>8. ASSUME NEW k \in Key, TaskCached(k)
      PROVE  IInv'
  <2> DEFINE t == CurrentTask(k)
             c == t.fv[DepField]
             f == [key |-> k, cst |-> c, task |-> t]
  <2>1. /\ AtTask(k) /\ EraseTask(k) /\ UNCHANGED <<retried, count, pc, met, applied, intent, due>>
        /\ Blocked(t) /\ rc' = Insert(rc, k, t, c)
    BY <1>8 DEF TaskCached
  <2>2. t \in Task /\ t.op = "SET" /\ c \in Constraint
    BY <2>1, EraseTaskInv, TaskType DEF Blocked, FieldValues
  <2>3. CacheOK(rc') /\ rc'.m_toRetry = rc.m_toRetry \cup {f}
    BY <1>0, <2>1, <2>2, InsertOK DEF Insert
  <2>f. f.key = k /\ f.task = t
    OBVIOUS
  <2>4. SetPositions(m_toSync'[k]) = {} /\ SetPositions(m_toSync[k]) # {}
    BY <2>1, <2>2, EraseTaskInv DEF SetPositions, CurrentTask, IInv, TypeOK, TurnOK, AtTask
  <2> HIDE DEF t, c, f
  <2>5. TypeOK'
    BY <2>1, <2>3, EraseTaskInv DEF IInv, TypeOK, CacheOK
  <2>6. TurnOK'
    BY <2>1, <2>5, EraseTaskInv DEF IInv, TurnOK, AtTask
  <2>7. SyncMapShape'
    <3> SUFFICES ASSUME NEW j \in Key
                 PROVE  /\ IsRange(m_toSync'[j])
                        /\ \A u \in Parked(j)' : u.task.op = "SET" /\ SetPositions(m_toSync'[j]) = {}
                        /\ \A u, v \in Parked(j)' : u = v
      BY DEF SyncMapShape
    <3>1. CASE j # k
      <4>1. Parked(j)' = Parked(j) /\ m_toSync'[j] = m_toSync[j]
        BY <2>1, <2>3, <2>f, <3>1, EraseTaskInv DEF Parked, IInv, TypeOK
      <4>2. QED BY <4>1 DEF IInv, SyncMapShape
    <3>2. CASE j = k
      <4>1. Parked(k) = {}
        BY <2>4 DEF IInv, SyncMapShape
      <4>2. Parked(k)' = {f}
        BY <2>1, <2>3, <2>f, <4>1 DEF Parked
      <4>3. IsRange(m_toSync'[k])
        BY <2>1, EraseTaskInv DEF IInv, TypeOK
      <4>4. QED BY <2>2, <2>4, <2>f, <3>2, <4>2, <4>3
    <3>3. QED BY <3>1, <3>2
  <2>8. QED BY <2>3, <2>5, <2>6, <2>7 DEF IInv, CacheOK, CacheFinite, CacheIndexed
<1>9. ASSUME NEW k \in Key, TaskNeedRetry(k)
      PROVE  IInv'
  <2>1. TypeOK' /\ TurnOK'
    BY <1>9 DEF TaskNeedRetry, IInv, TypeOK, TurnOK, NextPos, AtTask
  <2>2. QED
    BY <1>9, <2>1 DEF TaskNeedRetry, IInv, CacheFinite, SyncMapShape, CacheIndexed, Parked
<1>10. CASE EndDrain
  <2>1. TypeOK' /\ TurnOK'
    BY <1>10 DEF EndDrain, IInv, TypeOK, TurnOK
  <2>2. QED
    BY <1>10, <2>1 DEF EndDrain, IInv, CacheFinite, SyncMapShape, CacheIndexed, Parked
<1>11. ASSUME NEW c \in Constraint, NotifyRetry(c)
       PROVE  IInv'
  <2>1. CacheOK(rc') /\ rc'.m_toRetry = rc.m_toRetry
    BY <1>0, <1>11, MarkResolvedOK DEF NotifyRetry
  <2>2. TypeOK' /\ TurnOK'
    BY <1>11, <2>1 DEF NotifyRetry, IInv, TypeOK, TurnOK, CacheOK
  <2>3. SyncMapShape'
    BY <1>11, <2>1 DEF NotifyRetry, IInv, SyncMapShape, Parked
  <2>4. QED BY <2>1, <2>2, <2>3 DEF IInv, CacheOK, CacheFinite, CacheIndexed
<1>12. ASSUME NEW c \in Constraint, ObjectRemoved(c)
       PROVE  IInv'
  <2>1. TypeOK' /\ TurnOK'
    BY <1>12 DEF ObjectRemoved, IInv, TypeOK, TurnOK
  <2>2. QED
    BY <1>12, <2>1 DEF ObjectRemoved, IInv, CacheFinite, SyncMapShape, CacheIndexed, Parked
<1>13. CASE UNCHANGED vars
  BY <1>13 DEF vars, IInv, TypeOK, CacheFinite, TurnOK, SyncMapShape, CacheIndexed, Parked
<1>14. \A fv \in InputFVs : SetTask(fv) \in Task
  BY SetTaskType
<1>15. QED
  BY <1>1, <1>2, <1>3, <1>4, <1>5, <1>6, <1>7, <1>8, <1>9, <1>10, <1>11, <1>12, <1>13,
     <1>14, DelTaskType DEF Next, Input

\* For every instance, the consumer's state keeps its types; its SyncMap its
\* shape (at most a DEL and then a SET per key, never a queued SET beside a
\* parked one); and its retry cache an exact index, whatever sequence of
\* addToSync, addToRetry, evict, resolve and mark_resolved the main loop runs.
THEOREM ConsumerSyncInvariants == Spec => [](TypeOK /\ SyncMapShape /\ CacheIndexed)
<1>1. Init => IInv
  BY InitInv
<1>2. IInv /\ [Next]_vars => IInv'
  BY NextInv
<1>3. IInv => TypeOK /\ SyncMapShape /\ CacheIndexed
  BY DEF IInv
<1>4. QED BY <1>1, <1>2, <1>3, PTL DEF Spec
-----------------------------------------------------------------------------
(* No resolution is lost                                                   *)

\* A constraint is dropped from the resolved ones only when nothing waits for
\* it any more.
LEMMA ResolvedKept ==
  ASSUME NEW c, CacheOK(c), NEW d, CacheOK(d),
         d.m_toRetry \subseteq c.m_toRetry,
         \A x \in c.m_resolvedConstraints : d.m_retryKeys[x] # {} => x \in d.m_resolvedConstraints,
         NEW t \in d.m_toRetry, t.cst \in c.m_resolvedConstraints
  PROVE  t.cst \in d.m_resolvedConstraints
<1>1. t.key \in Key /\ t.cst \in Constraint
  BY DEF CacheOK, RetryCaches, FailedTask
<1>2. t.key \in d.m_retryKeys[t.cst]
  BY <1>1 DEF CacheOK, IndexExact
<1>3. QED BY <1>2

\* Evicting a task keeps the resolutions its constraint still has tasks for.
LEMMA EvictResolved ==
  ASSUME NEW c, CacheOK(c), NEW t \in c.m_toRetry
  PROVE  \A x \in c.m_resolvedConstraints :
           Evict(c, t).m_retryKeys[x] # {} => x \in Evict(c, t).m_resolvedConstraints
BY DEF Evict, CacheOK, RetryCaches, FailedTask, ForgetIfUnused

\* Taking tasks out of the cache keeps the resolutions others wait for.
LEMMA ResolveResolved ==
  ASSUME NEW c, CacheOK(c), NEW cst \in Constraint, NEW K
  PROVE  \A x \in c.m_resolvedConstraints :
           Resolve(c, cst, K).m_retryKeys[x] # {} => x \in Resolve(c, cst, K).m_resolvedConstraints
BY DEF Resolve, CacheOK, RetryCaches, ForgetIfUnused

\* Each step keeps NoLostResolution; IInv supplies the exact index.
LEMMA NextResolution == IInv /\ IInv' /\ NoLostResolution /\ [Next]_vars => NoLostResolution'
<1> SUFFICES ASSUME IInv, IInv', NoLostResolution, [Next]_vars PROVE NoLostResolution'
  OBVIOUS
<1>0. CacheOK(rc) /\ CacheOK(rc')
  BY DEF IInv, TypeOK, CacheFinite, CacheIndexed, CacheOK
<1>1. ASSUME NEW k \in Key, NEW task \in Task, AddToSync(k, task),
             pc \in {"idle", "pops"}, UNCHANGED met
      PROVE  NoLostResolution'
  <2>1. retried = {}
    BY <1>1 DEF IInv, TurnOK
  <2>2. CASE rc' = rc
    BY <1>1, <2>2 DEF NoLostResolution
  <2>3. ASSUME NEW t \in rc.m_toRetry, rc' = Evict(rc, t)
        PROVE  NoLostResolution'
    <3>1. rc'.m_toRetry \subseteq rc.m_toRetry
      BY <2>3 DEF Evict
    <3>2. \A x \in rc.m_resolvedConstraints : rc'.m_retryKeys[x] # {} => x \in rc'.m_resolvedConstraints
      BY <1>0, <2>3, EvictResolved
    <3>3. QED BY <1>0, <1>1, <3>1, <3>2, ResolvedKept DEF NoLostResolution
  <2>4. QED BY <1>1, <2>1, <2>2, <2>3, AddToSyncValue
<1>2. ASSUME NEW c \in Constraint, RetryToSync(c)
      PROVE  NoLostResolution'
  <2>1. PICK K : rc' = Resolve(rc, c, K)
    BY <1>2 DEF RetryToSync
  <2>2. rc'.m_toRetry \subseteq rc.m_toRetry /\ met' = met
    BY <1>2, <2>1 DEF Resolve, RetryToSync
  <2>3. \A x \in rc.m_resolvedConstraints : rc'.m_retryKeys[x] # {} => x \in rc'.m_resolvedConstraints
    BY <1>0, <2>1, ResolveResolved
  <2>4. QED BY <1>0, <2>2, <2>3, ResolvedKept DEF NoLostResolution
<1>3. ASSUME NEW k \in Key, TaskCached(k)
      PROVE  NoLostResolution'
  <2> DEFINE c == CurrentTask(k).fv[DepField]
             f == [key |-> k, cst |-> c, task |-> CurrentTask(k)]
  <2>1. /\ c \notin met /\ met' = met
        /\ rc'.m_toRetry = rc.m_toRetry \cup {f}
        /\ rc'.m_resolvedConstraints = rc.m_resolvedConstraints
    BY <1>3 DEF TaskCached, Blocked, Insert
  <2>2. f.cst = c
    OBVIOUS
  <2> HIDE DEF c, f
  <2>3. QED BY <2>1, <2>2 DEF NoLostResolution
<1>4. ASSUME NEW c \in Constraint, NotifyRetry(c)
      PROVE  NoLostResolution'
  <2>1. rc' = MarkResolved(rc, c) /\ met' = met \cup {c}
    BY <1>4 DEF NotifyRetry
  <2>2. \A t \in rc.m_toRetry : t.cst = c => rc.m_retryKeys[c] # {}
    BY <1>0 DEF CacheOK, IndexExact, RetryCaches, FailedTask
  <2>3. CASE rc.m_retryKeys[c] = {}
    BY <2>1, <2>2, <2>3 DEF MarkResolved, NoLostResolution
  <2>4. CASE rc.m_retryKeys[c] # {}
    <3>1. /\ rc'.m_toRetry = rc.m_toRetry
          /\ rc'.m_resolvedConstraints = rc.m_resolvedConstraints \cup {c}
      BY <1>0, <2>1, <2>4 DEF MarkResolved, CacheOK, RetryCaches
    <3>2. QED BY <2>1, <3>1 DEF NoLostResolution
  <2>5. QED BY <2>3, <2>4
<1>5. ASSUME UNCHANGED rc, met' \subseteq met
      PROVE  NoLostResolution'
  BY <1>5 DEF NoLostResolution
<1>6. ASSUME NEW k \in Key, NEW task \in Task, Pops(k, task)
      PROVE  NoLostResolution'
  BY <1>1, <1>6 DEF Pops
<1>7. ASSUME NEW k \in Key, RefillToSync(k)
      PROVE  NoLostResolution'
  <2>1. intent[k].fv \in FieldValues
    BY DEF IInv, TypeOK, Entries, NoEntry, Entry, NoFields, FieldValues
  <2>2. SetTask(intent[k].fv) \in Task
    BY <2>1, SetTaskType
  <2>3. QED BY <1>1, <1>7, <2>2 DEF RefillToSync
<1>8. CASE StartDrain \/ DoTask \/ EndDrain \/ UNCHANGED vars
  BY <1>5, <1>8 DEF StartDrain, DoTask, EndDrain, vars
<1>9. ASSUME NEW k \in Key, TaskSuccess(k) \/ TaskNeedRetry(k)
      PROVE  NoLostResolution'
  BY <1>5, <1>9 DEF TaskSuccess, TaskNeedRetry
<1>10. ASSUME NEW t \in retried, ReAdd(t)
       PROVE  NoLostResolution'
  BY <1>5, <1>10 DEF ReAdd
<1>11. ASSUME NEW c \in Constraint, ObjectRemoved(c)
       PROVE  NoLostResolution'
  BY <1>5, <1>11 DEF ObjectRemoved
<1>12. \A fv \in InputFVs : SetTask(fv) \in Task
  BY SetTaskType
<1>13. QED
  BY <1>2, <1>3, <1>4, <1>6, <1>7, <1>8, <1>9, <1>10, <1>11, <1>12, DelTaskType
     DEF Next, Input

\* For every instance: an object that tasks wait for never appears unnoticed.
\* Whenever a parked task's object exists, its constraint is recorded, however
\* resolve(), evict() and new parkings interleave with the notifications.
THEOREM NoResolutionIsLost == Spec => []NoLostResolution
<1>1. Init => IInv /\ NoLostResolution
  BY InitInv DEF Init, NoLostResolution, EmptyRetryCache
<1>2. IInv /\ NoLostResolution /\ [Next]_vars => IInv' /\ NoLostResolution'
  BY NextInv, NextResolution
<1>3. QED BY <1>1, <1>2, PTL DEF Spec
-----------------------------------------------------------------------------
(* The golden status                                                       *)

\* Merging is associative and absorbs a repetition.
LEMMA MergeAlgebra ==
  ASSUME NEW a \in FieldValues, NEW b \in FieldValues, NEW c \in FieldValues
  PROVE  /\ Merge(Merge(a, b), c) = Merge(a, Merge(b, c))
         /\ Merge(Merge(a, b), b) = Merge(a, b)
         /\ Merge(a, a) = a
BY DEF Merge, FieldValues

\* Two SETs in a row act as their merge, twice the same task as once, and a
\* DEL makes what came before it irrelevant.
LEMMA ApplyAlgebra ==
  ASSUME NEW e \in Entries, NEW t \in Task, NEW u \in Task
  PROVE  /\ u.op = "DEL" => Apply(e, u) = NoEntry
         /\ t.op = "SET" /\ u.op = "SET"
              => Apply(Apply(e, t), u) = Apply(e, SetTask(Merge(t.fv, u.fv)))
         /\ Apply(Apply(e, t), t) = Apply(e, t)
         /\ e.present => Apply(e, SetTask(e.fv)) = e
<1>1. /\ e.fv \in FieldValues /\ NoFields \in FieldValues
      /\ t.fv \in FieldValues /\ u.fv \in FieldValues
  <2>1. e.fv \in FieldValues /\ NoFields \in FieldValues
    BY DEF Entries, NoEntry, Entry, FieldValues, NoFields
  <2>2. QED BY <2>1, TaskType
<1>2. u.op = "DEL" => Apply(e, u) = NoEntry
  BY DEF Apply
<1> DEFINE b == IF e.present THEN e.fv ELSE NoFields
<1>3. b \in FieldValues
  BY <1>1
<1>4. ASSUME NEW v \in Task, v.op = "SET"
      PROVE  Apply(e, v) = Entry(Merge(b, v.fv))
  BY <1>4 DEF Apply
<1>5. ASSUME NEW f \in FieldValues, NEW v \in Task, v.op = "SET"
      PROVE  Apply(Entry(f), v) = Entry(Merge(f, v.fv))
  BY <1>5 DEF Apply, Entry
<1> HIDE DEF b
<1>6. ASSUME t.op = "SET", u.op = "SET"
      PROVE  Apply(Apply(e, t), u) = Apply(e, SetTask(Merge(t.fv, u.fv)))
  <2>1. Merge(b, t.fv) \in FieldValues /\ Merge(t.fv, u.fv) \in FieldValues
    BY <1>1, <1>3, MergeType
  <2>2. Apply(Apply(e, t), u) = Entry(Merge(Merge(b, t.fv), u.fv))
    BY <1>4, <1>5, <1>6, <2>1
  <2>3. Apply(e, SetTask(Merge(t.fv, u.fv))) = Entry(Merge(b, Merge(t.fv, u.fv)))
    BY <1>4, <2>1, SetTaskType
  <2>4. QED BY <1>1, <1>3, <2>2, <2>3, MergeAlgebra
<1>7. Apply(Apply(e, t), t) = Apply(e, t)
  <2>1. CASE t.op = "DEL"
    BY <2>1 DEF Apply
  <2>2. CASE t.op = "SET"
    <3>1. Merge(b, t.fv) \in FieldValues
      BY <1>1, <1>3, MergeType
    <3>2. Apply(Apply(e, t), t) = Entry(Merge(Merge(b, t.fv), t.fv))
      BY <1>4, <1>5, <2>2, <3>1
    <3>3. QED BY <1>1, <1>3, <1>4, <2>2, <3>2, MergeAlgebra
  <2>3. QED BY <2>1, <2>2, TaskType
<1>8. ASSUME e.present PROVE Apply(e, SetTask(e.fv)) = e
  <2>1. SetTask(e.fv) \in Task /\ SetTask(e.fv).op = "SET" /\ SetTask(e.fv).fv = e.fv
    BY <1>1, SetTaskType
  <2>2. Apply(e, SetTask(e.fv)) = Entry(Merge(e.fv, e.fv))
    BY <1>8, <1>4, <2>1 DEF b
  <2>3. e = Entry(e.fv)
    BY <1>8 DEF Entries, Entry, NoEntry
  <2>4. QED BY <1>1, <2>2, <2>3, MergeAlgebra
<1>9. QED BY <1>2, <1>6, <1>7, <1>8

\* What a range does to an entry.
LEMMA ApplyRangeValue ==
  ASSUME NEW e, NEW q
  PROVE  /\ q = <<>> => ApplyRange(e, q) = e
         /\ \A t \in Task : q = <<t>> => ApplyRange(e, q) = Apply(e, t)
         /\ \A t, u \in Task : q = <<t, u>> => ApplyRange(e, q) = Apply(Apply(e, t), u)
<1>1. q = <<>> => ApplyRange(e, q) = e
  BY DEF ApplyRange
<1>2. ASSUME NEW t \in Task, q = <<t>>
      PROVE  ApplyRange(e, q) = Apply(e, t)
  <2>1. Len(q) = 1 /\ q[1] = t
    BY <1>2
  <2>2. QED BY <2>1 DEF ApplyRange
<1>3. ASSUME NEW t \in Task, NEW u \in Task, q = <<t, u>>
      PROVE  ApplyRange(e, q) = Apply(Apply(e, t), u)
  <2>1. Len(q) = 2 /\ q[1] = t /\ q[2] = u
    BY <1>3
  <2>2. QED BY <2>1 DEF ApplyRange
<1>4. QED BY <1>1, <1>2, <1>3

\* Applying a range of tasks to an entry gives an entry.
LEMMA ApplyRangeType ==
  ASSUME NEW e \in Entries, NEW q, IsRange(q)
  PROVE  ApplyRange(e, q) \in Entries
<1>1. CASE q = <<>>
  BY <1>1, ApplyRangeValue
<1>2. ASSUME NEW t \in Task, q = <<t>>
      PROVE  ApplyRange(e, q) \in Entries
  BY <1>2, ApplyRangeValue, ApplyType
<1>3. ASSUME NEW fv \in FieldValues, q = <<DelTask, SetTask(fv)>>
      PROVE  ApplyRange(e, q) \in Entries
  <2>1. ApplyRange(e, q) = Apply(Apply(e, DelTask), SetTask(fv))
    BY <1>3, ApplyRangeValue, DelTaskType, SetTaskType
  <2>2. QED BY <2>1, ApplyType, DelTaskType, SetTaskType
<1>4. QED BY <1>1, <1>2, <1>3 DEF IsRange

\* addToSync does to a range what the new task does after it.
LEMMA ApplyRangeAdd ==
  ASSUME NEW e \in Entries, NEW q, IsRange(q), NEW task \in Task
  PROVE  ApplyRange(e, AddToRange(q, task)) = Apply(ApplyRange(e, q), task)
<1>0. ApplyRange(e, q) \in Entries
  BY ApplyRangeType
<1>1. CASE q = <<>>
  BY <1>1, AddToRangeValue, ApplyRangeValue
<1>2. CASE task.op = "DEL"
  BY <1>0, <1>2, AddToRangeValue, ApplyRangeValue, ApplyAlgebra
<1>3. CASE task.op = "SET" /\ \E t \in Task : q = <<t>>
  <2>1. PICK t \in Task : q = <<t>>
    BY <1>3
  <2>2. ApplyRange(e, q) = Apply(e, t)
    BY <2>1, ApplyRangeValue
  <2>3. CASE t.op = "DEL"
    <3>1. AddToRange(q, task) = <<t, task>>
      BY <1>3, <2>1, <2>3, AddToRangeValue, TaskType
    <3>2. QED BY <2>2, <3>1, ApplyRangeValue
  <2>4. CASE t.op = "SET"
    <3>1. /\ AddToRange(q, task) = <<SetTask(Merge(t.fv, task.fv))>>
          /\ SetTask(Merge(t.fv, task.fv)) \in Task
      BY <1>3, <2>1, <2>4, AddToRangeValue, TaskType, MergeType, SetTaskType
    <3>2. QED BY <1>3, <2>2, <2>4, <3>1, ApplyRangeValue, ApplyAlgebra
  <2>5. QED BY <2>3, <2>4, TaskType
<1>4. CASE task.op = "SET" /\ \E fv \in FieldValues : q = <<DelTask, SetTask(fv)>>
  <2>1. PICK fv \in FieldValues : q = <<DelTask, SetTask(fv)>>
    BY <1>4
  <2>2. ApplyRange(e, q) = Apply(Apply(e, DelTask), SetTask(fv))
    BY <2>1, ApplyRangeValue, DelTaskType, SetTaskType
  <2>3. /\ AddToRange(q, task) = <<DelTask, SetTask(Merge(fv, task.fv))>>
        /\ SetTask(Merge(fv, task.fv)) \in Task
    BY <1>4, <2>1, AddToRangeValue, TaskType, MergeType, SetTaskType
  <2>4. ApplyRange(e, AddToRange(q, task)) = Apply(Apply(e, DelTask), SetTask(Merge(fv, task.fv)))
    BY <2>3, ApplyRangeValue, DelTaskType
  <2>5. Apply(e, DelTask) \in Entries
    BY ApplyType, DelTaskType
  <2>6. Apply(Apply(Apply(e, DelTask), SetTask(fv)), task)
          = Apply(Apply(e, DelTask), SetTask(Merge(fv, task.fv)))
    BY <1>4, <2>5, ApplyAlgebra, SetTaskType
  <2>7. QED BY <2>2, <2>4, <2>6
<1>5. QED BY <1>1, <1>2, <1>3, <1>4, TaskType DEF IsRange

\* What the at most one parked task of a key adds to its outcome.
LEMMA ThenParkedValue ==
  ASSUME NEW e
  PROVE  ThenParked(e, {}) = e /\ \A t : ThenParked(e, {t}) = Apply(e, t.task)
BY DEF ThenParked

\* addToSync does to the outcome of its key what the new task does after it:
\* nothing pending is lost or overtaken, cached or not.
LEMMA AddToSyncOutcome ==
  ASSUME IInv, retried = {}, NEW key \in Key, NEW task \in Task,
         AddToSync(key, task), UNCHANGED <<retried, applied>>
  PROVE  /\ Outcome(key)' = Apply(Outcome(key), task)
         /\ \A k \in Key \ {key} : Outcome(k)' = Outcome(k)
<1>0. /\ CacheOK(rc) /\ m_toSync \in [Key -> Seq(Task)] /\ applied[key] \in Entries
      /\ \A k \in Key : IsRange(m_toSync[k])
      /\ \A t \in rc.m_toRetry : t.task \in Task
  BY DEF IInv, TypeOK, CacheFinite, CacheIndexed, CacheOK, SyncMapShape, RetryCaches, FailedTask
<1> DEFINE e == ApplyRange(applied[key], m_toSync[key])
<1>e. e \in Entries
  BY <1>0, ApplyRangeType
<1>1. ASSUME rc' = rc, m_toSync' = m_toSync, NEW t \in Cached(rc, key), t.task = task
      PROVE  Outcome(key)' = Apply(Outcome(key), task) /\ \A k \in Key \ {key} : Outcome(k)' = Outcome(k)
  <2>1. Parked(key) = {t}
    BY <1>1, ParkedIsCached DEF IInv, SyncMapShape
  <2>2. Outcome(key) = Apply(e, task)
    BY <1>1, <2>1, ThenParkedValue DEF Outcome
  <2>3. Apply(Outcome(key), task) = Outcome(key)
    BY <1>e, <2>2, ApplyAlgebra
  <2>4. \A k \in Key : Outcome(k)' = Outcome(k)
    BY <1>1 DEF Outcome, Parked
  <2>5. QED BY <2>3, <2>4
<1>2. ASSUME Cached(rc, key) = {}, rc' = rc,
             m_toSync' = [m_toSync EXCEPT ![key] = AddToRange(m_toSync[key], task)]
      PROVE  Outcome(key)' = Apply(Outcome(key), task) /\ \A k \in Key \ {key} : Outcome(k)' = Outcome(k)
  <2>1. Parked(key) = {} /\ \A k \in Key : Parked(k)' = Parked(k)
    BY <1>2, ParkedIsCached DEF Parked
  <2>2. Outcome(key) = e
    BY <2>1, ThenParkedValue DEF Outcome
  <2>3. Outcome(key)' = ApplyRange(applied[key], AddToRange(m_toSync[key], task))
    BY <1>0, <1>2, <2>1, ThenParkedValue DEF Outcome
  <2>4. \A k \in Key \ {key} : Outcome(k)' = Outcome(k)
    BY <1>0, <1>2, <2>1 DEF Outcome
  <2>5. QED BY <1>0, <2>2, <2>3, <2>4, ApplyRangeAdd
<1>3. ASSUME NEW t \in rc.m_toRetry,
             Cached(rc, key) = {t}, t.task.op = "SET", t.key = key,
             SetPositions(m_toSync[key]) = {},
             rc' = Evict(rc, t),
             m_toSync' = [m_toSync EXCEPT ![key] =
                   AddToRange(IF task.op = "DEL" THEN m_toSync[key]
                              ELSE Append(m_toSync[key], t.task), task)]
      PROVE  Outcome(key)' = Apply(Outcome(key), task) /\ \A k \in Key \ {key} : Outcome(k)' = Outcome(k)
  <2> DEFINE q == m_toSync[key]
             r == IF task.op = "DEL" THEN q ELSE Append(q, t.task)
  <2>1. Parked(key) = {t}
    BY <1>3, ParkedIsCached
  <2>2. Outcome(key) = Apply(e, t.task)
    BY <2>1, ThenParkedValue DEF Outcome
  <2>3. rc'.m_toRetry = rc.m_toRetry \ {t}
    BY <1>3 DEF Evict
  <2>4. Parked(key)' = {} /\ \A k \in Key \ {key} : Parked(k)' = Parked(k)
    BY <1>3, <2>1, <2>3 DEF Parked
  <2>5. Outcome(key)' = ApplyRange(applied[key], AddToRange(r, task))
    BY <1>0, <1>3, <2>4, ThenParkedValue DEF Outcome
  <2>6. \A k \in Key \ {key} : Outcome(k)' = Outcome(k)
    BY <1>0, <1>3, <2>4 DEF Outcome
  <2>7. CASE task.op = "DEL"
    <3>1. Outcome(key)' = Apply(e, task)
      BY <1>0, <2>5, <2>7, ApplyRangeAdd
    <3>2. Outcome(key) \in Entries
      BY <1>0, <1>e, <2>2, ApplyType
    <3>3. QED BY <1>e, <2>6, <2>7, <3>1, <3>2, ApplyAlgebra
  <2>8. CASE task.op = "SET"
    <3>1. t.task = SetTask(t.task.fv) /\ t.task.fv \in FieldValues /\ t.task \in Task
      BY <1>0, <1>3, TaskType
    <3>2. IsRange(Append(q, t.task)) /\ r = Append(q, t.task)
      BY <1>0, <1>3, <2>8, <3>1, AppendSet
    <3>3. AddToRange(q, t.task) = Append(q, t.task)
      <4>1. /\ q = <<>> \/ q = <<DelTask>>
            /\ q = <<>> => Append(q, t.task) = <<t.task>>
            /\ q = <<DelTask>> => Append(q, t.task) = <<DelTask, t.task>>
        BY <1>0, <1>3, <3>1, AppendSet
      <4>2. CASE q = <<>>
        BY <3>1, <4>1, <4>2, AddToRangeValue
      <4>3. CASE q = <<DelTask>>
        <5>1. AddToRange(q, t.task) = <<DelTask, t.task>>
          BY <1>3, <3>1, <4>3, AddToRangeValue, DelTaskType
        <5>2. QED BY <4>1, <4>3, <5>1
      <4>4. QED BY <4>1, <4>2, <4>3
    <3>4. ApplyRange(applied[key], Append(q, t.task)) = Apply(e, t.task)
      <4>1. IsRange(q) /\ applied[key] \in Entries
        BY <1>0
      <4>2. ApplyRange(applied[key], AddToRange(q, t.task)) = Apply(ApplyRange(applied[key], q), t.task)
        BY <3>1, <4>1, ApplyRangeAdd
      <4>3. QED BY <3>3, <4>2
    <3>5. Outcome(key)' = Apply(Apply(e, t.task), task)
      BY <1>0, <2>5, <3>2, <3>4, ApplyRangeAdd
    <3>6. QED BY <2>2, <2>6, <3>5
  <2>9. QED BY <2>7, <2>8, TaskType
<1>4. QED BY <1>1, <1>2, <1>3, AddToSyncValue

GInv == IInv /\ Golden

\* Erasing the first task of a range.
LEMMA EraseFirst ==
  ASSUME NEW e, NEW q, IsRange(q), 1 \in 1..Len(q)
  PROVE  /\ ApplyRange(Apply(e, q[1]), RemoveAt(q, 1)) = ApplyRange(e, q)
         /\ q[1].op = "SET" => RemoveAt(q, 1) = <<>> /\ ApplyRange(e, q) = Apply(e, q[1])
<1>1. CASE \E t \in Task : q = <<t>>
  <2>1. PICK t \in Task : q = <<t>>
    BY <1>1
  <2>2. q[1] = t /\ RemoveAt(q, 1) = <<>>
    BY <2>1, RemoveAtTwo
  <2>3. ApplyRange(e, q) = Apply(e, t)
    BY <2>1, <2>2, ApplyRangeValue
  <2>4. ApplyRange(Apply(e, t), RemoveAt(q, 1)) = Apply(e, t)
    BY <2>2, ApplyRangeValue
  <2>5. QED BY <2>2, <2>3, <2>4
<1>2. CASE \E fv \in FieldValues : q = <<DelTask, SetTask(fv)>>
  <2>1. PICK fv \in FieldValues : q = <<DelTask, SetTask(fv)>>
    BY <1>2
  <2>2. q[1] = DelTask /\ RemoveAt(q, 1) = <<SetTask(fv)>>
    BY <2>1, RemoveAtTwo
  <2>3. ApplyRange(e, q) = Apply(Apply(e, DelTask), SetTask(fv))
    BY <2>1, ApplyRangeValue, DelTaskType, SetTaskType
  <2>4. ApplyRange(Apply(e, DelTask), RemoveAt(q, 1)) = Apply(Apply(e, DelTask), SetTask(fv))
    BY <2>2, ApplyRangeValue, SetTaskType
  <2>5. q[1].op # "SET"
    BY <2>2, DelTaskType
  <2>6. ApplyRange(Apply(e, q[1]), RemoveAt(q, 1)) = ApplyRange(e, q)
    BY <2>2, <2>3, <2>4, Zenon
  <2>7. QED BY <2>5, <2>6
<1>3. q # <<>>
  OBVIOUS
<1>4. QED BY <1>1, <1>2, <1>3 DEF IsRange

\* Erasing the SET behind a DEL: either it was applied, and the DEL undoes it when it
\* is tried again, or it is parked and comes after the DEL.
LEMMA EraseSecond ==
  ASSUME NEW e, NEW q, IsRange(q), 2 \in 1..Len(q)
  PROVE  /\ q[2] \in Task /\ q[2].op = "SET"
         /\ ApplyRange(e, q) = Apply(NoEntry, q[2])
         /\ ApplyRange(e, RemoveAt(q, 2)) = NoEntry
<1>1. ASSUME NEW t \in Task, q = <<t>> PROVE FALSE
  BY <1>1
<1>2. PICK fv \in FieldValues : q = <<DelTask, SetTask(fv)>>
  BY <1>1 DEF IsRange
<1>3. q[2] = SetTask(fv) /\ RemoveAt(q, 2) = <<DelTask>>
  BY <1>2, RemoveAtTwo
<1>4. Apply(e, DelTask) = NoEntry
  BY DelTaskType DEF Apply
<1>5. ApplyRange(e, q) = Apply(Apply(e, DelTask), SetTask(fv))
  BY <1>2, ApplyRangeValue, DelTaskType, SetTaskType
<1>6. ApplyRange(e, RemoveAt(q, 2)) = Apply(e, DelTask)
  BY <1>3, ApplyRangeValue, DelTaskType
<1>7. QED BY <1>3, <1>4, <1>5, <1>6, SetTaskType

\* Each step keeps Golden.
LEMMA NextGolden == GInv /\ IInv' /\ [Next]_vars => Golden'
<1> SUFFICES ASSUME GInv, IInv', [Next]_vars PROVE Golden'
  OBVIOUS
<1>0. IInv /\ Golden /\ pos \in [Key -> Nat] /\ m_toSync \in [Key -> Seq(Task)]
  BY DEF GInv, IInv, TypeOK
<1>1. ASSUME NEW key \in Key, NEW task \in Task, AddToSync(key, task),
             pc \in {"idle", "pops"}, UNCHANGED <<retried, applied, pos>>,
             due' = [due EXCEPT ![key] = Apply(due[key], task)]
      PROVE  Golden'
  <2>1. retried = {}
    BY <1>0, <1>1 DEF IInv, TurnOK
  <2>2. /\ Outcome(key)' = Apply(Outcome(key), task)
        /\ \A k \in Key \ {key} : Outcome(k)' = Outcome(k)
    BY <1>0, <1>1, <2>1, AddToSyncOutcome
  <2>3. QED BY <1>0, <1>1, <2>2 DEF Golden, IInv, TypeOK
<1>2. ASSUME NEW k \in Key, NEW task \in Task, Pops(k, task)
      PROVE  Golden'
  BY <1>1, <1>2 DEF Pops
<1>3. ASSUME NEW k \in Key, RefillToSync(k)
      PROVE  Golden'
  <2>1. intent[k] \in Entries /\ intent[k].present
    BY <1>0, <1>3 DEF IInv, TypeOK, RefillToSync
  <2>2. intent[k].fv \in FieldValues
    BY <2>1 DEF Entries, NoEntry, Entry, NoFields, FieldValues
  <2>3. SetTask(intent[k].fv) \in Task
    BY <2>2, SetTaskType
  <2>4. QED BY <1>1, <1>3, <2>3 DEF RefillToSync
<1>4. CASE StartDrain
  BY <1>0, <1>4 DEF StartDrain, Golden, Outcome, Parked
<1>5. ASSUME UNCHANGED <<m_toSync, retried, applied, due>>, rc'.m_toRetry = rc.m_toRetry
      PROVE  Golden'
  BY <1>0, <1>5 DEF Golden, Outcome, Parked
<1>6. CASE DoTask \/ EndDrain \/ UNCHANGED vars
  BY <1>5, <1>6 DEF DoTask, EndDrain, vars
<1>7. ASSUME NEW c \in Constraint, ObjectRemoved(c)
      PROVE  Golden'
  BY <1>5, <1>7 DEF ObjectRemoved
<1>8. ASSUME NEW c \in Constraint, NotifyRetry(c)
      PROVE  Golden'
  <2>1. rc'.m_toRetry = rc.m_toRetry
    BY <1>0, <1>8 DEF NotifyRetry, MarkResolved, IInv, TypeOK, RetryCaches
  <2>2. QED BY <1>5, <1>8, <2>1 DEF NotifyRetry
<1>9. ASSUME NEW c \in Constraint, RetryToSync(c)
      PROVE  Golden'
  <2>1. PICK K : rc' = Resolve(rc, c, K) /\ retried' = Waiting(rc, c, K)
    BY <1>9 DEF RetryToSync
  <2>2. retried = {} /\ UNCHANGED <<m_toSync, applied, due>>
    BY <1>9 DEF RetryToSync
  <2>3. \A k \in Key : Parked(k)' = Parked(k)
    BY <2>1, <2>2 DEF Parked, Resolve, Waiting
  <2>4. QED BY <1>0, <2>2, <2>3 DEF Golden, Outcome
<1>10. ASSUME NEW t \in retried, ReAdd(t)
       PROVE  Golden'
  <2>1. t.key \in Key /\ t.task \in Task /\ applied[t.key] \in Entries
    BY <1>0 DEF IInv, TypeOK, FailedTask
  <2>2. Parked(t.key) = {t}
    BY <1>0, <2>1 DEF IInv, SyncMapShape, Parked
  <2>3. /\ m_toSync' = [m_toSync EXCEPT ![t.key] = AddToRange(m_toSync[t.key], t.task)]
        /\ retried' = retried \ {t} /\ UNCHANGED <<rc, applied, due>>
    BY <1>10 DEF ReAdd
  <2>4. t \notin rc.m_toRetry
    BY <1>0 DEF IInv, TurnOK
  <2>5. Parked(t.key)' = {} /\ \A k \in Key \ {t.key} : Parked(k)' = Parked(k)
    BY <2>2, <2>3, <2>4 DEF Parked
  <2>6. IsRange(m_toSync[t.key])
    BY <1>0, <2>1 DEF IInv, SyncMapShape
  <2>7. Outcome(t.key)' = ApplyRange(applied[t.key], AddToRange(m_toSync[t.key], t.task))
    BY <1>0, <2>1, <2>3, <2>5, ThenParkedValue DEF Outcome
  <2>8. Outcome(t.key) = Apply(ApplyRange(applied[t.key], m_toSync[t.key]), t.task)
    BY <2>2, ThenParkedValue DEF Outcome
  <2>9. Outcome(t.key)' = Outcome(t.key)
    BY <2>1, <2>6, <2>7, <2>8, ApplyRangeAdd
  <2>10. \A k \in Key \ {t.key} : Outcome(k)' = Outcome(k)
    BY <1>0, <2>3, <2>5 DEF Outcome
  <2>11. QED BY <1>0, <2>3, <2>9, <2>10 DEF Golden
<1>11. ASSUME NEW k \in Key, AtTask(k)
       PROVE  /\ pos[k] \in {1, 2} /\ pos[k] \in 1..Len(m_toSync[k]) /\ IsRange(m_toSync[k])
              /\ CurrentTask(k) = m_toSync[k][pos[k]] /\ CurrentTask(k) \in Task
  <2>1. pos[k] \in Nat /\ pos[k] # 0 /\ pos[k] <= Len(m_toSync[k]) /\ Len(m_toSync[k]) \in Nat
    BY <1>0, <1>11 DEF AtTask, IInv, TurnOK
  <2>2. IsRange(m_toSync[k])
    BY <1>0 DEF IInv, SyncMapShape
  <2>3. Len(m_toSync[k]) <= 2
    <3>1. CASE m_toSync[k] = <<>>
      BY <3>1
    <3>2. CASE \E t \in Task : m_toSync[k] = <<t>>
      BY <3>2
    <3>3. CASE \E fv \in FieldValues : m_toSync[k] = <<DelTask, SetTask(fv)>>
      BY <3>3
    <3>4. QED BY <2>2, <3>1, <3>2, <3>3 DEF IsRange
  <2>4. pos[k] \in 1..Len(m_toSync[k]) /\ pos[k] \in {1, 2}
    BY <2>1, <2>3
  <2>5. QED BY <2>2, <2>4, RemoveFromRange DEF CurrentTask
<1>12. ASSUME NEW k \in Key, TaskSuccess(k)
       PROVE  Golden'
  <2>1. AtTask(k) /\ EraseTask(k) /\ UNCHANGED <<rc, retried>>
    BY <1>12 DEF TaskSuccess
  <2>2. applied' = [applied EXCEPT ![k] = Apply(applied[k], m_toSync[k][pos[k]])]
    BY <1>11, <1>12, <2>1 DEF TaskSuccess
  <2>3. m_toSync' = [m_toSync EXCEPT ![k] = RemoveAt(m_toSync[k], pos[k])]
    BY <2>1 DEF EraseTask
  <2>4. /\ applied'[k] = Apply(applied[k], m_toSync[k][pos[k]])
        /\ m_toSync'[k] = RemoveAt(m_toSync[k], pos[k])
        /\ \A j \in Key \ {k} : applied'[j] = applied[j] /\ m_toSync'[j] = m_toSync[j]
    BY <1>0, <2>2, <2>3 DEF IInv, TypeOK
  <2>5. \A j \in Key : Parked(j)' = Parked(j)
    BY <2>1 DEF Parked
  <2>6. \A j \in Key \ {k} : Outcome(j)' = Outcome(j)
    BY <2>4, <2>5 DEF Outcome
  <2>7. CASE pos[k] = 1
    <3>1. ApplyRange(applied'[k], m_toSync'[k]) = ApplyRange(applied[k], m_toSync[k])
      BY <1>11, <2>1, <2>4, <2>7, EraseFirst
    <3>2. Outcome(k)' = Outcome(k)
      BY <2>5, <3>1 DEF Outcome
    <3>3. due' = due
      BY <1>12, <2>7 DEF TaskSuccess, Overtakes
    <3>4. QED BY <1>0, <2>6, <3>2, <3>3 DEF Golden
  <2>8. CASE pos[k] = 2
    <3>1. /\ m_toSync[k][2].op = "SET"
          /\ ApplyRange(applied'[k], RemoveAt(m_toSync[k], 2)) = NoEntry
      BY <1>11, <2>1, <2>8, EraseSecond
    <3>2. Parked(k) = {}
      <4>1. 2 \in SetPositions(m_toSync[k])
        BY <1>11, <2>1, <2>8, <3>1 DEF SetPositions
      <4>2. QED BY <1>0, <4>1 DEF IInv, SyncMapShape
    <3>3. Parked(k)' = {}
      BY <2>5, <3>2
    <3>4. Outcome(k)' = NoEntry
      BY <2>4, <2>8, <3>1, <3>3, ThenParkedValue DEF Outcome
    <3>5. due' = [due EXCEPT ![k] = NoEntry]
      BY <1>12, <2>8 DEF TaskSuccess, Overtakes
    <3>6. due'[k] = NoEntry /\ \A j \in Key \ {k} : due'[j] = due[j]
      BY <1>0, <3>5 DEF IInv, TypeOK
    <3>7. QED BY <1>0, <2>6, <3>4, <3>6 DEF Golden
  <2>9. QED BY <1>11, <2>1, <2>7, <2>8
<1>13. ASSUME NEW k \in Key, TaskCached(k)
       PROVE  Golden'
  <2> DEFINE t == CurrentTask(k)
             f == [key |-> k, cst |-> t.fv[DepField], task |-> t]
  <2>1. /\ AtTask(k) /\ EraseTask(k) /\ UNCHANGED <<retried, applied, due>>
        /\ t.op = "SET" /\ rc'.m_toRetry = rc.m_toRetry \cup {f}
    BY <1>13 DEF TaskCached, Blocked, Insert
  <2>2. m_toSync' = [m_toSync EXCEPT ![k] = RemoveAt(m_toSync[k], pos[k])]
    BY <2>1 DEF EraseTask
  <2>3. Apply(ApplyRange(applied[k], RemoveAt(m_toSync[k], pos[k])), t)
          = ApplyRange(applied[k], m_toSync[k])
    <3>1. CASE pos[k] = 1
      <4>1. t = m_toSync[k][1] /\ IsRange(m_toSync[k]) /\ 1 \in 1..Len(m_toSync[k])
        BY <1>11, <2>1, <3>1
      <4>2. /\ RemoveAt(m_toSync[k], 1) = <<>>
            /\ ApplyRange(applied[k], m_toSync[k]) = Apply(applied[k], t)
        BY <2>1, <4>1, EraseFirst
      <4>3. QED BY <3>1, <4>2, ApplyRangeValue
    <3>2. CASE pos[k] = 2
      <4>1. t = m_toSync[k][2] /\ IsRange(m_toSync[k]) /\ 2 \in 1..Len(m_toSync[k])
        BY <1>11, <2>1, <3>2
      <4>2. /\ ApplyRange(applied[k], m_toSync[k]) = Apply(NoEntry, t)
            /\ ApplyRange(applied[k], RemoveAt(m_toSync[k], 2)) = NoEntry
        BY <4>1, EraseSecond
      <4>3. QED BY <3>2, <4>2
    <3>3. QED BY <1>11, <2>1, <3>1, <3>2
  <2>4. f.key = k /\ f.task = t
    OBVIOUS
  <2>5. SetPositions(m_toSync[k]) # {}
    BY <1>11, <2>1 DEF SetPositions
  <2>6. Parked(k) = {}
    BY <1>0, <2>5 DEF IInv, SyncMapShape
  <2> HIDE DEF t, f
  <2>7. Parked(k)' = {f} /\ \A j \in Key \ {k} : Parked(j)' = Parked(j)
    BY <2>1, <2>4, <2>6 DEF Parked
  <2>8. Outcome(k) = ApplyRange(applied[k], m_toSync[k])
    BY <2>6, ThenParkedValue DEF Outcome
  <2>9. /\ m_toSync'[k] = RemoveAt(m_toSync[k], pos[k])
        /\ \A j \in Key \ {k} : m_toSync'[j] = m_toSync[j]
    BY <1>0, <2>2
  <2>10. Outcome(k)' = Apply(ApplyRange(applied[k], RemoveAt(m_toSync[k], pos[k])), t)
    BY <2>1, <2>4, <2>7, <2>9, ThenParkedValue DEF Outcome
  <2>11. \A j \in Key \ {k} : Outcome(j)' = Outcome(j)
    BY <2>1, <2>7, <2>9 DEF Outcome
  <2>12. QED BY <1>0, <2>1, <2>3, <2>8, <2>10, <2>11 DEF Golden
<1>14. ASSUME NEW k \in Key, TaskNeedRetry(k)
       PROVE  Golden'
  BY <1>5, <1>14 DEF TaskNeedRetry
<1>16. \A fv \in InputFVs : SetTask(fv) \in Task
  BY SetTaskType
<1>17. QED
  BY <1>2, <1>3, <1>4, <1>6, <1>7, <1>8, <1>9, <1>10, <1>12, <1>13, <1>14, <1>16, DelTaskType
     DEF Next, Input

\* For every instance of a consumer, whether or not its handler leaves DELs behind:
\* programmed state plus pending tasks always equals what the producers asked for,
\* but for the one SET that is applied before a DEL left in m_toSync and undone by it.
\* No other update of any key is lost, doubled or overtaken, through merges in
\* m_toSync, parking, eviction, retry and warm-start refill.
THEOREM GoldenStatus == Spec => []Golden
<1>1. Init => GInv
  <2> SUFFICES ASSUME Init PROVE GInv
    OBVIOUS
  <2>1. IInv
    BY InitInv
  <2>3. ASSUME NEW k \in Key PROVE Outcome(k) = due[k]
    <3>1. Parked(k) = {} /\ m_toSync[k] = <<>> /\ applied[k] = due[k]
      BY DEF Init, Parked, EmptyRetryCache
    <3>2. QED BY <3>1, ThenParkedValue, ApplyRangeValue DEF Outcome
  <2>4. QED BY <2>1, <2>3 DEF GInv, Golden
<1>2. GInv /\ [Next]_vars => GInv'
  BY NextInv, NextGolden DEF GInv
<1>3. GInv => Golden
  BY DEF GInv
<1>4. QED BY <1>1, <1>2, <1>3, PTL DEF Spec
=============================================================================
