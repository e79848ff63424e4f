---------------------------- MODULE RIBScheduler ----------------------------
(****************************************************************************)
(* The main thread of the scheduler: the cyclic schedule of real-time       *)
(* slots, the EDF queue of interactive tasks, the bounded stack of expired  *)
(* ones, the queue of batch tasks that may not be stolen, and the dispatch  *)
(* loop GetNextTask (src/scheduler/scheduler.cc, scheduler.hpp).            *)
(*                                                                          *)
(* GetNextTask runs on the stack of the task that suspends or ends, or, if  *)
(* active is NoTask, on that of RunSchedulerMainLoop.  Other threads create *)
(* and wake tasks whenever the main thread does not hold qMutex.            *)
(*                                                                          *)
(* Time: the clock ticks while a task runs or the thread waits, the steps   *)
(* of the scheduler take no time.  Times are kept relative to now, so that  *)
(* the cycles may go on for ever: phase is now minus the start of the       *)
(* cycle, elapsed is now minus the start of the scheduler, and due[t] is    *)
(* the deadline of t minus now.  Beyond the last slot, below DueFloor, and  *)
(* when no deadline is above it any more, all values behave alike: there    *)
(* they stop.                                                               *)
(****************************************************************************)
EXTENDS Integers, Sequences, FiniteSets, SequencesExt

CONSTANTS
    Batch,       \* batch tasks created without stackTraits.canSteal
    Interactive, \* interactive tasks
    RealTime,    \* real-time tasks
    RtId,        \* RtId[t]: the id a real-time task is created with
    Stealable,   \* interactive tasks with canSteal and a stack of their own,
                 \* if there are executors
    Suspending,  \* tasks whose code yields, blocks or joins
    Looping,     \* those that may yield for ever
    Joinable,    \* tasks whose handle other tasks join
    NoTask,      \* nullptr
    Plans,       \* pairs of schedules, normal and greedy, given to SetSchedule
    InitPlans,   \* those set before RunSchedulerMainLoop; <<>>: none yet
    Deadlines,   \* the argument deadline of CreateInteractiveTask
    Bursts,      \* burst times
    SpinTime,    \* END_OF_RT_SLOT_SPIN_MAX_US
    CancelCap,   \* the size iCancelStack may keep, 3 in the code
    MaxRun,      \* bound: ticks a task runs before it suspends
    RtRun,       \* bound: ticks a real-time task runs
    MaxClock,    \* bound: on the difference of the virtual clocks
    MaxOps       \* bound: yields, waits and joins of a task

Tasks == Batch \cup Interactive \cup RealTime

ASSUME TaskAssumption ==
    /\ Batch \cap Interactive = {} /\ Batch \cap RealTime = {}
    /\ Interactive \cap RealTime = {}
    /\ Stealable \subseteq Interactive /\ Suspending \subseteq Tasks
    /\ Joinable \subseteq Tasks /\ Looping \subseteq Suspending \cap Batch
    /\ IsFiniteSet(Tasks) /\ NoTask \notin Tasks
ASSUME IdAssumption == RtId \in [RealTime -> Nat \ {0}]
ASSUME BoundAssumption ==
    /\ Deadlines \subseteq Nat /\ Bursts \subseteq Nat /\ SpinTime \in Nat
    /\ CancelCap \in Nat /\ MaxRun \in Nat /\ RtRun \in 0..MaxRun
    /\ MaxClock \in Nat /\ MaxOps \in Nat

Slots == [sTime : Nat, eTime : Nat, taskId : Nat]

ASSUME PlanAssumption ==
    Plans \subseteq Seq(Slots) \X Seq(Slots) /\ InitPlans \subseteq Plans \cup {<<>>}

VARIABLES
    pc,               \* where the main thread is
    active,           \* TaskInterface::Active(), thisTask of the main thread
    plan,             \* rtScheduleNormal and rtScheduleGreedy; <<>>: both empty
    currentSchedule,
    idxRealTimeTask,  \* counts from 0, as in the code
    phase,            \* Clock::now() - cycleStartTime
    elapsed,          \* Clock::now() - schedulerStartTime
    ran,              \* Clock::now() - taskStartTime
    due,              \* deadline + schedulerStartTime - Clock::now()
    burst,            \* TaskInterface::burst
    vClock,           \* vClockB - vClockI
    bQueue, iEDFPriorityQueue, iCancelStack, rtRegisterTable,
    toStealTasks,     \* the local of GetAnInteractiveBatchTask
    degraded,         \* interactive tasks handed to an executor
    waker,            \* tasks that a timer or another thread will enable
    joins,            \* joins[t]: the task whose end t waits for
    status,           \* TaskInterface::status; "NEW" before the task exists
    deleted,          \* tasks whose object is deleted
    toContinue,
    ops               \* yields, waits and joins made so far

timeVars  == <<phase, elapsed, ran, due, burst, vClock>>
slotVars  == <<plan, currentSchedule, idxRealTimeTask>>
queueVars == <<bQueue, iEDFPriorityQueue, iCancelStack, rtRegisterTable>>
taskVars  == <<degraded, waker, joins, status, ops>>
vars == <<pc, active, slotVars, timeVars, queueVars, toStealTasks, taskVars, deleted,
          toContinue>>

(* No burst falls this low: what is due at DueFloor is expired for good.    *)
DueFloor == -(MaxRun * (MaxOps + 1)) - 1

Init ==
    /\ pc = "loop" /\ active = NoTask
    /\ plan \in InitPlans
    /\ currentSchedule = <<>> /\ idxRealTimeTask = 0
    /\ phase = 0 /\ elapsed = 0 /\ ran = 0 /\ vClock = 0
    /\ due = [t \in Interactive |-> 0]
    /\ burst = [t \in Interactive |-> 0]
    /\ bQueue = <<>> /\ iCancelStack = <<>> /\ toStealTasks = <<>>
    /\ iEDFPriorityQueue = {} /\ rtRegisterTable = {}
    /\ degraded = {} /\ waker = {}
    /\ joins = [t \in Tasks |-> NoTask]
    /\ status = [t \in Tasks |-> "NEW"]
    /\ deleted = {}
    /\ toContinue = TRUE
    /\ ops = [t \in Tasks |-> 0]

CycleEnd == IF currentSchedule = <<>> THEN 0 ELSE Last(currentSchedule).eTime
Slot == currentSchedule[idxRealTimeTask + 1]

-----------------------------------------------------------------------------
(* The clock.                                                               *)

(* Mutation: the rest of the slot is not waited for. *)
SlotOverAtOnce == TRUE

(* while (Clock::now() - cycleStartTime < ceTime); beyond the schedule the  *)
(* value read is arbitrary and the loop may end at any time.                *)
SlotOver == idxRealTimeTask < Len(currentSchedule) => phase >= Slot.eTime

InteractiveReady == iEDFPriorityQueue # {} \/ iCancelStack # <<>>

(* What ends the wait in a slot: its predicate or its time limit.  ShutDown  *)
(* notifies without qMutex: that call may come between the test of the      *)
(* predicate and the wait, and then time goes on up to the limit.           *)
IdleOver == bQueue # <<>> \/ InteractiveReady \/ phase > Slot.eTime - SpinTime

(* Where time passes: the code of a task, the two waits until they are      *)
(* over, the spinning at the end of a slot, and the polling for a schedule. *)
TimePasses ==
    \/ pc = "run" /\ ran < (IF active \in RealTime THEN RtRun ELSE MaxRun)
    \/ pc = "rtspin" /\ ~SlotOver
    \/ pc = "idle" /\ ~IdleOver
    \/ pc = "tail" /\ phase <= Slot.eTime
    \/ pc = "slot" /\ currentSchedule = <<>> /\ plan = <<>>

(* Only of such a task the times are ever read; the others' are cleared.    *)
Alive(t) == status[t] = "READY" /\ t \notin deleted \cup degraded

Tick ==
    /\ TimePasses
    /\ phase' = IF phase <= CycleEnd THEN phase + 1 ELSE phase
    /\ elapsed' = IF \E d \in Deadlines : d - elapsed > DueFloor THEN elapsed + 1
                                                                  ELSE elapsed
    /\ ran' = IF active # NoTask /\ ran < MaxRun THEN ran + 1 ELSE ran
    /\ due' = [t \in Interactive |->
                 IF ~Alive(t) THEN 0
                 ELSE IF due[t] > DueFloor THEN due[t] - 1 ELSE due[t]]
    /\ burst' = [t \in Interactive |-> IF Alive(t) THEN burst[t] ELSE 0]
    /\ UNCHANGED <<pc, active, slotVars, vClock, queueVars, toStealTasks,
                   taskVars, deleted, toContinue>>

-----------------------------------------------------------------------------
(* Creating and enabling tasks.  The main thread holds qMutex only within   *)
(* its steps, or for ever when it is "stuck".                               *)

Unlocked == pc # "stuck"

(* The deadline is a duration that GetAnInteractiveBatchTask adds to        *)
(* schedulerStartTime.                                                      *)
CreateInteractiveTask(t) ==
    /\ Unlocked /\ status[t] = "NEW"
    /\ \E d \in Deadlines, b \in Bursts :
        /\ due' = [due EXCEPT ![t] = IF d - elapsed > DueFloor THEN d - elapsed
                                                               ELSE DueFloor]
        /\ burst' = [burst EXCEPT ![t] = b]
    /\ iEDFPriorityQueue' = iEDFPriorityQueue \cup {t}
    /\ status' = [status EXCEPT ![t] = "READY"]
    /\ UNCHANGED <<pc, active, slotVars, phase, elapsed, ran, vClock, bQueue,
                   iCancelStack, rtRegisterTable, toStealTasks, degraded, waker, joins, ops,
                   deleted, toContinue>>

(* The branch without stackTraits.canSteal.                                 *)
CreateBatchTask(t) ==
    /\ Unlocked /\ status[t] = "NEW"
    /\ bQueue' = Append(bQueue, t)
    /\ status' = [status EXCEPT ![t] = "READY"]
    /\ UNCHANGED <<pc, active, slotVars, timeVars, iEDFPriorityQueue, iCancelStack,
                   rtRegisterTable, toStealTasks, degraded, waker, joins, ops,
                   deleted, toContinue>>

CreateRealTimeTask(t) ==
    /\ Unlocked /\ status[t] = "NEW"
    /\ rtRegisterTable' = rtRegisterTable \cup {t}
    /\ status' = [status EXCEPT ![t] = "READY"]
    /\ UNCHANGED <<pc, active, slotVars, timeVars, bQueue, iEDFPriorityQueue,
                   iCancelStack, toStealTasks, degraded, waker, joins, ops, deleted,
                   toContinue>>

(* EnableImmediately of every task in S, in any order.  A real-time task is *)
(* put in no queue.                                                         *)
EnableImmediately(S) ==
    /\ iEDFPriorityQueue' = iEDFPriorityQueue \cup (S \cap Interactive)
    /\ \E s \in SetToSeqs(S \cap Batch) : bQueue' = s \o bQueue

(* Mutation: the waiter stays registered. *)
WakeKeeps(t) ==
    /\ Unlocked /\ t \in waker
    /\ EnableImmediately({t})
    /\ UNCHANGED <<pc, active, slotVars, timeVars, iCancelStack, rtRegisterTable,
                   toStealTasks, taskVars, deleted, toContinue>>

(* A timer, a notification or a fulfilled future enables a blocked task.    *)
Wake(t) ==
    /\ Unlocked /\ t \in waker
    /\ waker' = waker \ {t}
    /\ EnableImmediately({t})
    /\ UNCHANGED <<pc, active, slotVars, timeVars, iCancelStack, rtRegisterTable,
                   toStealTasks, degraded, joins, status, ops, deleted, toContinue>>

Joiners(t) == {j \in Tasks : joins[j] = t}

(* Notifier::Notify of a task that ended: its joiners are enabled.          *)
Notify(t) ==
    /\ EnableImmediately(Joiners(t))
    /\ joins' = [j \in Tasks |-> IF j \in Joiners(t) THEN NoTask ELSE joins[j]]

(* A degraded task comes to its end on its executor.                        *)
ExecutorFinishes(t) ==
    /\ Unlocked /\ t \in degraded
    /\ degraded' = degraded \ {t}
    /\ status' = [status EXCEPT ![t] = "FINISHED"]
    /\ deleted' = deleted \cup {t}
    /\ Notify(t)
    /\ UNCHANGED <<pc, active, slotVars, timeVars, iCancelStack, rtRegisterTable,
                   toStealTasks, waker, ops, toContinue>>

-----------------------------------------------------------------------------
(* The schedule.                                                            *)

SetSchedule(p) ==
    /\ p[1] # <<>> /\ p[2] # <<>>
    /\ Last(p[1]).eTime = Last(p[2]).eTime
    /\ plan' = p
    /\ UNCHANGED <<pc, active, currentSchedule, idxRealTimeTask, timeVars, queueVars,
                   toStealTasks, taskVars, deleted, toContinue>>

ShutDown ==
    /\ toContinue
    /\ toContinue' = FALSE
    /\ UNCHANGED <<pc, active, slotVars, timeVars, queueVars, toStealTasks, taskVars,
                   deleted>>

-----------------------------------------------------------------------------
(* GetNextTask.                                                             *)

(* EndTask, on the new stack, deletes the task left behind if it is done,   *)
(* and a real-time task in any case.                                        *)
Ends(t, n) == t # NoTask /\ t # n /\ (t \in RealTime \/ status[t] = "FINISHED")

(* GetNextTask returns n and SwapOut, or the main loop, switches to it; for *)
(* nullptr the main loop goes on.                                           *)
Return(n) ==
    /\ deleted' = IF Ends(active, n) THEN deleted \cup {active} ELSE deleted
    /\ active' = n
    /\ pc' = IF n = NoTask THEN "loop" ELSE "run"
    /\ ran' = 0

(* Mutation: the main loop does not test toContinue. *)
MainLoopForever ==
    /\ pc = "loop"
    /\ pc' = "top"
    /\ UNCHANGED <<active, slotVars, timeVars, queueVars, toStealTasks, taskVars,
                   deleted, toContinue>>

(* RunSchedulerMainLoop: while (toContinue).                                *)
MainLoop ==
    /\ pc = "loop"
    /\ pc' = IF toContinue THEN "top" ELSE "exit"
    /\ UNCHANGED <<active, slotVars, timeVars, queueVars, toStealTasks, taskVars,
                   deleted, toContinue>>

Clip(n) == IF n > MaxClock THEN MaxClock ELSE IF n < -MaxClock THEN -MaxClock ELSE n

(* Mutation: batch tasks are not charged. *)
ChargeNothing == vClock

(* vClockB += Clock::now() - taskStartTime                                  *)
ChargeBatch == Clip(vClock + ran)

(* One turn of the loop: the task that ran is charged, each time the loop   *)
(* comes back here; after an interactive task the main loop takes over.     *)
Top ==
    /\ pc = "top"
    /\ \/ /\ ~toContinue
          /\ Return(NoTask)
          /\ UNCHANGED <<burst, vClock>>
       \/ /\ toContinue /\ active = NoTask
          /\ pc' = "slot"
          /\ UNCHANGED <<active, ran, burst, vClock, deleted>>
       \/ /\ toContinue /\ active \in Batch
          /\ vClock' = ChargeBatch
          /\ pc' = "slot"
          /\ UNCHANGED <<active, ran, burst, deleted>>
       \/ /\ toContinue /\ active \in RealTime
          /\ pc' = "rtspin"
          /\ UNCHANGED <<active, ran, burst, vClock, deleted>>
       \/ /\ toContinue /\ active \in Interactive
          /\ vClock' = Clip(vClock - ran)
          /\ burst' = [burst EXCEPT ![active] = @ - ran]
          /\ Return(NoTask)
    /\ UNCHANGED <<slotVars, phase, elapsed, due, queueVars, toStealTasks, taskVars, toContinue>>

(* Mutation: the outer loop is continued after the slot. *)
RtSpinAgain ==
    /\ pc = "rtspin" /\ SlotOver
    /\ idxRealTimeTask' = idxRealTimeTask + 1
    /\ pc' = "top"
    /\ UNCHANGED <<active, plan, currentSchedule, timeVars, queueVars, toStealTasks,
                   taskVars, deleted, toContinue>>

(* After a real-time task: spin to the end of the slot idxRealTimeTask.     *)
RtSpin ==
    /\ pc = "rtspin" /\ SlotOver
    /\ idxRealTimeTask' = idxRealTimeTask + 1
    /\ pc' = "slot"
    /\ UNCHANGED <<active, plan, currentSchedule, timeVars, queueVars, toStealTasks,
                   taskVars, deleted, toContinue>>

Laxity(t) == due[t] - burst[t]

(* deadline - burst + schedulerStartTime < currentTime                      *)
Expired(t) == Laxity(t) < 0

(* EdfPriority; the order of what is due at DueFloor is not known any more. *)
Before(t, u) ==
    \/ due[t] < due[u]
    \/ due[t] = due[u] /\ due[t] > DueFloor /\ burst[t] < burst[u]
IsTop(t) == t \in iEDFPriorityQueue /\ \A u \in iEDFPriorityQueue : ~Before(u, t)

(* What the loop takes off the EDF queue: from the top, while expired.      *)
(* currentTime is the epoch until the first cycle.                          *)
ExpiredPrefix ==
    IF currentSchedule = <<>> THEN {}
    ELSE {t \in iEDFPriorityQueue :
            /\ Expired(t)
            /\ \A u \in iEDFPriorityQueue : Before(u, t) => Expired(u)}

(* GetAnInteractiveBatchTask up to lock.unlock(); goto is where the caller  *)
(* goes on if there is nothing to run.                                      *)
GetAnInteractiveBatchTask(goto) ==
    \/ /\ bQueue = <<>> /\ ~InteractiveReady
       /\ pc' = goto
       /\ UNCHANGED <<active, ran, deleted, queueVars, toStealTasks>>
    \/ /\ bQueue # <<>> /\ (~InteractiveReady \/ vClock <= 0)
       /\ bQueue' = Tail(bQueue)
       /\ Return(Head(bQueue))
       /\ UNCHANGED <<iEDFPriorityQueue, iCancelStack, rtRegisterTable, toStealTasks>>
    \/ /\ InteractiveReady /\ (bQueue = <<>> \/ vClock > 0)
       /\ \E s \in SetToSeqs(ExpiredPrefix \cap Stealable),
             c \in SetToSeqs(ExpiredPrefix \ Stealable) :
           /\ \A i, j \in DOMAIN s : i < j => ~Before(s[j], s[i])
           /\ \A i, j \in DOMAIN c : i < j => ~Before(c[i], c[j])
           /\ toStealTasks' = s
           /\ iCancelStack' = c \o iCancelStack
       /\ iEDFPriorityQueue' = iEDFPriorityQueue \ ExpiredPrefix
       /\ pc' = "give"
       /\ UNCHANGED <<active, ran, deleted, bQueue, rtRegisterTable>>

(* sTime <= currentTime - cycleStartTime <= eTime                           *)
InSlot == Slot.sTime <= phase /\ phase <= Slot.eTime

(* The test of the current slot, or of the end of the schedule; which of    *)
(* the two schedules the next cycle uses is the decider's choice.           *)
SlotTest ==
    /\ pc = "slot"
    /\ \/ /\ idxRealTimeTask < Len(currentSchedule) /\ InSlot
          /\ \/ \E t \in rtRegisterTable :
                 /\ RtId[t] = Slot.taskId
                 /\ rtRegisterTable' = rtRegisterTable \ {t}
                 /\ Return(t)
                 /\ UNCHANGED <<bQueue, iEDFPriorityQueue, iCancelStack, toStealTasks>>
             \/ /\ \A t \in rtRegisterTable : RtId[t] # Slot.taskId
                /\ IF phase <= Slot.eTime - SpinTime
                     THEN GetAnInteractiveBatchTask("idle")
                     ELSE /\ pc' = "tail"
                          /\ UNCHANGED <<active, ran, deleted, queueVars, toStealTasks>>
          /\ UNCHANGED <<currentSchedule, idxRealTimeTask, phase>>
       \/ /\ idxRealTimeTask < Len(currentSchedule) /\ ~InSlot
          /\ idxRealTimeTask' = idxRealTimeTask + 1
          /\ pc' = "top"
          /\ UNCHANGED <<active, ran, deleted, currentSchedule, phase, queueVars,
                         toStealTasks>>
       \/ /\ idxRealTimeTask >= Len(currentSchedule) /\ plan = <<>>
          /\ GetAnInteractiveBatchTask("slot")
          /\ UNCHANGED <<currentSchedule, idxRealTimeTask, phase>>
       \/ /\ idxRealTimeTask >= Len(currentSchedule) /\ plan # <<>>
          /\ \E i \in 1..2 : currentSchedule' = plan[i]
          /\ idxRealTimeTask' = 0
          /\ phase' = 0
          /\ pc' = "top"
          /\ UNCHANGED <<active, ran, deleted, queueVars, toStealTasks>>
    /\ UNCHANGED <<plan, elapsed, due, burst, vClock, taskVars, toContinue>>

(* Without qMutex, each expired stealable task goes to an executor.         *)
Degrade ==
    /\ pc = "give" /\ toStealTasks # <<>>
    /\ degraded' = degraded \cup {Head(toStealTasks)}
    /\ toStealTasks' = Tail(toStealTasks)
    /\ UNCHANGED <<pc, active, slotVars, timeVars, queueVars, waker, joins, status, ops,
                   deleted, toContinue>>

(* With qMutex again: while the stack is too large its oldest task is       *)
(* cancelled.  Notify enables the joiners, which takes qMutex once more.    *)
CancelOldest ==
    /\ pc = "give" /\ toStealTasks = <<>> /\ Len(iCancelStack) > CancelCap
    /\ LET t == Last(iCancelStack) IN
        /\ iCancelStack' = Front(iCancelStack)
        /\ deleted' = deleted \cup {t}
        /\ pc' = IF Joiners(t) # {} THEN "stuck" ELSE pc
    /\ UNCHANGED <<active, slotVars, timeVars, bQueue, iEDFPriorityQueue,
                   rtRegisterTable, toStealTasks, taskVars, toContinue>>

(* The task returned: the top of the EDF queue, or the newest on the stack. *)
TakeInteractive ==
    /\ pc = "give" /\ toStealTasks = <<>> /\ Len(iCancelStack) <= CancelCap
    /\ \/ \E t \in iEDFPriorityQueue :
           /\ IsTop(t)
           /\ iEDFPriorityQueue' = iEDFPriorityQueue \ {t}
           /\ Return(t)
           /\ UNCHANGED iCancelStack
       \/ /\ iEDFPriorityQueue = {} /\ iCancelStack # <<>>
          /\ iCancelStack' = Tail(iCancelStack)
          /\ Return(Head(iCancelStack))
          /\ UNCHANGED iEDFPriorityQueue
       \/ /\ iEDFPriorityQueue = {} /\ iCancelStack = <<>>
          /\ pc' = IF currentSchedule = <<>> THEN "slot" ELSE "idle"
          /\ UNCHANGED <<active, ran, deleted, iEDFPriorityQueue, iCancelStack>>
    /\ UNCHANGED <<slotVars, phase, elapsed, due, burst, vClock, bQueue, rtRegisterTable,
                   toStealTasks, taskVars, toContinue>>

(* cvQMutex.wait_until in a slot with nothing to run, and the loop around   *)
(* it: over at SpinTime before the slot's end, on shutdown, or when there   *)
(* is an interactive or batch task.                                         *)
Idle ==
    /\ pc = "idle"
    /\ \/ /\ ~toContinue
          /\ Return(NoTask)
          /\ UNCHANGED <<queueVars, toStealTasks>>
       \/ /\ toContinue /\ phase > Slot.eTime - SpinTime
          /\ pc' = "top"
          /\ UNCHANGED <<active, ran, deleted, queueVars, toStealTasks>>
       \/ /\ toContinue /\ phase <= Slot.eTime - SpinTime
          /\ bQueue # <<>> \/ InteractiveReady
          /\ GetAnInteractiveBatchTask("idle")
    /\ UNCHANGED <<slotVars, phase, elapsed, due, burst, vClock, taskVars, toContinue>>

(* The last SpinTime of a slot: the outer loop spins.                       *)
TailSpin ==
    /\ pc = "tail"
    /\ pc' = "top"
    /\ UNCHANGED <<active, slotVars, timeVars, queueVars, toStealTasks, taskVars,
                   deleted, toContinue>>

-----------------------------------------------------------------------------
(* What the running task does, up to its call of GetNextTask.               *)

MaySuspend == pc = "run" /\ active \in Suspending /\ ops[active] < MaxOps
CountOp == ops' = [ops EXCEPT ![active] = @ + 1]

(* The yields of a task in Looping are not counted.                         *)
MayYield ==
    \/ pc = "run" /\ active \in Looping /\ UNCHANGED ops
    \/ active \notin Looping /\ MaySuspend /\ CountOp

(* ctask::Yield: Enable oneself, a batch task at the back.                  *)
Yield ==
    /\ MayYield
    /\ bQueue' = IF active \in Batch THEN Append(bQueue, active) ELSE bQueue
    /\ iEDFPriorityQueue' = iEDFPriorityQueue \cup ({active} \cap Interactive)
    /\ pc' = "top"
    /\ UNCHANGED <<active, slotVars, timeVars, iCancelStack, rtRegisterTable,
                   toStealTasks, degraded, waker, joins, status, deleted, toContinue>>

(* SleepFor, ConditionVariable::wait and the like.                          *)
Block ==
    /\ MaySuspend /\ CountOp
    /\ waker' = waker \cup {active}
    /\ pc' = "top"
    /\ UNCHANGED <<active, slotVars, timeVars, queueVars, toStealTasks, degraded,
                   joins, status, deleted, toContinue>>

(* TaskHandle::Join of a task that has not ended; else Join returns.        *)
Join(u) ==
    /\ MaySuspend /\ CountOp
    /\ u # active /\ status[u] = "READY" /\ u \notin deleted
    /\ joins' = [joins EXCEPT ![active] = u]
    /\ pc' = "top"
    /\ UNCHANGED <<active, slotVars, timeVars, queueVars, toStealTasks, degraded,
                   waker, status, deleted, toContinue>>

(* The end of ExecuteC, or ctask::Exit.                                     *)
Finish ==
    /\ pc = "run"
    /\ status' = [status EXCEPT ![active] = "FINISHED"]
    /\ Notify(active)
    /\ pc' = "top"
    /\ UNCHANGED <<active, slotVars, timeVars, iCancelStack, rtRegisterTable,
                   toStealTasks, degraded, waker, ops, deleted, toContinue>>

-----------------------------------------------------------------------------
(* The steps of the main thread.                                            *)
MainThread ==
    \/ MainLoop \/ Top \/ RtSpin \/ SlotTest \/ Degrade \/ CancelOldest
    \/ TakeInteractive \/ Idle \/ TailSpin
    \/ Yield \/ Block \/ Finish
    \/ \E u \in Joinable : Join(u)

Next ==
    \/ Tick \/ MainThread \/ ShutDown
    \/ \E p \in Plans : SetSchedule(p)
    \/ \E t \in Tasks : Wake(t) \/ ExecutorFinishes(t)
    \/ \E t \in Interactive : CreateInteractiveTask(t)
    \/ \E t \in Batch : CreateBatchTask(t)
    \/ \E t \in RealTime : CreateRealTimeTask(t)

Spec == Init /\ [][Next]_vars

(* Time goes on even while GetNextTask spins, hence strong fairness of the  *)
(* clock; the main thread runs, a task's code comes to its end or its next  *)
(* suspension, and who was given a task wakes it.                           *)
Fairness ==
    /\ SF_vars(Tick) /\ WF_vars(MainThread)
    /\ \A t \in Tasks : WF_vars(Wake(t)) /\ WF_vars(ExecutorFinishes(t))

FairSpec == Spec /\ Fairness

-----------------------------------------------------------------------------
(* Properties.                                                              *)

(* Who holds a task that does not run at the moment: a queue of the         *)
(* scheduler, its list of tasks to steal, an executor, or a waker.          *)
Holders(t) ==
    {h \in {"batch", "edf", "stack", "table", "steal", "executor", "waker", "join"} :
        \/ h = "batch" /\ t \in ToSet(bQueue)
        \/ h = "edf" /\ t \in iEDFPriorityQueue
        \/ h = "stack" /\ t \in ToSet(iCancelStack)
        \/ h = "table" /\ t \in rtRegisterTable
        \/ h = "steal" /\ t \in ToSet(toStealTasks)
        \/ h = "executor" /\ t \in degraded
        \/ h = "waker" /\ t \in waker
        \/ h = "join" /\ joins[t] # NoTask}

(* The assertions "Should not duplicate ready edf" and "... batch" of       *)
(* Enable, and more: a task that exists and does not run is held by one     *)
(* queue or waker, so it is neither lost nor queued twice; one that runs,   *)
(* has ended or is deleted is held by none.  Task code runs only of a task  *)
(* that has not ended, and GetNextTask only on the stack of one that still  *)
(* exists.                                                                  *)
HeldOnce ==
    /\ \A t \in Tasks :
        IF status[t] = "READY" /\ t \notin deleted /\ ~(pc = "run" /\ active = t)
          THEN Cardinality(Holders(t)) = 1
          ELSE Holders(t) = {}
    /\ Len(bQueue) = Cardinality(ToSet(bQueue))
    /\ Len(iCancelStack) = Cardinality(ToSet(iCancelStack))
    /\ active # NoTask => active \notin deleted
    /\ pc = "run" => status[active] = "READY"

(* GetNextTask reads no entry behind the end of currentSchedule, if a       *)
(* real-time task runs no longer than a slot and slots leave no gap.        *)
IndexInBounds ==
    pc \in {"rtspin", "idle"} => idxRealTimeTask < Len(currentSchedule)

(* README.md:24, "Length of the cycle is defined by the end time of last    *)
(* interval in the finite list": a cycle begins no earlier than the end of  *)
(* the last interval of the cycle before, if slots leave no gap.            *)
CycleLength ==
    [][phase' < phase => phase >= CycleEnd]_vars

(* Once a schedule is set, a task created is run to its end, cancelled or   *)
(* given to an executor unless the scheduler is shut down, even if a batch  *)
(* task yields for ever: the virtual clocks keep that from starving the     *)
(* interactive tasks, the order of the queue from starving other batch      *)
(* tasks.                                                                   *)
EveryTaskServed ==
    \A t \in (Batch \cup Interactive) \ Looping :
        (status[t] = "READY" /\ plan # <<>>)
            ~> (status[t] = "FINISHED" \/ t \in deleted \/ ~toContinue)

(* "Virtual function for shutting down a scheduler": RunSchedulerMainLoop   *)
(* leaves its loop after ShutDown, if a schedule was set before.            *)
ShutDownEnds == (~toContinue /\ plan # <<>>) ~> pc = "exit"

(* scheduler.hpp:190, "taskhandle that can join or detach such task": Join  *)
(* returns when the task has ended or was cancelled.                        *)
JoinReturns ==
    \A t, u \in Tasks :
        (joins[t] = u /\ u \in deleted) ~> (joins[t] = NoTask \/ ~toContinue)

-----------------------------------------------------------------------------
(* Two statements of the documentation that the code does not keep; the     *)
(* README says what behaviour TLC shows for each.                           *)

(* task.hpp:266, SleepFor "similar as std::this_thread::sleep_for": a task  *)
(* that waits for its timer or for a notification still exists.             *)
BlockedTaskExists == toContinue => waker \cap deleted = {}

(* scheduler.hpp:185, "soft relative deadline of the task with respect to   *)
(* start of cycle": a task that is created when its burst still fits before *)
(* its deadline in this cycle is not expired from the start.                *)
DeadlineFromCycle ==
    [][\A t \in Interactive :
         /\ status[t] = "NEW" /\ status'[t] = "READY"
         /\ currentSchedule # <<>>
         /\ \A d \in Deadlines : phase + burst'[t] <= d
         => due'[t] - burst'[t] >= 0]_vars

=============================================================================
