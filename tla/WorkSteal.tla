------------------------------ MODULE WorkSteal ------------------------------
(****************************************************************************)
(* The executor threads of the scheduler (StealScheduler, "thiefs") and the *)
(* batch coroutines they run: ready queues, work stealing, the switch from  *)
(* one coroutine to the next, and the clean-up of the coroutine left behind *)
(* (src/scheduler/taskthief.cc, src/core/task/task.cc, task.hpp).           *)
(*                                                                          *)
(* A coroutine hands itself to whoever will resume it BEFORE its registers  *)
(* and stack are saved: Yield enqueues and wait() registers the running     *)
(* task, and only SwapOut, later, saves its context.  What keeps another    *)
(* thread from resuming it too early is the flag isStealable together with  *)
(* the pointer scheduler, and no lock covers either.                        *)
(*                                                                          *)
(* One action is one critical section of the code or one unlocked access to *)
(* shared state.                                                            *)
(****************************************************************************)
EXTENDS Integers, Sequences, FiniteSets, SequencesExt

CONSTANTS
    N,           \* number of executor threads, victim->thiefs.size()
    Tasks,       \* the batch tasks created with stackTraits.canSteal
    StandAlone,  \* those with a stack of their own; the others share one
    NoTask,      \* nullptr, and "the executor's own main-loop context"
    MaxOps       \* bound: how often a task yields or blocks in its life

ASSUME NAssumption == N \in Nat \ {0}
ASSUME TasksAssumption == StandAlone \subseteq Tasks /\ NoTask \notin Tasks
ASSUME MaxOpsAssumption == MaxOps \in Nat

Executors == 1..N

VARIABLES
    pc,          \* where each executor thread is
    ctx,         \* whose stack the thread is on; NoTask: RunSchedulerMainLoop
    thisTask,    \* the thread_local TaskInterface::thisTask
    nextTask,    \* what GetNextTask returned to the thread
    isReady,     \* StealScheduler::isReady, the ready queue
    sizeOfQueue, \* StealScheduler::sizeOfQueue
    toContinue,  \* SchedulerBase::toContinue
    qMutex,      \* SchedulerBase::qMutex: the executor that holds it, or 0
    heist,       \* the locals of GetNextTask and StealFrom
    loot,        \* StealFrom's tasksToSteal, in the victim's queue order
    scheduler,   \* TaskInterface::scheduler; 0 before the task exists
    status,      \* TaskInterface::status; "NEW" before the task exists
    isStealable, \* TaskInterface::isStealable
    uContext,    \* TaskInterface::uContext: "fresh", "saved", or "live" while
                 \* a thread runs on the task's stack (what it holds is stale)
    waker,       \* tasks that some thread or timer is going to enable
    deletes,     \* how often the task object was deleted
    ops          \* yields and waits the task made so far

vars == <<pc, ctx, thisTask, nextTask, isReady, sizeOfQueue, toContinue, qMutex,
          heist, loot, scheduler, status, isStealable, uContext, waker, deletes,
          ops>>

threadVars == <<ctx, thisTask, nextTask, heist, loot>>
taskVars   == <<scheduler, isStealable, uContext>>

(* The locals of GetNextTask and StealFrom: executors not tried yet in this *)
(* round, the victim, how many tasks to take and where the scan stands.     *)
Heists == [untried : SUBSET Executors, round : 0..1, from : 0..N, left : Nat,
           pos : Nat]

(* The locals while GetNextTask is not stealing.                            *)
NoHeist == [untried |-> {}, round |-> 0, from |-> 0, left |-> 0, pos |-> 0]

Init ==
    /\ pc = [e \in Executors |-> "loop"]
    /\ ctx = [e \in Executors |-> NoTask]
    /\ thisTask = [e \in Executors |-> NoTask]
    /\ nextTask = [e \in Executors |-> NoTask]
    /\ isReady = [e \in Executors |-> <<>>]
    /\ sizeOfQueue = [e \in Executors |-> 0]
    /\ toContinue = [e \in Executors |-> TRUE]
    /\ qMutex = [e \in Executors |-> 0]
    /\ heist = [e \in Executors |-> NoHeist]
    /\ loot = [e \in Executors |-> <<>>]
    /\ scheduler = [t \in Tasks |-> 0]
    /\ status = [t \in Tasks |-> "NEW"]
    /\ isStealable = [t \in Tasks |-> TRUE]
    /\ uContext = [t \in Tasks |-> "fresh"]
    /\ waker = {}
    /\ deletes = [t \in Tasks |-> 0]
    /\ ops = [t \in Tasks |-> 0]

-----------------------------------------------------------------------------
(* Enabling a task.                                                         *)

(* Mutation: nobody is notified. *)
NotifyNone(e, p) == p

(* cvQMutex.notify_all(): an executor asleep in GetNextTask re-takes its    *)
(* mutex and tests its while condition again.                               *)
NotifyAll(e, p) == [p EXCEPT ![e] = IF @ = "wait" THEN "get" ELSE @]

(* Mutation: the enqueued task is not counted. *)
CountNothing(e) == sizeOfQueue

(* sizeOfQueue++ *)
CountOne(e) == [sizeOfQueue EXCEPT ![e] = @ + 1]

In(t, q) == \E i \in DOMAIN q : q[i] = t

(* trHook.is_linked().  What StealFrom has erased is in no list.            *)
IsLinked(t) == \E d \in Executors : In(t, isReady[d])

(* StealScheduler::EnableImmediately: under qMutex, to the front.  The      *)
(* program ends where the assertion fails, so nothing follows there.        *)
EnableImmediately(e, t, p) ==
    /\ qMutex[e] = 0
    /\ ~IsLinked(t)
    /\ isReady' = [isReady EXCEPT ![e] = <<t>> \o @]
    /\ sizeOfQueue' = CountOne(e)
    /\ status' = [status EXCEPT ![t] = "READY"]
    /\ pc' = NotifyAll(e, p)

(* StealScheduler::Enable: under qMutex, to the back; the same assertion.   *)
Enable(e, t, p) ==
    /\ qMutex[e] = 0
    /\ ~IsLinked(t)
    /\ isReady' = [isReady EXCEPT ![e] = Append(@, t)]
    /\ sizeOfQueue' = CountOne(e)
    /\ status' = [status EXCEPT ![t] = "READY"]
    /\ pc' = NotifyAll(e, p)

(* RIBScheduler::GetMinThief: the first executor that claims to be empty,   *)
(* otherwise the first with the least Size().                               *)
IsMinThief(e) ==
    /\ \A d \in Executors : sizeOfQueue[e] <= sizeOfQueue[d]
    /\ \A d \in 1..(e - 1) : sizeOfQueue[e] < sizeOfQueue[d]

(* CreateBatchTask's choice of executor, creator 0 standing for a thread    *)
(* that runs no batch task: the pinned one; else the one GetMinThief finds  *)
(* if it claims to be empty; else the creator's, or rand() for creator 0.   *)
MayPlaceOn(e, creator, pin) ==
    IF pin # 0 THEN e = pin
    ELSE IF \E d \in Executors : sizeOfQueue[d] = 0 THEN IsMinThief(e)
    ELSE creator \in {0, e}

(* RIBScheduler::CreateBatchTask with stackTraits.canSteal.  The sizes are  *)
(* read and the task is enqueued in one step: a stale size only moves the   *)
(* choice of executor, which pin leaves open as well.                       *)
CreateBatchTask(t, creator, pin, immediately) ==
    /\ status[t] = "NEW"
    /\ creator # 0 => pc[creator] = "run"
    /\ \E e \in Executors :
        /\ MayPlaceOn(e, creator, pin)
        /\ scheduler' = [scheduler EXCEPT ![t] = e]
        /\ IF immediately THEN EnableImmediately(e, t, pc) ELSE Enable(e, t, pc)
    /\ UNCHANGED <<threadVars, toContinue, qMutex, isStealable, uContext, waker,
                   deletes, ops>>

(* Mutation: the waiter stays registered and is woken again. *)
KeepWaiter(t) == waker

(* Taking the task out of the wait list or the timer before it is enabled.  *)
PopWaiter(t) == waker \ {t}

(* notify_one, notify_all, TimeoutCallback: whoever the waiting task gave   *)
(* itself to enables it on the scheduler it belongs to.                     *)
Wake(t) ==
    /\ t \in waker
    /\ waker' = PopWaiter(t)
    /\ EnableImmediately(scheduler[t], t, pc)
    /\ UNCHANGED <<threadVars, taskVars, toContinue, qMutex, deletes, ops>>

-----------------------------------------------------------------------------
(* GetNextTask and StealFrom.                                               *)

Goto(e, label) == pc' = [pc EXCEPT ![e] = label]

(* Mutation: the task that is about to run stays stealable. *)
ClaimNothing(t) == isStealable

(* isStealable = false: from here on no thief may take the task.            *)
Claim(t) == [isStealable EXCEPT ![t] = FALSE]

(* The end of GetNextTask, holding the own qMutex: the front task, or       *)
(* nullptr once the scheduler is stopped.                                   *)
ReturnNext(e) ==
    /\ Goto(e, "swap")
    /\ heist' = [heist EXCEPT ![e] = NoHeist]
    /\ IF toContinue[e]
         THEN LET t == Head(isReady[e]) IN
              /\ nextTask' = [nextTask EXCEPT ![e] = t]
              /\ isReady' = [isReady EXCEPT ![e] = Tail(@)]
              /\ sizeOfQueue' = [sizeOfQueue EXCEPT ![e] = @ - 1]
              /\ isStealable' = Claim(t)
              /\ status' = [status EXCEPT ![t] = "RUNNING"]
         ELSE /\ nextTask' = [nextTask EXCEPT ![e] = NoTask]
              /\ UNCHANGED <<isReady, sizeOfQueue, isStealable, status>>

(* One round over the other executors begins, without any lock.             *)
StartRound(e, r) ==
    /\ Goto(e, "steal")
    /\ heist' = [heist EXCEPT ![e] = [NoHeist EXCEPT !.untried = Executors \ {e},
                                                     !.round = r]]

(* GetNextTask is called, or cvQMutex.wait returned.                        *)
GetNextTask(e) ==
    /\ pc[e] = "get" /\ qMutex[e] = 0
    /\ \/ /\ isReady[e] = <<>> /\ toContinue[e]
          /\ StartRound(e, 0)
          /\ UNCHANGED <<nextTask, isReady, sizeOfQueue, isStealable, status>>
       \/ /\ isReady[e] # <<>> \/ ~toContinue[e]
          /\ ReturnNext(e)
    /\ UNCHANGED <<ctx, thisTask, toContinue, qMutex, loot, scheduler, uContext,
                   waker, deletes, ops>>

(* After a round: try a second one, go on with what is there, or sleep.     *)
AfterRound(e) ==
    /\ pc[e] = "relock" /\ qMutex[e] = 0
    /\ \/ /\ isReady[e] = <<>> /\ heist[e].round = 0
          /\ StartRound(e, 1)
          /\ UNCHANGED <<nextTask, isReady, sizeOfQueue, isStealable, status>>
       \/ /\ isReady[e] = <<>> /\ heist[e].round # 0 /\ toContinue[e]
          /\ Goto(e, "wait")
          /\ heist' = [heist EXCEPT ![e] = NoHeist]
          /\ UNCHANGED <<nextTask, isReady, sizeOfQueue, isStealable, status>>
       \/ /\ isReady[e] # <<>> \/ (heist[e].round # 0 /\ ~toContinue[e])
          /\ ReturnNext(e)
    /\ UNCHANGED <<ctx, thisTask, toContinue, qMutex, loot, scheduler, uContext,
                   waker, deletes, ops>>

(* std::condition_variable_any may wake up without a notification.          *)
SpuriousWakeup(e) ==
    /\ pc[e] = "wait"
    /\ Goto(e, "get")
    /\ UNCHANGED <<threadVars, taskVars, isReady, sizeOfQueue, toContinue, qMutex,
                   status, waker, deletes, ops>>

Stealable(v) == {i \in DOMAIN isReady[v] : isStealable[isReady[v][i]]}

(* StealFrom takes the victim's qMutex and counts what it could steal; the  *)
(* order of the victims starts at random.                                   *)
StealScan(e) ==
    /\ pc[e] = "steal"
    /\ \/ /\ heist[e].untried = {}
          /\ Goto(e, "relock")
          /\ UNCHANGED <<heist, qMutex>>
       \/ \E v \in heist[e].untried :
          /\ qMutex[v] = 0
          /\ LET count == Cardinality(Stealable(v))
                 half  == Len(isReady[v]) \div 2
             IN IF count > 1
                  THEN /\ Goto(e, "take")
                       /\ qMutex' = [qMutex EXCEPT ![v] = e]
                       /\ heist' = [heist EXCEPT ![e] =
                            [untried |-> @.untried \ {v}, round |-> @.round,
                             from |-> v, pos |-> Len(isReady[v]),
                             left |-> IF count < half THEN count ELSE half]]
                  ELSE /\ heist' = [heist EXCEPT ![e].untried = @ \ {v}]
                       /\ UNCHANGED <<pc, qMutex>>
    /\ UNCHANGED <<ctx, thisTask, nextTask, loot, taskVars, isReady, sizeOfQueue,
                   toContinue, status, waker, deletes, ops>>

(* One turn of the loop from the back of the victim's queue: EndTask may    *)
(* set isStealable of a queued task meanwhile, it takes no lock.            *)
StealTake(e) ==
    LET v    == heist[e].from
        cand == {i \in Stealable(v) : i <= heist[e].pos}
    IN
    /\ pc[e] = "take"
    /\ \/ /\ heist[e].left = 0 \/ cand = {}
          /\ Goto(e, "put")
          /\ qMutex' = [qMutex EXCEPT ![v] = 0]
          /\ heist' = [heist EXCEPT ![e] = [@ EXCEPT !.from = 0, !.left = 0,
                                                      !.pos = 0]]
          /\ UNCHANGED <<loot, isReady, sizeOfQueue>>
       \/ /\ heist[e].left > 0
          /\ \E i \in cand :
              /\ \A j \in cand : j <= i
              /\ isReady' = [isReady EXCEPT ![v] = RemoveAt(@, i)]
              /\ loot' = [loot EXCEPT ![e] = <<isReady[v][i]>> \o @]
              /\ sizeOfQueue' = [sizeOfQueue EXCEPT ![v] = @ - 1, ![e] = @ + 1]
              /\ heist' = [heist EXCEPT ![e].left = @ - 1, ![e].pos = i - 1]
          /\ UNCHANGED <<pc, qMutex>>
    /\ UNCHANGED <<ctx, thisTask, nextTask, taskVars, toContinue, status, waker,
                   deletes, ops>>

(* Under the own qMutex every stolen task gets this scheduler and goes to   *)
(* the front, in the order it had; the size is counted a second time.       *)
StealPut(e) ==
    /\ pc[e] = "put" /\ qMutex[e] = 0
    /\ isReady' = [isReady EXCEPT ![e] = loot[e] \o @]
    /\ sizeOfQueue' = [sizeOfQueue EXCEPT ![e] = @ + Len(loot[e])]
    /\ scheduler' = [t \in Tasks |->
                       IF isStealable[t] /\ \E i \in DOMAIN loot[e] : loot[e][i] = t
                         THEN e ELSE scheduler[t]]
    /\ loot' = [loot EXCEPT ![e] = <<>>]
    /\ Goto(e, IF loot[e] = <<>> THEN "steal" ELSE "relock")
    /\ UNCHANGED <<ctx, thisTask, nextTask, heist, toContinue, qMutex, status,
                   isStealable, uContext, waker, deletes, ops>>

-----------------------------------------------------------------------------
(* Switching.                                                               *)

(* RunSchedulerMainLoop: while (toContinue).                                *)
MainLoop(e) ==
    /\ pc[e] = "loop"
    /\ Goto(e, IF toContinue[e] THEN "get" ELSE "exit")
    /\ UNCHANGED <<threadVars, taskVars, isReady, sizeOfQueue, toContinue, qMutex,
                   status, waker, deletes, ops>>

(* SwapOut's SwapTo, or the main loop's SwapFrom: the context left is saved *)
(* and the next one is entered, in one instruction sequence on this thread. *)
(* A task that got itself back goes on without a switch.                    *)
SwapOut(e) ==
    LET c == ctx[e]
        n == nextTask[e]
    IN
    /\ pc[e] = "swap"
    /\ nextTask' = [nextTask EXCEPT ![e] = NoTask]
    /\ IF n = c
         THEN /\ Goto(e, IF c = NoTask THEN "loop" ELSE "run")
              /\ UNCHANGED <<ctx, uContext>>
         ELSE /\ Goto(e, "endflag")
              /\ ctx' = [ctx EXCEPT ![e] = n]
              /\ uContext' = [t \in Tasks |-> IF t = c THEN "saved"
                                              ELSE IF t = n THEN "live"
                                              ELSE uContext[t]]
    /\ UNCHANGED <<thisTask, heist, loot, scheduler, isStealable, isReady, sizeOfQueue,
                   toContinue, qMutex, status, waker, deletes, ops>>

(* Mutation: every task may be stolen after it ran. *)
CanAlwaysSteal(t) == TRUE

(* SharedCopyStackTask::CanSteal, StandAloneStackTask::CanSteal.            *)
CanSteal(t) == t \in StandAlone

(* CleanupPreviousTask on the new stack, EndTask's first half: the task     *)
(* left behind may be stolen from now on if its stack is its own.           *)
EndTaskFlag(e) ==
    LET t == thisTask[e] IN
    /\ pc[e] = "endflag"
    /\ IF t = NoTask
         THEN /\ thisTask' = [thisTask EXCEPT ![e] = ctx[e]]
              /\ Goto(e, "run")
              /\ UNCHANGED isStealable
         ELSE /\ isStealable' = IF CanSteal(t) THEN [isStealable EXCEPT ![t] = TRUE]
                                               ELSE isStealable
              /\ Goto(e, "enddel")
              /\ UNCHANGED thisTask
    /\ UNCHANGED <<ctx, nextTask, heist, loot, scheduler, uContext, isReady,
                   sizeOfQueue, toContinue, qMutex, status, waker, deletes, ops>>

(* EndTask's second half: delete a finished task.  If the object is already *)
(* deleted the status read is of freed memory and may be anything.          *)
EndTaskDelete(e) ==
    LET t == thisTask[e] IN
    /\ pc[e] = "enddel"
    /\ \E finished \in BOOLEAN :
        /\ deletes[t] = 0 => finished = (status[t] = "FINISHED")
        /\ deletes' = IF finished /\ deletes[t] < 2
                        THEN [deletes EXCEPT ![t] = @ + 1] ELSE deletes
    /\ thisTask' = [thisTask EXCEPT ![e] = ctx[e]]
    /\ Goto(e, IF ctx[e] = NoTask THEN "loop" ELSE "run")
    /\ UNCHANGED <<ctx, nextTask, heist, loot, taskVars, isReady, sizeOfQueue,
                   toContinue, qMutex, status, waker, ops>>

-----------------------------------------------------------------------------
(* What a running task does, up to its call of SwapOut.                     *)

(* The running task is inside wait, resumed from a yield of li.unlock(): it *)
(* is registered, or was enabled since it was taken from its queue.         *)
InWait(t) == t \in waker \/ status[t] = "READY"

(* ctask::Yield: Enable oneself, then SwapOut.                              *)
Yield(e) ==
    LET t == thisTask[e] IN
    /\ pc[e] = "run" /\ ~InWait(t) /\ ops[t] < MaxOps
    /\ Enable(scheduler[t], t, [pc EXCEPT ![e] = "get"])
    /\ ops' = [ops EXCEPT ![t] = @ + 1]
    /\ UNCHANGED <<threadVars, taskVars, toContinue, qMutex, waker, deletes>>

(* ConditionVariableAny::wait, SetTimeout: the task gives itself to those   *)
(* who will wake it, unlocks the caller's lock, then SwapOut.  They may     *)
(* wake it before it is saved.  The unlock of a spin lock has no effect on  *)
(* what is modelled here; that of a Mutex is BlockYields.                   *)
Block(e) ==
    LET t == thisTask[e] IN
    /\ pc[e] = "run" /\ ~InWait(t) /\ ops[t] < MaxOps
    /\ waker' = waker \cup {t}
    /\ ops' = [ops EXCEPT ![t] = @ + 1]
    /\ Goto(e, "get")
    /\ UNCHANGED <<threadVars, taskVars, isReady, sizeOfQueue, toContinue, qMutex,
                   status, deletes>>

(* wait with a Mutex: Semaphore::Signal spins for a SpinMutex, and its loop *)
(* calls Yield.  Who wakes the task between registering and yielding makes  *)
(* the same assertion fail, in Yield: both are one step here.               *)
BlockYields(e) ==
    LET t == thisTask[e] IN
    /\ pc[e] = "run" /\ ~InWait(t) /\ ops[t] < MaxOps
    /\ waker' = waker \cup {t}
    /\ Enable(scheduler[t], t, [pc EXCEPT ![e] = "get"])
    /\ ops' = [ops EXCEPT ![t] = @ + 1]
    /\ UNCHANGED <<threadVars, taskVars, toContinue, qMutex, deletes>>

(* After that yield wait goes on to its own SwapOut.                        *)
BlockResumes(e) ==
    /\ pc[e] = "run" /\ InWait(thisTask[e])
    /\ Goto(e, "get")
    /\ UNCHANGED <<threadVars, taskVars, isReady, sizeOfQueue, toContinue, qMutex,
                   status, waker, deletes, ops>>

(* Mutation: the task finishes while something still holds it for a wake-up. *)
FinishRegistered(e) ==
    /\ pc[e] = "run" /\ ~InWait(thisTask[e])
    /\ status' = [status EXCEPT ![thisTask[e]] = "FINISHED"]
    /\ waker' = waker \cup {thisTask[e]}
    /\ Goto(e, "get")
    /\ UNCHANGED <<threadVars, taskVars, isReady, sizeOfQueue, toContinue, qMutex,
                   deletes, ops>>

(* The end of ExecuteC, or ctask::Exit.                                     *)
Finish(e) ==
    /\ pc[e] = "run" /\ ~InWait(thisTask[e])
    /\ status' = [status EXCEPT ![thisTask[e]] = "FINISHED"]
    /\ Goto(e, "get")
    /\ UNCHANGED <<threadVars, taskVars, isReady, sizeOfQueue, toContinue, qMutex,
                   waker, deletes, ops>>

(* StopSchedulerMainLoop, called by the main scheduler thread.              *)
StopSchedulerMainLoop(e) ==
    /\ toContinue[e] /\ qMutex[e] = 0
    /\ toContinue' = [toContinue EXCEPT ![e] = FALSE]
    /\ pc' = NotifyAll(e, pc)
    /\ UNCHANGED <<threadVars, taskVars, isReady, sizeOfQueue, qMutex, status, waker,
                   deletes, ops>>

-----------------------------------------------------------------------------
(* What one executor thread does next; each location has one way on, save   *)
(* for what the task it runs decides.                                       *)
Thread(e) ==
    \/ MainLoop(e) \/ GetNextTask(e) \/ AfterRound(e)
    \/ StealScan(e) \/ StealTake(e) \/ StealPut(e)
    \/ SwapOut(e) \/ EndTaskFlag(e) \/ EndTaskDelete(e)
    \/ Yield(e) \/ Block(e) \/ Finish(e)

Next ==
    \/ \E e \in Executors :
         Thread(e) \/ SpuriousWakeup(e) \/ StopSchedulerMainLoop(e)
    \/ \E t \in Tasks :
         \/ Wake(t)
         \/ \E creator, pin \in 0..N, immediately \in BOOLEAN :
              CreateBatchTask(t, creator, pin, immediately)

(* The locks given to wait are spin locks, whose unlock does not yield: all *)
(* those of the runtime itself are.                                         *)
Spec == Init /\ [][Next]_vars

(* Tasks wait with a jamc::Mutex as well, as an application's may.          *)
NextMutex ==
    Next \/ \E e \in Executors : BlockYields(e) \/ BlockResumes(e)

SpecMutex == Init /\ [][NextMutex]_vars

(* Every thread keeps running, a task's code always comes to its end or to  *)
(* its next suspension, and who was given a task wakes it.                  *)
Fairness ==
    /\ \A e \in Executors : WF_vars(Thread(e))
    /\ \A t \in Tasks : WF_vars(Wake(t))

FairSpec == Spec /\ Fairness

-----------------------------------------------------------------------------
(* Properties.                                                              *)

Labels == {"loop", "get", "relock", "wait", "steal", "take", "put", "swap",
           "endflag", "enddel", "run", "exit"}

(* Every variable has its type; sizeOfQueue, unsigned in the code, is never *)
(* below 0.                                                                 *)
TypeOK ==
    /\ pc \in [Executors -> Labels]
    /\ ctx \in [Executors -> Tasks \cup {NoTask}]
    /\ thisTask \in [Executors -> Tasks \cup {NoTask}]
    /\ nextTask \in [Executors -> Tasks \cup {NoTask}]
    /\ isReady \in [Executors -> Seq(Tasks)]
    /\ sizeOfQueue \in [Executors -> Nat]
    /\ toContinue \in [Executors -> BOOLEAN]
    /\ qMutex \in [Executors -> 0..N]
    /\ heist \in [Executors -> Heists]
    /\ loot \in [Executors -> Seq(Tasks)]
    /\ scheduler \in [Tasks -> 0..N]
    /\ status \in [Tasks -> {"NEW", "READY", "RUNNING", "FINISHED"}]
    /\ isStealable \in [Tasks -> BOOLEAN]
    /\ uContext \in [Tasks -> {"fresh", "saved", "live"}]
    /\ waker \in SUBSET Tasks
    /\ deletes \in [Tasks -> 0..2]
    /\ ops \in [Tasks -> Nat]

(* No two kernel threads ever execute on the stack of the same task,        *)
(* although a task is offered to others before SwapOut has left its stack.  *)
OneThreadPerStack ==
    \A d, e \in Executors : ctx[d] = ctx[e] /\ ctx[d] # NoTask => d = e

(* SwapOut never enters a context that is still in use: what GetNextTask    *)
(* returned is the running task itself or a task whose uContext is current. *)
EntersSavedContext ==
    \A e \in Executors :
        pc[e] = "swap" /\ nextTask[e] \in Tasks /\ nextTask[e] # ctx[e]
            => uContext[nextTask[e]] # "live"

(* The assertion of Enable and EnableImmediately, "Should not duplicate     *)
(* ready worksteal": a task somebody may enable is in no ready queue, and   *)
(* in no thief's hands.  Spec keeps it; SpecMutex, where the lock given to  *)
(* wait is a Mutex, does not.  Who wakes a task here took it from a list it *)
(* was on: a timeout that a notification left expired (CondVar's leaked) is *)
(* outside this property.                                                   *)
NoDuplicateReady ==
    \A t \in Tasks :
        \/ t \in waker
        \/ \E e \in Executors : pc[e] = "run" /\ thisTask[e] = t
        => \A d \in Executors : ~In(t, isReady[d]) /\ ~In(t, loot[d])

(* An executor that runs task code runs a task that is neither finished nor *)
(* deleted, and that belongs to this executor's scheduler object, the one   *)
(* whose queue and context SwapOut is going to use.                         *)
RunsItsOwnTask ==
    \A e \in Executors : pc[e] = "run" =>
        /\ thisTask[e] = ctx[e]
        /\ scheduler[thisTask[e]] = e
        /\ status[thisTask[e]] = "RUNNING"
        /\ deletes[thisTask[e]] = 0

(* sizeOfQueue, which stealing counts up twice and never under the lock of  *)
(* both queues, does not fall below the true length of the queue.           *)
SizeCoversQueue ==
    \A e \in Executors : sizeOfQueue[e] >= Len(isReady[e])

(* A task on the executor's shared stack that has started to run is never   *)
(* moved to another executor, whose shared stack lies elsewhere.            *)
SharedStackStaysPut ==
    [][\A t \in Tasks \ StandAlone :
         uContext[t] # "fresh" => scheduler'[t] = scheduler[t]]_vars

(* Every task created is run to its end, unless an executor is stopped.     *)
EveryTaskFinishes ==
    \A t \in Tasks : status[t] # "NEW"
        ~> (status[t] = "FINISHED" \/ \E e \in Executors : ~toContinue[e])

(* A stopped executor leaves its main loop, so that RunSchedulerMainLoop of *)
(* the main thread can join it.                                             *)
StoppedExecutorExits ==
    \A e \in Executors : ~toContinue[e] ~> pc[e] = "exit"

(* README.md:11, "Each task is allocated to as a coroutine, mapped to 1     *)
(* kernel level thread": EndTask deletes a task once, and not while another *)
(* kernel thread still executes on its stack.                               *)
DeletedOnceAndUnused ==
    \A t \in Tasks :
        /\ deletes[t] <= 1
        /\ deletes[t] > 0 => \A e \in Executors : ctx[e] # t

=============================================================================
