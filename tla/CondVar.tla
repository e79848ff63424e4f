------------------------------- MODULE CondVar -------------------------------
(****************************************************************************)
(* ConditionVariableAny and the timer: tasks that wait for a predicate with *)
(* and without a deadline, the notifications that wake them, the timer      *)
(* thread that wakes them when the deadline passes, and the word cvStatus   *)
(* that decides which of the two it was (condition_variable.hpp/.cc,        *)
(* src/time/time.cc).                                                       *)
(*                                                                          *)
(* The predicate is that of Notifier::Join and of a future's shared state:  *)
(* a flag set once, under the waiters' lock, followed by notify_all.  There *)
(* is one condition variable and one lock.  How a task that is enabled gets *)
(* to run is module WorkSteal's matter: here it runs when it was enabled.   *)
(*                                                                          *)
(* The clock is abstracted to "the deadline of t has passed".               *)
(****************************************************************************)
EXTENDS Integers, Sequences, FiniteSets, SequencesExt

CONSTANTS
    Tasks,      \* the coroutines that wait
    Timed,      \* those that also call wait_until, wait_for and sleep
    Kinds,      \* the functions called: "wait", "until"
    LockKind,   \* what the caller's lock is: "spin" SpinMutex, "mutex" Mutex
    Nobody,     \* no owner
    TimerThread,\* the owner of sl while RunTimerLoop works
    MaxOps      \* bound: calls a task makes

ASSUME TimedAssumption == Timed \subseteq Tasks /\ Nobody \notin Tasks
ASSUME KindsAssumption == Kinds \subseteq {"wait", "until"}
ASSUME LockKindAssumption == LockKind \in {"spin", "mutex"}
ASSUME TimerAssumption == TimerThread \notin Tasks /\ TimerThread # Nobody
ASSUME OpsAssumption == MaxOps \in Nat

VARIABLES
    pc,         \* where each task is
    op,         \* the call it is in; "timeout": a wait_until that timed out
    ops,        \* calls made
    satisfied,  \* what the waiters wait for
    lock,       \* owner of the lock passed to wait
    wListLock,  \* owner of ConditionVariableAny::wListLock between two steps
    waitList,   \* ConditionVariableAny::waitList
    sl,         \* owner of Timer::sl between two steps
    cvStatus,   \* TaskInterface::cvStatus: "0", "this", "-1" or "-2"
    timeOut,    \* list the task's timeout is on: "none", "wheel" or "expired"
    due,        \* the deadline of the task's call has passed
    ready,      \* how often the task is in a ready queue; 2: the assertion failed
    swept,      \* history: a waiter that timed out has cleared waitList
    leaked      \* history: a call returned with its timeout still expired

vars == <<pc, op, ops, satisfied, lock, wListLock, waitList, sl, cvStatus, timeOut,
          due, ready, swept, leaked>>

Lists == {"none", "wheel", "expired"}

timerVars == <<sl, timeOut, due, leaked>>
listVars  == <<wListLock, waitList, cvStatus, swept>>

Init ==
    /\ pc = [t \in Tasks |-> "run"]
    /\ op = [t \in Tasks |-> "none"]
    /\ ops = [t \in Tasks |-> 0]
    /\ satisfied = FALSE
    /\ lock = Nobody
    /\ wListLock = Nobody
    /\ waitList = <<>>
    /\ sl = Nobody
    /\ cvStatus = [t \in Tasks |-> "0"]
    /\ timeOut = [t \in Tasks |-> "none"]
    /\ due = [t \in Tasks |-> FALSE]
    /\ ready = [t \in Tasks |-> 0]
    /\ swept = FALSE
    /\ leaked = FALSE

Goto(t, label) == pc' = [pc EXCEPT ![t] = label]

(* EnableImmediately of every task in S.  One that is in a queue already    *)
(* fails the assertion "Should not duplicate ready worksteal".              *)
EnableAll(S) ==
    ready' = [t \in Tasks |-> IF t \in S /\ ready[t] < 2 THEN ready[t] + 1
                                                         ELSE ready[t]]

-----------------------------------------------------------------------------
(* Calls and returns of the waiting functions with a predicate.             *)

(* wait(lk, pred) or wait_until(lk, tp, pred), the caller holding lk.  The  *)
(* deadline may already have passed.                                        *)
Call(t, k) ==
    /\ pc[t] = "run" /\ ops[t] < MaxOps /\ lock = Nobody
    /\ k = "until" => t \in Timed
    /\ lock' = t
    /\ op' = [op EXCEPT ![t] = k]
    /\ ops' = [ops EXCEPT ![t] = @ + 1]
    /\ \E d \in BOOLEAN : due' = [due EXCEPT ![t] = d /\ k = "until"]
    /\ Goto(t, "pred")
    /\ UNCHANGED <<satisfied, listVars, sl, timeOut, leaked, ready>>

(* The call returns to its caller, who lets go of the lock.                 *)
Return(t) ==
    /\ lock' = Nobody
    /\ op' = [op EXCEPT ![t] = "none"]
    /\ Goto(t, "run")

(* while (!pred())                                                          *)
PredHolds(t) ==
    /\ pc[t] = "pred" /\ satisfied
    /\ Return(t)
    /\ UNCHANGED <<ops, satisfied, listVars, timerVars, ready>>

(* Mutation: wait_until lets go of wListLock before the timer is armed. *)
RegisterUnlocked(t) ==
    /\ pc[t] = "pred" /\ ~satisfied /\ wListLock = Nobody
    /\ waitList' = Append(waitList, t)
    /\ cvStatus' = [cvStatus EXCEPT ![t] = IF op[t] = "wait" THEN "0" ELSE "this"]
    /\ Goto(t, "unlock")
    /\ UNCHANGED <<op, ops, satisfied, lock, timerVars, ready, swept, wListLock>>

(* wait and wait_until up to the unlocking of the caller's lock: the task   *)
(* is linked and cvStatus says whether a deadline is set.  wait_until keeps *)
(* wListLock until the timer is armed.                                      *)
Register(t) ==
    /\ pc[t] = "pred" /\ ~satisfied /\ wListLock = Nobody
    /\ waitList' = Append(waitList, t)
    /\ cvStatus' = [cvStatus EXCEPT ![t] = IF op[t] = "wait" THEN "0" ELSE "this"]
    /\ wListLock' = IF op[t] = "wait" THEN Nobody ELSE t
    /\ Goto(t, "unlock")
    /\ UNCHANGED <<op, ops, satisfied, lock, timerVars, ready, swept>>

(* li.unlock()                                                              *)
Unlock(t) ==
    /\ pc[t] = "unlock"
    /\ lock' = Nobody
    /\ Goto(t, IF op[t] = "wait" THEN "swap" ELSE "arm")
    /\ UNCHANGED <<op, ops, satisfied, listVars, timerVars, ready>>

(* Mutex::unlock takes the semaphore's SpinMutex, and SpinMutex::lock calls *)
(* ctask::Yield while another task is inside Mutex::lock.                   *)
SpinYield(t) ==
    /\ pc[t] = "unlock" /\ LockKind = "mutex"
    /\ \E u \in Tasks \ {t} : pc[u] \in {"run", "relock"}
    /\ EnableAll({t})
    /\ Goto(t, "yielded")
    /\ UNCHANGED <<op, ops, satisfied, lock, listVars, timerVars>>

-----------------------------------------------------------------------------
(* The timer.                                                               *)

(* SleepFor, SleepUntil.                                                    *)
Sleep(t) ==
    /\ pc[t] = "run" /\ t \in Timed /\ ops[t] < MaxOps
    /\ op' = [op EXCEPT ![t] = "sleep"]
    /\ ops' = [ops EXCEPT ![t] = @ + 1]
    /\ \E d \in BOOLEAN : due' = [due EXCEPT ![t] = d]
    /\ Goto(t, "arm")
    /\ UNCHANGED <<satisfied, lock, listVars, sl, timeOut, leaked, ready>>

(* The clock passes the deadline of t.                                      *)
Tick(t) ==
    /\ op[t] \in {"until", "sleep"} /\ ~due[t]
    /\ due' = [due EXCEPT ![t] = TRUE]
    /\ UNCHANGED <<pc, op, ops, satisfied, lock, listVars, sl, timeOut, leaked, ready>>

(* UpdateTimeoutWithoutLock: what is due goes to the expired list; nobody's *)
(* callback is called yet.                                                  *)
UpdateTimeout ==
    [t \in Tasks |-> IF timeOut[t] = "wheel" /\ due[t] THEN "expired" ELSE timeOut[t]]

(* timeout_init and timeouts_add.  If the timeout is still on a list, the   *)
(* memset of its links leaves that list in disorder: its elements may be    *)
(* lost or found on another list.                                           *)
Added(t) ==
    IF timeOut[t] = "none"
      THEN {[UpdateTimeout EXCEPT ![t] = IF due[t] THEN "expired" ELSE "wheel"]}
      ELSE [Tasks -> Lists]

(* SetTimeout up to SwapOut; the variant for a sleep also resets cvStatus,  *)
(* the others unlock wListLock.                                             *)
SetTimeout(t) ==
    /\ pc[t] = "arm" /\ sl = Nobody
    /\ timeOut' \in Added(t)
    /\ IF op[t] = "sleep"
         THEN cvStatus' = [cvStatus EXCEPT ![t] = "0"] /\ UNCHANGED wListLock
         ELSE wListLock' = Nobody /\ UNCHANGED cvStatus
    /\ Goto(t, "swap")
    /\ UNCHANGED <<op, ops, satisfied, lock, waitList, swept, leaked, sl, due, ready>>

(* SwapOut: the task goes on once it was enabled, and may have been already.*)
SwapOut(t) ==
    /\ pc[t] \in {"swap", "yielded"} /\ ready[t] > 0
    /\ ready' = [ready EXCEPT ![t] = @ - 1]
    /\ Goto(t, IF pc[t] = "yielded" THEN "unlock"
               ELSE CASE op[t] = "wait" -> "relock" [] op[t] = "until" -> "disarm"
                      [] op[t] = "sleep" -> "run")
    /\ op' = IF op[t] = "sleep" THEN [op EXCEPT ![t] = "none"] ELSE op
    /\ UNCHANGED <<ops, satisfied, lock, listVars, timerVars>>

(* Mutation: a timeout that did not fire is left on the wheel. *)
KeepTimeout(t) == timeOut[t]

(* if (!timeout_expired(timeOut)) timeout_del(timeOut)                      *)
DropTimeout(t) == IF timeOut[t] = "expired" THEN "expired" ELSE "none"

(* The end of SetTimeout with a lock.                                       *)
Disarm(t) ==
    /\ pc[t] = "disarm" /\ sl = Nobody
    /\ timeOut' = [timeOut EXCEPT ![t] = DropTimeout(t)]
    /\ leaked' = (leaked \/ timeOut[t] = "expired")
    /\ Goto(t, "check")
    /\ UNCHANGED <<op, ops, satisfied, lock, listVars, sl, due, ready>>

(* waitList.remove: every element equal to the task goes.  operator== of    *)
(* tasks compares the ids, and the id of every task that is not a real-time *)
(* task is 0: all of them are equal, and the list is empty afterwards.      *)
RemoveFromList(t) == <<>>

(* wait_until after its sleep: was it a timeout?                            *)
CheckTimeout(t) ==
    /\ pc[t] = "check"
    /\ \/ /\ due[t] /\ wListLock = Nobody
          /\ waitList' = RemoveFromList(t)
          /\ op' = [op EXCEPT ![t] = "timeout"]
          /\ swept' = TRUE
       \/ /\ ~due[t]
          /\ UNCHANGED <<waitList, op, swept>>
    /\ Goto(t, "relock")
    /\ UNCHANGED <<ops, satisfied, lock, wListLock, cvStatus, timerVars, ready>>

(* li.lock(), then the assertion "Maybe this task is waiting after?".       *)
Relock(t) ==
    /\ pc[t] = "relock" /\ lock = Nobody
    /\ lock' = t
    /\ Goto(t, "after")
    /\ UNCHANGED <<op, ops, satisfied, listVars, timerVars, ready>>

(* Back in the loop of the variants with a predicate.                       *)
After(t) ==
    /\ pc[t] = "after"
    /\ IF op[t] = "timeout" THEN Return(t)
                            ELSE Goto(t, "pred") /\ UNCHANGED <<lock, op>>
    /\ UNCHANGED <<ops, satisfied, listVars, timerVars, ready>>

(* RunTimerLoop, NotifyAllTimeouts: lock and update; passes of the loop     *)
(* that find nothing change nothing.                                        *)
TimerLock ==
    /\ sl = Nobody
    /\ \E t \in Tasks : UpdateTimeout[t] = "expired"
    /\ sl' = TimerThread
    /\ timeOut' = UpdateTimeout
    /\ UNCHANGED <<pc, op, ops, satisfied, lock, listVars, due, leaked, ready>>

(* Mutation: the timer wakes the task whatever cvStatus was. *)
TimerAlwaysWakes(old) == TRUE

(* Mutation: the timer wakes only tasks that called sleep. *)
TimerWakesSleepers(old) == old = "0"

(* cvWaitFlag != -1: no notification was first.                             *)
TimerWakes(old) == old # "-1"

(* timeouts_get and TimeoutCallback.                                        *)
TimeoutCallback(t) ==
    /\ sl = TimerThread /\ timeOut[t] = "expired"
    /\ timeOut' = [timeOut EXCEPT ![t] = "none"]
    /\ cvStatus' = [cvStatus EXCEPT ![t] = "-2"]
    /\ EnableAll(IF TimerWakes(cvStatus[t]) THEN {t} ELSE {})
    /\ UNCHANGED <<pc, op, ops, satisfied, lock, wListLock, waitList, swept, leaked, sl, due>>

TimerUnlock ==
    /\ sl = TimerThread
    /\ \A t \in Tasks : timeOut[t] # "expired"
    /\ sl' = Nobody
    /\ UNCHANGED <<pc, op, ops, satisfied, lock, listVars, timeOut, due, leaked, ready>>

-----------------------------------------------------------------------------
(* Notifications, by any thread.                                            *)

(* Mutation: only waiters with a deadline are woken. *)
WakesTimedOnly(t) == cvStatus[t] = "this"

(* The compare_exchange from this to -1, or a waiter without a deadline.    *)
NotifyWakes(t) == cvStatus[t] \in {"this", "0"}

(* Pop the tasks of S from the list, which leaves the rest, and enable      *)
(* those not yet timed out.                                                 *)
WakeUp(S, rest) ==
    /\ wListLock = Nobody
    /\ waitList' = rest
    /\ cvStatus' = [t \in Tasks |-> IF t \in S /\ cvStatus[t] = "this" THEN "-1"
                                                                      ELSE cvStatus[t]]
    /\ EnableAll({t \in S : NotifyWakes(t)})
    /\ UNCHANGED <<wListLock, swept>>

(* notify_one, also when what the waiters wait for has not come about.      *)
NotifyOne ==
    /\ waitList # <<>>
    /\ WakeUp({Head(waitList)}, Tail(waitList))
    /\ UNCHANGED <<pc, op, ops, satisfied, lock, timerVars>>

(* Mutation: only the first waiter is told. *)
FirstOnly == IF waitList = <<>> THEN {} ELSE {Head(waitList)}

(* The waiters notify_all pops.                                             *)
AllWaiters == ToSet(waitList)

(* Notifier::Notify, set_ready: under the waiters' lock.                    *)
SetReady ==
    /\ ~satisfied /\ lock = Nobody
    /\ satisfied' = TRUE
    /\ WakeUp(AllWaiters, <<>>)
    /\ UNCHANGED <<pc, op, ops, lock, timerVars>>

-----------------------------------------------------------------------------
(* No assertion of EnableImmediately failed: nothing follows one that did.  *)
Running == \A t \in Tasks : ready[t] <= 1

(* The next step of a call in progress.                                     *)
Step(t) ==
    \/ PredHolds(t) \/ Register(t) \/ Unlock(t) \/ SetTimeout(t) \/ SwapOut(t)
    \/ Disarm(t) \/ CheckTimeout(t) \/ Relock(t) \/ After(t)

TimerStep == TimerLock \/ TimerUnlock \/ \E t \in Tasks : TimeoutCallback(t)

Next ==
    /\ Running
    /\ \/ \E t \in Tasks :
           \/ Step(t) \/ SpinYield(t) \/ Sleep(t) \/ Tick(t)
           \/ \E k \in Kinds : Call(t, k)
       \/ TimerStep \/ NotifyOne \/ SetReady

Spec == Init /\ [][Next]_vars

(* Tasks in a call go on, the timer thread runs and time passes.  Nobody is *)
(* obliged to call, to notify or to set the flag, and who gets a contended  *)
(* lock is left open.                                                       *)
Fairness ==
    /\ \A t \in Tasks : WF_vars(Running /\ Step(t)) /\ WF_vars(Running /\ Tick(t))
    /\ WF_vars(Running /\ TimerStep)

FairSpec == Spec /\ Fairness

-----------------------------------------------------------------------------
(* Properties.                                                              *)

Linked(t) == \E i \in DOMAIN waitList : waitList[i] = t

(* A task is enabled only while it waits to be, and once: the timer and a   *)
(* notification never both wake it.  Otherwise the assertion "Should not    *)
(* duplicate ready worksteal" of EnableImmediately fails, or a task that    *)
(* runs is queued.  It holds until a timeout is leaked, save for one case:  *)
(* a waiter without a deadline whose Mutex yields it while it is registered *)
(* is enabled by the yield and by a notification (WorkSteal's SpecMutex     *)
(* shows the assertion fail).  With a SpinMutex there is no exception.      *)
WokenOnce ==
    leaked \/ \A t \in Tasks :
        /\ ready[t] <= 1 \/ (op[t] = "wait" /\ pc[t] = "yielded")
        /\ ready[t] >= 1 => pc[t] \in {"unlock", "swap", "yielded"}

(* What WokenOnce says, of sleeps and waits with a deadline whatever the    *)
(* caller's lock is: a Mutex may yield the registered task, but wait_until  *)
(* holds wListLock meanwhile.                                               *)
TimedWokenOnce ==
    leaked \/ \A t \in Tasks :
        op[t] \in {"until", "timeout", "sleep"} =>
            /\ ready[t] <= 1
            /\ ready[t] = 1 => pc[t] \in {"swap", "yielded"}

(* The assertions around a wait, condition_variable.hpp:29 "Maybe this task *)
(* is waiting before?" and :36 "Maybe this task is waiting after?": a task  *)
(* is in the wait list only between registering and being resumed.          *)
AssertNotWaiting ==
    \A t \in Tasks : pc[t] \in {"run", "pred", "after"} => ~Linked(t)

(* A call leaves nothing behind: those assertions hold, and between two     *)
(* timed calls the task's timeout is on no list, so that its callback       *)
(* cannot fire into a later wait, nor timeout_init clear a linked element.  *)
(* The only leak is a notification that comes when the timeout is already   *)
(* on the expired list.                                                     *)
NothingLeftBehind ==
    leaked \/ /\ AssertNotWaiting
              /\ \A t \in Tasks :
                    pc[t] \notin {"swap", "disarm"} => timeOut[t] = "none"

(* A sleeping waiter without a deadline can still be notified, unless a     *)
(* waiter that timed out has cleared the list or a timeout was leaked.      *)
LostOnlyAfterTimeout ==
    \A t \in Tasks :
        pc[t] = "swap" /\ op[t] = "wait" => Linked(t) \/ ready[t] > 0 \/ swept \/ leaked

(* A sleep with a deadline ends, whoever notifies or does not, unless a     *)
(* leaked timeout has put the lists of the timer in disorder.               *)
TimedSleepEnds ==
    \A t \in Tasks :
        pc[t] = "swap" /\ op[t] \in {"until", "sleep"} ~> (pc[t] # "swap" \/ leaked)

(* Who waits for what has come about returns, unless a waiter that timed    *)
(* out has cleared the list or a timeout was leaked.                        *)
FinishedWaitReturns ==
    \A t \in Tasks : satisfied /\ op[t] = "wait" ~> (op[t] = "none" \/ swept \/ leaked)

=============================================================================
