------------------------------ MODULE Monitors ------------------------------
(* The objects built from a lock, a condition variable and a predicate:

     semaphore   Semaphore         src/include/concurrency/semaphore.hpp
     waitgroup   WaitGroup         src/src/concurrency/waitgroup.cc
     channel     Channel           src/include/concurrency/channel.tcc
     variable    BroadcastVariable src/src/remote/data.cc
     logger      LogManager        src/src/remote/data.cc
     pool        ThreadPool        src/include/remote/threadpool.hpp

   A behaviour is about one of them. A section under the lock is one step, but
   for one that goes to sleep: between the test of its predicate and its entry
   in the list of waiters the lock is held, and whoever notifies without the
   lock may come in between. Condition variables are the subject of
   CondVar.tla; here notify_one takes the waiter that has waited longest, or
   any waiter of a std::condition_variable, which may also wake for nothing.  *)
EXTENDS Integers, Sequences, FiniteSets, SequencesExt

CONSTANTS
    Consumers,      \* tasks that wait for a permit, an element or a job
    Producers,      \* tasks that give them
    Sole,           \* one of each
    Increments,     \* what WaitGroup::Add is called with
    Nobody,
    SemaphoreSize,  \* template parameter of Semaphore
    Capacities,     \* of a channel; 0: unlimited
    Garbage,        \* what the counter of a WaitGroup may hold at first
    Full,           \* 200 in RunLoggerMainLoop
    MaxOps          \* bound on the calls of a task

Tasks == Consumers \cup Producers

ASSUME TasksAssumption == IsFiniteSet(Tasks) /\ Nobody \notin Tasks
ASSUME SoleAssumption ==
    /\ \A t, u \in Sole \cap Consumers : t = u
    /\ \A t, u \in Sole \cap Producers : t = u
ASSUME SizeAssumption ==
    /\ SemaphoreSize \in Nat /\ Capacities \subseteq Nat /\ Garbage \subseteq Int
    /\ Increments \subseteq Int
    /\ Full \in Nat /\ MaxOps \in Nat

VARIABLES
    kind,       \* which object
    cap,        \* of the channel
    count,      \* count of the semaphore, c of the WaitGroup
    queue,      \* elements of the channel, stream, buffer or list of jobs
    closed,     \* is_closed, isCancelled, ~toContinue, stop
    lock,       \* the task that holds the lock to go to sleep, or Nobody
    waitList,   \* tasks asleep in the condition variable
    pc,         \* of every task
    op,         \* of every task: the call it is in
    ops,        \* of every task: its calls so far
    put,        \* the number of elements that were put; the n-th is n
    taken       \* the elements that were taken, in order

vars == <<kind, cap, count, queue, closed, lock, waitList, pc, op, ops, put, taken>>

Init ==
    /\ kind \in {"semaphore", "waitgroup", "channel", "variable", "logger", "pool"}
    /\ cap \in IF kind = "channel" THEN Capacities ELSE {0}
    /\ count \in CASE kind = "semaphore" -> {SemaphoreSize}
                   [] kind = "waitgroup" -> Garbage
                   [] OTHER -> {0}
    /\ queue = <<>> /\ put = 0 /\ taken = <<>>
    /\ closed = FALSE
    /\ lock = Nobody /\ waitList = <<>>
    /\ pc = [t \in Tasks |-> "idle"]
    /\ op = [t \in Tasks |-> "none"]
    /\ ops = [t \in Tasks |-> 0]

------------------------------------------------------------------------------
\* Tasks W are woken, which leaves the rest asleep, while task t goes on at label l.
Wake(W, rest, t, l) ==
    /\ pc' = [u \in Tasks |-> IF u = t THEN l ELSE IF u \in W THEN "awake" ELSE pc[u]]
    /\ waitList' = rest

WakeAt(i, t, l) == Wake({waitList[i]}, RemoveAt(waitList, i), t, l)

NotifyNobody(t, l) == Wake({}, waitList, t, l)
NotifyAll(t, l) == Wake(ToSet(waitList), <<>>, t, l)

\* notify_one takes the first of the list, or anyone of a std::condition_variable's.
NotifyOne(t, l) ==
    \/ waitList = <<>> /\ NotifyNobody(t, l)
    \/ \E i \in DOMAIN waitList :
          /\ kind \in {"logger", "pool"} \/ i = 1
          /\ WakeAt(i, t, l)

\* Task t, which is in no call, begins one.
Begin(t, what) ==
    /\ pc[t] = "idle" /\ ops[t] < MaxOps
    /\ op' = [op EXCEPT ![t] = what]
    /\ ops' = [ops EXCEPT ![t] = @ + 1]

PutElement == queue' = Append(queue, put + 1) /\ put' = put + 1

\* Mutation: the newest element.
TakeElementLast ==
    /\ queue' = Front(queue)
    /\ taken' = Append(taken, Last(queue))
    /\ UNCHANGED put

TakeElement ==
    /\ queue' = Tail(queue)
    /\ taken' = Append(taken, Head(queue))
    /\ UNCHANGED put
TakeNothing == UNCHANGED <<queue, taken, put>>

------------------------------------------------------------------------------
(* Calls that wait. *)

\* The predicate a call waits for.
Ready(t) ==
    CASE op[t] = "Wait" -> IF kind = "semaphore" THEN count > 0 ELSE count <= 0
      [] op[t] = "push" -> cap = 0 \/ Len(queue) < cap
      [] op[t] \in {"pop", "Get", "work"} -> queue # <<>> \/ closed
      [] op[t] = "flush" -> Len(queue) >= Full \/ closed

\* Semaphore::Wait, WaitGroup::Wait, BroadcastVariable::Get; nobody begins a call
\* on a variable that is being destroyed.
Call(t) ==
    /\ t \in Consumers
    /\ CASE kind \in {"semaphore", "waitgroup"} -> Begin(t, "Wait")
         [] kind = "variable" -> ~closed /\ Begin(t, "Get")
         [] OTHER -> FALSE
    /\ pc' = [pc EXCEPT ![t] = "test"]
    /\ UNCHANGED <<kind, cap, count, queue, closed, lock, waitList, put, taken>>

\* Channel, "in >> ch": whether it is closed is looked at before the lock.
Push(t) ==
    /\ kind = "channel" /\ t \in Producers
    /\ Begin(t, "push")
    /\ pc' = [pc EXCEPT ![t] = IF closed THEN "idle" ELSE "test"]   \* throws ClosedChannel
    /\ UNCHANGED <<kind, cap, count, queue, closed, lock, waitList, put, taken>>

\* Channel, "out << ch"
Pop(t) ==
    /\ kind = "channel" /\ t \in Consumers
    /\ Begin(t, "pop")
    /\ pc' = [pc EXCEPT ![t] = IF closed /\ queue = <<>> THEN "idle" ELSE "test"]
    /\ UNCHANGED <<kind, cap, count, queue, closed, lock, waitList, put, taken>>

\* ThreadPool's workers, and the thread of RunLoggerMainLoop at the head of its
\* loop, which it leaves when the scheduler stopped.
Loop(t) ==
    /\ pc[t] = "idle"
    /\ \/ kind = "pool" /\ t \in Consumers /\ op' = [op EXCEPT ![t] = "work"]
       \/ kind = "logger" /\ t \in Consumers \cap Sole /\ op' = [op EXCEPT ![t] = "flush"]
    /\ pc' = [pc EXCEPT ![t] = IF kind = "logger" /\ closed THEN "exit" ELSE "test"]
    /\ UNCHANGED <<kind, cap, count, queue, closed, lock, waitList, ops, put, taken>>

\* The predicate is false: keep the lock and go to sleep.
TestFails(t) ==
    /\ pc[t] \in {"test", "awake"} /\ lock = Nobody
    /\ ~Ready(t)
    /\ lock' = t
    /\ pc' = [pc EXCEPT ![t] = "sleep"]
    /\ UNCHANGED <<kind, cap, count, queue, closed, waitList, op, ops, put, taken>>

\* wait: enter the list, then release the lock.
Sleep(t) ==
    /\ pc[t] = "sleep"
    /\ waitList' = Append(waitList, t)
    /\ lock' = Nobody
    /\ pc' = [pc EXCEPT ![t] = "asleep"]
    /\ UNCHANGED <<kind, cap, count, queue, closed, op, ops, put, taken>>

\* Mutation: a woken waiter does not test again.
PassesOnceWoken(t) == (pc[t] = "awake" /\ op[t] \in {"Wait", "push"}) \/ Ready(t)

\* Whether a task may go on after its wait: all waits test their predicate again.
Passes(t) == Ready(t)

\* What a call does, under the lock, when its predicate is true.
DoWait(t) ==
    /\ op[t] = "Wait"
    /\ count' = IF kind = "semaphore" THEN count - 1 ELSE count
    /\ TakeNothing
    /\ NotifyNobody(t, "idle")

DoPush(t) ==
    /\ op[t] = "push"
    /\ PutElement /\ UNCHANGED <<count, taken>>
    /\ NotifyOne(t, "idle")

DoPop(t) ==
    /\ op[t] = "pop"
    /\ IF queue = <<>> THEN TakeNothing ELSE TakeElement
    /\ UNCHANGED count
    /\ NotifyOne(t, "idle")

\* Get answers an exception when the variable is being destroyed.
DoGet(t) ==
    /\ op[t] = "Get"
    /\ IF closed THEN TakeNothing ELSE TakeElement
    /\ UNCHANGED count
    /\ NotifyNobody(t, "idle")

\* Mutation: a worker leaves jobs behind.
LeavesAtOnce == closed

\* A worker runs the job it took without the lock and comes back to its loop.
Leaves == closed /\ queue = <<>>
DoWork(t) ==
    /\ op[t] = "work"
    /\ IF Leaves THEN TakeNothing ELSE TakeElement
    /\ UNCHANGED count
    /\ NotifyNobody(t, IF Leaves THEN "exit" ELSE "idle")

\* The logger takes the whole buffer and sends it.
DoFlush(t) ==
    /\ op[t] = "flush"
    /\ taken' = taken \o queue /\ queue' = <<>>
    /\ UNCHANGED <<count, put>>
    /\ NotifyNobody(t, "idle")

Proceed(t) ==
    /\ pc[t] \in {"test", "awake"} /\ lock = Nobody
    /\ Passes(t)
    /\ DoWait(t) \/ DoPush(t) \/ DoPop(t) \/ DoGet(t) \/ DoWork(t) \/ DoFlush(t)
    /\ UNCHANGED <<kind, cap, closed, lock, op, ops>>

\* A std::condition_variable wakes a task without a notification.
Spurious(t) ==
    /\ kind \in {"logger", "pool"}
    /\ \E i \in DOMAIN waitList : waitList[i] = t /\ WakeAt(i, t, "awake")
    /\ UNCHANGED <<kind, cap, count, queue, closed, lock, op, ops, put, taken>>

------------------------------------------------------------------------------
(* Calls that give. *)

\* Semaphore::Signal
Signal(t) ==
    /\ kind = "semaphore" /\ lock = Nobody
    /\ Begin(t, "none")
    /\ count' = count + 1
    /\ NotifyOne(t, "idle")
    /\ UNCHANGED <<kind, cap, queue, closed, lock, put, taken>>

\* Semaphore::TryWait
TryWait(t) ==
    /\ kind = "semaphore" /\ lock = Nobody
    /\ Begin(t, "none")
    /\ count' = IF count > 0 THEN count - 1 ELSE count
    /\ UNCHANGED <<kind, cap, queue, closed, lock, waitList, pc, put, taken>>

\* WaitGroup::Add notifies nobody, also when it is called with less than zero.
Add(t) ==
    /\ kind = "waitgroup" /\ lock = Nobody
    /\ Begin(t, "none")
    /\ \E incr \in Increments : count' = count + incr
    /\ UNCHANGED <<kind, cap, queue, closed, lock, waitList, pc, put, taken>>

\* Mutation: off by one.
AllDoneBelow(c) == c < 0

\* WaitGroup::Done
AllDone(c) == c <= 0
Done(t) ==
    /\ kind = "waitgroup" /\ lock = Nobody
    /\ Begin(t, "none")
    /\ count' = count - 1
    /\ IF AllDone(count') THEN NotifyAll(t, "idle") ELSE NotifyNobody(t, "idle")
    /\ UNCHANGED <<kind, cap, queue, closed, lock, put, taken>>

\* BroadcastVariable::Append
AppendElement(t) ==
    /\ kind = "variable" /\ t \in Producers /\ lock = Nobody /\ ~closed
    /\ Begin(t, "none")
    /\ PutElement
    /\ NotifyOne(t, "idle")
    /\ UNCHANGED <<kind, cap, count, closed, lock, taken>>

\* LogRaw notifies only for the first entry of a buffer.
LogRaw(t) ==
    /\ kind = "logger" /\ t \in Producers /\ lock = Nobody
    /\ Begin(t, "none")
    /\ PutElement
    /\ IF Len(queue') = 1 THEN NotifyOne(t, "idle") ELSE NotifyNobody(t, "idle")
    /\ UNCHANGED <<kind, cap, count, closed, lock, taken>>

\* ThreadPool::enqueue throws when the pool stops; it notifies after the lock.
Enqueue(t) ==
    /\ kind = "pool" /\ t \in Producers /\ lock = Nobody
    /\ Begin(t, "none")
    /\ IF closed
         THEN UNCHANGED <<pc, queue, put>>
         ELSE PutElement /\ pc' = [pc EXCEPT ![t] = "notify"]
    /\ UNCHANGED <<kind, cap, count, closed, lock, waitList, taken>>

Notice(t) ==
    /\ pc[t] = "notify"
    /\ NotifyOne(t, "idle")
    /\ UNCHANGED <<kind, cap, count, queue, closed, lock, op, ops, put, taken>>

------------------------------------------------------------------------------
(* The end of an object, in two steps. *)

\* Channel::close notifies one task first. ~BroadcastVariable and ShutDown set
\* their flag without the lock, ~ThreadPool with it.
Close(t) ==
    /\ t \in Producers /\ ~closed /\ pc[t] = "idle"
    /\ \/ /\ kind = "channel"
          /\ NotifyOne(t, "closing")
          /\ UNCHANGED closed
       \/ /\ kind \in {"variable", "logger", "pool"}
          /\ (kind = "pool" => lock = Nobody)
          /\ closed' = TRUE
          /\ NotifyNobody(t, "closing")
    /\ UNCHANGED <<kind, cap, count, queue, lock, op, ops, put, taken>>

\* close sets is_closed; the destructors notify all, StopLoggerMainLoop one.
Closing(t) ==
    /\ pc[t] = "closing"
    /\ closed' = TRUE
    /\ CASE kind = "channel" -> NotifyNobody(t, "idle")
         [] kind = "logger" -> NotifyOne(t, "idle")
         [] OTHER -> NotifyAll(t, "idle")
    /\ UNCHANGED <<kind, cap, count, queue, lock, op, ops, put, taken>>

Step(t) == TestFails(t) \/ Sleep(t) \/ Proceed(t) \/ Notice(t) \/ Closing(t)

Next ==
    \E t \in Tasks :
        \/ Call(t) \/ Push(t) \/ Pop(t) \/ Loop(t)
        \/ TestFails(t) \/ Sleep(t) \/ Proceed(t) \/ Spurious(t)
        \/ Signal(t) \/ TryWait(t) \/ Add(t) \/ Done(t)
        \/ AppendElement(t) \/ LogRaw(t) \/ Enqueue(t) \/ Notice(t)
        \/ Close(t) \/ Closing(t)

Spec == Init /\ [][Next]_vars

\* A task inside a call is scheduled again, and the threads of the pool and of
\* the logger come back to their loops.
Fairness == \A t \in Tasks : WF_vars(Step(t)) /\ WF_vars(Loop(t))

------------------------------------------------------------------------------
Awake == {t \in Tasks : pc[t] \in {"awake", "notify"}}

\* At most one reader and one writer have called so far.
OnePair == \A t \in Tasks : ops[t] > 0 => t \in Sole

\* No wake-up is lost: while a task sleeps, no more permits, elements or jobs lie
\* ready than tasks are on their way to them, a WaitGroup is not done, and a
\* channel with room has no writer asleep. That holds although tasks that come
\* later take what others were woken for. Of a channel of limited capacity it
\* holds until a second reader or writer comes: they share one list, and
\* notify_one may wake one of the wrong side. Add is called without negative
\* increments, and the end of an object is not counted.
WakeupsCover ==
    \A t \in ToSet(waitList) :
        CASE op[t] = "Wait" -> IF kind = "semaphore"
                               THEN count <= Cardinality(Awake) ELSE count > 0
          [] op[t] = "work" -> Len(queue) <= Cardinality(Awake)
          [] op[t] = "pop" -> cap = 0 \/ OnePair => Len(queue) <= Cardinality(Awake)
          [] op[t] = "Get" -> Len(queue) <= Cardinality(Awake) \/ closed
          [] op[t] = "push" -> OnePair => Len(queue) >= cap
          [] OTHER -> TRUE

\* However many are woken at once, permits never become negative, and a channel
\* never holds more than its capacity, with any number of writers.
LimitsKept ==
    /\ kind = "semaphore" => count >= 0
    /\ cap > 0 => Len(queue) <= cap

\* Every element is taken at most once and in the order it was put in, by however
\* many readers, workers or flushes, and none disappears.
TakenInOrder == taken \o queue = [n \in 1 .. put |-> n]

\* ~ThreadPool, which joins the workers, returns, and by then every job that was
\* accepted was taken, although a worker may be about to sleep or a notification
\* still under way when it begins.
PoolDrains ==
    kind = "pool" /\ closed ~> queue = <<>> /\ \A t \in Consumers : pc[t] = "exit"
=============================================================================
