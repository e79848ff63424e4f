------------------------------- MODULE Future -------------------------------
(***************************************************************************)
(* Futures and promises (include/concurrency/future.hpp).                  *)
(*                                                                         *)
(* A program builds a graph of shared states: promises it fulfils itself,  *)
(* asynchronous tasks, continuations (then), timeouts, when_all, when_any. *)
(* Threads run concurrently: the one that builds (client), those that set  *)
(* promises and then run the callback of the state they made ready         *)
(* (running), executor tasks (jobs) and the time watcher (timers).         *)
(*                                                                         *)
(* One step is what the code does under the lock of one shared state.  The *)
(* mutexes of timeouts and contexts are held longer: while the callback of *)
(* the state set under them runs, and what that callback sets off in turn. *)
(*                                                                         *)
(* A future is continued at most once and a continuation that returns a    *)
(* future returns one that does not depend on it; the program sets a       *)
(* promise at most once, and its continuations do not block.               *)
(***************************************************************************)
EXTENDS Naturals, FiniteSets

CONSTANT MaxStates          \* bound: how many shared states are ever made

ASSUME MaxStatesAssumption == MaxStates \in Nat \ {0}

States == 1 .. MaxStates

VARIABLES
  made,      \* how many shared states exist; they are numbered from 1
  result,    \* result[s]: "none" until satisfied_
  executed,  \* executed_: the callback was started
  cb,        \* cb_: the callback of the state
  expiry,    \* timeout_state_ of the state
  owned,     \* promises the program holds
  leaves,    \* states that depend on no other
  running,   \* states whose callback is started and not yet done
  jobs,      \* tasks created for continuations, by async and by name
  timers,    \* <<state, target>> handed to the time watcher
  ctx,       \* contexts of when_all and when_any, by the state they set
  client,    \* what the building thread is in the middle of
  waits,     \* states a task is blocked on in wait
  rejected,  \* states on which the library threw promise_already_satisfied
  frame      \* on which thread a callback runs: the locks it holds, and the
             \* continuation, if any, that waits for it to return

shared == <<result, executed, running, waits, rejected>>
vars == <<made, expiry, owned, leaves, jobs, timers, ctx, client, cb, shared, frame>>

NoCallback == [kind |-> "none"]
NoContext  == [total |-> 0]
Idle       == [op |-> "none", todo |-> {}, to |-> 0]
NoFrame    == [held |-> {}, caller |-> 0]
Failures   == {"error", "broken", "timedout"}
Vias       == {"inline", "executor", "traits"}

Satisfied(s) == result[s] # "none"

\* then, timeout, when_all and when_any take a future that is not yet continued
Free(s) == s \in 1 .. made /\ cb[s] = NoCallback /\ s \notin client.todo

Init ==
  /\ made = 0
  /\ result = [s \in States |-> "none"]
  /\ executed = [s \in States |-> FALSE]
  /\ cb = [s \in States |-> NoCallback]
  /\ expiry = [s \in States |-> "not_set"]
  /\ owned = {} /\ leaves = {} /\ running = {} /\ jobs = {} /\ timers = {}
  /\ ctx = [s \in States |-> NoContext]
  /\ client = Idle
  /\ waits = {} /\ rejected = {}
  /\ frame = [s \in States |-> NoFrame]

-----------------------------------------------------------------------------
(* shared_state.  "rest" is running without the callback of the caller.    *)


\* set_ready: wake the waiting tasks, start the callback unless it was started
SetReady(s, r, rest) ==
  LET runs == cb[s] # NoCallback /\ ~executed[s]
  IN  /\ result' = [result EXCEPT ![s] = r]
      /\ waits' = waits \ {s}
      /\ executed' = [executed EXCEPT ![s] = @ \/ runs]
      /\ running' = IF runs THEN rest \cup {s} ELSE rest
      /\ UNCHANGED rejected

\* set_value and set_exception: throw if the state is satisfied
Set(s, r, rest) ==
  \/ ~Satisfied(s) /\ SetReady(s, r, rest)
  \/ /\ Satisfied(s)
     /\ rejected' = rejected \cup {s}
     /\ running' = rest
     /\ UNCHANGED <<result, executed, waits>>


\* set_callback: start it at once if the state is satisfied already
NeedExecute(s) == Satisfied(s) /\ ~executed[s]

SetCallback(s, c, rest) ==
  /\ cb' = [cb EXCEPT ![s] = c]
  /\ executed' = [executed EXCEPT ![s] = @ \/ NeedExecute(s)]
  /\ running' = IF NeedExecute(s) THEN rest \cup {s} ELSE rest
  /\ UNCHANGED <<result, waits, rejected>>

\* ~promise: a state that is not satisfied becomes broken
Abandon(s, rest) ==
  \/ ~Satisfied(s) /\ SetReady(s, "broken", rest)
  \/ Satisfied(s) /\ running' = rest /\ UNCHANGED <<result, executed, waits, rejected>>

Later(s, c, rest) ==            \* executor.CreateBatchTask in a callback
  /\ jobs' = jobs \cup {[from |-> s, c |-> c]}
  /\ running' = rest
  /\ UNCHANGED <<result, executed, waits, rejected, cb>>

Make == made < MaxStates /\ made' = made + 1
New  == made + 1

-----------------------------------------------------------------------------
(* Locks.  timeout_mutex_ of a state, and the mutex of a context, are named *)
(* after the one state that is set under them.                             *)

LockFree(d) == \A s \in running : d \notin frame[s].held

\* the mutex the callback of s takes
LockOf(s) == IF cb[s].kind \in {"timeout", "all", "any"} THEN {cb[s].to} ELSE {}

\* a callback that starts in this step runs on the thread f; those in rest go on
Thread(rest, f) ==
  frame' = [s \in States |-> IF s \in running' \ rest THEN f
                             ELSE IF s \in rest THEN frame[s] ELSE NoFrame]

\* what the program, a task or the client starts runs on a thread without locks
OwnThread == Thread(running, NoFrame)

\* the continuation of s does not wait for a promise it has set
Returned(s) == \A t \in running : frame[t].caller # s

-----------------------------------------------------------------------------
(* What the program does with promises and futures.                        *)

NewPromise ==
  /\ Make
  /\ owned' = owned \cup {New} /\ leaves' = leaves \cup {New}
  /\ UNCHANGED <<expiry, jobs, timers, ctx, client, cb, shared>>

SetPromise(s) ==
  /\ s \in owned /\ ~Satisfied(s)
  /\ \E r \in {"value", "error"} : Set(s, r, running)
  /\ UNCHANGED <<made, expiry, owned, leaves, jobs, timers, ctx, client, cb>>

DropPromise(s) ==
  /\ s \in owned
  /\ owned' = owned \ {s}
  /\ Abandon(s, running)
  /\ UNCHANGED <<made, expiry, leaves, jobs, timers, ctx, client, cb>>

\* make_ready_future, make_exceptional_future
MakeReadyFuture ==
  /\ Make
  /\ leaves' = leaves \cup {New}
  /\ \E r \in {"value", "error"} : Set(New, r, running)
  /\ UNCHANGED <<expiry, owned, jobs, timers, ctx, client, cb>>

\* A promise moves into a new batch, real-time or interactive task.
NewTask(kind) ==
  /\ Make
  /\ leaves' = leaves \cup {New}
  /\ jobs' = jobs \cup {[from |-> New, c |-> [kind |-> kind, to |-> New]]}
  /\ UNCHANGED <<expiry, owned, timers, ctx, client, cb, shared>>

\* async: with the default stack traits or with given ones
Async == NewTask("async")

\* CreateLocalNamed...Execution: an interactive task may be cancelled, a batch or
\* real-time task is as good as one of async
CreateLocalNamedExecution == \E kind \in {"interactive", "async"} : NewTask(kind)

\* CreateJSONBatchCall, which then waits: Invoke puts an exception into the value
CreateJSONBatchCall == NewTask("call")

\* wait and get: the task blocks while the state is not satisfied
Wait(s) ==
  /\ s \in 1 .. made /\ ~Satisfied(s)
  /\ waits' = waits \cup {s}
  /\ UNCHANGED <<made, expiry, owned, leaves, jobs, timers, ctx, client, cb,
                 result, executed, running, rejected>>

\* wait_for and wait_until return timeout while the state is not satisfied
WaitTimesOut(s) ==
  /\ s \in waits
  /\ waits' = waits \ {s}
  /\ UNCHANGED <<made, expiry, owned, leaves, jobs, timers, ctx, client, cb,
                 result, executed, running, rejected>>

\* then: a new promise moves into the callback
Then(s) ==
  /\ Make /\ client = Idle /\ Free(s)
  /\ \E via \in Vias, flat \in BOOLEAN :
       SetCallback(s, [kind |-> "then", to |-> New, via |-> via, flat |-> flat], running)
  /\ UNCHANGED <<expiry, owned, leaves, jobs, timers, ctx, client>>

\* timeout: the watcher first, then the callback
Timeout(s) ==
  /\ Make /\ client = Idle /\ Free(s)
  /\ timers' = timers \cup {<<s, New>>}
  /\ client' = [op |-> "timeout", todo |-> {s}, to |-> New]
  /\ UNCHANGED <<expiry, owned, leaves, jobs, ctx, cb, shared>>

TimeoutCallback ==
  /\ client.op = "timeout"
  /\ \E s \in client.todo : SetCallback(s, [kind |-> "timeout", to |-> client.to], running)
  /\ client' = Idle
  /\ UNCHANGED <<made, expiry, owned, leaves, jobs, timers, ctx>>

\* when_all and when_any: the futures move into a new context
When(op, S) ==
  /\ Make /\ client = Idle /\ \A s \in S : Free(s)
  /\ ctx' = [ctx EXCEPT ![New] =
       [op |-> op, total |-> Cardinality(S), members |-> S, count |-> 0, processed |-> 0,
        ready |-> FALSE, moved |-> FALSE]]
  /\ client' = [op |-> op, todo |-> S, to |-> New]
  /\ UNCHANGED <<expiry, owned, leaves, jobs, timers, cb, shared>>

WhenAll == \E S \in SUBSET (1 .. made) : When("all", S)
WhenAny == \E S \in SUBSET (1 .. made) : When("any", S)

\* the loops of when_all and when_any give every element its callback
Visit(op, next) ==
  /\ client.op = op
  /\ \E s \in client.todo :
       /\ SetCallback(s, [kind |-> op, to |-> client.to], running)
       /\ client' = [client EXCEPT !.op = next, !.todo = @ \ {s}]
  /\ UNCHANGED <<made, expiry, owned, leaves, jobs, timers, ctx>>

VisitAll == Visit("all", "all")
VisitAny == Visit("any", "processed")

\* ++processed, outside the mutex of the context
CountProcessed ==
  /\ client.op = "processed"
  /\ ctx' = [ctx EXCEPT ![client.to].processed = @ + 1]
  /\ client' = [client EXCEPT !.op = "any"]
  /\ UNCHANGED <<made, expiry, owned, leaves, jobs, timers, cb, shared>>

\* the return of when_all; a context without callbacks dies with its promise
ReturnAll ==
  /\ client.op = "all" /\ client.todo = {}
  /\ IF ctx[client.to].total = 0 THEN Abandon(client.to, running) ELSE UNCHANGED shared
  /\ client' = Idle
  /\ UNCHANGED <<made, expiry, owned, leaves, jobs, timers, ctx, cb>>

\* the last block of when_any, under the mutex of the context
ReturnAny ==
  LET c == ctx[client.to] IN
  /\ client.op = "any" /\ client.todo = {} /\ LockFree(client.to)
  /\ \/ /\ c.ready /\ ~c.moved
        /\ Set(client.to, "value", running)
        /\ ctx' = [ctx EXCEPT ![client.to].moved = TRUE]
     \/ c.total = 0 /\ Abandon(client.to, running) /\ UNCHANGED ctx
     \/ c.total > 0 /\ ~(c.ready /\ ~c.moved) /\ UNCHANGED <<ctx, shared>>
  /\ client' = Idle
  /\ UNCHANGED <<made, expiry, owned, leaves, jobs, timers, cb>>

-----------------------------------------------------------------------------
(* Callbacks and tasks.                                                    *)

\* Mutation: the exception of the argument is swallowed.
ValueOutcomesSwallow(s) == {"value", "error"}

\* A continuation that returns a value: whatever it does, the exception of its
\* argument is handed on; its own exception otherwise.
ValueOutcomes(s) == {IF result[s] \in Failures THEN result[s] ELSE "value", "error"}

CallValue(s, c, rest) ==
  /\ \E r \in ValueOutcomes(s) : Set(c.to, r, rest)
  /\ UNCHANGED cb

\* A continuation that returns a future: its result is forwarded.
CallFuture(s, c, rest) ==
  \/ Set(c.to, "error", rest) /\ UNCHANGED cb
  \/ \E u \in leaves :
       /\ Free(u)
       /\ SetCallback(u, [kind |-> "forward", to |-> c.to, via |-> c.via, flat |-> FALSE], rest)

Forward(s, c, rest) == Set(c.to, result[s], rest) /\ UNCHANGED cb

Call(s, c, rest) ==
  \/ c.kind = "then" /\ ~c.flat /\ CallValue(s, c, rest)
  \/ c.kind = "then" /\ c.flat /\ CallFuture(s, c, rest)
  \/ c.kind = "forward" /\ Forward(s, c, rest)

\* then_impl without executor
CallbackInline(s) ==
  /\ cb[s].kind \in {"then", "forward"} /\ cb[s].via = "inline"
  /\ Call(s, cb[s], running \ {s})
  /\ UNCHANGED <<expiry, jobs, ctx>>

\* then_impl with an executor: the argument is taken, the call is a batch task
CallbackExecutor(s) ==
  /\ cb[s].kind \in {"then", "forward"} /\ cb[s].via = "executor"
  /\ Later(s, cb[s], running \ {s})
  /\ UNCHANGED <<expiry, ctx>>

\* then_impl with an executor and stack traits; a future that is returned is
\* forwarded by a task with the default traits
CallbackTraits(s) ==
  /\ cb[s].kind = "then" /\ cb[s].via = "traits"
  /\ Later(s, [cb[s] EXCEPT !.via = "executor"], running \ {s})
  /\ UNCHANGED <<expiry, ctx>>

\* the result under timeout_mutex_, unless the watcher came first
CallbackTimeout(s) ==
  /\ cb[s].kind = "timeout"
  /\ \/ /\ expiry[s] = "expired"
        /\ running' = running \ {s}
        /\ UNCHANGED <<expiry, result, executed, waits, rejected>>
     \/ /\ expiry[s] # "expired"
        /\ expiry' = [expiry EXCEPT ![s] = "result_set"]
        /\ Set(cb[s].to, result[s], running \ {s})
  /\ UNCHANGED <<jobs, ctx, cb>>

\* Mutation: when_all counts one future too many.
AllReadyEarly(c) == c.count + 1 = c.total \/ c.count + 2 = c.total

AllReady(c) == c.count + 1 = c.total

CallbackAll(s) ==
  LET d == cb[s].to IN
  /\ cb[s].kind = "all"
  /\ ctx' = [ctx EXCEPT ![d].count = @ + 1]
  /\ \/ AllReady(ctx[d]) /\ Set(d, "value", running \ {s})
     \/ ~AllReady(ctx[d]) /\ running' = running \ {s} /\ UNCHANGED <<result, executed, waits, rejected>>
  /\ UNCHANGED <<expiry, jobs, cb>>

\* Mutation: when_any does not wait for its loop.
MayMoveAtOnce(c) == ~c.moved

MayMove(c) == c.processed = c.total /\ ~c.moved

CallbackAny(s) ==
  LET d == cb[s].to
      c == ctx[d]
      first == ~c.ready
  IN
  /\ cb[s].kind = "any"
  /\ ctx' = [ctx EXCEPT ![d].ready = TRUE, ![d].moved = @ \/ (first /\ MayMove(c))]
  /\ \/ first /\ MayMove(c) /\ Set(d, "value", running \ {s})
     \/ /\ ~(first /\ MayMove(c))
        /\ running' = running \ {s}
        /\ UNCHANGED <<result, executed, waits, rejected>>
  /\ UNCHANGED <<expiry, jobs, cb>>

\* What the callback sets under its lock it continues under that lock.
Callback(s) ==
  /\ s \in running /\ Returned(s) /\ \A d \in LockOf(s) : LockFree(d)
  /\ \/ CallbackInline(s) \/ CallbackExecutor(s) \/ CallbackTraits(s)
     \/ CallbackTimeout(s) \/ CallbackAll(s) \/ CallbackAny(s)
  /\ Thread(running \ {s}, [frame[s] EXCEPT !.held = @ \cup LockOf(s)])
  /\ UNCHANGED <<made, owned, leaves, timers, client>>

\* The code of an inline continuation sets or drops another promise, and waits
\* for what that sets off on its own thread.
ContinuationSets(s) ==
  /\ s \in running /\ Returned(s)
  /\ cb[s].kind = "then" /\ cb[s].via = "inline"
  /\ \E p \in owned : SetPromise(p) \/ DropPromise(p)
  /\ Thread(running, [frame[s] EXCEPT !.caller = s])

TaskOutcomes(kind) == IF kind = "call" THEN {"value"} ELSE {"value", "error"}

RunTask(j) ==
  /\ jobs' = jobs \ {j}
  /\ \/ /\ j.c.kind \in {"async", "interactive", "call"}
        /\ \E r \in TaskOutcomes(j.c.kind) : Set(j.c.to, r, running)
        /\ UNCHANGED cb
     \/ Call(j.from, j.c, running)
  /\ UNCHANGED <<made, owned, leaves, timers, client, expiry, ctx>>

\* onCancel of an interactive task that the main scheduler gave up
CancelTask(j) ==
  /\ j.c.kind = "interactive"
  /\ jobs' = jobs \ {j}
  /\ Set(j.c.to, "error", running)
  /\ UNCHANGED <<made, owned, leaves, timers, client, expiry, ctx, cb>>

\* A scheduler is destroyed with the tasks in its queues, and their promises.
DiscardTask(j) ==
  /\ jobs' = jobs \ {j}
  /\ Abandon(j.c.to, running)
  /\ UNCHANGED <<made, owned, leaves, timers, client, expiry, ctx, cb>>

\* Mutation: the watcher does not look for a result.
ExpireUnchecked(s, d) ==
  /\ <<s, d>> \in timers
  /\ timers' = timers \ {<<s, d>>}
  /\ expiry' = [expiry EXCEPT ![s] = "expired"]
  /\ Set(d, "timedout", running)
  /\ Thread(running, [NoFrame EXCEPT !.held = {d}])
  /\ UNCHANGED <<made, owned, leaves, jobs, ctx, client, cb>>

\* the watcher calls what timeout gave it, under timeout_mutex_
Expire(s, d) ==
  /\ <<s, d>> \in timers /\ LockFree(d)
  /\ timers' = timers \ {<<s, d>>}
  /\ \/ expiry[s] = "result_set" /\ UNCHANGED <<expiry, shared>>
     \/ /\ expiry[s] # "result_set"
        /\ expiry' = [expiry EXCEPT ![s] = "expired"]
        /\ Set(d, "timedout", running)
  /\ Thread(running, [NoFrame EXCEPT !.held = {d}])
  /\ UNCHANGED <<made, owned, leaves, jobs, ctx, client, cb>>

-----------------------------------------------------------------------------
ClientContinues == TimeoutCallback \/ VisitAll \/ VisitAny \/ CountProcessed \/ ReturnAll \/ ReturnAny

Program ==
  \/ NewPromise \/ MakeReadyFuture \/ Async \/ CreateLocalNamedExecution
  \/ CreateJSONBatchCall \/ WhenAll \/ WhenAny \/ ClientContinues
  \/ \E s \in States : \/ SetPromise(s) \/ DropPromise(s) \/ Wait(s) \/ WaitTimesOut(s)
                       \/ Then(s) \/ Timeout(s)
  \/ \E j \in jobs : RunTask(j) \/ CancelTask(j) \/ DiscardTask(j)

Next ==
  \/ Program /\ OwnThread
  \/ \E s \in States : Callback(s) \/ ContinuationSets(s)
  \/ \E t \in timers : Expire(t[1], t[2])

Spec == Init /\ [][Next]_vars

\* Threads go on, tasks run, and the program destroys each promise in the end.
Fairness ==
  /\ WF_vars(ClientContinues /\ OwnThread)
  /\ WF_vars((\E j \in jobs : RunTask(j)) /\ OwnThread)
  /\ \A s \in States : WF_vars(DropPromise(s) /\ OwnThread) /\ WF_vars(Callback(s))

FairSpec == Spec /\ Fairness

-----------------------------------------------------------------------------
(* Properties.                                                             *)

\* No internal set_value or set_exception ever meets a satisfied state, however
\* setters, set_callback, the watcher and the loops of when_any interleave.
NoDoubleSet == rejected = {}

\* The future of when_all has a value only when every member is satisfied.
AllAfterMembers ==
  \A d \in 1 .. made : ctx[d] # NoContext /\ ctx[d].op = "all" /\ result[d] = "value"
    => \A s \in ctx[d].members : Satisfied(s)

\* when_any moves its sequence out only after the loop that indexes it has given
\* every element its callback, and only for an element that is satisfied.
AnyAfterVisit ==
  \A d \in 1 .. made : ctx[d] # NoContext /\ ctx[d].moved =>
    /\ \A s \in ctx[d].members : cb[s] = [kind |-> "any", to |-> d]
    /\ \E s \in ctx[d].members : Satisfied(s)

\* when_all waits for all of its futures, when_any for one of them and for its
\* own loop, in whatever order callbacks, setters and the loops come.
WhenConsistent == AllAfterMembers /\ AnyAfterVisit

\* A failed future never becomes a value along then with a value, forward or timeout.
FailureHandedOn ==
  \A s \in 1 .. made :
    /\ \/ cb[s].kind \in {"forward", "timeout"}
       \/ cb[s].kind = "then" /\ ~cb[s].flat
    /\ result[cb[s].to] = "value"
    => result[s] = "value"

\* The watcher and the result exclude each other: the state says who came first,
\* and the future of timeout has the outcome of that one.
TimeoutConsistent ==
  \A s \in 1 .. made : cb[s].kind = "timeout" =>
    /\ expiry[s] = "expired" => result[cb[s].to] = "timedout"
    /\ expiry[s] = "result_set" => result[cb[s].to] = result[s]
    /\ expiry[s] = "not_set" => ~Satisfied(cb[s].to)

\* A thread waits for a mutex that it holds itself: a continuation that runs under
\* the mutex of a timeout or of when_any has made another member of it ready.
LocksItself == \E s \in running : LockOf(s) \cap frame[s].held # {}


=============================================================================
