---------------------------- MODULE FutureProofs ----------------------------
(***************************************************************************)
(* The invariants of Future, for any number of shared states.              *)
(*                                                                         *)
(* That no state is set twice rests on one idea: every promise is in one   *)
(* place at a time.  The program owns it, or a task does, or a callback    *)
(* that is still to run, or a timeout that is not yet decided, or a        *)
(* context that is not yet complete; and while it is there its state is    *)
(* not satisfied.                                                          *)
(***************************************************************************)
EXTENDS Future, FiniteSetTheorems, TLAPS

Outcomes  == {"none", "value"} \cup Failures
Passed    == [kind : {"then", "forward"}, to : States, via : Vias, flat : BOOLEAN]
Decided   == [kind : {"timeout", "all", "any"}, to : States]
TaskKinds == {"async", "interactive", "call"}
Tasks     == [kind : TaskKinds, to : States]
Contexts  == [op : {"all", "any"}, total : Nat, members : SUBSET States, count : Nat,
              processed : Nat, ready : BOOLEAN, moved : BOOLEAN]
ClientOps == {"none", "timeout", "all", "any", "processed"}

\* The variables keep their types.
TypeInv ==
  /\ made \in 0 .. MaxStates
  /\ result \in [States -> Outcomes]
  /\ executed \in [States -> BOOLEAN]
  /\ cb \in [States -> {NoCallback} \cup Passed \cup Decided]
  /\ expiry \in [States -> {"not_set", "expired", "result_set"}]
  /\ owned \subseteq leaves /\ leaves \subseteq 1 .. made
  /\ running \subseteq States
  /\ jobs \subseteq [from : States, c : Passed \cup Tasks]
  /\ timers \subseteq States \X States
  /\ ctx \in [States -> {NoContext} \cup Contexts]
  /\ client \in [op : ClientOps, todo : SUBSET States, to : States \cup {0}]

Live(s)    == cb[s] # NoCallback /\ (~executed[s] \/ s \in running)
Passing(s) == cb[s].kind \in {"then", "forward"}

\* A state that is not made is as Init left it.
FreshInv ==
  \A s \in States : s > made =>
    /\ ~Satisfied(s) /\ cb[s] = NoCallback
    /\ expiry[s] = "not_set" /\ ctx[s] = NoContext

\* A callback is started once, and only when its state is satisfied.
RunInv ==
  \A s \in States :
    /\ executed[s] => Satisfied(s) /\ cb[s] # NoCallback
    /\ s \in running => executed[s]

\* The promise of a task is there alone; the task of a continuation stands for the
\* callback it came from.
JobInv ==
  \A j \in jobs :
    /\ j.c.to <= made /\ j.c.to \notin owned /\ ~Satisfied(j.c.to)
    /\ \A i \in jobs : i.c.to = j.c.to => i = j
    /\ j.c.kind \in TaskKinds => j.c.to \in leaves
    /\ j.c.kind \notin TaskKinds =>
         /\ Satisfied(j.from) /\ cb[j.from] # NoCallback /\ ~Live(j.from)
         /\ cb[j.from].kind = j.c.kind /\ cb[j.from].to = j.c.to
         /\ cb[j.from].flat = j.c.flat

\* The continuation of s has returned a future and its promise is passed on.
Handed(s) ==
  /\ cb[s].kind = "then" /\ cb[s].flat /\ ~Live(s)
  /\ \A j \in jobs : j.c.kind = "then" => j.from # s

\* The promise of a continuation is in its callback alone, or was handed on.
PassInv ==
  \A s \in States : Passing(s) =>
    /\ cb[s].to <= made /\ cb[s].to \notin leaves /\ ctx[cb[s].to] = NoContext
    /\ Live(s) => ~Satisfied(cb[s].to)
    /\ \A t \in States : Passing(t) /\ cb[t].to = cb[s].to /\ t # s =>
         \/ Handed(s) /\ cb[t].kind = "forward"
         \/ Handed(t) /\ cb[s].kind = "forward"

\* s is, or is about to be, limited by a timeout that sets d.
Limits(s, d) ==
  \/ cb[s].kind = "timeout" /\ cb[s].to = d
  \/ client.op = "timeout" /\ s \in client.todo /\ client.to = d

\* The promise of a timeout is with the timeout alone, and expiry says whether
\* the watcher or the result has taken it.
LimitInv ==
  \A s, d \in States : Limits(s, d) =>
    /\ s <= made /\ d <= made /\ d \notin leaves /\ ctx[d] = NoContext
    /\ \A t \in States : /\ Passing(t) => cb[t].to # d
                         /\ Limits(t, d) => t = s
    /\ expiry[s] = "not_set" => ~Satisfied(d)
    /\ expiry[s] = "expired" => result[d] = "timedout"
    /\ expiry[s] = "result_set" =>
         /\ cb[s].kind = "timeout" /\ ~Live(s)
         /\ Satisfied(s) /\ result[d] = result[s]

\* The watcher knows states that are limited, and was not yet there.
TimerInv ==
  /\ \A t \in timers : Limits(t[1], t[2]) /\ expiry[t[1]] # "expired"
  /\ \A s \in States : expiry[s] # "not_set" => \E d \in States : Limits(s, d)

\* What the building thread is in the middle of.
ClientInv ==
  /\ client.op = "none" => client = Idle
  /\ \A s \in client.todo : s <= made /\ cb[s] = NoCallback
  /\ client.op # "none" => client.to \in 1 .. made /\ client.to \notin leaves
  /\ client.op = "timeout" => \E s \in States : client.todo = {s}
  /\ client.op \in {"all", "any", "processed"} =>
       /\ ctx[client.to] # NoContext
       /\ ctx[client.to].op = IF client.op = "all" THEN "all" ELSE "any"
       /\ client.todo \subseteq ctx[client.to].members

\* The callbacks that are done.
Done == {s \in States : executed[s] /\ s \notin running}

\* The members of the context d whose callback the loop has not set yet.
Todo(d) ==
  IF client.op \in {"all", "any", "processed"} /\ client.to = d THEN client.todo ELSE {}

\* The promise of a context is with the context alone.
ContextInv ==
  /\ \A s \in States : cb[s].kind \in {"all", "any"} =>
       /\ ctx[cb[s].to] # NoContext /\ ctx[cb[s].to].op = cb[s].kind
       /\ s \in ctx[cb[s].to].members
  /\ \A d \in States : ctx[d] # NoContext =>
       /\ d \notin leaves /\ ctx[d].members \subseteq 1 .. made
       /\ ctx[d].total = Cardinality(ctx[d].members)
       /\ \A s \in ctx[d].members \ Todo(d) : cb[s] = [kind |-> ctx[d].op, to |-> d]

\* A context of when_all counts the callbacks that are done.
AllInv ==
  \A d \in States : ctx[d] # NoContext /\ ctx[d].op = "all" =>
    /\ ctx[d].count = Cardinality(ctx[d].members \cap Done)
    /\ Satisfied(d) => ctx[d].count = ctx[d].total
    /\ ~ctx[d].moved

\* A context of when_any is set when it is moved, after its loop.
AnyInv ==
  \A d \in States : ctx[d] # NoContext /\ ctx[d].op = "any" =>
    /\ Satisfied(d) => ctx[d].moved \/ ctx[d].members = {}
    /\ ctx[d].ready => \E s \in ctx[d].members : Satisfied(s)
    /\ ctx[d].moved => ctx[d].ready /\ Todo(d) = {}
    /\ Cardinality(ctx[d].members \ Todo(d)) =
         ctx[d].processed + IF client.op = "processed" /\ client.to = d THEN 1 ELSE 0

IInv == /\ TypeInv /\ FreshInv /\ RunInv /\ JobInv /\ PassInv /\ LimitInv /\ TimerInv
        /\ ClientInv /\ ContextInv /\ AllInv /\ AnyInv /\ NoDoubleSet /\ FailureHandedOn

-----------------------------------------------------------------------------
(* Lemmas.                                                                 *)

\* What the kinds of a callback, a context and a task tell apart.
LEMMA Kinds ==
  /\ \A c \in Passed : c # NoCallback /\ c.kind \in {"then", "forward"} /\ c.to \in States
  /\ \A c \in Decided : c # NoCallback /\ c.kind \in {"timeout", "all", "any"} /\ c.to \in States
  /\ \A c \in Tasks : c.kind \in TaskKinds /\ c.to \in States
  /\ NoCallback.kind = "none"
  /\ \A c \in Contexts : c # NoContext
  /\ {"then", "forward"} \cap TaskKinds = {}
<1>1. \A c \in Passed : c # NoCallback /\ c.kind \in {"then", "forward"} /\ c.to \in States
  BY DEF Passed, NoCallback
<1>2. \A c \in Decided : c # NoCallback /\ c.kind \in {"timeout", "all", "any"} /\ c.to \in States
  BY DEF Decided, NoCallback
<1>3. \A c \in Tasks : c.kind \in TaskKinds /\ c.to \in States
  BY DEF Tasks
<1>4. \A c \in Contexts : c # NoContext
  <2>1. SUFFICES ASSUME NEW c \in Contexts, c = NoContext PROVE FALSE
    OBVIOUS
  <2>2. DOMAIN c = {"op", "total", "members", "count", "processed", "ready", "moved"}
    BY DEF Contexts
  <2>3. DOMAIN c = {"total"}
    BY <2>1 DEF NoContext
  <2>4. "op" \in {"total"}
    BY <2>2, <2>3
  <2> QED BY <2>4
<1> QED BY <1>1, <1>2, <1>3, <1>4 DEF NoCallback, TaskKinds

\* The types of callbacks and tasks, by their kinds.
LEMMA Typed ==
  ASSUME TypeInv
  PROVE  /\ \A s \in 1 .. made : s \in States
         /\ \A s \in States : Passing(s) => cb[s] \in Passed
         /\ \A s \in States : cb[s].kind \in {"timeout", "all", "any"} => cb[s] \in Decided
         /\ \A s \in States : cb[s] # NoCallback => cb[s].to \in States
         /\ \A s \in States : cb[s].kind # "none" => cb[s] # NoCallback
         /\ \A j \in jobs : j.from \in States /\ j.c.to \in States /\ j.c \in Passed \cup Tasks
         /\ \A d \in States : ctx[d] # NoContext => ctx[d] \in Contexts
<1>1. \A s \in 1 .. made : s \in States
  BY MaxStatesAssumption DEF TypeInv, States
<1>2. \A s \in States : cb[s] \in {NoCallback} \cup Passed \cup Decided
  BY DEF TypeInv
<1>3. \A j \in jobs : j.from \in States /\ j.c \in Passed \cup Tasks
  BY DEF TypeInv
<1>4. \A d \in States : ctx[d] # NoContext => ctx[d] \in Contexts
  BY DEF TypeInv
<1> QED BY <1>1, <1>2, <1>3, <1>4, Kinds DEF Passing

\* set_ready on a state that is not satisfied.
LEMMA Settle ==
  ASSUME TypeInv, RunInv, NEW d \in States, NEW r \in Outcomes \ {"none"},
         NEW rest \in SUBSET running, SetReady(d, r, rest), ~Satisfied(d), UNCHANGED cb
  PROVE  /\ result' = [result EXCEPT ![d] = r] /\ result' \in [States -> Outcomes]
         /\ executed' \in [States -> BOOLEAN] /\ running' \in SUBSET States
         /\ rejected' = rejected
         /\ RunInv'
         /\ \A s \in States : Live(s)' => Live(s) /\ (s \in running => s \in rest)
         /\ Done' = Done \cup (running \ rest)
<1>1. ~executed[d] /\ d \notin running
  BY DEF RunInv
<1>2. /\ result' = [result EXCEPT ![d] = r] /\ result' \in [States -> Outcomes]
      /\ executed' \in [States -> BOOLEAN] /\ running' \in SUBSET States
      /\ rejected' = rejected
  BY DEF TypeInv, SetReady
<1>3. /\ \A s \in States : s # d => executed'[s] = executed[s]
      /\ executed'[d] = (cb[d] # NoCallback)
      /\ running' = IF cb[d] # NoCallback THEN rest \cup {d} ELSE rest
  BY <1>1 DEF TypeInv, SetReady
<1>4. RunInv'
  BY <1>1, <1>2, <1>3 DEF RunInv, TypeInv, Satisfied, Outcomes, Failures
<1>5. \A s \in States : Live(s)' => Live(s) /\ (s \in running => s \in rest)
  BY <1>1, <1>3 DEF Live, RunInv, TypeInv
<1>6. Done' = Done \cup (running \ rest)
  BY <1>1, <1>3 DEF Done, RunInv, TypeInv
<1> QED BY <1>2, <1>4, <1>5, <1>6

\* set_callback on a state that has none.
LEMMA Attach ==
  ASSUME TypeInv, RunInv, NEW u \in States, NEW c \in Passed \cup Decided,
         NEW rest \in SUBSET running, SetCallback(u, c, rest), cb[u] = NoCallback
  PROVE  /\ cb' = [cb EXCEPT ![u] = c] /\ result' = result /\ rejected' = rejected
         /\ executed' \in [States -> BOOLEAN] /\ running' \in SUBSET States
         /\ RunInv'
         /\ Live(u)' /\ ~Live(u)
         /\ \A s \in States : s # u /\ Live(s)' => Live(s) /\ (s \in running => s \in rest)
         /\ Done' = Done \cup (running \ rest)
<1>1. ~executed[u] /\ u \notin running
  BY DEF RunInv
<1>2. /\ cb' = [cb EXCEPT ![u] = c] /\ result' = result /\ rejected' = rejected
      /\ executed' \in [States -> BOOLEAN] /\ running' \in SUBSET States
  BY DEF TypeInv, SetCallback
<1>3. /\ \A s \in States : s # u => executed'[s] = executed[s] /\ cb'[s] = cb[s]
      /\ executed'[u] = (result[u] # "none")
      /\ cb'[u] = c /\ c # NoCallback
      /\ running' = IF result[u] # "none" THEN rest \cup {u} ELSE rest
  BY <1>1, <1>2, Kinds DEF TypeInv, SetCallback, NeedExecute, Satisfied
<1>4. RunInv'
  BY <1>1, <1>2, <1>3 DEF RunInv, TypeInv, Satisfied
<1>5. \A s \in States : s # u /\ Live(s)' => Live(s) /\ (s \in running => s \in rest)
  BY <1>1, <1>3 DEF Live, RunInv, TypeInv
<1>6. Live(u)' /\ ~Live(u)
  BY <1>1, <1>3 DEF Live, RunInv, TypeInv
<1>7. Done' = Done \cup (running \ rest)
  BY <1>1, <1>3 DEF Done, RunInv, TypeInv
<1> QED BY <1>2, <1>4, <1>5, <1>6, <1>7

\* The members of a context are not continued in another way.
LEMMA Members ==
  ASSUME TypeInv, ClientInv, ContextInv, NEW e \in States, ctx[e] # NoContext,
         NEW s \in ctx[e].members
  PROVE  /\ s \in States /\ ~Passing(s) /\ cb[s].kind # "timeout"
         /\ cb[s] = NoCallback \/ (cb[s].kind = ctx[e].op /\ cb[s].to = e)
         /\ cb[s] = NoCallback <=> s \in Todo(e)
<1>1. ctx[e] \in Contexts
  BY DEF TypeInv
<1>2. s \in States /\ ctx[e].op \in {"all", "any"}
  BY <1>1 DEF Contexts
<1>3. CASE s \in Todo(e)
  BY <1>2, <1>3, Kinds DEF Todo, ClientInv, Passing
<1>4. CASE s \notin Todo(e)
  <2>1. cb[s] = [kind |-> ctx[e].op, to |-> e]
    BY <1>4 DEF ContextInv
  <2> QED BY <1>2, <1>4, <2>1 DEF NoCallback, Passing
<1> QED BY <1>3, <1>4

\* The promise of a task, of the program or of a continuation is fulfilled.
LEMMA Fulfil ==
  ASSUME IInv, NEW d \in 1 .. made, NEW r \in Outcomes \ {"none"}, NEW rest \in SUBSET running,
         SetReady(d, r, rest), ~Satisfied(d), owned' \subseteq owned, jobs' \subseteq jobs,
         UNCHANGED <<made, leaves, cb, expiry, timers, ctx, client>>,
         \A j \in jobs' : j.c.to # d,
         \A s \in States : Passing(s) /\ cb[s].to = d /\ Live(s) => s \in running \ rest,
         \A s \in running \ rest : Passing(s),
         ctx[d] = NoContext, \A s \in States : ~Limits(s, d),
         r = "value" => \A s \in States :
           \/ cb[s].kind = "forward"
           \/ cb[s].kind = "then" /\ ~cb[s].flat
           => cb[s].to # d \/ result[s] = "value"
  PROVE  IInv'
<1> USE DEF IInv
<1>0. d \in States
  BY MaxStatesAssumption DEF TypeInv, States
<1>1. /\ result' = [result EXCEPT ![d] = r] /\ result' \in [States -> Outcomes]
      /\ executed' \in [States -> BOOLEAN] /\ running' \in SUBSET States
      /\ rejected' = rejected
      /\ RunInv'
      /\ \A s \in States : Live(s)' => Live(s) /\ (s \in running => s \in rest)
      /\ Done' = Done \cup (running \ rest)
  BY <1>0, Settle
<1>2. \A s \in States : s # d => result'[s] = result[s]
  BY <1>0, <1>1 DEF TypeInv
<1>3. \A s \in States : Satisfied(s) => Satisfied(s)' /\ s # d
  BY <1>2 DEF Satisfied
<1>4. \A s \in States : /\ Passing(s)' <=> Passing(s)
                        /\ Handed(s) => Handed(s)'
  BY <1>1 DEF Passing, Handed
<1>5. \A s, e \in States : Limits(s, e)' <=> Limits(s, e)
  BY DEF Limits
<1>6. TypeInv'
  BY <1>1 DEF TypeInv
<1>7. FreshInv'
  BY <1>0, <1>2 DEF FreshInv, TypeInv, Satisfied
<1>8. JobInv'
  BY <1>1, <1>2, <1>3, Typed DEF JobInv, Satisfied
<1>9. PassInv'
  BY <1>1, <1>2, <1>4 DEF PassInv, TypeInv, Satisfied, Passing
<1>10. LimitInv'
  BY <1>1, <1>2, <1>3, <1>4, <1>5 DEF LimitInv, TypeInv, Satisfied
<1>11. TimerInv'
  BY <1>5 DEF TimerInv, TypeInv
<1>12. ClientInv' /\ ContextInv'
  BY DEF ClientInv, ContextInv, Todo
<1>13. AllInv'
  <2>1. ASSUME NEW e \in States, ctx[e] # NoContext
        PROVE  ctx[e].members \cap Done' = ctx[e].members \cap Done
    BY <1>1, <2>1, Members
  <2> QED BY <1>2, <2>1 DEF AllInv, Satisfied
<1>14. AnyInv'
  BY <1>2, <1>3, Members DEF AnyInv, Satisfied, Todo
<1>15. NoDoubleSet' /\ FailureHandedOn'
  BY <1>0, <1>1, <1>2, <1>3, Typed DEF NoDoubleSet, FailureHandedOn, TypeInv, Limits, Satisfied, Passing
<1> QED BY <1>1, <1>6, <1>7, <1>8, <1>9, <1>10, <1>11, <1>12, <1>13, <1>14, <1>15

\* Promises of the program and tasks only go away.
LEMMA Shrink ==
  ASSUME IInv, owned' \subseteq owned, jobs' \subseteq jobs,
         UNCHANGED <<made, leaves, cb, expiry, timers, ctx, client, result, executed, running,
                     rejected>>
  PROVE  IInv'
<1> USE DEF IInv
<1>1. \A s \in States : (Live(s)' <=> Live(s)) /\ (Handed(s) => Handed(s)')
  BY DEF Live, Handed
<1>2. TypeInv' /\ FreshInv' /\ RunInv' /\ ClientInv' /\ ContextInv'
  BY DEF TypeInv, FreshInv, RunInv, ClientInv, ContextInv, Satisfied, Todo
<1>3. JobInv'
  BY <1>1, Typed DEF JobInv, Satisfied
<1>4. PassInv'
  BY <1>1 DEF PassInv, Satisfied, Passing
<1>5. LimitInv' /\ TimerInv'
  BY <1>1 DEF LimitInv, TimerInv, Satisfied, Passing, Limits
<1>6. AllInv' /\ AnyInv'
  BY DEF AllInv, AnyInv, Satisfied, Done, Todo
<1>7. NoDoubleSet' /\ FailureHandedOn'
  BY DEF NoDoubleSet, FailureHandedOn
<1> QED BY <1>2, <1>3, <1>4, <1>5, <1>6, <1>7

\* A state that depends on no other is not set by a callback.
LEMMA Leaf ==
  ASSUME IInv, NEW d \in leaves
  PROVE  /\ d \in 1 .. made /\ d \in States /\ ctx[d] = NoContext
         /\ \A s \in States : ~Limits(s, d) /\ (Passing(s) => cb[s].to # d)
<1>1. d \in 1 .. made /\ d \in States
  BY Typed DEF IInv, TypeInv
<1>2. ctx[d] = NoContext
  BY <1>1 DEF IInv, ContextInv
<1> QED BY <1>1, <1>2 DEF IInv, LimitInv, PassInv

LEMMA SetPromiseInv ==
  ASSUME IInv, NEW s \in States, SetPromise(s)
  PROVE  IInv'
<1>1. PICK r \in {"value", "error"} : Set(s, r, running)
  BY DEF SetPromise
<1>2. s \in leaves /\ ~Satisfied(s) /\ SetReady(s, r, running)
  BY <1>1 DEF SetPromise, Set, IInv, TypeInv
<1>3. /\ owned' \subseteq owned /\ jobs' \subseteq jobs /\ \A j \in jobs' : j.c.to # s
      /\ UNCHANGED <<made, leaves, cb, expiry, timers, ctx, client>>
  BY DEF SetPromise, IInv, JobInv
<1>4. r \in Outcomes \ {"none"}
  BY DEF Outcomes, Failures
<1> QED BY <1>2, <1>3, <1>4, Leaf, Fulfil DEF Passing

LEMMA DropPromiseInv ==
  ASSUME IInv, NEW s \in States, DropPromise(s)
  PROVE  IInv'
<1>1. s \in leaves
  BY DEF DropPromise, IInv, TypeInv
<1>2. /\ owned' \subseteq owned /\ jobs' \subseteq jobs /\ \A j \in jobs' : j.c.to # s
      /\ UNCHANGED <<made, leaves, cb, expiry, timers, ctx, client>>
  BY DEF DropPromise, IInv, JobInv
<1>3. CASE ~Satisfied(s)
  <2>1. SetReady(s, "broken", running)
    BY <1>3 DEF DropPromise, Abandon
  <2>2. "broken" \in Outcomes \ {"none"} /\ "broken" # "value"
    BY DEF Outcomes, Failures
  <2> QED BY <1>1, <1>2, <1>3, <2>1, <2>2, Leaf, Fulfil DEF Passing
<1>4. CASE Satisfied(s)
  <2>1. UNCHANGED <<result, executed, running, rejected>>
    BY <1>4 DEF DropPromise, Abandon
  <2> QED BY <1>2, <2>1, Shrink
<1> QED BY <1>3, <1>4

\* A task of async, by name or for a call sets or abandons its promise.
LEMMA TaskEnds ==
  ASSUME IInv, NEW j \in jobs, j.c.kind \in TaskKinds, NEW r \in Outcomes \ {"none"},
         SetReady(j.c.to, r, running), jobs' = jobs \ {j},
         UNCHANGED <<made, owned, leaves, timers, client, expiry, ctx, cb>>
  PROVE  IInv'
<1>1. j.c.to \in leaves /\ ~Satisfied(j.c.to) /\ \A i \in jobs' : i.c.to # j.c.to
  BY DEF IInv, JobInv
<1> QED BY <1>1, Leaf, Fulfil DEF Passing

\* The promise of the continuation c of s, when its callback or its task leaves
\* the tasks J and the callbacks "rest".
Place(s, c, rest, J) ==
  /\ Passing(s) /\ c \in Passed
  /\ c.kind = cb[s].kind /\ c.to = cb[s].to /\ c.flat = cb[s].flat
  /\ Satisfied(s) /\ ~Satisfied(c.to)
  /\ rest \subseteq running /\ running \ rest \subseteq {s} /\ J \subseteq jobs
  /\ Live(s) => s \in running \ rest
  /\ \A j \in J : j.c.to # c.to
  /\ \A t \in States \ {s} : Passing(t) /\ cb[t].to = c.to => Handed(t) /\ cb[s].kind = "forward"

\* A continuation that is to run is where its promise is ...
LEMMA PlaceOfCallback ==
  ASSUME IInv, NEW s \in running, Passing(s)
  PROVE  s \in States /\ Place(s, cb[s], running \ {s}, jobs)
<1>1. s \in States /\ cb[s] \in Passed /\ cb[s] # NoCallback /\ executed[s] /\ Satisfied(s)
  BY Typed, Kinds DEF IInv, TypeInv, RunInv
<1>2. Live(s) /\ ~Satisfied(cb[s].to) /\ ~Handed(s)
  BY <1>1 DEF Live, Handed, IInv, PassInv
<1>3. \A t \in States \ {s} : Passing(t) /\ cb[t].to = cb[s].to => Handed(t) /\ cb[s].kind = "forward"
  BY <1>1, <1>2 DEF IInv, PassInv
<1>4. ASSUME NEW j \in jobs, j.c.to = cb[s].to
      PROVE  FALSE
  <2>1. j.c.kind \notin TaskKinds
    BY <1>1, <1>4 DEF IInv, JobInv, PassInv
  <2>2. /\ j.from \in States /\ ~Live(j.from) /\ cb[j.from].kind = j.c.kind
        /\ cb[j.from].to = j.c.to /\ Passing(j.from)
    BY <2>1, Typed, Kinds DEF IInv, JobInv, Passing
  <2>3. j.from # s /\ Handed(j.from)
    BY <1>2, <1>3, <1>4, <2>2
  <2> QED BY <2>2, <2>3 DEF Handed
<1> QED BY <1>1, <1>2, <1>3, <1>4 DEF Place

\* ... and so is the task of one.
LEMMA PlaceOfTask ==
  ASSUME IInv, NEW j \in jobs, j.c.kind \notin TaskKinds
  PROVE  j.from \in States /\ Place(j.from, j.c, running, jobs \ {j})
<1>1. /\ j.from \in States /\ j.c \in Passed /\ Passing(j.from) /\ Satisfied(j.from) /\ ~Live(j.from)
      /\ j.c.kind = cb[j.from].kind /\ j.c.to = cb[j.from].to /\ j.c.flat = cb[j.from].flat
  BY Typed, Kinds DEF IInv, JobInv, Passing
<1>2. ~Satisfied(j.c.to) /\ \A i \in jobs \ {j} : i.c.to # j.c.to
  BY DEF IInv, JobInv
<1>3. ~Handed(j.from)
  BY <1>1 DEF Handed
<1>4. \A t \in States \ {j.from} :
         Passing(t) /\ cb[t].to = j.c.to => Handed(t) /\ cb[j.from].kind = "forward"
  BY <1>1, <1>3 DEF IInv, PassInv
<1> QED BY <1>1, <1>2, <1>4 DEF Place

\* The continuation sets its promise.
LEMMA ContinuationEnds ==
  ASSUME IInv, NEW s \in States, NEW c, NEW rest, NEW r \in Outcomes \ {"none"},
         Place(s, c, rest, jobs'), SetReady(c.to, r, rest),
         r = "value" /\ (c.kind = "forward" \/ ~c.flat) => result[s] = "value",
         UNCHANGED <<made, owned, leaves, timers, client, expiry, ctx, cb>>
  PROVE  IInv'
<1>1. /\ c.to \in 1 .. made /\ ctx[c.to] = NoContext /\ ~Satisfied(c.to)
      /\ \A t \in States : ~Limits(t, c.to)
  <2>1. c.to \in States /\ c.to <= made /\ ctx[c.to] = NoContext
    BY Kinds DEF IInv, Place, PassInv
  <2> QED BY <2>1, MaxStatesAssumption DEF Place, IInv, LimitInv, States, TypeInv
<1>2. /\ \A t \in States : Passing(t) /\ cb[t].to = c.to /\ Live(t) => t \in running \ rest
      /\ \A t \in running \ rest : Passing(t)
  BY DEF Place, Handed
<1>3. r = "value" => \A t \in States :
        \/ cb[t].kind = "forward"
        \/ cb[t].kind = "then" /\ ~cb[t].flat
        => cb[t].to # c.to \/ result[t] = "value"
  BY DEF Place, Handed, Passing
<1>4. rest \in SUBSET running /\ jobs' \subseteq jobs /\ \A j \in jobs' : j.c.to # c.to
  BY DEF Place
<1> QED BY <1>1, <1>2, <1>3, <1>4, Fulfil

\* The future that a continuation returned gets the promise.
LEMMA ContinuationForwards ==
  ASSUME IInv, NEW s \in States, NEW c, NEW rest, NEW u \in leaves,
         Place(s, c, rest, jobs'), c.kind = "then", c.flat, Free(u),
         SetCallback(u, [kind |-> "forward", to |-> c.to, via |-> c.via, flat |-> FALSE], rest),
         UNCHANGED <<made, owned, leaves, timers, client, expiry, ctx>>
  PROVE  IInv'
<1> DEFINE f == [kind |-> "forward", to |-> c.to, via |-> c.via, flat |-> FALSE]
<1> USE DEF IInv
<1>0. /\ u \in States /\ u \in 1 .. made /\ cb[u] = NoCallback /\ u \notin client.todo
      /\ f \in Passed /\ f.kind = "forward" /\ f.to = c.to /\ rest \in SUBSET running
      /\ c.to \in States
  BY Leaf, Kinds DEF Free, Place, Passed
<1>1. /\ cb' = [cb EXCEPT ![u] = f] /\ result' = result /\ rejected' = rejected
      /\ executed' \in [States -> BOOLEAN] /\ running' \in SUBSET States
      /\ RunInv'
      /\ Live(u)' /\ ~Live(u)
      /\ \A t \in States : t # u /\ Live(t)' => Live(t) /\ (t \in running => t \in rest)
      /\ Done' = Done \cup (running \ rest)
  BY <1>0, Attach
<1> HIDE DEF f
<1>2. /\ \A t \in States : t # u => cb'[t] = cb[t]
      /\ cb'[u] = f
  BY <1>0, <1>1 DEF TypeInv
<1>3. \A t \in States : Satisfied(t)' <=> Satisfied(t)
  BY <1>1 DEF Satisfied
<1>4. /\ Passing(u)' /\ ~Passing(u) /\ u # s
      /\ \A t \in States : t # u => (Passing(t)' <=> Passing(t))
  BY <1>0, <1>2, Kinds DEF Passing, Place
<1>5. \A t \in States : Handed(t) => Handed(t)' /\ t # u
  BY <1>0, <1>1, <1>2, Kinds DEF Handed, Place
<1>6. Handed(s)'
  <2>1. \A j \in jobs' : j.c.kind = "then" => j.from # s
    BY DEF Place, JobInv, TaskKinds
  <2>2. ~Live(s)'
    BY <1>1, <1>4 DEF Place
  <2> QED BY <1>2, <1>4, <2>1, <2>2 DEF Handed, Place
<1>7. \A t, e \in States : Limits(t, e)' <=> Limits(t, e)
  BY <1>0, <1>2, Kinds DEF Limits
<1>8. TypeInv'
  BY <1>0, <1>1 DEF TypeInv, Place
<1>9. FreshInv'
  BY <1>0, <1>1, <1>2 DEF FreshInv, TypeInv, Satisfied
<1>10. JobInv'
  <2>1. SUFFICES ASSUME NEW j \in jobs'
                 PROVE  JobInv!(j)'
    BY DEF JobInv
  <2>2. j \in jobs
    BY DEF Place
  <2>3. j.c.kind \notin TaskKinds => j.from \in States /\ j.from # u
    BY <1>0, <2>2, Typed DEF JobInv
  <2> QED BY <1>1, <1>2, <2>2, <2>3 DEF JobInv, Place, Satisfied
<1>11. PassInv'
  <2>1. ASSUME NEW t \in States, Passing(t)'
        PROVE  /\ cb'[t].to <= made' /\ cb'[t].to \notin leaves' /\ ctx'[cb'[t].to] = NoContext
               /\ Live(t)' => ~Satisfied(cb[t].to)'
    BY <1>0, <1>1, <1>2, <1>4, <2>1 DEF PassInv, Place, Satisfied
  <2>2. ASSUME NEW t \in States, NEW v \in States, Passing(t)', Passing(v)', t # v, cb'[t].to = cb'[v].to
        PROVE  \/ Handed(t)' /\ cb'[v].kind = "forward"
               \/ Handed(v)' /\ cb'[t].kind = "forward"
    <3>1. CASE t # u /\ v # u
      BY <1>2, <1>4, <1>5, <2>2, <3>1 DEF PassInv
    <3>2. CASE t = u \/ v = u
      BY <1>0, <1>2, <1>4, <1>6, <2>2, <3>2 DEF Place
    <3> QED BY <3>1, <3>2
  <2> QED BY <2>1, <2>2 DEF PassInv
<1>12. LimitInv'
  BY <1>0, <1>1, <1>2, <1>4, <1>7, Kinds DEF LimitInv, Satisfied, Place
<1>13. TimerInv'
  BY <1>7 DEF TimerInv, TypeInv
<1>14. \A e \in States : ctx[e] # NoContext => u \notin ctx[e].members
  BY <1>0, Members DEF Todo
<1>15. ClientInv' /\ ContextInv'
  BY <1>0, <1>2, <1>14, Typed, Kinds DEF ClientInv, ContextInv, Todo, TypeInv
<1>16. AllInv'
  <2>1. ASSUME NEW e \in States, ctx[e] # NoContext
        PROVE  ctx[e].members \cap Done' = ctx[e].members \cap Done
    BY <1>1, <2>1, Members DEF Place
  <2> QED BY <1>1, <2>1 DEF AllInv, Satisfied
<1>17. AnyInv'
  BY <1>1 DEF AnyInv, Satisfied, Todo
<1>18. NoDoubleSet' /\ FailureHandedOn'
  BY <1>0, <1>1, <1>2, Typed DEF NoDoubleSet, FailureHandedOn, Place, Satisfied
<1> QED BY <1>1, <1>8, <1>9, <1>10, <1>11, <1>12, <1>13, <1>15, <1>16, <1>17, <1>18

\* The call of a continuation, in a callback or in a task.
LEMMA CallInv ==
  ASSUME IInv, NEW s \in States, NEW c, NEW rest, Place(s, c, rest, jobs'), Call(s, c, rest),
         UNCHANGED <<made, owned, leaves, timers, client, expiry, ctx>>
  PROVE  IInv'
<1>1. {"value", "error", result[s]} \subseteq Outcomes \ {"none"}
  BY DEF Outcomes, Failures, Place, Satisfied, IInv, TypeInv
<1>2. ASSUME NEW r, Set(c.to, r, rest)
      PROVE  SetReady(c.to, r, rest)
  BY <1>2 DEF Set, Place
<1>3. CASE c.kind = "then" /\ ~c.flat /\ CallValue(s, c, rest)
  <2>1. PICK r \in ValueOutcomes(s) : Set(c.to, r, rest)
    BY <1>3 DEF CallValue
  <2>2. r \in Outcomes \ {"none"} /\ (r = "value" => result[s] = "value")
    BY <1>1, <2>1 DEF ValueOutcomes, Outcomes, IInv, TypeInv, Place, Satisfied, Failures
  <2>3. UNCHANGED cb
    BY <1>3 DEF CallValue
  <2> QED BY <1>2, <2>1, <2>2, <2>3, ContinuationEnds
<1>4. CASE c.kind = "then" /\ c.flat /\ CallFuture(s, c, rest)
  <2>1. CASE Set(c.to, "error", rest) /\ UNCHANGED cb
    BY <1>1, <1>2, <2>1, ContinuationEnds
  <2>2. CASE \E u \in leaves :
               /\ Free(u)
               /\ SetCallback(u, [kind |-> "forward", to |-> c.to, via |-> c.via, flat |-> FALSE], rest)
    BY <1>4, <2>2, ContinuationForwards
  <2> QED BY <1>4, <2>1, <2>2 DEF CallFuture
<1>5. CASE c.kind = "forward" /\ Forward(s, c, rest)
  BY <1>1, <1>2, <1>5, ContinuationEnds DEF Forward
<1> QED BY <1>3, <1>4, <1>5 DEF Call

LEMMA RunTaskInv ==
  ASSUME IInv, NEW j \in jobs, RunTask(j)
  PROVE  IInv'
<1>1. jobs' = jobs \ {j} /\ UNCHANGED <<made, owned, leaves, timers, client, expiry, ctx>>
  BY DEF RunTask
<1>2. CASE /\ j.c.kind \in {"async", "interactive", "call"}
           /\ \E r \in TaskOutcomes(j.c.kind) : Set(j.c.to, r, running)
           /\ UNCHANGED cb
  <2>1. PICK r \in {"value", "error"} : Set(j.c.to, r, running)
    BY <1>2 DEF TaskOutcomes
  <2>2. SetReady(j.c.to, r, running) /\ r \in Outcomes \ {"none"} /\ j.c.kind \in TaskKinds
    BY <1>2, <2>1 DEF Set, IInv, JobInv, TaskKinds, Outcomes, Failures
  <2> QED BY <1>1, <1>2, <2>2, TaskEnds
<1>3. CASE Call(j.from, j.c, running)
  <2>1. j.c.kind \notin TaskKinds
    BY <1>3 DEF Call, TaskKinds
  <2> QED BY <1>1, <1>3, <2>1, PlaceOfTask, CallInv
<1> QED BY <1>2, <1>3 DEF RunTask

LEMMA CancelTaskInv ==
  ASSUME IInv, NEW j \in jobs, CancelTask(j)
  PROVE  IInv'
<1>1. /\ SetReady(j.c.to, "error", running) /\ j.c.kind \in TaskKinds
      /\ "error" \in Outcomes \ {"none"}
  BY DEF CancelTask, Set, IInv, JobInv, TaskKinds, Outcomes, Failures
<1> QED BY <1>1, TaskEnds DEF CancelTask

LEMMA DiscardTaskInv ==
  ASSUME IInv, NEW j \in jobs, DiscardTask(j)
  PROVE  IInv'
<1>1. SetReady(j.c.to, "broken", running) /\ "broken" \in Outcomes \ {"none"}
  BY DEF DiscardTask, Abandon, IInv, JobInv, Outcomes, Failures
<1>2. CASE j.c.kind \in TaskKinds
  BY <1>1, <1>2, TaskEnds DEF DiscardTask
<1>3. CASE j.c.kind \notin TaskKinds
  BY <1>1, <1>3, PlaceOfTask, ContinuationEnds DEF DiscardTask
<1> QED BY <1>2, <1>3

LEMMA CallbackInlineInv ==
  ASSUME IInv, NEW s \in running, CallbackInline(s),
         UNCHANGED <<made, owned, leaves, timers, client>>
  PROVE  IInv'
BY PlaceOfCallback, CallInv DEF CallbackInline, Passing

\* A callback is done and starts nothing: what it leaves is as before.
LEMMA Leave ==
  ASSUME TypeInv, RunInv, NEW s \in running, running' = running \ {s}, UNCHANGED <<cb, result, executed>>
  PROVE  /\ RunInv' /\ ~Live(s)' /\ Done' = Done \cup {s}
         /\ \A t \in States : Live(t)' => Live(t) /\ t # s
<1>1. s \in States /\ executed[s]
  BY DEF TypeInv, RunInv
<1> QED BY <1>1 DEF RunInv, Live, Done, Satisfied

\* The call of a continuation is made a task.
LEMMA LaterInv ==
  ASSUME IInv, NEW s \in running, NEW c, Passing(s), c \in Passed,
         c.kind = cb[s].kind, c.to = cb[s].to, c.flat = cb[s].flat,
         Later(s, c, running \ {s}), UNCHANGED <<made, owned, leaves, timers, client, expiry, ctx>>
  PROVE  IInv'
<1> DEFINE i == [from |-> s, c |-> c]
<1> USE DEF IInv
<1>1. /\ s \in States /\ cb[s] # NoCallback /\ jobs' = jobs \cup {i} /\ running' = running \ {s}
      /\ UNCHANGED <<result, executed, rejected, cb>>
      /\ i.from = s /\ i.c = c /\ i \in [from : States, c : Passed \cup Tasks]
  BY Typed, Kinds DEF Later, TypeInv
<1>2. /\ RunInv' /\ ~Live(s)' /\ Done' = Done \cup {s}
      /\ \A t \in States : Live(t)' => Live(t) /\ t # s
  BY <1>1, Leave
<1>3. /\ Satisfied(s) /\ ~Satisfied(c.to) /\ Live(s) /\ c.to \in States
      /\ \A j \in jobs : j.c.to # c.to
      /\ \A t \in States \ {s} : Passing(t) /\ cb[t].to = c.to => Handed(t) /\ cb[s].kind = "forward"
  BY <1>1, PlaceOfCallback, Kinds DEF Place, Live
<1> HIDE DEF i
<1>4. \A t \in States : /\ Passing(t)' <=> Passing(t)
                        /\ Handed(t) => Handed(t)'
  BY <1>1, <1>2, <1>3 DEF Passing, Handed
<1>5. \A t, e \in States : Limits(t, e)' <=> Limits(t, e)
  BY <1>1 DEF Limits
<1>6. TypeInv' /\ FreshInv'
  BY <1>1 DEF TypeInv, FreshInv, Satisfied
<1>7. JobInv'
  <2>1. c.to <= made /\ c.to \notin leaves /\ c.kind \notin TaskKinds
    BY <1>1, Kinds DEF PassInv
  <2>2. ASSUME NEW j \in jobs
        PROVE  JobInv!(j)'
    BY <1>1, <1>2, <1>3, Typed DEF JobInv, Satisfied
  <2>3. JobInv!(i)'
    BY <1>1, <1>2, <1>3, <2>1 DEF JobInv, Satisfied, TypeInv
  <2> QED BY <1>1, <2>2, <2>3 DEF JobInv
<1>8. PassInv'
  BY <1>1, <1>2, <1>4 DEF PassInv, Satisfied, Passing
<1>9. LimitInv' /\ TimerInv'
  BY <1>1, <1>2, <1>4, <1>5 DEF LimitInv, TimerInv, Satisfied, TypeInv
<1>10. ClientInv' /\ ContextInv'
  BY <1>1 DEF ClientInv, ContextInv, Todo
<1>13. AnyInv'
  BY <1>1 DEF AnyInv, Todo, Satisfied
<1>11. AllInv'
  <2>1. ASSUME NEW e \in States, ctx[e] # NoContext
        PROVE  ctx[e].members \cap Done' = ctx[e].members \cap Done
    BY <1>2, <2>1, Members
  <2> QED BY <1>1, <2>1 DEF AllInv, Satisfied
<1>12. NoDoubleSet' /\ FailureHandedOn'
  BY <1>1 DEF NoDoubleSet, FailureHandedOn
<1> QED BY <1>2, <1>6, <1>7, <1>8, <1>9, <1>10, <1>11, <1>12, <1>13

LEMMA CallbackLaterInv ==
  ASSUME IInv, NEW s \in running, CallbackExecutor(s) \/ CallbackTraits(s),
         UNCHANGED <<made, owned, leaves, timers, client>>
  PROVE  IInv'
<1>1. s \in States /\ Passing(s) /\ cb[s] \in Passed
  BY Typed DEF CallbackExecutor, CallbackTraits, Passing, IInv, TypeInv
<1>2. CASE CallbackExecutor(s)
  BY <1>1, <1>2, LaterInv DEF CallbackExecutor
<1>3. CASE CallbackTraits(s)
  <2> DEFINE c == [cb[s] EXCEPT !.via = "executor"]
  <2>1. c \in Passed /\ c.kind = cb[s].kind /\ c.to = cb[s].to /\ c.flat = cb[s].flat
    BY <1>1 DEF Passed, Vias
  <2>2. Later(s, c, running \ {s}) /\ UNCHANGED <<expiry, ctx>>
    BY <1>3 DEF CallbackTraits
  <2> HIDE DEF c
  <2> QED BY <1>1, <2>1, <2>2, LaterInv
<1> QED BY <1>2, <1>3

\* Tasks and continuations do not set what a timeout or a context sets.
LEMMA Apart ==
  ASSUME IInv, NEW d \in States, (\E s \in States : Limits(s, d)) \/ ctx[d] # NoContext
  PROVE  /\ d \in 1 .. made /\ d \notin leaves
         /\ \A s \in States : Passing(s) => cb[s].to # d
         /\ \A j \in jobs : j.c.to # d
<1>1. d <= made /\ d \notin leaves
  <2>1. CASE \E s \in States : Limits(s, d)
    BY <2>1 DEF IInv, LimitInv
  <2>2. CASE ctx[d] # NoContext
    <3>1. ~(d > made)
      BY <2>2 DEF IInv, FreshInv
    <3>2. d <= made
      BY <3>1, MaxStatesAssumption DEF IInv, TypeInv, States
    <3> QED BY <2>2, <3>2 DEF IInv, ContextInv
  <2> QED BY <2>1, <2>2
<1>2. \A s \in States : Passing(s) => cb[s].to # d
  BY DEF IInv, LimitInv, PassInv
<1>3. \A j \in jobs : j.c.to # d
  BY <1>1, <1>2, Typed, Kinds DEF IInv, JobInv, Passing
<1> QED BY <1>1, <1>2, <1>3 DEF States

\* So tasks and continuations are as they were after such a step.
LEMMA Others ==
  ASSUME IInv, NEW d \in States, (\E s \in States : Limits(s, d)) \/ ctx[d] # NoContext,
         \A s \in States \ {d} : result'[s] = result[s],
         \A s \in States : (Live(s)' => Live(s)) /\ (Satisfied(s) => Satisfied(s)'),
         \A s \in States : (ctx'[s] = NoContext) <=> (ctx[s] = NoContext),
         UNCHANGED <<made, owned, leaves, jobs, cb>>
  PROVE  /\ JobInv' /\ PassInv'
         /\ \A s \in States : s > made => ~Satisfied(s)'
<1>1. /\ d \in 1 .. made
      /\ \A s \in States : Passing(s) => cb[s].to # d
      /\ \A j \in jobs : j.c.to # d
  BY Apart
<1>2. \A s \in States : Handed(s) => Handed(s)'
  BY DEF Handed
<1>3. JobInv'
  BY <1>1, Typed DEF IInv, JobInv, Satisfied
<1>p. \A s \in States : Passing(s)' <=> Passing(s)
  BY DEF Passing
<1>4. PassInv'
  <2> SUFFICES ASSUME NEW s \in States, Passing(s) PROVE PassInv!(s)'
    BY <1>p DEF PassInv
  <2>1. PassInv!(s)
    BY DEF IInv, PassInv
  <2>2. cb[s].to \in States /\ cb[s].to # d
    <3>1. TypeInv
      BY DEF IInv
    <3>2. cb[s] \in Passed
      BY <3>1, Typed
    <3> QED BY <1>1, <3>2, Kinds
  <2>3. (ctx'[cb[s].to] = NoContext <=> ctx[cb[s].to] = NoContext)
        /\ (Satisfied(cb[s].to)' <=> Satisfied(cb[s].to)) /\ (Live(s)' => Live(s))
    BY <2>2 DEF Satisfied
  <2> QED BY <1>2, <1>p, <2>1, <2>3
<1>5. \A s \in States : s > made => s # d
  BY <1>1, MaxStatesAssumption DEF IInv, TypeInv, States
<1> QED BY <1>3, <1>4, <1>5 DEF IInv, FreshInv, Satisfied

\* A state is limited by one timeout.
LEMMA OneLimit ==
  ASSUME IInv, NEW s \in States, NEW d \in States, NEW e \in States, Limits(s, d), Limits(s, e)
  PROVE  d = e
BY Typed, Kinds DEF IInv, ClientInv, Limits

\* The watcher or the result takes the promise of a timeout.
LEMMA TimeoutSets ==
  ASSUME IInv, NEW s \in States, NEW d \in States, Limits(s, d), expiry[s] = "not_set",
         NEW r \in Outcomes \ {"none"}, NEW rest \in SUBSET running, SetReady(d, r, rest),
         NEW x, expiry' = [expiry EXCEPT ![s] = x],
         \/ x = "expired" /\ r = "timedout" /\ rest = running /\ timers' = timers \ {<<s, d>>}
         \/ /\ x = "result_set" /\ r = result[s] /\ rest = running \ {s} /\ timers' = timers
            /\ s \in running /\ cb[s].kind = "timeout",
         UNCHANGED <<made, owned, leaves, jobs, cb, ctx, client>>
  PROVE  IInv'
<1> USE DEF IInv
<1>0. ~Satisfied(d) /\ ctx[d] = NoContext
  BY DEF LimitInv
<1>1. /\ result' = [result EXCEPT ![d] = r] /\ result' \in [States -> Outcomes]
      /\ executed' \in [States -> BOOLEAN] /\ running' \in SUBSET States
      /\ rejected' = rejected
      /\ RunInv'
      /\ \A t \in States : Live(t)' => Live(t) /\ (t \in running => t \in rest)
      /\ Done' = Done \cup (running \ rest)
  BY <1>0, Settle
<1>2. result'[d] = r /\ \A t \in States : t # d => result'[t] = result[t]
  BY <1>1 DEF TypeInv
<1>3. expiry'[s] = x /\ \A t \in States : t # s => expiry'[t] = expiry[t]
  BY DEF TypeInv
<1>4. \A t \in States : Satisfied(t) => Satisfied(t)' /\ t # d
  BY <1>0, <1>2 DEF Satisfied
<1>5. \A t, e \in States : Limits(t, e)' <=> Limits(t, e)
  BY DEF Limits
<1>6. TypeInv'
  BY <1>1 DEF TypeInv
<1>7. JobInv' /\ PassInv' /\ \A t \in States : t > made => ~Satisfied(t)'
  BY <1>1, <1>2, <1>4, Others
<1>8. FreshInv'
  <2>1. s <= made
    BY DEF LimitInv
  <2> QED BY <1>3, <1>7, <2>1, MaxStatesAssumption DEF FreshInv, TypeInv, States
<1>9. LimitInv'
  <2>1. ASSUME NEW t \in States, NEW e \in States, Limits(t, e)
        PROVE  LimitInv!(t, e)'
    <3>1. CASE t = s
      <4>1. e = d
        BY <2>1, <3>1, OneLimit
      <4>2. x = "result_set" => Satisfied(s) /\ s # d /\ ~Live(s)'
        BY <1>1, <1>4 DEF RunInv
      <4> QED BY <1>2, <1>3, <1>4, <1>5, <2>1, <3>1, <4>1, <4>2 DEF LimitInv, Passing, Satisfied
    <3>2. CASE t # s
      <4>1. e # d
        BY <2>1, <3>2 DEF LimitInv
      <4> QED BY <1>1, <1>2, <1>3, <1>4, <1>5, <2>1, <3>2, <4>1 DEF LimitInv, Passing, Satisfied
    <3> QED BY <3>1, <3>2
  <2> QED BY <1>5, <2>1 DEF LimitInv
<1>10. TimerInv'
  <2>1. ASSUME NEW t \in timers'
        PROVE  Limits(t[1], t[2])' /\ expiry'[t[1]] # "expired"
    <3>1. t \in timers /\ t[1] \in States /\ t[2] \in States /\ t = <<t[1], t[2]>>
      BY DEF TypeInv
    <3>2. Limits(t[1], t[2]) /\ expiry[t[1]] # "expired"
      BY <3>1 DEF TimerInv
    <3>3. t[1] = s => t[2] = d
      BY <3>1, <3>2, OneLimit
    <3> QED BY <1>3, <1>5, <3>1, <3>2, <3>3
  <2>2. ASSUME NEW t \in States, expiry'[t] # "not_set"
        PROVE  \E e \in States : Limits(t, e)'
    BY <1>3, <1>5, <2>2 DEF TimerInv
  <2> QED BY <2>1, <2>2 DEF TimerInv
<1>11. ClientInv' /\ ContextInv'
  BY DEF ClientInv, ContextInv, Todo
<1>12. AllInv'
  <2>1. ASSUME NEW e \in States, ctx[e] # NoContext
        PROVE  ctx[e].members \cap Done' = ctx[e].members \cap Done
    BY <1>1, <2>1, Members
  <2> QED BY <1>0, <1>2, <2>1 DEF AllInv, Satisfied
<1>13. AnyInv'
  <2>1. \A e \in States : ctx[e] # NoContext =>
          e # d /\ \A t \in ctx[e].members : Satisfied(t) => Satisfied(t)'
    BY <1>0, <1>4, Members
  <2> QED BY <1>2, <2>1 DEF AnyInv, Satisfied, Todo
<1>14. NoDoubleSet' /\ FailureHandedOn'
  <2>1. \A t \in States : Passing(t) => cb[t].to # d
    BY DEF LimitInv
  <2>2. \A t \in States : cb[t].kind = "timeout" /\ cb[t].to = d => t = s
    BY DEF LimitInv, Limits
  <2> QED BY <1>0, <1>1, <1>2, <2>1, <2>2, Typed DEF NoDoubleSet, FailureHandedOn, Satisfied, Passing
<1> QED BY <1>1, <1>6, <1>7, <1>8, <1>9, <1>10, <1>11, <1>12, <1>13, <1>14

\* A callback of a timeout that comes too late.
LEMMA LateInv ==
  ASSUME IInv, NEW s \in running, cb[s].kind = "timeout", running' = running \ {s},
         UNCHANGED <<made, owned, leaves, jobs, cb, ctx, client, timers, expiry, result, executed,
                     rejected>>
  PROVE  IInv'
<1> USE DEF IInv
<1>1. /\ RunInv' /\ ~Live(s)' /\ Done' = Done \cup {s}
      /\ \A t \in States : Live(t)' => Live(t) /\ t # s
  BY Leave
<1>2. \A t \in States : Handed(t) => Handed(t)'
  BY <1>1 DEF Handed
<1>3. TypeInv' /\ FreshInv'
  BY DEF TypeInv, FreshInv, Satisfied
<1>4. JobInv'
  BY <1>1, Typed DEF JobInv, Satisfied
<1>5. PassInv'
  BY <1>1, <1>2 DEF PassInv, Satisfied, Passing
<1>6. LimitInv' /\ TimerInv'
  BY <1>1 DEF LimitInv, TimerInv, Satisfied, Limits, Passing
<1>7. ClientInv' /\ ContextInv'
  BY DEF ClientInv, ContextInv, Todo
<1>8. AnyInv'
  BY DEF AnyInv, Todo, Satisfied
<1>9. AllInv'
  <2>1. ASSUME NEW e \in States, ctx[e] # NoContext
        PROVE  ctx[e].members \cap Done' = ctx[e].members \cap Done
    BY <1>1, <2>1, Members
  <2> QED BY <2>1 DEF AllInv, Satisfied
<1>10. NoDoubleSet' /\ FailureHandedOn'
  BY DEF NoDoubleSet, FailureHandedOn
<1> QED BY <1>1, <1>3, <1>4, <1>5, <1>6, <1>7, <1>8, <1>9, <1>10

LEMMA CallbackTimeoutInv ==
  ASSUME IInv, NEW s \in running, CallbackTimeout(s),
         UNCHANGED <<made, owned, leaves, timers, client>>
  PROVE  IInv'
<1>1. /\ s \in States /\ cb[s].kind = "timeout" /\ cb[s] # NoCallback /\ cb[s].to \in States
      /\ Limits(s, cb[s].to) /\ Satisfied(s) /\ Live(s)
  BY Typed DEF CallbackTimeout, IInv, TypeInv, RunInv, Limits, Live
<1>2. CASE expiry[s] = "expired"
  BY <1>1, <1>2, LateInv DEF CallbackTimeout
<1>3. CASE expiry[s] # "expired"
  <2>1. expiry[s] = "not_set" /\ ~Satisfied(cb[s].to)
    BY <1>1, <1>3 DEF IInv, TypeInv, LimitInv
  <2>2. SetReady(cb[s].to, result[s], running \ {s})
    BY <1>3, <2>1 DEF CallbackTimeout, Set
  <2>3. expiry' = [expiry EXCEPT ![s] = "result_set"] /\ UNCHANGED <<jobs, ctx, cb>>
    BY <1>3 DEF CallbackTimeout
  <2>4. result[s] \in Outcomes \ {"none"}
    BY <1>1 DEF IInv, TypeInv, Satisfied
  <2> QED BY <1>1, <2>1, <2>2, <2>3, <2>4, TimeoutSets
<1> QED BY <1>2, <1>3

LEMMA ExpireInv ==
  ASSUME IInv, NEW t \in timers, Expire(t[1], t[2])
  PROVE  IInv'
<1>1. t[1] \in States /\ t[2] \in States /\ Limits(t[1], t[2]) /\ expiry[t[1]] # "expired"
  BY DEF IInv, TypeInv, TimerInv
<1>2. CASE expiry[t[1]] = "result_set"
  <2>1. UNCHANGED <<expiry, shared, made, owned, leaves, jobs, ctx, client, cb>> /\ timers' \subseteq timers
    BY <1>2 DEF Expire
  <2> USE DEF IInv
  <2>2. TimerInv'
    BY <2>1 DEF TimerInv, Limits, shared
  <2>3. TypeInv' /\ FreshInv' /\ RunInv' /\ JobInv' /\ PassInv' /\ LimitInv'
    BY <2>1 DEF TypeInv, FreshInv, RunInv, JobInv, PassInv, LimitInv, Limits, Satisfied, Passing,
                Handed, Live, shared
  <2>4. ClientInv' /\ ContextInv' /\ NoDoubleSet' /\ FailureHandedOn'
    BY <2>1 DEF ClientInv, ContextInv, NoDoubleSet, FailureHandedOn, Todo, shared
  <2>5. AllInv' /\ AnyInv'
    BY <2>1 DEF AllInv, AnyInv, Todo, Done, Satisfied, shared
  <2> QED BY <2>2, <2>3, <2>4, <2>5
<1>3. CASE expiry[t[1]] # "result_set"
  <2>1. expiry[t[1]] = "not_set" /\ ~Satisfied(t[2])
    BY <1>1, <1>3 DEF IInv, TypeInv, LimitInv
  <2>2. SetReady(t[2], "timedout", running)
    BY <1>3, <2>1 DEF Expire, Set
  <2>3. /\ expiry' = [expiry EXCEPT ![t[1]] = "expired"] /\ timers' = timers \ {<<t[1], t[2]>>}
        /\ UNCHANGED <<made, owned, leaves, jobs, ctx, client, cb>>
    BY <1>3 DEF Expire
  <2>4. "timedout" \in Outcomes \ {"none"}
    BY DEF Outcomes, Failures
  <2> QED BY <1>1, <2>1, <2>2, <2>3, <2>4, TimeoutSets
<1> QED BY <1>2, <1>3

\* The members of a context can be counted.
LEMMA Counted ==
  ASSUME IInv, NEW d \in States, ctx[d] # NoContext
  PROVE  /\ ctx[d] \in Contexts /\ ctx[d].members \subseteq States
         /\ \A S : IsFiniteSet(ctx[d].members \cap S) /\ IsFiniteSet(ctx[d].members \ S)
         /\ IsFiniteSet(ctx[d].members)
         /\ ctx[d].total = Cardinality(ctx[d].members)
<1>1. ctx[d] \in Contexts /\ ctx[d].members \subseteq States
  BY Typed DEF IInv, Contexts
<1>2. IsFiniteSet(States)
  BY FS_Interval, MaxStatesAssumption DEF States
<1>3. IsFiniteSet(ctx[d].members)
  BY <1>1, <1>2, FS_Subset
<1>4. \A S : IsFiniteSet(ctx[d].members \cap S) /\ IsFiniteSet(ctx[d].members \ S)
  BY <1>3, FS_Subset
<1> QED BY <1>1, <1>3, <1>4 DEF IInv, ContextInv

\* A step of the context d, which may set its promise, or the end of the loop
\* that built it: what does not concern contexts stays.
LEMMA ContextStep ==
  ASSUME IInv, NEW d \in States, ctx[d] # NoContext,
         ctx' \in [States -> {NoContext} \cup Contexts],
         \A e \in States \ {d} : ctx'[e] = ctx[e],
         ctx'[d] \in Contexts, ctx'[d].op = ctx[d].op, ctx'[d].total = ctx[d].total,
         ctx'[d].members = ctx[d].members,
         result' \in [States -> Outcomes], executed' \in [States -> BOOLEAN],
         running' \in SUBSET States, RunInv',
         \A s \in States \ {d} : result'[s] = result[s],
         \A s \in States : (Live(s)' => Live(s)) /\ (Satisfied(s) => result'[s] = result[s]),
         \/ client' = client
         \/ client' = Idle /\ client.todo = {} /\ client.op \in {"all", "any"},
         UNCHANGED <<made, owned, leaves, jobs, timers, expiry, cb, rejected>>
  PROVE  /\ TypeInv' /\ FreshInv' /\ JobInv' /\ PassInv' /\ LimitInv' /\ TimerInv'
         /\ ClientInv' /\ ContextInv' /\ NoDoubleSet' /\ FailureHandedOn'
         /\ \A e \in States : Todo(e)' = Todo(e)
<1> USE DEF IInv
<1>1. \A s \in States : /\ (ctx'[s] = NoContext) <=> (ctx[s] = NoContext)
                        /\ Satisfied(s) => Satisfied(s)'
  BY Kinds DEF Satisfied
<1>2. \A e \in States : Todo(e)' = Todo(e)
  <2>1. CASE client' = client
    BY <2>1 DEF Todo
  <2>2. CASE client' = Idle /\ client.todo = {}
    BY <2>2 DEF Todo, Idle
  <2> QED BY <2>1, <2>2
<1>3. \A s, e \in States : Limits(s, e)' <=> Limits(s, e)
  BY DEF Limits, Idle
<1>4. /\ \A s \in States : ~Limits(s, d) /\ (Passing(s) => cb[s].to # d)
      /\ \A s \in States : cb[s].kind = "timeout" => cb[s].to # d
  BY Apart DEF LimitInv, Limits
<1>5. TypeInv'
  BY DEF TypeInv, Idle, ClientOps
<1>6. JobInv' /\ PassInv' /\ \A s \in States : s > made => ~Satisfied(s)'
  BY <1>1, Others
<1>7. FreshInv'
  BY <1>1, <1>6 DEF FreshInv
<1>8. LimitInv'
  BY <1>1, <1>3, <1>4 DEF LimitInv, Satisfied, Passing
<1>9. TimerInv'
  BY <1>3 DEF TimerInv, TypeInv
<1>10. ClientInv'
  <2>1. CASE client' = client
    <3>1. client.op \in {"all", "any", "processed"} => client.to \in States
      BY Typed DEF ClientInv
    <3> QED BY <1>1, <2>1, <3>1 DEF ClientInv
  <2>2. CASE client' = Idle
    BY <2>2 DEF ClientInv, Idle
  <2> QED BY <2>1, <2>2
<1>11. ContextInv'
  <2>1. \A s \in States : cb[s].kind \in {"all", "any"} => cb[s].to \in States
    BY Typed
  <2> QED BY <1>1, <1>2, <2>1 DEF ContextInv
<1>12. NoDoubleSet' /\ FailureHandedOn'
  BY <1>1, <1>4, Typed DEF NoDoubleSet, FailureHandedOn, Satisfied, Passing
<1> QED BY <1>2, <1>5, <1>6, <1>7, <1>8, <1>9, <1>10, <1>11, <1>12

\* What a context is told leaves its other fields.
LEMMA Told ==
  ASSUME TypeInv, NEW d \in States, ctx[d] # NoContext, NEW c \in Contexts,
         c.op = ctx[d].op, c.total = ctx[d].total, c.members = ctx[d].members,
         ctx' = [ctx EXCEPT ![d] = c]
  PROVE  /\ ctx' \in [States -> {NoContext} \cup Contexts] /\ ctx'[d] = c
         /\ \A e \in States \ {d} : ctx'[e] = ctx[e]
BY DEF TypeInv

LEMMA CallbackAllInv ==
  ASSUME IInv, NEW s \in running, CallbackAll(s),
         UNCHANGED <<made, owned, leaves, timers, client>>
  PROVE  IInv'
<1> USE DEF IInv
<1>0. PICK d \in States : d = cb[s].to
  BY Typed DEF CallbackAll, TypeInv
<1> DEFINE c == [ctx[d] EXCEPT !.count = @ + 1]
           S == ctx[d].members
<1>1. /\ s \in States /\ ctx[d] # NoContext /\ ctx[d].op = "all" /\ s \in S
      /\ executed[s] /\ s \notin Done
  BY <1>0 DEF CallbackAll, TypeInv, ContextInv, RunInv, Done
<1>2. c \in Contexts /\ c.op = ctx[d].op /\ c.total = ctx[d].total /\ c.members = S
  BY <1>1, Counted DEF Contexts
<1>3. ctx' = [ctx EXCEPT ![d] = c] /\ UNCHANGED <<expiry, jobs, cb>>
  BY <1>0 DEF CallbackAll
<1>4. c.count = ctx[d].count + 1 /\ c.moved = ctx[d].moved
  BY <1>1, Counted DEF Contexts
<1> HIDE DEF c
<1>5. /\ ctx' \in [States -> {NoContext} \cup Contexts] /\ ctx'[d] = c
      /\ \A e \in States \ {d} : ctx'[e] = ctx[e]
  BY <1>1, <1>2, <1>3, Told
<1>6. /\ IsFiniteSet(S) /\ IsFiniteSet(S \cap Done) /\ ctx[d].total = Cardinality(S)
      /\ ctx[d].count = Cardinality(S \cap Done)
  BY <1>1, Counted DEF AllInv
<1>7. ~Satisfied(d)
  <2>1. S \cap Done # S /\ S \cap Done \subseteq S
    BY <1>1
  <2>2. Cardinality(S \cap Done) # Cardinality(S)
    BY <1>6, <2>1, FS_Subset
  <2> QED BY <1>1, <1>6, <2>2 DEF AllInv
<1>8. /\ result' \in [States -> Outcomes] /\ executed' \in [States -> BOOLEAN]
      /\ running' \in SUBSET States /\ RunInv'
      /\ \A t \in States \ {d} : result'[t] = result[t]
      /\ \A t \in States : (Live(t)' => Live(t)) /\ (Satisfied(t) => result'[t] = result[t])
      /\ Done' = Done \cup {s} /\ rejected' = rejected
      /\ Satisfied(d)' => ctx[d].count + 1 = ctx[d].total
  <2>1. CASE AllReady(ctx[d]) /\ Set(d, "value", running \ {s})
    <3>1. SetReady(d, "value", running \ {s})
      BY <1>7, <2>1 DEF Set
    <3>2. "value" \in Outcomes \ {"none"} /\ running \ (running \ {s}) = {s}
      BY DEF Outcomes
    <3>3. /\ result' = [result EXCEPT ![d] = "value"] /\ result' \in [States -> Outcomes]
          /\ executed' \in [States -> BOOLEAN] /\ running' \in SUBSET States
          /\ rejected' = rejected
          /\ RunInv'
          /\ \A t \in States : Live(t)' => Live(t)
          /\ Done' = Done \cup {s}
      BY <1>1, <1>3, <1>7, <3>1, <3>2, Settle
    <3>4. \A t \in States : t # d => result'[t] = result[t]
      BY <3>3 DEF TypeInv
    <3> QED BY <1>7, <2>1, <3>3, <3>4 DEF AllReady
  <2>2. CASE running' = running \ {s} /\ UNCHANGED <<result, executed, waits, rejected>>
    <3>1. /\ RunInv' /\ Done' = Done \cup {s}
          /\ \A t \in States : Live(t)' => Live(t)
      BY <1>3, <2>2, Leave
    <3> QED BY <1>7, <2>2, <3>1 DEF TypeInv, Satisfied
  <2> QED BY <1>0, <2>1, <2>2 DEF CallbackAll
<1>9. /\ TypeInv' /\ FreshInv' /\ JobInv' /\ PassInv' /\ LimitInv' /\ TimerInv'
      /\ ClientInv' /\ ContextInv' /\ NoDoubleSet' /\ FailureHandedOn'
      /\ \A e \in States : Todo(e)' = Todo(e)
  BY <1>1, <1>2, <1>3, <1>5, <1>8, ContextStep
<1>10. Cardinality(S \cap Done') = Cardinality(S \cap Done) + 1
  <2>1. S \cap Done' = (S \cap Done) \cup {s} /\ s \notin S \cap Done
    BY <1>1, <1>8
  <2> QED BY <1>6, <2>1, FS_AddElement
<1>11. AllInv'
  <2>1. ASSUME NEW e \in States, e # d, ctx[e] # NoContext
        PROVE  ctx[e].members \cap Done' = ctx[e].members \cap Done
    BY <1>0, <1>8, <2>1, Members, Kinds DEF CallbackAll
  <2>2. ASSUME NEW e \in States, ctx'[e] # NoContext, ctx'[e].op = "all"
        PROVE  AllInv!(e)'
    <3>1. CASE e = d
      <4>1. /\ c.members = S /\ c.count = ctx[d].count + 1 /\ c.total = ctx[d].total
            /\ c.moved = ctx[d].moved
        BY ONLY <1>2, <1>4
      <4>2. ~ctx[d].moved
        BY <1>1 DEF AllInv
      <4>3. c.count = Cardinality(S \cap Done')
        BY ONLY <1>6, <1>10, <4>1
      <4>4. Satisfied(d)' => c.count = c.total
        BY ONLY <1>8, <4>1
      <4> QED BY ONLY <1>5, <3>1, <4>1, <4>2, <4>3, <4>4
    <3>2. CASE e # d
      <4>1. ctx'[e] = ctx[e] /\ result'[e] = result[e]
        BY <1>5, <1>8, <3>2
      <4>2. ctx[e].members \cap Done' = ctx[e].members \cap Done
        BY <2>1, <2>2, <3>2, <4>1
      <4>3. AllInv!(e)
        BY <2>2, <4>1 DEF AllInv
      <4> QED BY ONLY <4>1, <4>2, <4>3 DEF Satisfied
    <3> QED BY <3>1, <3>2
  <2> QED BY <2>2 DEF AllInv
<1>12. AnyInv'
  <2>1. ASSUME NEW e \in States, ctx'[e] # NoContext, ctx'[e].op = "any"
        PROVE  AnyInv!(e)'
    <3>1. e # d /\ ctx'[e] = ctx[e] /\ Todo(e)' = Todo(e)
      BY <1>1, <1>2, <1>5, <1>9, <2>1
    <3>2. \A t \in ctx[e].members : Satisfied(t) => Satisfied(t)'
      BY <1>8, <2>1, <3>1, Counted DEF Satisfied
    <3>3. Satisfied(e)' => Satisfied(e)
      BY <1>8, <3>1 DEF Satisfied
    <3> QED BY <2>1, <3>1, <3>2, <3>3 DEF AnyInv
  <2> QED BY <2>1 DEF AnyInv
<1> QED BY <1>8, <1>9, <1>11, <1>12

\* A step that sets d, or sets nothing, and leaves the callbacks "rest".
LEMMA SetOrLeave ==
  ASSUME TypeInv, RunInv, NEW d \in States, NEW r \in Outcomes \ {"none"},
         NEW rest \in SUBSET running, UNCHANGED cb,
         \/ SetReady(d, r, rest) /\ ~Satisfied(d)
         \/ running' = rest /\ UNCHANGED <<result, executed, rejected>>
  PROVE  /\ result' \in [States -> Outcomes] /\ executed' \in [States -> BOOLEAN]
         /\ running' \in SUBSET States /\ RunInv'
         /\ \A t \in States \ {d} : result'[t] = result[t]
         /\ \A t \in States : (Live(t)' => Live(t)) /\ (Satisfied(t) => result'[t] = result[t])
         /\ Done' = Done \cup (running \ rest) /\ rejected' = rejected
<1>1. CASE SetReady(d, r, rest) /\ ~Satisfied(d)
  <2>1. /\ result' = [result EXCEPT ![d] = r] /\ result' \in [States -> Outcomes]
        /\ executed' \in [States -> BOOLEAN] /\ running' \in SUBSET States
        /\ rejected' = rejected
        /\ RunInv'
        /\ \A s \in States : Live(s)' => Live(s) /\ (s \in running => s \in rest)
        /\ Done' = Done \cup (running \ rest)
    BY <1>1, Settle
  <2>2. \A t \in States : t # d => result'[t] = result[t]
    BY <2>1 DEF TypeInv
  <2> QED BY <1>1, <2>1, <2>2
<1>2. CASE running' = rest /\ UNCHANGED <<result, executed, rejected>>
  <2>1. \A s \in running : executed[s] /\ s \in States
    BY DEF TypeInv, RunInv
  <2>2. RunInv' /\ Done' = Done \cup (running \ rest) /\ \A s \in States : Live(s)' => Live(s)
    BY <1>2, <2>1 DEF RunInv, Live, Done, Satisfied
  <2> QED BY <1>2, <2>2 DEF TypeInv
<1> QED BY <1>1, <1>2

\* The loop of when_any is done when it has counted every member.
LEMMA Processed ==
  ASSUME IInv, NEW d \in States, ctx[d] # NoContext, ctx[d].op = "any",
         ctx[d].processed = ctx[d].total
  PROVE  Todo(d) = {}
<1> DEFINE S == ctx[d].members
           n == IF client.op = "processed" /\ client.to = d THEN 1 ELSE 0
<1>1. /\ IsFiniteSet(S) /\ S \ Todo(d) \subseteq S /\ ctx[d].processed = Cardinality(S)
      /\ Cardinality(S \ Todo(d)) = ctx[d].processed + n
  BY Counted DEF IInv, AnyInv
<1>2. Cardinality(S) \in Nat /\ Cardinality(S \ Todo(d)) <= Cardinality(S)
  BY <1>1, FS_Subset, FS_CardinalityType
<1>3. Cardinality(S \ Todo(d)) = Cardinality(S)
  BY <1>1, <1>2
<1>4. S \ Todo(d) = S
  BY <1>1, <1>3, FS_Subset
<1>5. Todo(d) \subseteq S
  BY DEF Todo, IInv, ClientInv
<1> QED BY <1>4, <1>5

LEMMA CallbackAnyInv ==
  ASSUME IInv, NEW s \in running, CallbackAny(s),
         UNCHANGED <<made, owned, leaves, timers, client>>
  PROVE  IInv'
<1> USE DEF IInv
<1>0. PICK d \in States : d = cb[s].to
  BY Typed DEF CallbackAny, TypeInv
<1> DEFINE moves == ~ctx[d].ready /\ MayMove(ctx[d])
           c == [ctx[d] EXCEPT !.ready = TRUE, !.moved = @ \/ moves]
           S == ctx[d].members
<1>1. /\ s \in States /\ ctx[d] # NoContext /\ ctx[d].op = "any" /\ s \in S
      /\ executed[s] /\ Satisfied(s)
  BY <1>0 DEF CallbackAny, TypeInv, ContextInv, RunInv
<1>2. /\ c \in Contexts /\ c.op = ctx[d].op /\ c.total = ctx[d].total /\ c.members = S
      /\ c.processed = ctx[d].processed /\ c.ready
  BY <1>1, Counted DEF Contexts
<1>3. c.moved <=> ctx[d].moved \/ moves
  BY <1>1, Counted DEF Contexts
<1>4. UNCHANGED <<expiry, jobs, cb>>
  BY DEF CallbackAny
<1>5. ctx' = [ctx EXCEPT ![d] = c]
  <2>1. ctx' = [ctx EXCEPT ![d].ready = TRUE, ![d].moved = @ \/ moves]
    BY <1>0 DEF CallbackAny
  <2> QED BY <2>1 DEF TypeInv
<1> HIDE DEF c
<1>6. /\ ctx' \in [States -> {NoContext} \cup Contexts] /\ ctx'[d] = c
      /\ \A e \in States \ {d} : ctx'[e] = ctx[e]
  BY <1>1, <1>2, <1>5, Told
<1>7. moves => ~Satisfied(d)
  BY <1>1 DEF AnyInv, MayMove
<1>8. \/ moves /\ SetReady(d, "value", running \ {s}) /\ ~Satisfied(d)
      \/ ~moves /\ running' = running \ {s} /\ UNCHANGED <<result, executed, rejected>>
  BY <1>0, <1>7 DEF CallbackAny, Set
<1>9. /\ result' \in [States -> Outcomes] /\ executed' \in [States -> BOOLEAN]
      /\ running' \in SUBSET States /\ RunInv'
      /\ \A t \in States \ {d} : result'[t] = result[t]
      /\ \A t \in States : (Live(t)' => Live(t)) /\ (Satisfied(t) => result'[t] = result[t])
      /\ Done' = Done \cup {s} /\ rejected' = rejected
  <2>1. "value" \in Outcomes \ {"none"} /\ running \ (running \ {s}) = {s}
    BY DEF Outcomes
  <2> QED BY <1>4, <1>8, <2>1, SetOrLeave
<1>10. /\ TypeInv' /\ FreshInv' /\ JobInv' /\ PassInv' /\ LimitInv' /\ TimerInv'
       /\ ClientInv' /\ ContextInv' /\ NoDoubleSet' /\ FailureHandedOn'
       /\ \A e \in States : Todo(e)' = Todo(e)
  BY <1>1, <1>2, <1>4, <1>6, <1>9, ContextStep
<1>11. AllInv'
  <2>1. ASSUME NEW e \in States, ctx'[e] # NoContext, ctx'[e].op = "all"
        PROVE  AllInv!(e)'
    <3>1. e # d /\ ctx'[e] = ctx[e]
      BY <1>1, <1>2, <1>6, <2>1
    <3>2. ctx[e].members \cap Done' = ctx[e].members \cap Done
      BY <1>0, <1>9, <2>1, <3>1, Members, Kinds DEF CallbackAny
    <3> QED BY <1>9, <2>1, <3>1, <3>2 DEF AllInv, Satisfied
  <2> QED BY <2>1 DEF AllInv
<1>12. AnyInv'
  <2>1. ASSUME NEW e \in States, ctx'[e] # NoContext, ctx'[e].op = "any"
        PROVE  AnyInv!(e)'
    <3>1. \A t \in States : Satisfied(t) => Satisfied(t)'
      BY <1>9 DEF Satisfied
    <3>2. CASE e = d
      <4>1. Satisfied(d)' => c.moved
        BY <1>1, <1>3, <1>8 DEF AnyInv, Satisfied
      <4>2. c.moved => Todo(d)' = {}
        <5>1. CASE ctx[d].moved
          BY <1>1, <1>10, <5>1 DEF AnyInv
        <5>2. CASE moves
          <6>1. ctx[d].processed = ctx[d].total
            BY <5>2 DEF MayMove
          <6>2. Todo(d) = {}
            BY <1>1, <6>1, Processed
          <6> QED BY <1>10, <6>2
        <5> QED BY <1>3, <5>1, <5>2
      <4> QED BY <1>1, <1>2, <1>6, <1>10, <3>1, <3>2, <4>1, <4>2 DEF AnyInv
    <3>3. CASE e # d
      <4>1. ctx'[e] = ctx[e] /\ Todo(e)' = Todo(e) /\ (Satisfied(e)' => Satisfied(e))
        BY <1>6, <1>9, <1>10, <3>3 DEF Satisfied
      <4>2. \A t \in ctx[e].members : Satisfied(t) => Satisfied(t)'
        BY <2>1, <3>1, <4>1, Counted
      <4> QED BY <2>1, <4>1, <4>2 DEF AnyInv
    <3> QED BY <3>2, <3>3
  <2> QED BY <2>1 DEF AnyInv
<1> QED BY <1>9, <1>10, <1>11, <1>12

LEMMA ReturnAllInv ==
  ASSUME IInv, ReturnAll
  PROVE  IInv'
<1> USE DEF IInv
<1>0. PICK d \in States : d = client.to
  BY Typed DEF ReturnAll, ClientInv
<1>1. /\ ctx[d] # NoContext /\ ctx[d].op = "all" /\ client' = Idle /\ client.op = "all"
      /\ client.todo = {}
      /\ UNCHANGED <<made, expiry, owned, leaves, jobs, timers, ctx, cb>>
  BY <1>0 DEF ReturnAll, ClientInv
<1>2. \/ ctx[d].total = 0 /\ SetReady(d, "broken", running) /\ ~Satisfied(d)
      \/ running' = running /\ UNCHANGED <<result, executed, rejected>>
  BY <1>0 DEF ReturnAll, Abandon, shared
<1>3. /\ result' \in [States -> Outcomes] /\ executed' \in [States -> BOOLEAN]
      /\ running' \in SUBSET States /\ RunInv'
      /\ \A t \in States \ {d} : result'[t] = result[t]
      /\ \A t \in States : (Live(t)' => Live(t)) /\ (Satisfied(t) => result'[t] = result[t])
      /\ Done' = Done /\ rejected' = rejected
  <2>1. "broken" \in Outcomes \ {"none"} /\ Done \cup (running \ running) = Done
    BY DEF Outcomes, Failures
  <2>2. running \in SUBSET running
    OBVIOUS
  <2> QED BY <1>1, <1>2, <2>1, <2>2, SetOrLeave
<1>4. /\ TypeInv' /\ FreshInv' /\ JobInv' /\ PassInv' /\ LimitInv' /\ TimerInv'
      /\ ClientInv' /\ ContextInv' /\ NoDoubleSet' /\ FailureHandedOn'
      /\ \A e \in States : Todo(e)' = Todo(e)
  <2>1. ctx' \in [States -> {NoContext} \cup Contexts] /\ ctx'[d] \in Contexts
    BY <1>1, Counted DEF TypeInv
  <2> QED BY <1>1, <1>3, <2>1, ContextStep
<1>5. \A e \in States : ctx[e] # NoContext =>
        \A t \in ctx[e].members : Satisfied(t) => Satisfied(t)'
  BY <1>3, Counted DEF Satisfied
<1>6. AllInv'
  <2>1. ctx[d].total = 0 => ctx[d].count = ctx[d].total
    <3>1. SUFFICES ASSUME ctx[d].total = 0 PROVE ctx[d].count = ctx[d].total
      OBVIOUS
    <3>2. ctx[d].members = {}
      BY <1>1, <3>1, Counted, FS_EmptySet
    <3>3. ctx[d].members \cap Done = ctx[d].members
      BY <3>2
    <3> QED BY <1>1, <3>3, Counted DEF AllInv
  <2> QED BY <1>1, <1>2, <1>3, <2>1 DEF AllInv, Satisfied
<1>7. AnyInv'
  BY <1>1, <1>3, <1>4, <1>5 DEF AnyInv, Satisfied, Idle
<1> QED BY <1>3, <1>4, <1>6, <1>7

LEMMA ReturnAnyInv ==
  ASSUME IInv, ReturnAny
  PROVE  IInv'
<1> USE DEF IInv
<1>0. PICK d \in States : d = client.to
  BY Typed DEF ReturnAny, ClientInv
<1> DEFINE moves == ctx[d].ready /\ ~ctx[d].moved
           c == [ctx[d] EXCEPT !.moved = @ \/ moves]
           S == ctx[d].members
<1>1. /\ ctx[d] # NoContext /\ ctx[d].op = "any" /\ client' = Idle /\ client.op = "any"
      /\ client.todo = {} /\ Todo(d) = {}
      /\ UNCHANGED <<made, expiry, owned, leaves, jobs, timers, cb>>
  BY <1>0 DEF ReturnAny, ClientInv, Todo
<1>2. /\ c \in Contexts /\ c.op = ctx[d].op /\ c.total = ctx[d].total /\ c.members = S
      /\ c.processed = ctx[d].processed /\ c.ready = ctx[d].ready
  BY <1>1, Counted DEF Contexts
<1>3. c.moved <=> ctx[d].moved \/ moves
  BY <1>1, Counted DEF Contexts
<1>4. moves => ~Satisfied(d) /\ ctx[d].total # 0
  <2>1. moves => S # {} /\ ~Satisfied(d)
    BY <1>1 DEF AnyInv
  <2> QED BY <1>1, <2>1, Counted, FS_EmptySet
<1>5. \/ /\ moves /\ SetReady(d, "value", running) /\ ~Satisfied(d)
         /\ ctx' = [ctx EXCEPT ![d].moved = TRUE]
      \/ /\ ctx[d].total = 0 /\ ~moves /\ SetReady(d, "broken", running) /\ ~Satisfied(d)
         /\ UNCHANGED ctx
      \/ /\ ~moves /\ running' = running /\ UNCHANGED <<result, executed, rejected>>
         /\ UNCHANGED ctx
  BY <1>0, <1>4 DEF ReturnAny, Abandon, Set, shared
<1>6. ctx' = [ctx EXCEPT ![d] = c]
  <2>1. ctx[d] \in Contexts /\ ctx[d].moved \in BOOLEAN
    BY <1>1, Counted DEF Contexts
  <2>2. moves => c = [ctx[d] EXCEPT !.moved = TRUE]
    BY <2>1 DEF Contexts
  <2>3. ~moves => c = ctx[d]
    BY <2>1 DEF Contexts
  <2> HIDE DEF c
  <2> QED BY <1>5, <2>2, <2>3 DEF TypeInv
<1> HIDE DEF c
<1>7. /\ ctx' \in [States -> {NoContext} \cup Contexts] /\ ctx'[d] = c
      /\ \A e \in States \ {d} : ctx'[e] = ctx[e]
  BY <1>1, <1>2, <1>6, Told
<1>8. /\ result' \in [States -> Outcomes] /\ executed' \in [States -> BOOLEAN]
      /\ running' \in SUBSET States /\ RunInv'
      /\ \A t \in States \ {d} : result'[t] = result[t]
      /\ \A t \in States : (Live(t)' => Live(t)) /\ (Satisfied(t) => result'[t] = result[t])
      /\ Done' = Done /\ rejected' = rejected
  <2>1. {"value", "broken"} \subseteq Outcomes \ {"none"} /\ Done \cup (running \ running) = Done
    BY DEF Outcomes, Failures
  <2>2. PICK r \in {"value", "broken"} :
          \/ SetReady(d, r, running) /\ ~Satisfied(d)
          \/ running' = running /\ UNCHANGED <<result, executed, rejected>>
    BY <1>5
  <2>3. running \in SUBSET running /\ r \in Outcomes \ {"none"}
    BY <2>1
  <2> QED BY <1>1, <2>1, <2>2, <2>3, SetOrLeave
<1>9. /\ TypeInv' /\ FreshInv' /\ JobInv' /\ PassInv' /\ LimitInv' /\ TimerInv'
      /\ ClientInv' /\ ContextInv' /\ NoDoubleSet' /\ FailureHandedOn'
      /\ \A e \in States : Todo(e)' = Todo(e)
  BY <1>1, <1>2, <1>7, <1>8, ContextStep
<1>10. AllInv'
  BY <1>1, <1>2, <1>7, <1>8 DEF AllInv, Satisfied
<1>11. AnyInv'
  <2>1. ASSUME NEW e \in States, ctx'[e] # NoContext, ctx'[e].op = "any"
        PROVE  AnyInv!(e)'
    <3>1. ctx[e] # NoContext /\ ctx[e].op = "any" /\ ctx'[e].members = ctx[e].members
      BY <1>1, <1>2, <1>7, <2>1
    <3>2. \A t \in ctx[e].members : Satisfied(t) => Satisfied(t)'
      BY <1>8, <3>1, Counted DEF Satisfied
    <3>3. CASE e = d
      <4>1. Satisfied(d)' => c.moved \/ S = {}
        <5>1. ctx[d].total = 0 => S = {}
          BY <1>1, Counted, FS_EmptySet
        <5> QED BY <1>1, <1>3, <1>5, <5>1 DEF AnyInv, Satisfied
      <4> QED BY <1>1, <1>2, <1>3, <1>7, <1>9, <3>1, <3>2, <3>3, <4>1 DEF AnyInv, Idle
    <3>4. CASE e # d
      BY <1>1, <1>7, <1>8, <1>9, <3>1, <3>2, <3>4 DEF AnyInv, Satisfied, Idle
    <3> QED BY <3>3, <3>4
  <2> QED BY <2>1 DEF AnyInv
<1> QED BY <1>8, <1>9, <1>10, <1>11

\* n is the state that is made next, and nothing refers to it.
Unused(n) ==
  /\ n \in States /\ n \in Nat /\ made \in Nat /\ made <= n
  /\ \A s \in States : s <= made <=> s # n /\ s <= n
  /\ n \notin leaves /\ n \notin owned /\ ~Satisfied(n) /\ cb[n] = NoCallback
  /\ expiry[n] = "not_set" /\ ctx[n] = NoContext
  /\ n \notin client.todo /\ client.to # n
  /\ \A s \in States : cb[s] # NoCallback => cb[s].to # n /\ cb[s].to <= made
  /\ \A s, d \in States : Limits(s, d) => s # n /\ d # n
  /\ \A j \in jobs : j.c.to # n /\ (j.c.kind \notin TaskKinds => j.from # n)
  /\ \A d \in States : ctx[d] # NoContext => n \notin ctx[d].members

LEMMA NewIsUnused ==
  ASSUME IInv, Make
  PROVE  Unused(New) /\ made' = New
<1> USE DEF IInv
<1>1. /\ New \in States /\ made' = New /\ New \in Nat /\ made \in Nat /\ New > made
      /\ \A s \in States : s <= made <=> s # New /\ s <= New
  BY MaxStatesAssumption DEF Make, New, States, TypeInv
<1>2. New \notin leaves /\ New \notin owned /\ ~(New <= made)
  BY <1>1 DEF TypeInv
<1>3. /\ ~Satisfied(New) /\ cb[New] = NoCallback
      /\ expiry[New] = "not_set" /\ ctx[New] = NoContext
  BY <1>1 DEF FreshInv
<1>4. New \notin client.todo /\ client.to # New
  BY <1>1, <1>2 DEF ClientInv, Idle
<1>5. \A s, d \in States : Limits(s, d) => s # New /\ d # New
  BY <1>2 DEF LimitInv
<1>6. \A s \in States : cb[s] # NoCallback => cb[s].to # New /\ cb[s].to <= made
  <2>1. SUFFICES ASSUME NEW s \in States, cb[s] # NoCallback
                 PROVE  cb[s].to <= made
    BY <1>2
  <2>2. cb[s].to \in States /\ cb[s] \in Passed \cup Decided
    BY <2>1, Typed DEF TypeInv
  <2>3. CASE Passing(s)
    BY <2>3 DEF PassInv
  <2>4. CASE cb[s].kind = "timeout"
    BY <2>2, <2>4 DEF LimitInv, Limits
  <2>5. CASE cb[s].kind \in {"all", "any"}
    BY <2>2, <2>5, Apart DEF ContextInv
  <2> QED BY <2>2, <2>3, <2>4, <2>5, Kinds DEF Passing
<1>7. \A j \in jobs : j.c.to # New /\ (j.c.kind \notin TaskKinds => j.from # New)
  BY <1>2, <1>3 DEF JobInv
<1>8. \A d \in States : ctx[d] # NoContext => New \notin ctx[d].members
  <2>1. \A d \in States : ctx[d] # NoContext => ctx[d].members \subseteq 1 .. made
    BY DEF ContextInv
  <2> QED BY <1>1, <1>2, <2>1
<1> QED BY <1>1, <1>2, <1>3, <1>4, <1>5, <1>6, <1>7, <1>8 DEF Unused

\* A promise or a task is made with a state that depends on no other.
LEMMA NewLeaf ==
  ASSUME IInv, Make, NEW n, n = New, leaves' = leaves \cup {n}, owned' \subseteq owned \cup {n},
         NEW i \in [from : States, c : Passed \cup Tasks], i.c.kind \in TaskKinds, i.c.to = n,
         jobs \subseteq jobs', jobs' \subseteq jobs \cup {i},
         i \in jobs' => n \notin owned' /\ ~Satisfied(n)',
         result' \in [States -> Outcomes], executed' \in [States -> BOOLEAN],
         running' \in SUBSET States, RunInv',
         \A s \in States \ {n} : result'[s] = result[s],
         \A s \in States : Live(s)' => Live(s), Done' = Done,
         UNCHANGED <<cb, expiry, timers, ctx, client, rejected>>
  PROVE  IInv'
<1> USE DEF IInv
<1>0. Unused(n) /\ made' = n
  BY NewIsUnused
<1> USE DEF Unused
<1>2. \A s \in States : Satisfied(s) => Satisfied(s)' /\ s # n
  BY <1>0 DEF Satisfied
<1>3. \A s \in States : Handed(s) => Handed(s)'
  BY DEF Handed, TaskKinds
<1>4. \A s, d \in States : Limits(s, d)' <=> Limits(s, d)
  BY DEF Limits
<1>5. TypeInv'
  <2>1. made' \in 0 .. MaxStates /\ leaves' \subseteq 1 .. made' /\ owned' \subseteq leaves'
    <3>1. leaves \subseteq 1 .. made /\ owned \subseteq leaves
      BY DEF TypeInv
    <3>2. 1 .. made \subseteq 1 .. n /\ n \in 1 .. n /\ n \in 0 .. MaxStates
      BY <1>0, MaxStatesAssumption DEF States
    <3> QED BY <1>0, <3>1, <3>2
  <2> QED BY <2>1 DEF TypeInv
<1>6. FreshInv'
  BY <1>0, MaxStatesAssumption DEF FreshInv, Satisfied, States
<1>7. JobInv'
  <2>1. ASSUME NEW j \in jobs
        PROVE  JobInv!(j)'
    <3>1. j.c.to \in States /\ j.from \in States /\ j.c.to <= n
      BY <1>0, Typed DEF JobInv
    <3>2. \A m \in jobs' : m.c.to = j.c.to => m = j
      BY <1>0 DEF JobInv
    <3>3. j.c.to \notin owned' /\ ~Satisfied(j.c.to)'
      BY <1>0, <3>1 DEF JobInv, Satisfied
    <3> QED BY <1>0, <1>2, <3>1, <3>2, <3>3 DEF JobInv
  <2>2. ASSUME i \in jobs'
        PROVE  JobInv!(i)'
    <3>1. \A m \in jobs' : m.c.to = i.c.to => m = i
      BY <1>0
    <3> QED BY <1>0, <2>2, <3>1 DEF Satisfied
  <2> QED BY <2>1, <2>2 DEF JobInv
<1>8. PassInv'
  <2>1. \A s \in States : Passing(s) => /\ cb[s].to \in States /\ cb[s].to # n /\ cb[s].to <= n
    BY <1>0, Typed, Kinds
  <2> QED BY <1>0, <1>3, <2>1 DEF PassInv, Satisfied, Passing
<1>9. LimitInv'
  <2>1. ASSUME NEW s \in States, NEW d \in States, Limits(s, d)
        PROVE  LimitInv!(s, d)'
    <3>1. s # n /\ d # n /\ s <= n /\ d <= n
      BY <1>0, <2>1 DEF LimitInv
    <3> QED BY <1>0, <1>2, <1>4, <2>1, <3>1 DEF LimitInv, Satisfied, Passing
  <2> QED BY <1>4, <2>1 DEF LimitInv
<1>10. TimerInv'
  BY <1>4 DEF TimerInv, TypeInv
<1>11. ClientInv'
  <2>1. client.todo \subseteq States /\ \A s \in client.todo : s <= n
    BY <1>0 DEF ClientInv, TypeInv
  <2>2. client.op # "none" => client.to \in 1 .. n
    BY <1>0 DEF ClientInv
  <2> QED BY <1>0, <2>1, <2>2 DEF ClientInv
<1>12. ContextInv'
  <2>1. 1 .. made \subseteq 1 .. n
    BY <1>0
  <2> QED BY <1>0, <2>1 DEF ContextInv, Todo
<1>13. AllInv'
  BY <1>0 DEF AllInv, Satisfied
<1>14. AnyInv'
  <2>1. \A e \in States : ctx[e] # NoContext =>
          e # n /\ \A t \in ctx[e].members : Satisfied(t) => Satisfied(t)'
    BY <1>0, <1>2, Counted
  <2> QED BY <2>1 DEF AnyInv, Satisfied, Todo
<1>15. NoDoubleSet' /\ FailureHandedOn'
  <2>1. \A s \in 1 .. n : s \in 1 .. made \/ s = n
    BY <1>0, MaxStatesAssumption DEF New, TypeInv
  <2>2. \A s \in 1 .. made : /\ s # n /\ s \in States
                             /\ cb[s].kind # "none" => cb[s].to \in States /\ cb[s].to # n
    BY <1>0, Typed
  <2>3. cb[n].kind = "none"
    BY <1>0, Kinds
  <2>4. made' = n /\ made \in Nat /\ n \in Nat
    BY <1>0
  <2>5. FailureHandedOn'
    <3>1. SUFFICES ASSUME NEW s \in 1 .. n
                   PROVE  FailureHandedOn!(s)'
      BY <2>4 DEF FailureHandedOn
    <3>2. CASE s \in 1 .. made
      <4>1. s \in States \ {n} /\ result'[s] = result[s]
        BY <2>2, <3>2
      <4>2. cb[s].kind # "none" => result'[cb[s].to] = result[cb[s].to]
        BY <2>2, <3>2
      <4> QED BY <2>4, <3>2, <4>1, <4>2 DEF FailureHandedOn
    <3>3. CASE s = n
      BY <2>3, <3>3
    <3> QED BY <2>1, <3>2, <3>3
  <2> QED BY <2>5 DEF NoDoubleSet
<1> QED BY <1>5, <1>6, <1>7, <1>8, <1>9, <1>10, <1>11, <1>12, <1>13, <1>14, <1>15

LEMMA NewPromiseInv ==
  ASSUME IInv, NewPromise
  PROVE  IInv'
<1>1. PICK n : n = New
  OBVIOUS
<1>2. Make /\ n \in States
  BY <1>1, NewIsUnused DEF Unused, NewPromise
<1> DEFINE i == [from |-> n, c |-> [kind |-> "async", to |-> n]]
<1>3. i \in [from : States, c : Passed \cup Tasks] /\ i.c.kind \in TaskKinds /\ i.c.to = n
  BY <1>2 DEF Tasks, TaskKinds
<1>4. i \notin jobs
  BY <1>1, <1>2, <1>3, NewIsUnused DEF Unused
<1> HIDE DEF i
<1>5. /\ UNCHANGED <<result, executed, running, rejected, cb, expiry, timers, ctx, client, jobs>>
      /\ leaves' = leaves \cup {n} /\ owned' \subseteq owned \cup {n}
  BY <1>1 DEF NewPromise, shared
<1>6. /\ RunInv' /\ Done' = Done /\ \A s \in States : Live(s)' => Live(s)
      /\ result' \in [States -> Outcomes] /\ executed' \in [States -> BOOLEAN]
      /\ running' \in SUBSET States
  BY <1>5 DEF RunInv, Done, Live, IInv, Satisfied, TypeInv
<1> QED BY <1>1, <1>2, <1>3, <1>4, <1>5, <1>6, NewLeaf

LEMMA NewTaskInv ==
  ASSUME IInv, NEW k \in TaskKinds, NewTask(k)
  PROVE  IInv'
<1>1. PICK n : n = New
  OBVIOUS
<1>2. Make /\ n \in States /\ n \notin owned /\ ~Satisfied(n)
  BY <1>1, NewIsUnused DEF Unused, NewTask
<1> DEFINE i == [from |-> n, c |-> [kind |-> k, to |-> n]]
<1>3. i \in [from : States, c : Passed \cup Tasks] /\ i.c.kind \in TaskKinds /\ i.c.to = n
  BY <1>2 DEF Tasks, TaskKinds
<1>4. jobs' = jobs \cup {i}
  BY <1>1 DEF NewTask
<1> HIDE DEF i
<1>5. /\ UNCHANGED <<result, executed, running, rejected, cb, expiry, timers, ctx, client, owned>>
      /\ leaves' = leaves \cup {n}
  BY <1>1 DEF NewTask, shared
<1>6. /\ RunInv' /\ Done' = Done /\ \A s \in States : Live(s)' => Live(s)
      /\ result' \in [States -> Outcomes] /\ executed' \in [States -> BOOLEAN]
      /\ running' \in SUBSET States /\ ~Satisfied(n)'
  BY <1>2, <1>5 DEF RunInv, Done, Live, IInv, Satisfied, TypeInv
<1> QED BY <1>1, <1>2, <1>3, <1>4, <1>5, <1>6, NewLeaf

LEMMA MakeReadyFutureInv ==
  ASSUME IInv, MakeReadyFuture
  PROVE  IInv'
<1>1. PICK n : n = New
  OBVIOUS
<1>2. Make /\ n \in States /\ ~Satisfied(n)
  BY <1>1, NewIsUnused DEF Unused, MakeReadyFuture
<1> DEFINE i == [from |-> n, c |-> [kind |-> "async", to |-> n]]
<1>3. i \in [from : States, c : Passed \cup Tasks] /\ i.c.kind \in TaskKinds /\ i.c.to = n
  BY <1>2 DEF Tasks, TaskKinds
<1>4. i \notin jobs
  BY <1>1, <1>2, <1>3, NewIsUnused DEF Unused
<1> HIDE DEF i
<1>5. UNCHANGED <<cb, expiry, timers, ctx, client, jobs, owned>> /\ leaves' = leaves \cup {n}
  BY <1>1 DEF MakeReadyFuture
<1>6. PICK r \in {"value", "error"} : SetReady(n, r, running)
  BY <1>1, <1>2 DEF MakeReadyFuture, Set
<1>7. r \in Outcomes \ {"none"} /\ Done \cup (running \ running) = Done /\ running \in SUBSET running
  BY DEF Outcomes, Failures
<1>8. /\ RunInv' /\ Done' = Done /\ \A s \in States : Live(s)' => Live(s)
      /\ result' \in [States -> Outcomes] /\ executed' \in [States -> BOOLEAN]
      /\ running' \in SUBSET States /\ rejected' = rejected
      /\ \A s \in States \ {n} : result'[s] = result[s]
  BY <1>2, <1>5, <1>6, <1>7, SetOrLeave DEF IInv
<1> QED BY <1>1, <1>2, <1>3, <1>4, <1>5, <1>8, NewLeaf

\* A state that is free is not limited and in no context.
LEMMA Uncommitted ==
  ASSUME IInv, NEW s, Free(s), client = Idle
  PROVE  /\ s \in 1 .. made /\ s \in States /\ cb[s] = NoCallback /\ expiry[s] = "not_set"
         /\ \A d \in States : ~Limits(s, d)
         /\ \A e \in States : Todo(e) = {} /\ (ctx[e] # NoContext => s \notin ctx[e].members)
         /\ \A j \in jobs : j.c.kind \notin TaskKinds => j.from # s
<1> USE DEF IInv
<1>1. s \in 1 .. made /\ s \in States /\ cb[s] = NoCallback
  BY Typed DEF Free
<1>2. \A d \in States : ~Limits(s, d)
  BY <1>1, Kinds DEF Limits, Idle
<1>3. expiry[s] = "not_set"
  BY <1>1, <1>2 DEF TimerInv
<1>4. \A e \in States : Todo(e) = {}
  BY DEF Todo, Idle
<1>5. \A e \in States : ctx[e] # NoContext => s \notin ctx[e].members
  BY <1>1, <1>4, Members
<1>6. \A j \in jobs : j.c.kind \notin TaskKinds => j.from # s
  BY <1>1 DEF JobInv
<1> QED BY <1>1, <1>2, <1>3, <1>4, <1>5, <1>6

LEMMA ThenInv ==
  ASSUME IInv, NEW s \in States, Then(s)
  PROVE  IInv'
<1> USE DEF IInv
<1>1. PICK n : n = New
  OBVIOUS
<1>2. Unused(n) /\ made' = n /\ Free(s) /\ client = Idle
  BY <1>1, NewIsUnused DEF Then
<1>3. /\ s \in 1 .. made /\ s # n /\ cb[s] = NoCallback /\ \A d \in States : ~Limits(s, d)
      /\ \A e \in States : ctx[e] # NoContext => s \notin ctx[e].members
      /\ \A j \in jobs : j.c.kind \notin TaskKinds => j.from # s
  BY <1>2, Uncommitted DEF Unused
<1>4. PICK via \in Vias, flat \in BOOLEAN :
        SetCallback(s, [kind |-> "then", to |-> n, via |-> via, flat |-> flat], running)
  BY <1>1 DEF Then
<1> DEFINE f == [kind |-> "then", to |-> n, via |-> via, flat |-> flat]
<1>5. f \in Passed /\ f.kind = "then" /\ f.to = n
  BY <1>2 DEF Passed, Unused
<1>6. UNCHANGED <<expiry, owned, leaves, jobs, timers, ctx, client>>
  BY DEF Then
<1>7. Done \cup (running \ running) = Done /\ running \in SUBSET running
  OBVIOUS
<1>8. /\ cb' = [cb EXCEPT ![s] = f] /\ result' = result /\ rejected' = rejected
      /\ executed' \in [States -> BOOLEAN] /\ running' \in SUBSET States
      /\ RunInv'
      /\ Live(s)' /\ ~Live(s)
      /\ \A t \in States : t # s /\ Live(t)' => Live(t)
      /\ Done' = Done
  <2>1. SetCallback(s, f, running) /\ f \in Passed
    BY <1>4, <1>5
  <2> HIDE DEF f
  <2> QED BY <1>3, <1>7, <2>1, Attach
<1> HIDE DEF f
<1>9. cb'[s] = f /\ \A t \in States : t # s => cb'[t] = cb[t]
  BY <1>8 DEF TypeInv
<1>10. /\ Passing(s)' /\ ~Passing(s)
       /\ \A t \in States : t # s => (Passing(t)' <=> Passing(t))
       /\ \A t \in States : Handed(t) => Handed(t)' /\ t # s
       /\ \A t \in States : Satisfied(t)' <=> Satisfied(t)
  BY <1>3, <1>5, <1>6, <1>8, <1>9, Kinds DEF Passing, Handed, Satisfied
<1>11. \A t, d \in States : Limits(t, d)' <=> Limits(t, d)
  BY <1>3, <1>5, <1>6, <1>9 DEF Limits
<1>12. TypeInv'
  <2>1. made' \in 0 .. MaxStates /\ leaves' \subseteq 1 .. made'
    <3>1. leaves \subseteq 1 .. made
      BY DEF TypeInv
    <3>2. 1 .. made \subseteq 1 .. n /\ n \in 0 .. MaxStates
      BY <1>2, MaxStatesAssumption DEF States, Unused
    <3> QED BY <1>2, <1>6, <3>1, <3>2
  <2> QED BY <1>5, <1>6, <1>8, <2>1 DEF TypeInv
<1>13. FreshInv'
  BY <1>2, <1>3, <1>6, <1>8, <1>9, MaxStatesAssumption DEF FreshInv, Satisfied, States, Unused
<1>14. JobInv'
  <2>1. SUFFICES ASSUME NEW j \in jobs
                 PROVE  JobInv!(j)'
    BY <1>6 DEF JobInv
  <2>2. j.c.to \in States /\ j.from \in States /\ j.c.to <= n
    BY <1>2, Typed DEF JobInv, Unused
  <2> QED BY <1>2, <1>3, <1>6, <1>8, <1>9, <2>2 DEF JobInv, Satisfied
<1>15. PassInv'
  <2>1. n \notin leaves /\ ctx[n] = NoContext /\ ~Satisfied(n) /\ n <= n /\ n \in States
    BY <1>2 DEF Unused
  <2>2. \A t \in States : Passing(t) => cb[t].to # n /\ cb[t].to <= n
    BY <1>2, Typed, Kinds DEF Unused
  <2> QED BY <1>2, <1>5, <1>6, <1>8, <1>9, <1>10, <2>1, <2>2 DEF PassInv, Satisfied
<1>16. LimitInv'
  <2>1. ASSUME NEW t \in States, NEW d \in States, Limits(t, d)
        PROVE  LimitInv!(t, d)'
    <3>1. t # s /\ d # n /\ t <= n /\ d <= n
      BY <1>2, <1>3, <2>1 DEF LimitInv, Unused
    <3> QED BY <1>2, <1>5, <1>6, <1>8, <1>9, <1>10, <1>11, <2>1, <3>1 DEF LimitInv, Satisfied
  <2> QED BY <1>11, <2>1 DEF LimitInv
<1>17. TimerInv'
  BY <1>6, <1>11 DEF TimerInv, TypeInv
<1>18. ClientInv' /\ AnyInv' /\ AllInv'
  <2>1. ClientInv'
    BY <1>2, <1>6 DEF ClientInv, Idle
  <2>2. AnyInv'
    BY <1>6, <1>8 DEF AnyInv, Todo, Satisfied
  <2> QED BY <1>6, <1>8, <2>1, <2>2 DEF AllInv, Satisfied
<1>19. ContextInv'
  <2>1. 1 .. made \subseteq 1 .. n
    BY <1>2 DEF Unused
  <2>2. made' = n
    BY <1>2
  <2>3. \A e \in States : ctx[e] # NoContext =>
          \A t \in ctx[e].members : cb'[t] = cb[t]
    BY <1>3, <1>9, Counted
  <2>4. \A t \in States : cb'[t].kind \in {"all", "any"} => cb'[t] = cb[t]
    BY <1>5, <1>9
  <2> QED BY <1>6, <2>1, <2>2, <2>3, <2>4 DEF ContextInv, Todo
<1>20. NoDoubleSet' /\ FailureHandedOn'
  <2>1. \A t \in 1 .. n : t \in States /\ (t \in 1 .. made \/ t = n)
    BY <1>1, <1>2, MaxStatesAssumption DEF New, Unused, States
  <2>2. cb'[n].kind = "none" /\ ~Satisfied(n)
    BY <1>2, <1>3, <1>9, Kinds DEF Unused
  <2> QED BY <1>2, <1>5, <1>8, <1>9, <2>1, <2>2 DEF NoDoubleSet, FailureHandedOn, Satisfied
<1> QED BY <1>8, <1>12, <1>13, <1>14, <1>15, <1>16, <1>17, <1>18, <1>19, <1>20

\* A state is made for a timeout or a context: tasks, callbacks and results stay.
LEMMA NewTarget ==
  ASSUME IInv, Make, NEW n, n = New, UNCHANGED <<expiry, owned, leaves, jobs, cb, shared>>,
         \A e \in States \ {n} : ctx'[e] = ctx[e],
         ctx' \in [States -> {NoContext} \cup Contexts],
         client' \in [op : ClientOps, todo : SUBSET States, to : States \cup {0}],
         timers' \subseteq States \X States
  PROVE  /\ Unused(n) /\ made' = n /\ UNCHANGED <<result, executed, running, rejected>>
         /\ TypeInv' /\ FreshInv' /\ RunInv' /\ JobInv' /\ PassInv' /\ NoDoubleSet' /\ FailureHandedOn'
         /\ Done' = Done /\ \A s \in States : Live(s)' <=> Live(s)
<1> USE DEF IInv
<1>1. Unused(n) /\ made' = n
  BY NewIsUnused
<1>2. UNCHANGED <<result, executed, running, rejected>>
  BY DEF shared
<1>3. Done' = Done /\ \A s \in States : (Live(s)' <=> Live(s)) /\ (Handed(s)' <=> Handed(s))
  BY <1>2 DEF Done, Live, Handed
<1>4. RunInv' /\ NoDoubleSet'
  BY <1>2 DEF RunInv, NoDoubleSet, Satisfied
<1>5. TypeInv'
  <2>1. leaves \subseteq 1 .. made
    BY DEF TypeInv
  <2>2. 1 .. made \subseteq 1 .. n /\ n \in 0 .. MaxStates
    BY <1>1, MaxStatesAssumption DEF States, Unused
  <2>3. leaves' \subseteq 1 .. made' /\ made' \in 0 .. MaxStates
    BY <1>1, <2>1, <2>2
  <2> QED BY <1>2, <2>3 DEF TypeInv
<1>6. FreshInv'
  BY <1>1, <1>2, MaxStatesAssumption DEF FreshInv, Satisfied, States, Unused
<1>7. JobInv'
  <2>1. SUFFICES ASSUME NEW j \in jobs
                 PROVE  JobInv!(j)'
    BY DEF JobInv
  <2>2. j.c.to \in States /\ j.from \in States /\ j.c.to <= n
    BY <1>1, Typed DEF JobInv, Unused
  <2> QED BY <1>1, <1>2, <1>3, <2>2 DEF JobInv, Satisfied
<1>8. PassInv'
  <2>1. \A t \in States : Passing(t) => cb[t].to \in States /\ cb[t].to # n /\ cb[t].to <= n
    BY <1>1, Typed, Kinds DEF Unused
  <2> QED BY <1>1, <1>2, <1>3, <2>1 DEF PassInv, Satisfied, Passing
<1>9. FailureHandedOn'
  <2>1. \A t \in 1 .. n : t \in 1 .. made \/ t = n
    BY <1>1, MaxStatesAssumption DEF New, Unused
  <2>2. cb[n].kind = "none"
    BY <1>1, Kinds DEF Unused
  <2> QED BY <1>1, <1>2, <2>1, <2>2 DEF FailureHandedOn
<1> QED BY <1>1, <1>2, <1>3, <1>4, <1>5, <1>6, <1>7, <1>8, <1>9

LEMMA TimeoutInv ==
  ASSUME IInv, NEW s \in States, Timeout(s)
  PROVE  IInv'
<1> USE DEF IInv
<1>1. PICK n : n = New
  OBVIOUS
<1>2. /\ UNCHANGED <<expiry, owned, leaves, jobs, ctx, cb, shared>> /\ timers' = timers \cup {<<s, n>>}
      /\ client' = [op |-> "timeout", todo |-> {s}, to |-> n] /\ client = Idle /\ Make /\ Free(s)
  BY <1>1 DEF Timeout
<1>3. Unused(n) /\ n \in States
  BY <1>1, <1>2, NewIsUnused DEF Unused
<1>4. /\ Unused(n) /\ made' = n /\ UNCHANGED <<result, executed, running, rejected>>
      /\ TypeInv' /\ FreshInv' /\ RunInv' /\ JobInv' /\ PassInv' /\ NoDoubleSet' /\ FailureHandedOn'
      /\ Done' = Done /\ \A t \in States : Live(t)' <=> Live(t)
  <2>1. /\ client' \in [op : ClientOps, todo : SUBSET States, to : States \cup {0}]
        /\ timers' \subseteq States \X States /\ ctx' \in [States -> {NoContext} \cup Contexts]
    BY <1>2, <1>3 DEF ClientOps, TypeInv
  <2> QED BY <1>1, <1>2, <2>1, NewTarget
<1>5. /\ s \in 1 .. made /\ cb[s] = NoCallback /\ expiry[s] = "not_set"
      /\ \A d \in States : ~Limits(s, d) /\ Todo(d) = {}
  BY <1>2, Uncommitted
<1>6. \A t, d \in States : Limits(t, d)' <=> Limits(t, d) \/ (t = s /\ d = n)
  BY <1>2, <1>5 DEF Limits, Idle
<1>7. LimitInv'
  <2>1. ASSUME NEW t \in States, NEW d \in States, Limits(t, d)
        PROVE  LimitInv!(t, d)'
    <3>1. d # n /\ t <= n /\ d <= n
      BY <1>4, <2>1 DEF LimitInv, Unused
    <3>2. t # s
      BY <1>5, <2>1
    <3> QED BY <1>2, <1>4, <1>6, <2>1, <3>1, <3>2 DEF LimitInv, Satisfied, Passing
  <2>2. LimitInv!(s, n)'
    <3>1. s <= n /\ n <= n /\ n \notin leaves /\ ctx[n] = NoContext /\ ~Satisfied(n)
      BY <1>4, <1>5 DEF Unused
    <3>2. \A t \in States : /\ Passing(t) => cb[t].to # n
                            /\ Limits(t, n)' => t = s
      BY <1>4, <1>6, Typed, Kinds DEF Unused
    <3> QED BY <1>2, <1>4, <1>5, <3>1, <3>2 DEF Satisfied, Passing
  <2> QED BY <1>6, <2>1, <2>2 DEF LimitInv
<1>8. TimerInv'
  <2>1. ASSUME NEW t \in timers'
        PROVE  Limits(t[1], t[2])' /\ expiry'[t[1]] # "expired"
    <3>1. CASE t \in timers
      BY <1>2, <1>6, <3>1 DEF TimerInv, TypeInv
    <3>2. CASE t = <<s, n>>
      BY <1>2, <1>3, <1>5, <1>6, <3>2
    <3> QED BY <1>2, <3>1, <3>2
  <2> QED BY <1>2, <1>6, <2>1 DEF TimerInv
<1>9. ClientInv'
  BY <1>2, <1>4, <1>5 DEF ClientInv, Unused
<1>10. \A e \in States : Todo(e)' = Todo(e)
  BY <1>2, <1>5 DEF Todo
<1>11. ContextInv'
  <2>1. 1 .. made \subseteq 1 .. n
    BY <1>4 DEF Unused
  <2> QED BY <1>2, <1>4, <1>10, <2>1 DEF ContextInv
<1>12. AllInv'
  BY <1>2, <1>4 DEF AllInv, Satisfied
<1>13. AnyInv'
  BY <1>2, <1>4, <1>10 DEF AnyInv, Satisfied, Idle
<1> QED BY <1>4, <1>7, <1>8, <1>9, <1>11, <1>12, <1>13

LEMMA WhenInv ==
  ASSUME IInv, NEW op \in {"all", "any"}, NEW S \in SUBSET (1 .. made), When(op, S)
  PROVE  IInv'
<1> USE DEF IInv
<1>1. PICK n : n = New
  OBVIOUS
<1> DEFINE c == [op |-> op, total |-> Cardinality(S), members |-> S, count |-> 0, processed |-> 0,
                 ready |-> FALSE, moved |-> FALSE]
<1>2. /\ UNCHANGED <<expiry, owned, leaves, jobs, timers, cb, shared>> /\ ctx' = [ctx EXCEPT ![n] = c]
      /\ client' = [op |-> op, todo |-> S, to |-> n] /\ client = Idle /\ Make
      /\ \A s \in S : Free(s)
  BY <1>1 DEF When
<1>3. Unused(n) /\ n \in States /\ S \subseteq States
  BY <1>1, <1>2, NewIsUnused, Typed DEF Unused
<1>4. c \in Contexts /\ c # NoContext
  <2>1. IsFiniteSet(S)
    <3>1. IsFiniteSet(States)
      BY FS_Interval, MaxStatesAssumption DEF States
    <3> QED BY <1>3, <3>1, FS_Subset
  <2>2. Cardinality(S) \in Nat
    BY <2>1, FS_CardinalityType
  <2>3. c \in Contexts
    BY <1>3, <2>2 DEF Contexts
  <2> QED BY <2>3, Kinds
<1>5. /\ c.op = op /\ c.total = Cardinality(S) /\ c.members = S /\ c.count = 0 /\ c.processed = 0
      /\ ~c.ready /\ ~c.moved
  OBVIOUS
<1> HIDE DEF c
<1>6. ctx'[n] = c /\ \A e \in States \ {n} : ctx'[e] = ctx[e]
  BY <1>2, <1>3 DEF TypeInv
<1>7. /\ Unused(n) /\ made' = n /\ UNCHANGED <<result, executed, running, rejected>>
      /\ TypeInv' /\ FreshInv' /\ RunInv' /\ JobInv' /\ PassInv' /\ NoDoubleSet' /\ FailureHandedOn'
      /\ Done' = Done /\ \A t \in States : Live(t)' <=> Live(t)
  <2>1. /\ client' \in [op : ClientOps, todo : SUBSET States, to : States \cup {0}]
        /\ timers' \subseteq States \X States /\ ctx' \in [States -> {NoContext} \cup Contexts]
    BY <1>2, <1>3, <1>4 DEF ClientOps, TypeInv
  <2> QED BY <1>1, <1>2, <1>6, <2>1, NewTarget
<1>8. \A s \in S : s \in 1 .. made /\ cb[s] = NoCallback /\ s \notin Done
  BY <1>2 DEF Free, Done, RunInv
<1>9. \A e \in States : Todo(e) = {} /\ Todo(e)' = IF e = n THEN S ELSE {}
  BY <1>2 DEF Todo, Idle
<1>10. \A t, d \in States : Limits(t, d)' <=> Limits(t, d)
  BY <1>2 DEF Limits, Idle
<1>11. LimitInv'
  <2>1. ASSUME NEW t \in States, NEW d \in States, Limits(t, d)
        PROVE  LimitInv!(t, d)'
    <3>1. d # n /\ t <= n /\ d <= n
      BY <1>7, <2>1 DEF LimitInv, Unused
    <3> QED BY <1>2, <1>6, <1>7, <1>10, <2>1, <3>1 DEF LimitInv, Satisfied, Passing
  <2> QED BY <1>10, <2>1 DEF LimitInv
<1>12. TimerInv'
  BY <1>2, <1>10 DEF TimerInv, TypeInv
<1>13. ClientInv'
  <2>1. n \in 1 .. n /\ n \notin leaves /\ \A s \in 1 .. made : s <= n
    BY <1>3 DEF Unused, States, MaxStatesAssumption
  <2> QED BY <1>2, <1>4, <1>5, <1>6, <1>7, <1>8, <2>1 DEF ClientInv
<1>14. ContextInv'
  <2>1. 1 .. made \subseteq 1 .. n /\ n \notin leaves /\ ctx[n] = NoContext
    BY <1>7 DEF Unused
  <2>2. \A s \in States : cb[s].kind \in {"all", "any"} => cb[s].to \in States \ {n}
    BY <1>7, Typed DEF Unused
  <2>3. made' = n
    BY <1>7
  <2> QED BY <1>2, <1>5, <1>6, <1>9, <2>1, <2>2, <2>3 DEF ContextInv
<1>15. AllInv'
  <2>1. S \cap Done = {} /\ Cardinality({}) = 0 /\ ~Satisfied(n)
    BY <1>7, <1>8, FS_EmptySet DEF Unused
  <2> QED BY <1>5, <1>6, <1>7, <2>1 DEF AllInv, Satisfied
<1>16. AnyInv'
  <2>1. S \ S = {} /\ Cardinality({}) = 0 /\ ~Satisfied(n)
    BY <1>7, FS_EmptySet DEF Unused
  <2>2. ASSUME NEW e \in States, ctx'[e] # NoContext, ctx'[e].op = "any"
        PROVE  AnyInv!(e)'
    <3>1. client.op # "processed" /\ client'.op # "processed"
      BY <1>2 DEF Idle
    <3>2. CASE e = n
      BY <1>5, <1>6, <1>7, <1>9, <2>1, <3>1, <3>2 DEF Satisfied
    <3>3. CASE e # n
      BY <1>6, <1>7, <1>9, <2>2, <3>1, <3>3 DEF AnyInv, Satisfied
    <3> QED BY <3>2, <3>3
  <2> QED BY <2>2 DEF AnyInv
<1> QED BY <1>7, <1>11, <1>12, <1>13, <1>14, <1>15, <1>16

\* The building thread gives s a callback: what the attaching leaves.
LEMMA Attached ==
  ASSUME IInv, NEW s \in client.todo, NEW c \in Decided, SetCallback(s, c, running),
         UNCHANGED <<made, expiry, owned, leaves, jobs, timers, ctx>>,
         client' \in [op : ClientOps, todo : SUBSET States, to : States \cup {0}],
         c.to <= made
  PROVE  /\ s \in States /\ s \in 1 .. made /\ cb[s] = NoCallback
         /\ cb' = [cb EXCEPT ![s] = c] /\ cb'[s] = c /\ \A t \in States : t # s => cb'[t] = cb[t]
         /\ result' = result /\ rejected' = rejected /\ Done' = Done
         /\ \A t \in States : t # s /\ Live(t)' => Live(t)
         /\ \A t \in States : Passing(t)' <=> Passing(t)
         /\ TypeInv' /\ FreshInv' /\ RunInv' /\ JobInv' /\ PassInv' /\ NoDoubleSet'
<1> USE DEF IInv
<1>1. s \in States /\ s \in 1 .. made /\ cb[s] = NoCallback
  BY MaxStatesAssumption DEF ClientInv, TypeInv, States
<1>2. Done \cup (running \ running) = Done /\ running \in SUBSET running
  OBVIOUS
<1>3. /\ cb' = [cb EXCEPT ![s] = c] /\ result' = result /\ rejected' = rejected
      /\ executed' \in [States -> BOOLEAN] /\ running' \in SUBSET States
      /\ RunInv'
      /\ \A t \in States : t # s /\ Live(t)' => Live(t)
      /\ Done' = Done
  BY <1>1, <1>2, Attach
<1>4. cb'[s] = c /\ \A t \in States : t # s => cb'[t] = cb[t]
  BY <1>1, <1>3 DEF TypeInv
<1>5. \A t \in States : /\ Passing(t)' <=> Passing(t)
                        /\ Passing(t) => t # s
                        /\ Handed(t) => Handed(t)'
  BY <1>1, <1>3, <1>4, Kinds DEF Passing, Handed
<1>6. TypeInv'
  BY <1>3 DEF TypeInv
<1>7. FreshInv'
  BY <1>1, <1>3, <1>4 DEF FreshInv, Satisfied, TypeInv
<1>8. JobInv'
  <2>1. SUFFICES ASSUME NEW j \in jobs
                 PROVE  JobInv!(j)'
    BY DEF JobInv
  <2>2. j.c.kind \notin TaskKinds => j.from \in States /\ j.from # s
    BY <1>1, Typed DEF JobInv
  <2> QED BY <1>3, <1>4, <2>2 DEF JobInv, Satisfied
<1>9. PassInv'
  BY <1>3, <1>4, <1>5 DEF PassInv, Satisfied
<1> QED BY <1>1, <1>3, <1>4, <1>5, <1>6, <1>7, <1>8, <1>9 DEF NoDoubleSet

LEMMA TimeoutCallbackInv ==
  ASSUME IInv, TimeoutCallback
  PROVE  IInv'
<1> USE DEF IInv
<1>1. PICK s \in client.todo : SetCallback(s, [kind |-> "timeout", to |-> client.to], running)
  BY DEF TimeoutCallback
<1>2. PICK d \in States : d = client.to /\ d <= made
  BY MaxStatesAssumption, Typed DEF TimeoutCallback, ClientInv, TypeInv
<1> DEFINE c == [kind |-> "timeout", to |-> d]
<1>3. c \in Decided /\ c.kind = "timeout" /\ c.to = d
  BY DEF Decided
<1>4. /\ UNCHANGED <<made, expiry, owned, leaves, jobs, timers, ctx>> /\ client' = Idle
      /\ client.op = "timeout" /\ client.todo = {s}
  BY <1>1 DEF TimeoutCallback, ClientInv
<1>5. client' \in [op : ClientOps, todo : SUBSET States, to : States \cup {0}]
  BY <1>4 DEF Idle, ClientOps
<1>6. SetCallback(s, c, running)
  BY <1>1, <1>2
<1> HIDE DEF c
<1>7. /\ s \in States /\ s \in 1 .. made /\ cb[s] = NoCallback
      /\ cb'[s] = c /\ \A t \in States : t # s => cb'[t] = cb[t]
      /\ result' = result /\ rejected' = rejected /\ Done' = Done
      /\ \A t \in States : t # s /\ Live(t)' => Live(t)
      /\ \A t \in States : Passing(t)' <=> Passing(t)
      /\ TypeInv' /\ FreshInv' /\ RunInv' /\ JobInv' /\ PassInv' /\ NoDoubleSet'
  BY <1>2, <1>3, <1>4, <1>5, <1>6, Attached
<1>8. \A t, e \in States : Limits(t, e)' <=> Limits(t, e)
  BY <1>2, <1>3, <1>4, <1>7, Kinds DEF Limits, Idle
<1>9. LimitInv'
  <2>1. ASSUME NEW t \in States, NEW e \in States, Limits(t, e)
        PROVE  LimitInv!(t, e)'
    <3>1. \A u \in States : Passing(u)' => cb'[u].to # e
      <4>1. ~Passing(s)
        BY <1>7, Kinds DEF Passing
      <4> SUFFICES ASSUME NEW u \in States, Passing(u)' PROVE cb'[u].to # e
        OBVIOUS
      <4>2. Passing(u) /\ cb'[u] = cb[u]
        <5>1. Passing(u)
          BY <1>7
        <5> QED BY <1>7, <4>1, <5>1
      <4>3. cb[u].to # e
        BY <2>1, <4>2 DEF LimitInv
      <4> QED BY <4>2, <4>3
    <3>2. expiry[t] = "result_set" => t # s
      BY <1>7, <2>1, Kinds DEF LimitInv
    <3> QED BY <1>4, <1>7, <1>8, <2>1, <3>1, <3>2 DEF LimitInv, Satisfied
  <2> QED BY <1>8, <2>1 DEF LimitInv
<1>10. TimerInv'
  BY <1>4, <1>8 DEF TimerInv, TypeInv
<1>11. ClientInv'
  BY <1>4 DEF ClientInv, Idle
<1>12. \A e \in States : Todo(e) = {} /\ Todo(e)' = {}
  BY <1>4 DEF Todo, Idle
<1>13. ContextInv'
  <2>1. \A e \in States : ctx[e] # NoContext => s \notin ctx[e].members
    BY <1>7, <1>12, Members
  <2>2. \A e \in States : ctx[e] # NoContext => \A t \in ctx[e].members : cb'[t] = cb[t]
    BY <1>7, <2>1, Counted
  <2>3. \A t \in States : cb'[t].kind \in {"all", "any"} => cb'[t] = cb[t]
    BY <1>3, <1>7
  <2> QED BY <1>4, <1>12, <2>2, <2>3 DEF ContextInv
<1>14. AllInv'
  BY <1>4, <1>7 DEF AllInv, Satisfied
<1>15. AnyInv'
  <2>1. client.op # "processed" /\ client'.op # "processed"
    BY <1>4 DEF Idle
  <2> QED BY <1>4, <1>7, <1>12, <2>1 DEF AnyInv, Satisfied
<1>16. FailureHandedOn'
  <2>1. Limits(s, d)
    BY <1>2, <1>4 DEF Limits
  <2>2. result[d] # "value"
    <3>1. expiry[s] # "result_set"
      BY <1>7, <2>1, Kinds DEF LimitInv
    <3> QED BY <1>7, <2>1, <3>1 DEF LimitInv, TypeInv, Satisfied
  <2> QED BY <1>3, <1>4, <1>7, <2>2, Typed DEF FailureHandedOn
<1> QED BY <1>7, <1>9, <1>10, <1>11, <1>13, <1>14, <1>15, <1>16

\* One round of the loop of when_all or when_any.
LEMMA VisitInv ==
  ASSUME IInv, NEW op, NEW next, Visit(op, next),
         \/ op = "all" /\ next = "all"
         \/ op = "any" /\ next = "processed"
  PROVE  IInv'
<1> USE DEF IInv
<1>1. PICK s \in client.todo :
        /\ SetCallback(s, [kind |-> op, to |-> client.to], running)
        /\ client' = [client EXCEPT !.op = next, !.todo = @ \ {s}]
  BY DEF Visit
<1>2. PICK d \in States : d = client.to /\ d <= made
  BY MaxStatesAssumption, Typed DEF Visit, ClientInv, TypeInv
<1> DEFINE c == [kind |-> op, to |-> d]
           S == ctx[d].members
<1>3. c \in Decided /\ c.kind = op /\ c.to = d
  BY DEF Decided
<1>4. /\ UNCHANGED <<made, expiry, owned, leaves, jobs, timers, ctx>>
      /\ client.op = op /\ client'.op = next /\ client'.todo = client.todo \ {s} /\ client'.to = d
      /\ client' \in [op : ClientOps, todo : SUBSET States, to : States \cup {0}]
  BY <1>1, <1>2 DEF Visit, TypeInv, ClientOps
<1>5. SetCallback(s, c, running)
  BY <1>1, <1>2
<1>6. ctx[d] # NoContext /\ ctx[d].op = op /\ client.todo \subseteq S
  BY <1>2, <1>4 DEF ClientInv
<1>7. /\ s \in States /\ s \in 1 .. made /\ cb[s] = NoCallback
      /\ cb'[s] = c /\ \A t \in States : t # s => cb'[t] = cb[t]
      /\ result' = result /\ rejected' = rejected /\ Done' = Done
      /\ \A t \in States : t # s /\ Live(t)' => Live(t)
      /\ \A t \in States : Passing(t)' <=> Passing(t)
      /\ TypeInv' /\ FreshInv' /\ RunInv' /\ JobInv' /\ PassInv' /\ NoDoubleSet'
  BY <1>2, <1>3, <1>4, <1>5, Attached
<1>8. \A t, e \in States : Limits(t, e)' <=> Limits(t, e)
  BY <1>3, <1>4, <1>7, Kinds DEF Limits
<1>9. \A t, e \in States : Limits(t, e) => t # s
  BY <1>4, <1>7, Kinds DEF Limits
<1>10. LimitInv'
  <2>1. ASSUME NEW t \in States, NEW e \in States, Limits(t, e)
        PROVE  LimitInv!(t, e)'
    <3>1. \A u \in States : Passing(u)' => cb'[u].to # e
      <4>1. ~Passing(s)
        BY <1>7, Kinds DEF Passing
      <4> SUFFICES ASSUME NEW u \in States, Passing(u)' PROVE cb'[u].to # e
        OBVIOUS
      <4>2. Passing(u) /\ cb'[u] = cb[u]
        <5>1. Passing(u)
          BY <1>7
        <5> QED BY <1>7, <4>1, <5>1
      <4>3. cb[u].to # e
        BY <2>1, <4>2 DEF LimitInv
      <4> QED BY <4>2, <4>3
    <3> QED BY <1>4, <1>7, <1>8, <1>9, <2>1, <3>1 DEF LimitInv, Satisfied
  <2> QED BY <1>8, <2>1 DEF LimitInv
<1>11. TimerInv'
  BY <1>4, <1>8 DEF TimerInv, TypeInv
<1>12. ClientInv'
  <2>1. \A t \in client'.todo : t <= made /\ cb'[t] = NoCallback
    BY <1>4, <1>7 DEF ClientInv, TypeInv
  <2>2. d \in 1 .. made /\ d \notin leaves
    BY <1>2, <1>4 DEF ClientInv
  <2> QED BY <1>4, <1>6, <2>1, <2>2 DEF ClientInv
<1>13. /\ Todo(d) = client.todo /\ Todo(d)' = client.todo \ {s}
       /\ \A e \in States : e # d => Todo(e) = {} /\ Todo(e)' = {}
  BY <1>2, <1>4 DEF Todo
<1>14. \A e \in States : e # d /\ ctx[e] # NoContext => s \notin ctx[e].members
  BY <1>7, <1>13, Members
<1>15. ContextInv'
  <2>1. \A e \in States : ctx[e] # NoContext =>
          \A t \in ctx[e].members : t \in States /\ (t # s => cb'[t] = cb[t])
    BY <1>7, Counted
  <2>2. ASSUME NEW e \in States, ctx[e] # NoContext
        PROVE  \A t \in ctx[e].members \ Todo(e)' : cb'[t] = [kind |-> ctx[e].op, to |-> e]
    <3>1. CASE e = d
      <4>1. \A t \in S \ Todo(d) : t # s /\ cb[t] = [kind |-> ctx[d].op, to |-> d]
        BY <1>6, <1>13, <2>2, <3>1 DEF ContextInv
      <4>2. \A t \in S \ Todo(d)' : t = s \/ t \in S \ Todo(d)
        BY <1>13
      <4>3. cb'[s] = [kind |-> ctx[d].op, to |-> d]
        BY <1>6, <1>7
      <4> QED BY <2>1, <2>2, <3>1, <4>1, <4>2, <4>3
    <3>2. CASE e # d
      BY <1>13, <1>14, <2>1, <2>2, <3>2 DEF ContextInv
    <3> QED BY <3>1, <3>2
  <2>3. ASSUME NEW t \in States, cb'[t].kind \in {"all", "any"}
        PROVE  /\ ctx[cb'[t].to] # NoContext /\ ctx[cb'[t].to].op = cb'[t].kind
               /\ t \in ctx[cb'[t].to].members
    BY <1>3, <1>6, <1>7, <2>3 DEF ContextInv
  <2> QED BY <1>4, <2>2, <2>3 DEF ContextInv
<1>16. AllInv'
  BY <1>4, <1>7 DEF AllInv, Satisfied
<1>17. AnyInv'
  <2>1. ASSUME NEW e \in States, ctx[e] # NoContext, ctx[e].op = "any"
        PROVE  AnyInv!(e)'
    <3>1. CASE e = d
      <4>1. ~ctx[d].moved
        <5>1. s \in Todo(d)
          BY <1>13
        <5> QED BY <2>1, <3>1, <5>1 DEF AnyInv
      <4>2. op = "any" /\ next = "processed"
        BY <1>6, <2>1, <3>1
      <4>3. Cardinality(S \ Todo(d)) = ctx[d].processed
        BY <1>2, <1>4, <2>1, <3>1, <4>2, Counted DEF AnyInv, Contexts
      <4>4. S \ Todo(d)' = (S \ Todo(d)) \cup {s} /\ s \notin S \ Todo(d) /\ IsFiniteSet(S \ Todo(d))
        BY <1>6, <1>13, Counted
      <4>5. Cardinality(S \ Todo(d)') = ctx[d].processed + 1
        <5>1. PICK A : A = S \ Todo(d)
          OBVIOUS
        <5>2. IsFiniteSet(A) /\ s \notin A /\ S \ Todo(d)' = A \cup {s} /\ Cardinality(A) = ctx[d].processed
          BY ONLY <4>3, <4>4, <5>1
        <5>3. Cardinality(A \cup {s}) = Cardinality(A) + 1
          BY ONLY <5>2, FS_AddElement
        <5> QED BY ONLY <5>2, <5>3
      <4> QED BY <1>4, <1>7, <2>1, <3>1, <4>1, <4>2, <4>5 DEF AnyInv, Satisfied
    <3>2. CASE e # d
      BY <1>2, <1>4, <1>7, <1>13, <2>1, <3>2 DEF AnyInv, Satisfied
    <3> QED BY <3>1, <3>2
  <2> QED BY <1>4, <2>1 DEF AnyInv
<1>18. FailureHandedOn'
  BY <1>3, <1>4, <1>7, Typed DEF FailureHandedOn
<1> QED BY <1>7, <1>10, <1>11, <1>12, <1>15, <1>16, <1>17, <1>18

LEMMA CountProcessedInv ==
  ASSUME IInv, CountProcessed
  PROVE  IInv'
<1> USE DEF IInv
<1>1. PICK d \in States : d = client.to
  BY Typed DEF CountProcessed, ClientInv
<1> DEFINE c == [ctx[d] EXCEPT !.processed = @ + 1]
           S == ctx[d].members
<1>2. /\ UNCHANGED <<made, expiry, owned, leaves, jobs, timers, cb, result, executed, running, rejected>>
      /\ ctx' = [ctx EXCEPT ![d] = c]
      /\ client.op = "processed" /\ client' = [client EXCEPT !.op = "any"]
  BY <1>1 DEF CountProcessed, shared
<1>3. /\ client'.op = "any" /\ client'.to = d /\ client'.todo = client.todo
      /\ client' \in [op : ClientOps, todo : SUBSET States, to : States \cup {0}]
  BY <1>1, <1>2 DEF TypeInv, ClientOps
<1>4. ctx[d] # NoContext /\ ctx[d].op = "any" /\ client.todo \subseteq S
  BY <1>1, <1>2 DEF ClientInv
<1>5. /\ c \in Contexts /\ c.op = ctx[d].op /\ c.total = ctx[d].total /\ c.members = S
      /\ c.processed = ctx[d].processed + 1 /\ c.ready = ctx[d].ready /\ c.moved = ctx[d].moved
      /\ c # NoContext
  <2>1. ctx[d] \in Contexts
    BY <1>4, Counted
  <2>2. c \in Contexts
    BY <2>1 DEF Contexts
  <2> QED BY <2>1, <2>2, Kinds DEF Contexts
<1> HIDE DEF c
<1>6. /\ ctx' \in [States -> {NoContext} \cup Contexts] /\ ctx'[d] = c
      /\ \A e \in States \ {d} : ctx'[e] = ctx[e]
  BY <1>2, <1>4, <1>5, Told
<1>7. \A e \in States : (ctx'[e] = NoContext) <=> (ctx[e] = NoContext)
  BY <1>4, <1>5, <1>6
<1>8. /\ \A e \in States : Todo(e)' = Todo(e)
      /\ \A t, e \in States : Limits(t, e)' <=> Limits(t, e)
      /\ \A t \in States : (Live(t)' <=> Live(t)) /\ (Handed(t)' <=> Handed(t))
  BY <1>1, <1>2, <1>3 DEF Todo, Limits, Live, Handed
<1>9. TypeInv' /\ FreshInv' /\ RunInv' /\ JobInv'
  BY <1>2, <1>3, <1>6, <1>7, <1>8, Typed DEF TypeInv, FreshInv, RunInv, JobInv, Satisfied
<1>10. PassInv'
  BY <1>2, <1>7, <1>8, Typed, Kinds DEF PassInv, Satisfied, Passing
<1>11. LimitInv' /\ TimerInv'
  <2>1. LimitInv'
    BY <1>2, <1>7, <1>8 DEF LimitInv, Satisfied, Passing
  <2> QED BY <1>2, <1>8, <2>1 DEF TimerInv, TypeInv
<1>12. ClientInv'
  BY <1>1, <1>2, <1>3, <1>4, <1>5, <1>6 DEF ClientInv
<1>13. ContextInv'
  <2>1. \A e \in States : /\ ctx'[e] # NoContext <=> ctx[e] # NoContext
                          /\ ctx[e] # NoContext =>
                               /\ ctx'[e].op = ctx[e].op /\ ctx'[e].members = ctx[e].members
                               /\ ctx'[e].total = ctx[e].total
    BY <1>5, <1>6, <1>7
  <2>2. \A t \in States : cb[t].kind \in {"all", "any"} => cb[t].to \in States
    BY Typed
  <2> QED BY <1>2, <1>8, <2>1, <2>2 DEF ContextInv
<1>14. AllInv'
  BY <1>2, <1>4, <1>5, <1>6 DEF AllInv, Satisfied, Done
<1>15. AnyInv'
  <2>1. ASSUME NEW e \in States, ctx'[e] # NoContext, ctx'[e].op = "any"
        PROVE  AnyInv!(e)'
    <3>1. CASE e = d
      <4>1. ctx[d].processed \in Nat
        BY <1>4, Counted DEF Contexts
      <4>2. Cardinality(S \ Todo(d)) = ctx[d].processed + 1
        BY <1>1, <1>2, <1>4 DEF AnyInv
      <4> QED BY <1>1, <1>2, <1>3, <1>4, <1>5, <1>6, <1>8, <3>1, <4>1, <4>2 DEF AnyInv, Satisfied
    <3>2. CASE e # d
      BY <1>1, <1>2, <1>3, <1>6, <1>8, <2>1, <3>2 DEF AnyInv, Satisfied
    <3> QED BY <3>1, <3>2
  <2> QED BY <2>1 DEF AnyInv
<1>16. NoDoubleSet' /\ FailureHandedOn'
  BY <1>2 DEF NoDoubleSet, FailureHandedOn
<1> QED BY <1>9, <1>10, <1>11, <1>12, <1>13, <1>14, <1>15, <1>16

LEMMA CallbackInv ==
  ASSUME IInv, NEW s \in States, Callback(s)
  PROVE  IInv'
<1>1. s \in running /\ UNCHANGED <<made, owned, leaves, timers, client>>
  BY DEF Callback
<1>2. CASE CallbackInline(s)
  BY <1>1, <1>2, CallbackInlineInv
<1>3. CASE CallbackExecutor(s) \/ CallbackTraits(s)
  BY <1>1, <1>3, CallbackLaterInv
<1>4. CASE CallbackTimeout(s)
  BY <1>1, <1>4, CallbackTimeoutInv
<1>5. CASE CallbackAll(s)
  BY <1>1, <1>5, CallbackAllInv
<1>6. CASE CallbackAny(s)
  BY <1>1, <1>6, CallbackAnyInv
<1> QED BY <1>2, <1>3, <1>4, <1>5, <1>6 DEF Callback

LEMMA InitInv ==
  ASSUME Init
  PROVE  IInv
<1> USE MaxStatesAssumption DEF Init, States
<1>1. NoCallback.kind = "none"
  BY DEF NoCallback
<1>2. TypeInv
  BY DEF TypeInv, Outcomes, Idle, ClientOps
<1>3. FreshInv /\ RunInv /\ JobInv /\ PassInv
  BY <1>1 DEF FreshInv, RunInv, JobInv, PassInv, Satisfied, Passing
<1>4. LimitInv /\ TimerInv /\ ClientInv
  BY <1>1 DEF LimitInv, TimerInv, ClientInv, Limits, Idle
<1>5. ContextInv /\ AllInv /\ AnyInv
  BY <1>1 DEF ContextInv, AllInv, AnyInv
<1>6. NoDoubleSet /\ FailureHandedOn
  BY <1>1 DEF NoDoubleSet, FailureHandedOn
<1> QED BY <1>2, <1>3, <1>4, <1>5, <1>6 DEF IInv

LEMMA NextInv ==
  ASSUME IInv, [Next]_vars
  PROVE  IInv'
<1>1. CASE UNCHANGED vars
  BY <1>1, Shrink DEF vars, shared
<1>2. CASE NewPromise
  BY <1>2, NewPromiseInv
<1>3. CASE MakeReadyFuture
  BY <1>3, MakeReadyFutureInv
<1>4. CASE Async \/ CreateLocalNamedExecution \/ CreateJSONBatchCall
  BY <1>4, NewTaskInv DEF Async, CreateLocalNamedExecution, CreateJSONBatchCall, TaskKinds
<1>5. CASE WhenAll \/ WhenAny
  BY <1>5, WhenInv DEF WhenAll, WhenAny
<1>6. CASE ClientContinues
  <2>1. CASE VisitAll
    BY <2>1, VisitInv DEF VisitAll
  <2>2. CASE VisitAny
    BY <2>2, VisitInv DEF VisitAny
  <2> QED BY <1>6, <2>1, <2>2, TimeoutCallbackInv, CountProcessedInv, ReturnAllInv, ReturnAnyInv
          DEF ClientContinues
<1>7. ASSUME NEW s \in States, \/ SetPromise(s) \/ DropPromise(s) \/ Wait(s) \/ WaitTimesOut(s)
                               \/ Then(s) \/ Timeout(s) \/ Callback(s) \/ ContinuationSets(s)
      PROVE  IInv'
  <2>1. CASE Wait(s) \/ WaitTimesOut(s)
    BY <2>1, Shrink DEF Wait, WaitTimesOut
  <2>2. CASE ContinuationSets(s)
    <3>1. PICK p \in owned : SetPromise(p) \/ DropPromise(p)
      BY <2>2 DEF ContinuationSets
    <3>2. p \in States
      <4>1. p \in 1 .. made /\ made \in 0 .. MaxStates
        BY <3>1 DEF IInv, TypeInv
      <4> QED BY <4>1, MaxStatesAssumption DEF States
    <3> QED BY <3>1, <3>2, SetPromiseInv, DropPromiseInv
  <2> QED BY <1>7, <2>1, <2>2, SetPromiseInv, DropPromiseInv, ThenInv, TimeoutInv, CallbackInv
<1>8. ASSUME NEW j \in jobs, RunTask(j) \/ CancelTask(j) \/ DiscardTask(j)
      PROVE  IInv'
  BY <1>8, RunTaskInv, CancelTaskInv, DiscardTaskInv
<1>9. ASSUME NEW t \in timers, Expire(t[1], t[2])
      PROVE  IInv'
  BY <1>9, ExpireInv
<1> QED BY <1>1, <1>2, <1>3, <1>4, <1>5, <1>6, <1>7, <1>8, <1>9 DEF Next, Program

-----------------------------------------------------------------------------
(* Theorems.                                                               *)

\* Every promise is in one place at a time, and its state is not satisfied
\* while it is there.
THEOREM FutureInvariant == Spec => []IInv
<1>1. Init => IInv
  BY InitInv
<1>2. IInv /\ [Next]_vars => IInv'
  BY NextInv
<1> QED BY <1>1, <1>2, PTL DEF Spec

\* set_value and set_exception of shared_state never throw
\* promise_already_satisfied on a promise the library itself holds: not in then,
\* timeout, when_all and when_any, not in a task, however they interleave.
THEOREM NeverSetTwice == Spec => []NoDoubleSet
<1>1. IInv => NoDoubleSet
  BY DEF IInv
<1> QED BY <1>1, FutureInvariant, PTL

\* What timeout returns has the outcome that timeout_state_ says came first.
THEOREM TimeoutOutcome == Spec => []TimeoutConsistent
<1>1. IInv => TimeoutConsistent
  BY Typed DEF IInv, LimitInv, Limits, TimeoutConsistent
<1> QED BY <1>1, FutureInvariant, PTL

\* when_all is ready after all its futures, when_any after one of them and after
\* the loop that gives each its callback.
THEOREM WhenOrder == Spec => []WhenConsistent
<1>1. ASSUME IInv
      PROVE  AllAfterMembers
  <2>1. SUFFICES ASSUME NEW d \in 1 .. made, ctx[d] # NoContext, ctx[d].op = "all", result[d] = "value",
                        NEW s \in ctx[d].members
                 PROVE  Satisfied(s)
    BY DEF AllAfterMembers
  <2>2. d \in States
    BY <1>1, Typed DEF IInv
  <2>3. Cardinality(ctx[d].members \cap Done) = Cardinality(ctx[d].members)
    BY <1>1, <2>1, <2>2, Counted DEF IInv, AllInv, Satisfied
  <2>4. ctx[d].members \cap Done = ctx[d].members
    BY <1>1, <2>1, <2>2, <2>3, Counted, FS_Subset
  <2> QED BY <1>1, <2>1, <2>4 DEF IInv, RunInv, Done
<1>2. ASSUME IInv
      PROVE  AnyAfterVisit
  <2>1. ASSUME NEW d \in 1 .. made, ctx[d] # NoContext
        PROVE  ctx[d].moved => /\ \A s \in ctx[d].members : cb[s] = [kind |-> "any", to |-> d]
                               /\ \E s \in ctx[d].members : Satisfied(s)
    <3>1. d \in States
      BY <1>2, Typed DEF IInv
    <3>2. ctx[d].op \in {"all", "any"}
      BY <1>2, <2>1, <3>1, Counted DEF Contexts
    <3>3. ctx[d].moved => ctx[d].op = "any" /\ ctx[d].ready /\ Todo(d) = {}
      BY <1>2, <2>1, <3>1, <3>2 DEF IInv, AllInv, AnyInv
    <3>4. ctx[d].op = "any" /\ ctx[d].ready => \E s \in ctx[d].members : Satisfied(s)
      BY <1>2, <2>1, <3>1 DEF IInv, AnyInv
    <3>5. ctx[d].op = "any" /\ Todo(d) = {} =>
            \A s \in ctx[d].members : cb[s] = [kind |-> "any", to |-> d]
      BY <1>2, <2>1, <3>1 DEF IInv, ContextInv
    <3> QED BY <3>3, <3>4, <3>5
  <2> QED BY <2>1 DEF AnyAfterVisit
<1>3. IInv => WhenConsistent
  BY <1>1, <1>2 DEF WhenConsistent
<1> QED BY <1>3, FutureInvariant, PTL

\* A failure is never lost on the way through then, forwarding or timeout.
THEOREM FailureIsHandedOn == Spec => []FailureHandedOn
<1>1. IInv => FailureHandedOn
  BY DEF IInv
<1> QED BY <1>1, FutureInvariant, PTL
=============================================================================
