--------------------------- MODULE WorkStealProofs ---------------------------
(****************************************************************************)
(* Proofs about WorkSteal for any number of executors, tasks and steps.     *)
(****************************************************************************)
EXTENDS WorkSteal, SequenceTheorems, FiniteSetTheorems, TLAPS

Distinct(q) == \A i, j \in DOMAIN q : q[i] = q[j] => i = j

-----------------------------------------------------------------------------
(* What the operations on the intrusive lists do to a sequence.             *)

(* push_front *)
LEMMA PushFront ==
  ASSUME NEW S, NEW q \in Seq(S), NEW t \in S
  PROVE  LET r == <<t>> \o q IN
         /\ r \in Seq(S) /\ Len(r) = Len(q) + 1
         /\ \A x : In(x, r) <=> (x = t \/ In(x, q))
         /\ Distinct(q) /\ ~In(t, q) => Distinct(r)
<1> DEFINE r == <<t>> \o q
<1>1. /\ r \in Seq(S) /\ Len(r) = Len(q) + 1 /\ DOMAIN r = 1..(Len(q) + 1)
      /\ DOMAIN q = 1..Len(q) /\ Len(q) \in Nat
  OBVIOUS
<1>2. r[1] = t /\ \A i \in DOMAIN q : r[i + 1] = q[i]
  OBVIOUS
<1>3. \A j \in DOMAIN r : j = 1 \/ (j - 1 \in DOMAIN q /\ r[j] = q[j - 1])
  BY <1>1, <1>2
<1> HIDE DEF r
<1>4. \A x : In(x, r) <=> (x = t \/ In(x, q))
  BY <1>1, <1>2, <1>3 DEF In
<1>5. Distinct(q) /\ ~In(t, q) => Distinct(r)
  BY <1>1, <1>2, <1>3 DEF In, Distinct
<1> QED BY <1>1, <1>4, <1>5 DEF r

(* push_back *)
LEMMA PushBack ==
  ASSUME NEW S, NEW q \in Seq(S), NEW t \in S
  PROVE  LET r == Append(q, t) IN
         /\ r \in Seq(S) /\ Len(r) = Len(q) + 1
         /\ \A x : In(x, r) <=> (x = t \/ In(x, q))
         /\ Distinct(q) /\ ~In(t, q) => Distinct(r)
<1> DEFINE r == Append(q, t)
<1>1. /\ r \in Seq(S) /\ Len(r) = Len(q) + 1 /\ DOMAIN r = 1..(Len(q) + 1)
      /\ DOMAIN q = 1..Len(q) /\ Len(q) \in Nat
  OBVIOUS
<1>2. r[Len(q) + 1] = t /\ \A i \in DOMAIN q : r[i] = q[i]
  OBVIOUS
<1> HIDE DEF r
<1>3. \A x : In(x, r) <=> (x = t \/ In(x, q))
  BY <1>1, <1>2 DEF In
<1>4. Distinct(q) /\ ~In(t, q) => Distinct(r)
  BY <1>1, <1>2 DEF In, Distinct
<1> QED BY <1>1, <1>3, <1>4 DEF r

(* pop_front *)
LEMMA PopFront ==
  ASSUME NEW S, NEW q \in Seq(S), q # <<>>
  PROVE  /\ Head(q) \in S /\ Tail(q) \in Seq(S) /\ Len(q) = Len(Tail(q)) + 1
         /\ In(Head(q), q)
         /\ \A x : In(x, Tail(q)) => In(x, q)
         /\ Distinct(q) => Distinct(Tail(q)) /\ ~In(Head(q), Tail(q))
<1> DEFINE r == Tail(q)
<1>1. /\ Head(q) = q[1] /\ 1 \in DOMAIN q /\ Head(q) \in S
      /\ r \in Seq(S) /\ Len(q) = Len(r) + 1 /\ Len(r) \in Nat
      /\ DOMAIN r = 1..Len(r) /\ DOMAIN q = 1..(Len(r) + 1)
  OBVIOUS
<1>2. \A i \in DOMAIN r : r[i] = q[i + 1] /\ i + 1 \in DOMAIN q
  OBVIOUS
<1> HIDE DEF r
<1>3. In(Head(q), q) /\ \A x : In(x, r) => In(x, q)
  BY <1>1, <1>2 DEF In
<1>4. Distinct(q) => Distinct(r) /\ ~In(Head(q), r)
  BY <1>1, <1>2 DEF In, Distinct
<1> QED BY <1>1, <1>3, <1>4 DEF r

(* erase *)
LEMMA EraseAt ==
  ASSUME NEW S, NEW q \in Seq(S), NEW i \in DOMAIN q
  PROVE  LET r == RemoveAt(q, i) IN
         /\ r \in Seq(S) /\ Len(q) = Len(r) + 1 /\ q[i] \in S
         /\ \A x : In(x, r) => In(x, q)
         /\ Distinct(q) => Distinct(r) /\ ~In(q[i], r)
<1>0. PICK n \in Nat : n = Len(q)
  OBVIOUS
<1>d. i \in 1..n /\ DOMAIN q = 1..n
  BY <1>0
<1>1. \A j \in 1..n : q[j] \in S
  BY <1>0
<1>n. i \in Int /\ n \in Int /\ 1 <= i /\ i <= n
  BY ONLY <1>0, <1>d
<1>2. PICK a : a = SubSeq(q, 1, i - 1) /\ a \in Seq(S) /\ Len(a) = i - 1
               /\ \A j \in 1..(i - 1) : a[j] = q[j]
  <2>1. PICK m \in Int : m = i - 1
    BY ONLY <1>n
  <2>2. \A j \in 1..m : q[j] \in S
    BY ONLY <1>1, <1>n, <2>1
  <2>3. PICK a : a = SubSeq(q, 1, m)
    OBVIOUS
  <2>4. /\ a \in Seq(S) /\ Len(a) = IF 1 <= m THEN m - 1 + 1 ELSE 0
        /\ \A j \in 1..(m - 1 + 1) : a[j] = q[1 + j - 1]
    BY ONLY <2>1, <2>2, <2>3, 1 \in Int, SubSeqProperties
  <2>5. Len(a) = m /\ \A j \in 1..m : j \in 1..(m - 1 + 1) /\ 1 + j - 1 = j
    BY ONLY <1>n, <2>1, <2>4
  <2>6. \A j \in 1..m : a[j] = q[j]
    BY ONLY <2>4, <2>5, Zenon
  <2> QED BY ONLY <2>1, <2>3, <2>4, <2>5, <2>6
<1>3. PICK b : b = SubSeq(q, i + 1, n) /\ b \in Seq(S) /\ Len(b) = n - i
               /\ \A j \in 1..(n - i) : b[j] = q[j + i]
  <2>1. PICK m \in Int : m = i + 1
    BY ONLY <1>n
  <2>2. \A j \in m..n : q[j] \in S
    BY ONLY <1>1, <1>n, <2>1
  <2>3. PICK b : b = SubSeq(q, m, n)
    OBVIOUS
  <2>4. /\ b \in Seq(S) /\ Len(b) = IF m <= n THEN n - m + 1 ELSE 0
        /\ \A j \in 1..(n - m + 1) : b[j] = q[m + j - 1]
    BY ONLY <1>n, <2>1, <2>2, <2>3, SubSeqProperties
  <2>a. PICK l : l = Len(b)
    OBVIOUS
  <2>b. l = IF m <= n THEN n - m + 1 ELSE 0
    BY ONLY <2>4, <2>a
  <2>c. l = n - i
    BY ONLY <1>n, <2>1, <2>b
  <2>d. n - m + 1 = n - i /\ n - i \in Int
    BY ONLY <1>n, <2>1
  <2>e. \A j \in Int : m + j - 1 = j + i
    BY ONLY <1>n, <2>1
  <2>f. \A j \in 1..(n - i) : j \in Int
    BY ONLY <2>d
  <2>5. \A j \in 1..(n - i) : j \in 1..(n - m + 1) /\ m + j - 1 = j + i
    BY ONLY <2>d, <2>e, <2>f, Zenon
  <2>6. \A j \in 1..(n - i) : b[j] = q[j + i]
    BY ONLY <2>4, <2>5, Zenon
  <2> QED BY ONLY <2>1, <2>3, <2>4, <2>a, <2>c, <2>6
<1>r. PICK r : r = a \o b
  OBVIOUS
<1>c. /\ r \in Seq(S) /\ Len(r) = Len(a) + Len(b)
      /\ \A j \in 1..(Len(a) + Len(b)) :
            r[j] = IF j <= Len(a) THEN a[j] ELSE b[j - Len(a)]
  <2>1. a \in Seq(S) /\ b \in Seq(S)
    BY ONLY <1>2, <1>3, Zenon
  <2>2. /\ a \o b \in Seq(S) /\ Len(a \o b) = Len(a) + Len(b)
        /\ \A j \in 1..(Len(a) + Len(b)) :
              (a \o b)[j] = IF j <= Len(a) THEN a[j] ELSE b[j - Len(a)]
    BY ONLY <2>1, ConcatProperties, Zenon
  <2> QED BY ONLY <1>r, <2>2, Zenon
<1>l. /\ r \in Seq(S) /\ Len(r) = (i - 1) + (n - i)
      /\ \A j \in 1..((i - 1) + (n - i)) :
            r[j] = IF j <= i - 1 THEN a[j] ELSE b[j - (i - 1)]
  BY ONLY <1>2, <1>3, <1>c, Zenon
<1>m. (i - 1) + (n - i) = n - 1 /\ n - 1 \in Nat /\ n = (n - 1) + 1
  BY ONLY <1>n
<1>4. r \in Seq(S) /\ Len(r) = n - 1 /\ DOMAIN r = 1..(n - 1)
  <2>1. r \in Seq(S) /\ Len(r) = n - 1
    BY ONLY <1>l, <1>m
  <2> QED BY ONLY <2>1, LenProperties, Zenon
<1>5. \A j \in 1..(n - 1) : r[j] = q[IF j < i THEN j ELSE j + 1]
  <2> SUFFICES ASSUME NEW j \in 1..(n - 1) PROVE r[j] = q[IF j < i THEN j ELSE j + 1]
    OBVIOUS
  <2>1. CASE j < i
    <3>1. j \in 1..((i - 1) + (n - i)) /\ j <= i - 1 /\ j \in 1..(i - 1)
      BY ONLY <1>n, <2>1, j \in 1..(n - 1)
    <3>2. r[j] = a[j] /\ a[j] = q[j]
      BY ONLY <1>2, <1>l, <3>1, Zenon
    <3> QED BY ONLY <2>1, <3>2
  <2>2. CASE ~(j < i)
    <3>1. PICK m \in Int : m = j - (i - 1)
      BY ONLY <1>n, j \in 1..(n - 1)
    <3>2. j \in 1..((i - 1) + (n - i)) /\ ~(j <= i - 1) /\ m \in 1..(n - i) /\ m + i = j + 1
      BY ONLY <1>n, <2>2, <3>1, j \in 1..(n - 1)
    <3>3. r[j] = b[m]
      BY ONLY <1>l, <3>1, <3>2, Zenon
    <3>4. b[m] = q[j + 1]
      BY ONLY <1>3, <3>2, Zenon
    <3> QED BY ONLY <2>2, <3>3, <3>4
  <2> QED BY ONLY <2>1, <2>2
<1>6. \A x : In(x, r) => In(x, q)
  <2>1. \A j \in 1..(n - 1) : (IF j < i THEN j ELSE j + 1) \in 1..n
    BY ONLY <1>n
  <2>2. \A j \in DOMAIN r : \E k \in DOMAIN q : r[j] = q[k]
    BY ONLY <1>d, <1>4, <1>5, <2>1, Zenon
  <2> QED BY ONLY <2>2, Zenon DEF In
<1>7. Distinct(q) => Distinct(r) /\ ~In(q[i], r)
  <2> DEFINE f(j) == IF j < i THEN j ELSE j + 1
  <2>a. \A j \in 1..(n - 1) : f(j) \in 1..n /\ f(j) # i
    BY ONLY <1>n
  <2>b. \A j, k \in 1..(n - 1) : f(j) = f(k) => j = k
    BY ONLY <1>n
  <2>c. \A j \in 1..(n - 1) : r[j] = q[f(j)]
    BY ONLY <1>5
  <2> HIDE DEF f
  <2>1. \A j \in DOMAIN r : f(j) \in DOMAIN q /\ f(j) # i /\ r[j] = q[f(j)]
    BY ONLY <1>d, <1>4, <2>a, <2>c, Zenon
  <2>2. \A j, k \in DOMAIN r : f(j) = f(k) => j = k
    BY ONLY <1>4, <2>b, Zenon
  <2>3. Distinct(q) => Distinct(r)
    BY ONLY <2>1, <2>2 DEF Distinct
  <2>4. Distinct(q) => ~In(q[i], r)
    BY <2>1 DEF Distinct, In
  <2> QED BY <2>3, <2>4
<1>8. RemoveAt(q, i) = r
  BY ONLY <1>0, <1>2, <1>3, <1>r DEF RemoveAt
<1>9. Len(q) = Len(r) + 1 /\ q[i] \in S
  BY ONLY <1>0, <1>d, <1>1, <1>4, <1>m
<1> QED BY ONLY <1>4, <1>6, <1>7, <1>8, <1>9

(* Putting the loot before the queue. *)
LEMMA Concat ==
  ASSUME NEW S, NEW p \in Seq(S), NEW q \in Seq(S)
  PROVE  LET r == p \o q IN
         /\ r \in Seq(S) /\ Len(r) = Len(p) + Len(q)
         /\ \A x : In(x, r) <=> (In(x, p) \/ In(x, q))
         /\ Distinct(p) /\ Distinct(q) /\ (\A x : ~(In(x, p) /\ In(x, q)))
              => Distinct(r)
<1> DEFINE r == p \o q
<1>1. /\ r \in Seq(S) /\ Len(r) = Len(p) + Len(q)
      /\ DOMAIN r = 1..(Len(p) + Len(q)) /\ DOMAIN p = 1..Len(p)
      /\ DOMAIN q = 1..Len(q) /\ Len(q) \in Nat /\ Len(p) \in Nat
  OBVIOUS
<1>2. /\ \A i \in DOMAIN p : r[i] = p[i]
      /\ \A i \in DOMAIN q : r[i + Len(p)] = q[i]
  OBVIOUS
<1>3. \A j \in DOMAIN r : \/ j \in DOMAIN p /\ r[j] = p[j]
                          \/ j - Len(p) \in DOMAIN q /\ r[j] = q[j - Len(p)]
  BY <1>1, <1>2
<1> HIDE DEF r
<1>4. \A x : In(x, r) <=> (In(x, p) \/ In(x, q))
  <2>1. ASSUME NEW x, In(x, p) PROVE In(x, r)
    BY <1>1, <1>2, <2>1 DEF In
  <2>2. ASSUME NEW x, In(x, q) PROVE In(x, r)
    <3>1. PICK i \in DOMAIN q : q[i] = x
      BY <2>2 DEF In
    <3>2. i + Len(p) \in DOMAIN r /\ r[i + Len(p)] = x
      BY <1>1, <1>2, <3>1
    <3> QED BY <3>2 DEF In
  <2>3. ASSUME NEW x, In(x, r) PROVE In(x, p) \/ In(x, q)
    BY <1>3, <2>3 DEF In
  <2> QED BY <2>1, <2>2, <2>3
<1>5. Distinct(p) /\ Distinct(q) /\ (\A x : ~(In(x, p) /\ In(x, q))) => Distinct(r)
  <2>1. SUFFICES ASSUME Distinct(p), Distinct(q), \A x : ~(In(x, p) /\ In(x, q)),
                        NEW i \in DOMAIN r, NEW j \in DOMAIN r, r[i] = r[j]
                 PROVE  i = j
    BY DEF Distinct
  <2>2. i \in DOMAIN p /\ j - Len(p) \in DOMAIN q /\ r[i] = p[i]
          /\ r[j] = q[j - Len(p)] => FALSE
    BY <2>1 DEF In
  <2>3. j \in DOMAIN p /\ i - Len(p) \in DOMAIN q /\ r[j] = p[j]
          /\ r[i] = q[i - Len(p)] => FALSE
    BY <2>1 DEF In
  <2>4. i \in DOMAIN p /\ j \in DOMAIN p /\ r[i] = p[i] /\ r[j] = p[j] => i = j
    BY <2>1 DEF Distinct
  <2>5. i - Len(p) \in DOMAIN q /\ j - Len(p) \in DOMAIN q /\ r[i] = q[i - Len(p)]
          /\ r[j] = q[j - Len(p)] => i = j
    <3>1. i - Len(p) \in DOMAIN q /\ j - Len(p) \in DOMAIN q /\ r[i] = q[i - Len(p)]
            /\ r[j] = q[j - Len(p)] => i - Len(p) = j - Len(p)
      BY <2>1 DEF Distinct
    <3>2. i \in Int /\ j \in Int /\ Len(p) \in Int
      BY <1>1
    <3>3. i - Len(p) = j - Len(p) => i = j
      BY <3>2
    <3> QED BY <3>1, <3>3
  <2> QED BY <1>3, <2>2, <2>3, <2>4, <2>5
<1> QED BY <1>1, <1>4, <1>5 DEF r

-----------------------------------------------------------------------------
(* The inductive invariant.  A task is in at most one place (a queue, a     *)
(* thief's loot, somebody's promise to wake it, the hands of GetNextTask,   *)
(* or on a processor), its status tells which kind of place, and scheduler  *)
(* names the only executor that may touch it unless it is stealable, which  *)
(* it only is while no thread is on its stack.                              *)

(* ctx[e] is executing, not looking for a successor.                        *)
Executing(e) == pc[e] \in {"endflag", "enddel", "run"}

ThreadInv(e) ==
    /\ pc[e] \notin {"endflag", "enddel"} => thisTask[e] = ctx[e]
    /\ pc[e] = "run" => ctx[e] \in Tasks
    /\ pc[e] \in {"loop", "exit"} => ctx[e] = NoTask
    /\ pc[e] = "enddel" => thisTask[e] \in Tasks
    /\ pc[e] = "endflag" => thisTask[e] \in Tasks \/ ctx[e] \in Tasks
    /\ pc[e] = "take" => heist[e].from \in Executors

(* The task whose stack thread e is on, and the one it is about to enter.   *)
ContextInv(e) ==
    /\ ctx[e] \in Tasks => scheduler[ctx[e]] = e /\ uContext[ctx[e]] = "live"
    /\ Executing(e) /\ ctx[e] \in Tasks =>
         status[ctx[e]] = "RUNNING" /\ ctx[e] \notin waker
    /\ nextTask[e] \in Tasks =>
         /\ pc[e] = "swap" /\ scheduler[nextTask[e]] = e
         /\ ~isStealable[nextTask[e]] /\ status[nextTask[e]] = "RUNNING"
         /\ nextTask[e] \notin waker
    /\ pc[e] = "endflag" /\ thisTask[e] \in Tasks =>
         /\ scheduler[thisTask[e]] = e /\ ~isStealable[thisTask[e]]
         /\ uContext[thisTask[e]] = "saved"

TaskInv(t) ==
    /\ isStealable[t] => uContext[t] # "live"
    /\ uContext[t] = "live" => scheduler[t] # 0 /\ ctx[scheduler[t]] = t
    /\ t \in waker => status[t] = "RUNNING"
    /\ status[t] = "NEW" => uContext[t] = "fresh"
    /\ status[t] # "NEW" => scheduler[t] # 0
    /\ t \notin StandAlone /\ uContext[t] # "fresh" => ~isStealable[t]
    /\ deletes[t] > 0 => status[t] = "FINISHED"

QueueInv(e) ==
    /\ Distinct(isReady[e]) /\ Distinct(loot[e])
    /\ \A t \in Tasks : In(t, isReady[e]) => scheduler[t] = e /\ status[t] = "READY"
    /\ \A t \in Tasks : In(t, loot[e]) =>
         /\ isStealable[t] /\ status[t] = "READY"
         /\ \A d \in Executors : ~In(t, isReady[d]) /\ (In(t, loot[d]) => d = e)

(* The size counter covers the queue and what the thread carries to it.     *)
SizeInv(e) == sizeOfQueue[e] >= Len(isReady[e]) + Len(loot[e])

IInv ==
    /\ TypeOK
    /\ \A e \in Executors : ThreadInv(e)
    /\ \A e \in Executors : ContextInv(e)
    /\ \A t \in Tasks : TaskInv(t)
    /\ \A e \in Executors : QueueInv(e)
    /\ \A e \in Executors : SizeInv(e)

-----------------------------------------------------------------------------
(* Every action preserves the invariant.                                    *)

USE NAssumption, TasksAssumption

(* The reset value of the locals has their type. *)
LEMMA NoHeistType == NoHeist \in Heists
BY DEF NoHeist, Heists, Executors

(* The initial state satisfies the inductive invariant. *)
LEMMA InitIInv == Init => IInv
<1> SUFFICES ASSUME Init PROVE IInv
  OBVIOUS
<1> USE DEF Init
<1>1. TypeOK
  <2>1. \A e \in Executors : <<>> \in Seq(Tasks) /\ 0 \in 0..N
    BY DEF Executors
  <2> QED BY <2>1, NoHeistType DEF TypeOK, Labels
<1>2. \A e \in Executors : ThreadInv(e) /\ ContextInv(e)
  BY DEF ThreadInv, ContextInv, Executing
<1>3. \A t \in Tasks : TaskInv(t)
  BY DEF TaskInv
<1>4. \A e \in Executors : QueueInv(e) /\ SizeInv(e)
  BY DEF QueueInv, SizeInv, In, Distinct
<1> QED BY <1>1, <1>2, <1>3, <1>4 DEF IInv

(* A step that leaves the queues and the tasks in them alone. *)
LEMMA QueuesUnchanged ==
  ASSUME \A d \in Executors : QueueInv(d), \A d \in Executors : SizeInv(d),
         UNCHANGED <<isReady, loot, scheduler, status, isStealable, sizeOfQueue>>
  PROVE  \A d \in Executors : QueueInv(d)' /\ SizeInv(d)'
<1> SUFFICES ASSUME NEW d \in Executors PROVE QueueInv(d)' /\ SizeInv(d)'
  OBVIOUS
<1>1. QueueInv(d) /\ SizeInv(d)
  OBVIOUS
<1>2. QueueInv(d)'
  BY <1>1 DEF QueueInv
<1>3. SizeInv(d)'
  BY <1>1 DEF SizeInv
<1> QED BY <1>2, <1>3

(* The loop test touches no task, queue or context. *)
LEMMA MainLoopIInv ==
  ASSUME IInv, NEW e \in Executors, MainLoop(e)
  PROVE  IInv'
<1> USE DEF IInv, MainLoop, Goto, threadVars, taskVars
<1>1. TypeOK'
  BY DEF TypeOK, Labels
<1>2. \A d \in Executors : ThreadInv(d)'
  BY DEF ThreadInv, TypeOK
<1>3. \A d \in Executors : ContextInv(d)'
  BY DEF ContextInv, Executing, TypeOK
<1>4. \A t \in Tasks : TaskInv(t)'
  BY DEF TaskInv
<1>5. \A d \in Executors : QueueInv(d)' /\ SizeInv(d)'
  BY QueuesUnchanged
<1> QED BY <1>1, <1>2, <1>3, <1>4, <1>5

(* GetNextTask's end: the front task leaves the queue and is claimed. *)
LEMMA ReturnNextIInv ==
  ASSUME IInv, NEW e \in Executors, ReturnNext(e), pc[e] \in {"get", "relock"},
         isReady[e] # <<>> \/ ~toContinue[e],
         UNCHANGED <<ctx, thisTask, toContinue, qMutex, loot, scheduler, uContext,
                     waker, deletes, ops>>
  PROVE  IInv'
<1> USE DEF IInv
<1>1. CASE ~toContinue[e]
  <2>0. /\ pc' = [pc EXCEPT ![e] = "swap"]
        /\ heist' = [heist EXCEPT ![e] = NoHeist]
        /\ nextTask' = [nextTask EXCEPT ![e] = NoTask]
        /\ UNCHANGED <<isReady, sizeOfQueue, isStealable, status>>
    BY <1>1 DEF ReturnNext, Goto
  <2>1. TypeOK'
    BY <2>0, NoHeistType DEF TypeOK, Labels
  <2>2. \A d \in Executors : ThreadInv(d)'
    BY <2>0 DEF ThreadInv, TypeOK
  <2>3. \A d \in Executors : ContextInv(d)'
    BY <2>0 DEF ContextInv, Executing, TypeOK
  <2>4. \A t \in Tasks : TaskInv(t)'
    BY <2>0 DEF TaskInv
  <2>5. \A d \in Executors : QueueInv(d)' /\ SizeInv(d)'
    BY <2>0 DEF QueueInv, SizeInv
  <2> QED BY <2>1, <2>2, <2>3, <2>4, <2>5
<1>2. CASE toContinue[e]
  <2> DEFINE t == Head(isReady[e])
             q == Tail(isReady[e])
  <2>1. isReady[e] \in Seq(Tasks) /\ isReady[e] # <<>> /\ Distinct(isReady[e])
    BY <1>2 DEF TypeOK, QueueInv
  <2>2. /\ t \in Tasks /\ In(t, isReady[e]) /\ \A x : In(x, q) => In(x, isReady[e])
        /\ Distinct(q) /\ ~In(t, q)
    BY <2>1, PopFront
  <2>t. q \in Seq(Tasks) /\ Len(isReady[e]) = Len(q) + 1
    BY <2>1, PopFront
  <2>3. /\ pc' = [pc EXCEPT ![e] = "swap"]
        /\ heist' = [heist EXCEPT ![e] = NoHeist]
        /\ nextTask' = [nextTask EXCEPT ![e] = t]
        /\ isReady' = [isReady EXCEPT ![e] = q]
        /\ sizeOfQueue' = [sizeOfQueue EXCEPT ![e] = @ - 1]
        /\ isStealable' = [isStealable EXCEPT ![t] = FALSE]
        /\ status' = [status EXCEPT ![t] = "RUNNING"]
    BY <1>2 DEF ReturnNext, Goto, Claim
  <2>u. UNCHANGED <<ctx, thisTask, loot, scheduler, uContext, waker, deletes>>
    BY DEF ReturnNext
  <2>v. /\ \A x \in Tasks : x # t => isStealable'[x] = isStealable[x] /\ status'[x] = status[x]
        /\ ~isStealable'[t] /\ status'[t] = "RUNNING"
        /\ \A d \in Executors : d # e => /\ pc'[d] = pc[d] /\ nextTask'[d] = nextTask[d]
                                      /\ isReady'[d] = isReady[d]
        /\ isReady'[e] = q
    BY <2>2, <2>3 DEF TypeOK
  <2> HIDE DEF t, q
  <2>4. scheduler[t] = e /\ status[t] = "READY" /\ t \notin waker
    BY <2>2 DEF QueueInv, TaskInv, TypeOK
  <2>s. sizeOfQueue[e] \in Nat /\ sizeOfQueue[e] - 1 \in Nat
    <3>1. Len(q) \in Nat /\ Len(loot[e]) \in Nat /\ sizeOfQueue[e] \in Nat
      BY <2>t, LenProperties DEF TypeOK
    <3>2. sizeOfQueue[e] >= Len(q) + 1 + Len(loot[e])
      BY <2>t DEF SizeInv
    <3>3. \A a, b, c \in Nat : a >= b + 1 + c => a - 1 \in Nat
      OBVIOUS
    <3> QED BY ONLY <3>1, <3>2, <3>3
  <2>5. TypeOK'
    BY <2>2, <2>t, <2>3, <2>s, NoHeistType DEF TypeOK, Labels
  <2>6. \A d \in Executors : ThreadInv(d)'
    BY <2>3 DEF ThreadInv, TypeOK
  <2>7. ASSUME NEW d \in Executors PROVE ContextInv(d)'
    <3>1. CASE d = e
      BY <2>2, <2>3, <2>4, <3>1 DEF ContextInv, Executing, TypeOK
    <3>2. CASE d # e
      <4>1. t # nextTask[d] /\ (pc[d] = "endflag" => t # thisTask[d])
            /\ (Executing(d) => ctx[d] # t)
        BY <2>2, <2>4, <3>2 DEF ContextInv
      <4>2. ContextInv(d)
        OBVIOUS
      <4> QED BY ONLY <2>u, <2>v, <3>2, <4>1, <4>2, d \in Executors DEF ContextInv, Executing
    <3> QED BY <3>1, <3>2
  <2>8. ASSUME NEW x \in Tasks PROVE TaskInv(x)'
    <3>1. TaskInv(x)
      OBVIOUS
    <3>2. CASE x = t
      BY ONLY <2>2, <2>4, <2>u, <2>v, <3>1, <3>2 DEF TaskInv
    <3>3. CASE x # t
      BY ONLY <2>u, <2>v, <3>1, <3>3, x \in Tasks DEF TaskInv
    <3> QED BY <3>2, <3>3
  <2>9. ASSUME NEW d \in Executors PROVE QueueInv(d)'
    <3>1. \A x \in Tasks, c \in Executors : In(x, isReady'[c]) =>
            x # t /\ In(x, isReady[c])
      <4> TAKE x \in Tasks, c \in Executors
      <4>1. CASE c = e
        BY <2>2, <2>v, <4>1
      <4>2. CASE c # e
        <5>1. ~In(t, isReady[c])
          BY <2>2, <2>4, <4>2 DEF QueueInv
        <5> QED BY <2>v, <4>2, <5>1
      <4> QED BY <4>1, <4>2
    <3>2. \A x \in Tasks, c \in Executors : In(x, loot[c]) => x # t
      BY <2>2 DEF QueueInv
    <3>3. Distinct(isReady'[d])
      BY <2>2, <2>v DEF QueueInv
    <3>4. QueueInv(d)
      OBVIOUS
    <3> QED BY ONLY <2>u, <2>v, <3>1, <3>2, <3>3, <3>4, d \in Executors DEF QueueInv
  <2>10. \A d \in Executors : SizeInv(d)'
    <3>1. \A d \in Executors : Len(isReady[d]) \in Nat /\ Len(loot[d]) \in Nat
                               /\ Len(q) \in Nat /\ sizeOfQueue[d] \in Nat
      BY <2>t, LenProperties DEF TypeOK
    <3> QED BY <2>3, <2>t, <3>1 DEF SizeInv, TypeOK
  <2> QED BY <2>5, <2>6, <2>7, <2>8, <2>9, <2>10
<1> QED BY <1>1, <1>2 DEF TypeOK

(* A thread looking for work moves on, the executor's flags or mutexes change: *)
(* no task is touched.                                                        *)
Looking == {"get", "relock", "wait", "steal", "take", "put"}

LEMMA QuietIInv ==
  ASSUME IInv,
         pc' \in [Executors -> Labels],
         \A d \in Executors : pc'[d] = pc[d] \/ (pc[d] \in Looking /\ pc'[d] \in Looking),
         heist' \in [Executors -> Heists],
         \A d \in Executors : pc'[d] = "take" => heist'[d].from \in Executors,
         qMutex' \in [Executors -> 0..N], toContinue' \in [Executors -> BOOLEAN],
         UNCHANGED <<ctx, thisTask, nextTask, loot, taskVars, isReady, sizeOfQueue,
                     status, waker, deletes, ops>>
  PROVE  IInv'
<1> USE DEF IInv, taskVars
<1>1. TypeOK'
  BY DEF TypeOK
<1>2. \A d \in Executors : ThreadInv(d)'
  BY DEF ThreadInv, Looking
<1>3. \A d \in Executors : ContextInv(d)'
  BY DEF ContextInv, Executing, Looking
<1>4. \A t \in Tasks : TaskInv(t)'
  BY DEF TaskInv
<1>5. \A d \in Executors : QueueInv(d)' /\ SizeInv(d)'
  BY QueuesUnchanged
<1> QED BY <1>1, <1>2, <1>3, <1>4, <1>5

(* What both ways to enable a task do to the queues. *)
LEMMA EnqueueQueues ==
  ASSUME IInv, NEW e \in Executors, NEW t \in Tasks, NEW p,
         Enable(e, t, p) \/ EnableImmediately(e, t, p),
         status[t] # "READY", scheduler'[t] = e,
         \A x \in Tasks : x # t => scheduler'[x] = scheduler[x],
         UNCHANGED <<loot, isStealable>>
  PROVE  /\ isReady' \in [Executors -> Seq(Tasks)]
         /\ sizeOfQueue' \in [Executors -> Nat]
         /\ status' = [status EXCEPT ![t] = "READY"]
         /\ pc' = NotifyAll(e, p)
         /\ \A d \in Executors : QueueInv(d)' /\ SizeInv(d)'
<1> USE DEF IInv
<1>1. PICK q : /\ isReady' = [isReady EXCEPT ![e] = q]
               /\ q = Append(isReady[e], t) \/ q = <<t>> \o isReady[e]
  BY DEF Enable, EnableImmediately
<1>2. /\ sizeOfQueue' = [sizeOfQueue EXCEPT ![e] = @ + 1]
      /\ status' = [status EXCEPT ![t] = "READY"]
      /\ pc' = NotifyAll(e, p)
  BY DEF Enable, EnableImmediately, CountOne
<1>3. \A d \in Executors : ~In(t, isReady[d]) /\ ~In(t, loot[d])
  BY DEF QueueInv
<1>4. isReady[e] \in Seq(Tasks) /\ Distinct(isReady[e])
  BY DEF TypeOK, QueueInv
<1>5. q \in Seq(Tasks) /\ Len(q) = Len(isReady[e]) + 1
  <2>1. CASE q = Append(isReady[e], t)
    BY ONLY <2>1, <1>4, PushBack, t \in Tasks
  <2>2. CASE q = <<t>> \o isReady[e]
    BY ONLY <2>2, <1>4, PushFront, t \in Tasks
  <2> QED BY <1>1, <2>1, <2>2
<1>6. Distinct(q) /\ \A x : In(x, q) <=> (x = t \/ In(x, isReady[e]))
  <2>1. CASE q = Append(isReady[e], t)
    BY ONLY <2>1, <1>3, <1>4, PushBack, t \in Tasks, e \in Executors
  <2>2. CASE q = <<t>> \o isReady[e]
    BY ONLY <2>2, <1>3, <1>4, PushFront, t \in Tasks, e \in Executors
  <2> QED BY <1>1, <2>1, <2>2
<1>7. isReady' \in [Executors -> Seq(Tasks)] /\ sizeOfQueue' \in [Executors -> Nat]
  BY <1>1, <1>2, <1>5 DEF TypeOK
<1>8. ASSUME NEW d \in Executors PROVE QueueInv(d)'
  <2>1. \A x \in Tasks, c \in Executors :
          In(x, isReady'[c]) => In(x, isReady[c]) \/ (x = t /\ c = e)
    BY <1>1, <1>6 DEF TypeOK
  <2>2. Distinct(isReady'[d])
    BY <1>1, <1>6 DEF QueueInv, TypeOK
  <2>3. \A x \in Tasks : x # t => status'[x] = status[x]
    BY <1>2 DEF TypeOK
  <2>4. status'[t] = "READY"
    BY <1>2 DEF TypeOK
  <2>5. \A x \in Tasks, c \in Executors : In(x, loot[c]) => x # t
    BY ONLY <1>3, Zenon
  <2>6. ASSUME NEW x \in Tasks, In(x, isReady'[d]) PROVE scheduler'[x] = d /\ status'[x] = "READY"
    <3>1. CASE x = t
      BY <1>3, <2>1, <2>4, <2>6, <3>1
    <3>2. CASE x # t
      BY <2>1, <2>3, <2>6, <3>2 DEF QueueInv
    <3> QED BY <3>1, <3>2
  <2>7. QueueInv(d)
    OBVIOUS
  <2> QED BY ONLY <2>1, <2>2, <2>3, <2>5, <2>6, <2>7, UNCHANGED <<loot, isStealable>>,
                  d \in Executors DEF QueueInv
<1>9. \A d \in Executors : SizeInv(d)'
  <2>1. \A d \in Executors : Len(isReady[d]) \in Nat /\ Len(loot[d]) \in Nat
                             /\ Len(q) \in Nat /\ sizeOfQueue[d] \in Nat
    BY <1>5, LenProperties DEF TypeOK
  <2>2. Len(q) = Len(isReady[e]) + 1
    BY <1>5
  <2> QED BY <1>1, <1>2, <2>1, <2>2 DEF SizeInv, TypeOK
<1> QED BY <1>2, <1>7, <1>8, <1>9

(* What a notification does to the threads. *)
LEMMA NotifyThreads ==
  ASSUME NEW p \in [Executors -> Labels], NEW e \in Executors
  PROVE  /\ NotifyAll(e, p) \in [Executors -> Labels]
         /\ \A d \in Executors : \/ NotifyAll(e, p)[d] = p[d]
                                 \/ p[d] = "wait" /\ NotifyAll(e, p)[d] = "get"
BY DEF NotifyAll, Labels

(* A new task goes to the queue of the executor chosen for it. *)
LEMMA CreateIInv ==
  ASSUME IInv, NEW t \in Tasks, NEW creator, NEW pin, NEW immediately,
         CreateBatchTask(t, creator, pin, immediately)
  PROVE  IInv'
<1> USE DEF IInv
<1>1. PICK e \in Executors :
        /\ scheduler' = [scheduler EXCEPT ![t] = e]
        /\ Enable(e, t, pc) \/ EnableImmediately(e, t, pc)
  BY DEF CreateBatchTask
<1>2. /\ status[t] = "NEW"
      /\ UNCHANGED <<threadVars, toContinue, qMutex, isStealable, uContext, waker,
                     deletes, ops>>
  BY DEF CreateBatchTask
<1>3. /\ isReady' \in [Executors -> Seq(Tasks)] /\ sizeOfQueue' \in [Executors -> Nat]
      /\ status' = [status EXCEPT ![t] = "READY"] /\ pc' = NotifyAll(e, pc)
      /\ \A d \in Executors : QueueInv(d)' /\ SizeInv(d)'
  <2>1. scheduler'[t] = e /\ \A x \in Tasks : x # t => scheduler'[x] = scheduler[x]
    BY <1>1 DEF TypeOK
  <2> QED BY <1>1, <1>2, <2>1, EnqueueQueues DEF threadVars
<1>4. /\ pc' \in [Executors -> Labels]
      /\ \A d \in Executors : pc'[d] = pc[d] \/ (pc[d] = "wait" /\ pc'[d] = "get")
  BY <1>3, NotifyThreads DEF TypeOK
<1>5. e \in 0..N /\ e # 0
  BY DEF Executors
<1>6. TypeOK'
  BY <1>1, <1>2, <1>3, <1>4, <1>5 DEF TypeOK, threadVars
<1>7. \A d \in Executors : ThreadInv(d)'
  BY <1>2, <1>4 DEF ThreadInv, threadVars
<1>8. uContext[t] = "fresh" /\ t \notin waker
  BY <1>2 DEF TaskInv
<1>9. ASSUME NEW d \in Executors PROVE ContextInv(d)'
  <2>1. ctx[d] # t /\ nextTask[d] # t /\ (pc[d] = "endflag" => thisTask[d] # t)
    BY <1>2, <1>8 DEF ContextInv
  <2>2. pc'[d] = pc[d] \/ (pc[d] = "wait" /\ pc'[d] = "get")
    BY <1>4
  <2>3. /\ \A x \in Tasks : x # t => status'[x] = status[x] /\ scheduler'[x] = scheduler[x]
        /\ UNCHANGED <<ctx, thisTask, nextTask, isStealable, uContext, waker>>
    BY <1>1, <1>2, <1>3 DEF TypeOK, threadVars
  <2>4. ContextInv(d)
    OBVIOUS
  <2> QED BY ONLY <2>1, <2>2, <2>3, <2>4 DEF ContextInv, Executing
<1>10. ASSUME NEW x \in Tasks PROVE TaskInv(x)'
  <2>1. TaskInv(x) /\ UNCHANGED <<ctx, isStealable, uContext, waker, deletes>>
    BY <1>2 DEF threadVars
  <2>2. CASE x = t
    <3>1. scheduler'[x] = e /\ status'[x] = "READY"
      BY <1>1, <1>3, <2>2 DEF TypeOK
    <3>2. uContext[x] = "fresh" /\ x \notin waker /\ e # 0 /\ ~(deletes[x] > 0)
      BY <1>2, <1>5, <1>8, <2>1, <2>2 DEF TaskInv
    <3> QED BY ONLY <2>1, <3>1, <3>2 DEF TaskInv
  <2>3. CASE x # t
    <3>1. scheduler'[x] = scheduler[x] /\ status'[x] = status[x]
      BY <1>1, <1>3, <2>3 DEF TypeOK
    <3> QED BY ONLY <2>1, <3>1 DEF TaskInv
  <2> QED BY <2>2, <2>3
<1> QED BY <1>3, <1>6, <1>7, <1>9, <1>10

(* A waiting task is woken on the executor it belongs to, before or after that *)
(* executor has left its stack.                                                *)
LEMMA WakeIInv ==
  ASSUME IInv, NEW t \in Tasks, Wake(t)
  PROVE  IInv'
<1> USE DEF IInv
<1> DEFINE e == scheduler[t]
<1>1. /\ t \in waker /\ waker' = waker \ {t}
      /\ EnableImmediately(e, t, pc)
      /\ UNCHANGED <<threadVars, taskVars, toContinue, qMutex, deletes, ops>>
  BY DEF Wake, PopWaiter
<1>2. status[t] = "RUNNING" /\ e \in Executors
  BY <1>1 DEF TaskInv, TypeOK, Executors
<1> HIDE DEF e
<1>3. /\ isReady' \in [Executors -> Seq(Tasks)] /\ sizeOfQueue' \in [Executors -> Nat]
      /\ status' = [status EXCEPT ![t] = "READY"] /\ pc' = NotifyAll(e, pc)
      /\ \A d \in Executors : QueueInv(d)' /\ SizeInv(d)'
  BY <1>1, <1>2, EnqueueQueues DEF threadVars, taskVars, e
<1>4. /\ pc' \in [Executors -> Labels]
      /\ \A d \in Executors : pc'[d] = pc[d] \/ (pc[d] = "wait" /\ pc'[d] = "get")
  <2>1. pc \in [Executors -> Labels]
    BY DEF TypeOK
  <2> QED BY <1>2, <1>3, <2>1 DEF NotifyAll, Labels
<1>6. TypeOK'
  BY <1>1, <1>3, <1>4 DEF TypeOK, threadVars, taskVars
<1>7. \A d \in Executors : ThreadInv(d)'
  BY <1>1, <1>4 DEF ThreadInv, threadVars
<1>9. ASSUME NEW d \in Executors PROVE ContextInv(d)'
  <2>1. (Executing(d) => ctx[d] # t) /\ nextTask[d] # t
    BY <1>1 DEF ContextInv
  <2> QED BY <1>1, <1>3, <1>4, <2>1 DEF ContextInv, Executing, threadVars, taskVars, TypeOK
<1>10. \A x \in Tasks : TaskInv(x)'
  BY <1>1, <1>2, <1>3 DEF TaskInv, threadVars, taskVars, TypeOK
<1> QED BY <1>3, <1>6, <1>7, <1>9, <1>10

(* The running task enqueues itself while the thread is still on its stack. *)
LEMMA YieldIInv ==
  ASSUME IInv, NEW e \in Executors, Yield(e)
  PROVE  IInv'
<1> USE DEF IInv
<1> DEFINE t == thisTask[e]
           p == [pc EXCEPT ![e] = "get"]
<1>1. /\ pc[e] = "run" /\ Enable(scheduler[t], t, p)
      /\ ops' = [ops EXCEPT ![t] = @ + 1]
      /\ UNCHANGED <<threadVars, taskVars, toContinue, qMutex, waker, deletes>>
  BY DEF Yield
<1>2. /\ t = ctx[e] /\ t \in Tasks /\ scheduler[t] = e /\ status[t] = "RUNNING"
      /\ t \notin waker
  BY <1>1 DEF ThreadInv, ContextInv, Executing
<1>p. p \in [Executors -> Labels] /\ p[e] = "get"
      /\ \A d \in Executors : d # e => p[d] = pc[d]
  BY DEF TypeOK, Labels
<1> HIDE DEF t, p
<1>3. /\ isReady' \in [Executors -> Seq(Tasks)] /\ sizeOfQueue' \in [Executors -> Nat]
      /\ status' = [status EXCEPT ![t] = "READY"] /\ pc' = NotifyAll(e, p)
      /\ \A d \in Executors : QueueInv(d)' /\ SizeInv(d)'
  BY <1>1, <1>2, EnqueueQueues DEF threadVars, taskVars
<1>4. /\ pc' \in [Executors -> Labels] /\ pc'[e] = "get"
      /\ \A d \in Executors : d # e => pc'[d] = pc[d] \/ (pc[d] = "wait" /\ pc'[d] = "get")
  <2>1. \A d \in Executors : pc'[d] = p[d] \/ (p[d] = "wait" /\ pc'[d] = "get")
    BY <1>3, <1>p DEF NotifyAll, Labels
  <2>2. pc' \in [Executors -> Labels]
    BY <1>3, <1>p DEF NotifyAll, Labels
  <2> QED BY <1>p, <2>1, <2>2
<1>6. TypeOK'
  <2>1. ops' \in [Tasks -> Nat]
    BY <1>1, <1>2 DEF TypeOK
  <2>2. status' \in [Tasks -> {"NEW", "READY", "RUNNING", "FINISHED"}]
    BY <1>2, <1>3 DEF TypeOK
  <2> QED BY <1>1, <1>3, <1>4, <2>1, <2>2 DEF TypeOK, threadVars, taskVars
<1>7. \A d \in Executors : ThreadInv(d)'
  BY <1>1, <1>4 DEF ThreadInv, threadVars
<1>9. ASSUME NEW d \in Executors PROVE ContextInv(d)'
  <2>1. (d # e => ctx[d] # t) /\ nextTask[d] # t
    BY <1>1, <1>2 DEF ContextInv
  <2>2. /\ \A x \in Tasks : x # t => status'[x] = status[x]
        /\ UNCHANGED <<ctx, thisTask, nextTask, isStealable, uContext, waker, scheduler>>
    BY <1>1, <1>3 DEF TypeOK, threadVars, taskVars
  <2>3. CASE d = e
    BY <1>1, <1>4, <2>1, <2>2, <2>3 DEF ContextInv, Executing
  <2>4. CASE d # e
    BY <1>4, <2>1, <2>2, <2>4 DEF ContextInv, Executing
  <2> QED BY <2>3, <2>4
<1>10. \A x \in Tasks : TaskInv(x)'
  BY <1>1, <1>2, <1>3 DEF TaskInv, threadVars, taskVars, TypeOK
<1> QED BY <1>3, <1>6, <1>7, <1>9, <1>10

(* The running task gives itself to a waker while the thread is on its stack. *)
LEMMA BlockIInv ==
  ASSUME IInv, NEW e \in Executors, Block(e)
  PROVE  IInv'
<1> USE DEF IInv
<1> DEFINE t == thisTask[e]
<1>1. /\ pc[e] = "run" /\ pc' = [pc EXCEPT ![e] = "get"] /\ waker' = waker \cup {t}
      /\ ops' = [ops EXCEPT ![t] = @ + 1]
      /\ UNCHANGED <<ctx, thisTask, nextTask, heist, loot, scheduler, isStealable,
                     uContext, isReady, sizeOfQueue, toContinue, qMutex, status, deletes>>
  BY DEF Block, Goto, threadVars, taskVars
<1>2. t = ctx[e] /\ t \in Tasks /\ scheduler[t] = e /\ status[t] = "RUNNING"
  BY <1>1 DEF ThreadInv, ContextInv, Executing
<1> HIDE DEF t
<1>3. TypeOK'
  BY <1>1, <1>2 DEF TypeOK, Labels
<1>4. \A d \in Executors : ThreadInv(d)'
  BY <1>1 DEF ThreadInv, TypeOK
<1>5. ASSUME NEW d \in Executors PROVE ContextInv(d)'
  <2>1. (d # e => ctx[d] # t) /\ nextTask[d] # t
    BY <1>1, <1>2 DEF ContextInv
  <2>2. CASE d = e
    BY <1>1, <2>1, <2>2 DEF ContextInv, Executing, TypeOK
  <2>3. CASE d # e
    BY <1>1, <2>1, <2>3 DEF ContextInv, Executing, TypeOK
  <2> QED BY <2>2, <2>3
<1>6. \A x \in Tasks : TaskInv(x)'
  BY <1>1, <1>2 DEF TaskInv
<1>7. \A d \in Executors : QueueInv(d)' /\ SizeInv(d)'
  BY <1>1, QueuesUnchanged
<1> QED BY <1>3, <1>4, <1>5, <1>6, <1>7

(* A task finishes; the thread is still on its stack. *)
LEMMA FinishIInv ==
  ASSUME IInv, NEW e \in Executors, Finish(e)
  PROVE  IInv'
<1> USE DEF IInv
<1> DEFINE t == thisTask[e]
<1>1. /\ pc[e] = "run" /\ pc' = [pc EXCEPT ![e] = "get"]
      /\ status' = [status EXCEPT ![t] = "FINISHED"]
      /\ UNCHANGED <<ctx, thisTask, nextTask, heist, loot, scheduler, isStealable, waker,
                     uContext, isReady, sizeOfQueue, toContinue, qMutex, deletes, ops>>
  BY DEF Finish, Goto, threadVars, taskVars
<1>2. /\ t = ctx[e] /\ t \in Tasks /\ scheduler[t] = e /\ status[t] = "RUNNING"
      /\ t \notin waker /\ uContext[t] = "live"
  BY <1>1 DEF ThreadInv, ContextInv, Executing
<1> HIDE DEF t
<1>3. TypeOK'
  BY <1>1, <1>2 DEF TypeOK, Labels
<1>4. \A d \in Executors : ThreadInv(d)'
  BY <1>1 DEF ThreadInv, TypeOK
<1>5. ASSUME NEW d \in Executors PROVE ContextInv(d)'
  <2>1. (d # e => ctx[d] # t) /\ nextTask[d] # t
    BY <1>1, <1>2 DEF ContextInv
  <2>2. CASE d = e
    BY <1>1, <2>1, <2>2 DEF ContextInv, Executing, TypeOK
  <2>3. CASE d # e
    BY <1>1, <2>1, <2>3 DEF ContextInv, Executing, TypeOK
  <2> QED BY <2>2, <2>3
<1>6. \A x \in Tasks : TaskInv(x)'
  BY <1>1, <1>2 DEF TaskInv, TypeOK
<1>7. \A d \in Executors : QueueInv(d)'
  <2>1. \A d \in Executors : ~In(t, isReady[d]) /\ ~In(t, loot[d])
    BY <1>2 DEF QueueInv
  <2> QED BY <1>1, <1>2, <2>1 DEF QueueInv, TypeOK
<1>8. \A d \in Executors : SizeInv(d)'
  BY <1>1 DEF SizeInv
<1> QED BY <1>3, <1>4, <1>5, <1>6, <1>7, <1>8

(* The switch: the old context is saved, the new one entered. *)
LEMMA SwapOutIInv ==
  ASSUME IInv, NEW e \in Executors, SwapOut(e)
  PROVE  IInv'
<1> USE DEF IInv
<1> DEFINE c == ctx[e]
           n == nextTask[e]
<1>1. /\ pc[e] = "swap" /\ nextTask' = [nextTask EXCEPT ![e] = NoTask]
      /\ UNCHANGED <<thisTask, heist, loot, scheduler, isStealable, isReady, sizeOfQueue,
                     toContinue, qMutex, status, waker, deletes, ops>>
  BY DEF SwapOut
<1>2. /\ thisTask[e] = c /\ c \in Tasks \cup {NoTask} /\ n \in Tasks \cup {NoTask}
      /\ n \in Tasks => scheduler[n] = e /\ ~isStealable[n] /\ status[n] = "RUNNING"
                        /\ n \notin waker
      /\ c \in Tasks => scheduler[c] = e /\ uContext[c] = "live" /\ ~isStealable[c]
  <2>1. c \in Tasks \cup {NoTask} /\ n \in Tasks \cup {NoTask}
    BY DEF TypeOK
  <2>2. thisTask[e] = c
    BY <1>1 DEF ThreadInv
  <2>3. n \in Tasks => scheduler[n] = e /\ ~isStealable[n] /\ status[n] = "RUNNING"
                       /\ n \notin waker
    BY DEF ContextInv
  <2>4. c \in Tasks => scheduler[c] = e /\ uContext[c] = "live"
    BY DEF ContextInv
  <2>5. c \in Tasks => ~isStealable[c]
    BY <2>4 DEF TaskInv
  <2> QED BY <2>1, <2>2, <2>3, <2>4, <2>5
<1>q. \A d \in Executors : QueueInv(d)' /\ SizeInv(d)'
  BY <1>1, QueuesUnchanged
<1>3. CASE n = c
  <2>1. /\ pc' = [pc EXCEPT ![e] = IF c = NoTask THEN "loop" ELSE "run"]
        /\ UNCHANGED <<ctx, uContext>>
    BY <1>3 DEF SwapOut, Goto
  <2> HIDE DEF c, n
  <2>2. TypeOK'
    BY <1>1, <2>1 DEF TypeOK, Labels
  <2>3. \A d \in Executors : ThreadInv(d)'
    BY <1>1, <1>2, <2>1 DEF ThreadInv, TypeOK, c
  <2>4. ASSUME NEW d \in Executors PROVE ContextInv(d)'
    <3>1. CASE d = e
      BY <1>1, <1>2, <1>3, <2>1, <3>1 DEF ContextInv, Executing, TypeOK, c
    <3>2. CASE d # e
      BY <1>1, <2>1, <3>2 DEF ContextInv, Executing, TypeOK
    <3> QED BY <3>1, <3>2
  <2>5. \A x \in Tasks : TaskInv(x)'
    BY <1>1, <2>1 DEF TaskInv
  <2> QED BY <1>q, <2>2, <2>3, <2>4, <2>5
<1>4. CASE n # c
  <2>1. /\ pc' = [pc EXCEPT ![e] = "endflag"]
        /\ ctx' = [ctx EXCEPT ![e] = n]
        /\ uContext' = [t \in Tasks |-> IF t = c THEN "saved"
                                        ELSE IF t = n THEN "live" ELSE uContext[t]]
    BY <1>4 DEF SwapOut, Goto
  <2>u. /\ \A d \in Executors : d # e => ctx[d] \notin {c, n} \/ ctx[d] = NoTask
        /\ n \in Tasks => uContext[n] # "live"
    BY <1>2, <1>4 DEF ContextInv, TaskInv
  <2>m. \A d \in Executors : d # e => nextTask[d] \notin {c, n} \/ nextTask[d] = NoTask
    BY <1>1, <1>2 DEF ContextInv
  <2>f. \A d \in Executors : d # e /\ pc[d] = "endflag" =>
          thisTask[d] \notin {c, n} \/ thisTask[d] = NoTask
    BY <1>2 DEF ContextInv
  <2> HIDE DEF c, n
  <2>2. TypeOK'
    BY <1>1, <1>2, <2>1 DEF TypeOK, Labels
  <2>3. \A d \in Executors : ThreadInv(d)'
    BY <1>1, <1>2, <1>4, <2>1 DEF ThreadInv, TypeOK
  <2>4. ASSUME NEW d \in Executors PROVE ContextInv(d)'
    <3>1. CASE d = e
      BY <1>1, <1>2, <1>4, <2>1, <3>1 DEF ContextInv, Executing, TypeOK
    <3>2. CASE d # e
      BY <1>1, <2>1, <2>u, <2>m, <2>f, <3>2 DEF ContextInv, Executing, TypeOK
    <3> QED BY <3>1, <3>2
  <2>5. ASSUME NEW x \in Tasks PROVE TaskInv(x)'
    <3>1. CASE x = c
      BY <1>1, <1>2, <1>4, <2>1, <3>1 DEF TaskInv, TypeOK
    <3>2. CASE x = n
      <4>1. uContext'[x] = "live" /\ ctx'[e] = x /\ scheduler'[x] = e /\ e # 0
        BY <1>1, <1>2, <1>4, <2>1, <3>2 DEF TypeOK, Executors
      <4> QED BY <1>1, <1>2, <3>2, <4>1 DEF TaskInv
    <3>3. CASE x # c /\ x # n
      <4>1. uContext'[x] = uContext[x]
        BY <2>1, <3>3
      <4>2. uContext[x] = "live" => ctx'[scheduler[x]] = x
        <5>1. SUFFICES ASSUME uContext[x] = "live" PROVE ctx'[scheduler[x]] = x
          OBVIOUS
        <5>2. scheduler[x] \in Executors /\ ctx[scheduler[x]] = x
          <6>1. scheduler[x] # 0 /\ ctx[scheduler[x]] = x
            BY <5>1 DEF TaskInv
          <6>2. scheduler[x] \in 0..N
            BY DEF TypeOK
          <6> QED BY <6>1, <6>2 DEF Executors
        <5>3. scheduler[x] # e
          BY <5>2, <3>3 DEF c
        <5> QED BY <2>1, <5>2, <5>3 DEF TypeOK
      <4> QED BY <1>1, <4>1, <4>2 DEF TaskInv
    <3> QED BY <3>1, <3>2, <3>3
  <2> QED BY <1>q, <2>2, <2>3, <2>4, <2>5
<1> QED BY <1>3, <1>4

(* The task left behind becomes stealable: no thread is on its stack now. *)
LEMMA EndTaskFlagIInv ==
  ASSUME IInv, NEW e \in Executors, EndTaskFlag(e)
  PROVE  IInv'
<1> USE DEF IInv
<1> DEFINE t == thisTask[e]
<1>1. /\ pc[e] = "endflag"
      /\ UNCHANGED <<ctx, nextTask, heist, loot, scheduler, uContext, isReady, sizeOfQueue,
                     toContinue, qMutex, status, waker, deletes, ops>>
  BY DEF EndTaskFlag
<1>s. \A d \in Executors : SizeInv(d)'
  BY <1>1 DEF SizeInv
<1>2. CASE t = NoTask
  <2>1. /\ pc' = [pc EXCEPT ![e] = "run"] /\ thisTask' = [thisTask EXCEPT ![e] = ctx[e]]
        /\ UNCHANGED isStealable
    BY <1>2 DEF EndTaskFlag, Goto
  <2>2. TypeOK'
    BY <1>1, <2>1 DEF TypeOK, Labels
  <2>3. \A d \in Executors : ThreadInv(d)'
    BY <1>1, <1>2, <2>1 DEF ThreadInv, TypeOK
  <2>4. \A d \in Executors : ContextInv(d)'
    BY <1>1, <2>1 DEF ContextInv, Executing, TypeOK
  <2>5. \A x \in Tasks : TaskInv(x)'
    BY <1>1, <2>1 DEF TaskInv
  <2>6. \A d \in Executors : QueueInv(d)'
    BY <1>1, <2>1 DEF QueueInv
  <2> QED BY <1>s, <2>2, <2>3, <2>4, <2>5, <2>6
<1>3. CASE t # NoTask
  <2>1. /\ pc' = [pc EXCEPT ![e] = "enddel"] /\ UNCHANGED thisTask
        /\ isStealable' = IF CanSteal(t) THEN [isStealable EXCEPT ![t] = TRUE]
                                         ELSE isStealable
    BY <1>3 DEF EndTaskFlag, Goto
  <2>2. /\ t \in Tasks /\ scheduler[t] = e /\ ~isStealable[t] /\ uContext[t] = "saved"
    BY <1>1, <1>3 DEF ContextInv, TypeOK
  <2>3. \A d \in Executors : nextTask[d] # t
    BY <1>1, <2>2 DEF ContextInv
  <2> HIDE DEF t
  <2>4. /\ isStealable' \in [Tasks -> BOOLEAN]
        /\ \A x \in Tasks : x # t => isStealable'[x] = isStealable[x]
        /\ isStealable'[t] => t \in StandAlone
    BY <2>1, <2>2 DEF CanSteal, TypeOK
  <2>5. TypeOK'
    BY <1>1, <2>1, <2>2, <2>4 DEF TypeOK, Labels
  <2>6. \A d \in Executors : ThreadInv(d)'
    BY <1>1, <2>1, <2>2 DEF ThreadInv, TypeOK, t
  <2>7. ASSUME NEW d \in Executors PROVE ContextInv(d)'
    <3>1. \A x \in Tasks : x # t => isStealable'[x] = isStealable[x]
      BY <2>4 DEF TypeOK
    <3>2. CASE d = e
      BY <1>1, <2>1, <2>3, <3>1, <3>2 DEF ContextInv, Executing, TypeOK
    <3>3. CASE d # e
      <4>1. pc[d] = "endflag" => thisTask[d] # t
        BY <2>2, <3>3 DEF ContextInv
      <4> QED BY <1>1, <2>1, <2>3, <3>1, <3>3, <4>1 DEF ContextInv, Executing, TypeOK
    <3> QED BY <3>2, <3>3
  <2>8. \A x \in Tasks : TaskInv(x)'
    BY <1>1, <2>2, <2>4 DEF TaskInv, TypeOK
  <2>9. \A d \in Executors : QueueInv(d)'
    <3>1. \A d \in Executors : ~In(t, loot[d])
      BY <2>2 DEF QueueInv
    <3>2. \A x \in Tasks : x # t => isStealable'[x] = isStealable[x]
      BY <2>4 DEF TypeOK
    <3> QED BY <1>1, <3>1, <3>2 DEF QueueInv
  <2> QED BY <1>s, <2>5, <2>6, <2>7, <2>8, <2>9
<1> QED BY <1>2, <1>3

(* A task found finished is deleted, by a thread that may not be its last. *)
LEMMA EndTaskDeleteIInv ==
  ASSUME IInv, NEW e \in Executors, EndTaskDelete(e)
  PROVE  IInv'
<1> USE DEF IInv
<1> DEFINE t == thisTask[e]
<1>1. /\ pc[e] = "enddel" /\ thisTask' = [thisTask EXCEPT ![e] = ctx[e]]
      /\ pc' = [pc EXCEPT ![e] = IF ctx[e] = NoTask THEN "loop" ELSE "run"]
      /\ UNCHANGED <<ctx, nextTask, heist, loot, scheduler, isStealable, uContext, isReady,
                     sizeOfQueue, toContinue, qMutex, status, waker, ops>>
  BY DEF EndTaskDelete, Goto, taskVars
<1>2. \/ deletes' = deletes
      \/ /\ deletes' = [deletes EXCEPT ![t] = @ + 1] /\ deletes[t] < 2
         /\ deletes[t] = 0 => status[t] = "FINISHED"
  BY DEF EndTaskDelete
<1>3. t \in Tasks
  BY <1>1 DEF ThreadInv
<1> HIDE DEF t
<1>4. TypeOK'
  <2>1. deletes' \in [Tasks -> 0..2]
    <3>1. deletes[t] \in 0..2 /\ deletes \in [Tasks -> 0..2]
      BY <1>3 DEF TypeOK
    <3>2. deletes[t] < 2 => deletes[t] + 1 \in 0..2
      BY <3>1
    <3> QED BY ONLY <1>2, <1>3, <3>1, <3>2
  <2> QED BY <1>1, <2>1 DEF TypeOK, Labels
<1>5. \A d \in Executors : ThreadInv(d)'
  BY <1>1 DEF ThreadInv, TypeOK
<1>6. \A d \in Executors : ContextInv(d)'
  BY <1>1 DEF ContextInv, Executing, TypeOK
<1>7. \A x \in Tasks : TaskInv(x)'
  <2>1. \A x \in Tasks : deletes'[x] > 0 => status[x] = "FINISHED"
    <3>1. deletes[t] \in 0..2
      BY <1>3 DEF TypeOK
    <3>2. \A x \in Tasks : x # t => deletes'[x] = deletes[x]
      BY <1>2, <1>3 DEF TypeOK
    <3>3. deletes'[t] # deletes[t] => status[t] = "FINISHED"
      <4>1. deletes[t] > 0 \/ deletes[t] = 0
        BY <3>1
      <4>2. deletes[t] > 0 => status[t] = "FINISHED"
        BY <1>3 DEF TaskInv
      <4> QED BY <1>2, <4>1, <4>2
    <3> QED BY <1>3, <3>2, <3>3 DEF TaskInv
  <2> QED BY <1>1, <2>1 DEF TaskInv
<1>8. \A d \in Executors : QueueInv(d)' /\ SizeInv(d)'
  BY <1>1, QueuesUnchanged
<1> QED BY <1>4, <1>5, <1>6, <1>7, <1>8

(* The steps of GetNextTask that only look for work, and its end. *)
LEMMA GetNextTaskIInv ==
  ASSUME IInv, NEW e \in Executors, GetNextTask(e) \/ AfterRound(e)
  PROVE  IInv'
<1> DEFINE unch == UNCHANGED <<ctx, thisTask, toContinue, qMutex, loot, scheduler,
                               uContext, waker, deletes, ops>>
           same == UNCHANGED <<nextTask, isReady, sizeOfQueue, isStealable, status>>
<1>1. /\ pc[e] \in {"get", "relock"} /\ unch
      /\ \/ \E r \in 0..1 : StartRound(e, r) /\ same
         \/ /\ pc' = [pc EXCEPT ![e] = "wait"]
            /\ heist' = [heist EXCEPT ![e] = NoHeist] /\ same
         \/ ReturnNext(e) /\ (isReady[e] # <<>> \/ ~toContinue[e])
  BY DEF GetNextTask, AfterRound, Goto
<1>2. CASE ReturnNext(e) /\ (isReady[e] # <<>> \/ ~toContinue[e])
  BY <1>1, <1>2, ReturnNextIInv
<1>3. ASSUME NEW h \in Heists, NEW l \in {"steal", "wait"}, same,
             pc' = [pc EXCEPT ![e] = l], heist' = [heist EXCEPT ![e] = h]
      PROVE  IInv'
  <2>1. TypeOK /\ \A d \in Executors : ThreadInv(d)
    BY DEF IInv
  <2>2. /\ pc' \in [Executors -> Labels] /\ heist' \in [Executors -> Heists]
        /\ qMutex' \in [Executors -> 0..N] /\ toContinue' \in [Executors -> BOOLEAN]
    BY <1>1, <1>3, <2>1 DEF TypeOK, Labels
  <2>3. \A d \in Executors : pc'[d] = pc[d] \/ (pc[d] \in Looking /\ pc'[d] \in Looking)
    BY <1>1, <1>3, <2>1 DEF TypeOK, Looking
  <2>4. \A d \in Executors : pc'[d] = "take" => heist'[d].from \in Executors
    BY <1>3, <2>1 DEF TypeOK, ThreadInv
  <2> QED BY <1>1, <1>3, <2>2, <2>3, <2>4, QuietIInv DEF taskVars
<1>4. \A r \in 0..1 : [NoHeist EXCEPT !.untried = Executors \ {e}, !.round = r] \in Heists
  <2>1. NoHeist \in [untried : SUBSET Executors, round : 0..1, from : 0..N,
                     left : Nat, pos : Nat]
    BY NoHeistType DEF Heists
  <2> HIDE DEF NoHeist
  <2> QED BY <2>1 DEF Heists
<1>5. CASE \E r \in 0..1 : StartRound(e, r) /\ same
  BY <1>3, <1>4, <1>5 DEF StartRound, Goto
<1>6. CASE /\ pc' = [pc EXCEPT ![e] = "wait"]
           /\ heist' = [heist EXCEPT ![e] = NoHeist] /\ same
  BY <1>3, <1>6, NoHeistType
<1> QED BY <1>1, <1>2, <1>5, <1>6

(* An executor wakes up without being notified. *)
LEMMA SpuriousWakeupIInv ==
  ASSUME IInv, NEW e \in Executors, SpuriousWakeup(e)
  PROVE  IInv'
<1>1. TypeOK /\ \A d \in Executors : ThreadInv(d)
  BY DEF IInv
<1> USE DEF SpuriousWakeup, Goto, threadVars
<1>2. /\ pc' \in [Executors -> Labels] /\ heist' \in [Executors -> Heists]
      /\ qMutex' \in [Executors -> 0..N] /\ toContinue' \in [Executors -> BOOLEAN]
  BY <1>1 DEF TypeOK, Labels
<1>3. \A d \in Executors : pc'[d] = pc[d] \/ (pc[d] \in Looking /\ pc'[d] \in Looking)
  BY <1>1 DEF TypeOK, Looking
<1>4. \A d \in Executors : pc'[d] = "take" => heist'[d].from \in Executors
  BY <1>1 DEF TypeOK, ThreadInv
<1> QED BY <1>2, <1>3, <1>4, QuietIInv

(* Stopping an executor changes its flag and may wake it. *)
LEMMA StopIInv ==
  ASSUME IInv, NEW e \in Executors, StopSchedulerMainLoop(e)
  PROVE  IInv'
<1>1. TypeOK /\ \A d \in Executors : ThreadInv(d)
  BY DEF IInv
<1> USE DEF StopSchedulerMainLoop, NotifyAll, threadVars
<1>2. /\ pc' \in [Executors -> Labels] /\ heist' \in [Executors -> Heists]
      /\ qMutex' \in [Executors -> 0..N] /\ toContinue' \in [Executors -> BOOLEAN]
  BY <1>1 DEF TypeOK, Labels
<1>3. \A d \in Executors : pc'[d] = pc[d] \/ (pc[d] \in Looking /\ pc'[d] \in Looking)
  BY <1>1 DEF TypeOK, Looking
<1>4. \A d \in Executors : pc'[d] = "take" => heist'[d].from \in Executors
  BY <1>1 DEF TypeOK, ThreadInv
<1> QED BY <1>2, <1>3, <1>4, QuietIInv

(* Choosing a victim and counting what it has. *)
LEMMA StealScanIInv ==
  ASSUME IInv, NEW e \in Executors, StealScan(e)
  PROVE  IInv'
<1>1. TypeOK /\ \A d \in Executors : ThreadInv(d)
  BY DEF IInv
<1>2. /\ pc[e] = "steal"
      /\ UNCHANGED <<ctx, thisTask, nextTask, loot, taskVars, isReady, sizeOfQueue,
                     toContinue, status, waker, deletes, ops>>
  BY DEF StealScan
<1>3. heist[e] \in Heists /\ pc \in [Executors -> Labels]
      /\ heist \in [Executors -> Heists] /\ qMutex \in [Executors -> 0..N]
  BY <1>1 DEF TypeOK
<1>4. /\ \/ pc' = pc \/ pc' = [pc EXCEPT ![e] = "relock"]
         \/ pc' = [pc EXCEPT ![e] = "take"] /\ heist'[e].from \in Executors
      /\ heist' \in [Executors -> Heists]
      /\ \A d \in Executors : d # e => heist'[d] = heist[d]
      /\ qMutex' \in [Executors -> 0..N]
  <2>1. CASE pc' = [pc EXCEPT ![e] = "relock"] /\ UNCHANGED <<heist, qMutex>>
    BY <1>3, <2>1
  <2>2. ASSUME NEW v \in heist[e].untried,
               heist' = [heist EXCEPT ![e].untried = @ \ {v}], UNCHANGED <<pc, qMutex>>
        PROVE  <1>4!1 /\ <1>4!2 /\ <1>4!3 /\ <1>4!4
    <3>1. [heist[e] EXCEPT !.untried = @ \ {v}] \in Heists
      BY <1>3 DEF Heists
    <3> QED BY <1>3, <2>2, <3>1
  <2>3. ASSUME NEW v \in heist[e].untried, NEW k, NEW m,
               k = Cardinality(Stealable(v)), m = Len(isReady[v]) \div 2, k > 1,
               pc' = [pc EXCEPT ![e] = "take"], qMutex' = [qMutex EXCEPT ![v] = e],
               heist' = [heist EXCEPT ![e] =
                   [untried |-> @.untried \ {v}, round |-> @.round, from |-> v,
                    pos |-> Len(isReady[v]), left |-> IF k < m THEN k ELSE m]]
        PROVE  <1>4!1 /\ <1>4!2 /\ <1>4!3 /\ <1>4!4
    <3>1. v \in Executors /\ v \in 0..N /\ e \in 0..N
      BY <1>3 DEF Heists, Executors
    <3>2. isReady[v] \in Seq(Tasks) /\ Len(isReady[v]) \in Nat
      BY <1>1, <3>1, LenProperties DEF TypeOK
    <3>3. m \in Nat
      <4>1. \A j \in Nat : j \div 2 \in Nat
        OBVIOUS
      <4> QED BY ONLY <2>3, <3>2, <4>1
    <3>4. k \in Nat
      <4>1. DOMAIN isReady[v] = 1..Len(isReady[v])
        BY <3>2, LenProperties
      <4>2. IsFiniteSet(1..Len(isReady[v])) /\ Stealable(v) \subseteq 1..Len(isReady[v])
        BY <3>2, <4>1, FS_Interval DEF Stealable
      <4> QED BY <2>3, <4>2, FS_Subset, FS_CardinalityType
    <3>5. [untried |-> heist[e].untried \ {v}, round |-> heist[e].round, from |-> v,
           pos |-> Len(isReady[v]), left |-> IF k < m THEN k ELSE m] \in Heists
      BY <1>3, <3>1, <3>2, <3>3, <3>4 DEF Heists
    <3> QED BY <1>3, <2>3, <3>1, <3>5
  <2> QED BY <2>1, <2>2, <2>3 DEF StealScan, Goto
<1>5. pc' \in [Executors -> Labels]
  BY <1>3, <1>4 DEF Labels
<1>6. \A d \in Executors : pc'[d] = pc[d] \/ (pc[d] \in Looking /\ pc'[d] \in Looking)
  BY <1>2, <1>3, <1>4 DEF Looking
<1>7. \A d \in Executors : pc'[d] = "take" => heist'[d].from \in Executors
  BY <1>1, <1>2, <1>3, <1>4 DEF ThreadInv
<1>8. toContinue' \in [Executors -> BOOLEAN]
  BY <1>1, <1>2 DEF TypeOK
<1> QED BY <1>2, <1>4, <1>5, <1>6, <1>7, <1>8, QuietIInv

(* One task goes from the victim's queue to the thief's loot. *)
LEMMA StealTakeIInv ==
  ASSUME IInv, NEW e \in Executors, StealTake(e)
  PROVE  IInv'
<1> USE DEF IInv
<1> DEFINE v == heist[e].from
<1>1. /\ pc[e] = "take"
      /\ UNCHANGED <<ctx, thisTask, nextTask, scheduler, isStealable, uContext,
                     toContinue, status, waker, deletes, ops>>
  BY DEF StealTake, taskVars
<1>2. v \in Executors
  BY <1>1 DEF ThreadInv
<1>3. heist[e] \in Heists /\ heist \in [Executors -> Heists]
      /\ qMutex \in [Executors -> 0..N]
  BY DEF TypeOK
<1>4. CASE /\ pc' = [pc EXCEPT ![e] = "put"]
           /\ qMutex' = [qMutex EXCEPT ![v] = 0]
           /\ heist' = [heist EXCEPT ![e] = [@ EXCEPT !.from = 0, !.left = 0, !.pos = 0]]
           /\ UNCHANGED <<loot, isReady, sizeOfQueue>>
  <2>1. [heist[e] EXCEPT !.from = 0, !.left = 0, !.pos = 0] \in Heists
    <3>1. 0 \in 0..N /\ 0 \in Nat
      OBVIOUS
    <3>2. \A h \in Heists : [h EXCEPT !.from = 0, !.left = 0, !.pos = 0] \in Heists
      BY ONLY <3>1 DEF Heists
    <3> QED BY ONLY <1>3, <3>2
  <2>2. /\ pc' \in [Executors -> Labels] /\ heist' \in [Executors -> Heists]
        /\ qMutex' \in [Executors -> 0..N] /\ toContinue' \in [Executors -> BOOLEAN]
    BY <1>1, <1>2, <1>3, <1>4, <2>1 DEF TypeOK, Labels
  <2>3. \A d \in Executors : pc'[d] = pc[d] \/ (pc[d] \in Looking /\ pc'[d] \in Looking)
    BY <1>1, <1>4 DEF TypeOK, Looking
  <2>4. \A d \in Executors : pc'[d] = "take" => heist'[d].from \in Executors
    BY <1>1, <1>4 DEF TypeOK, ThreadInv
  <2> QED BY <1>1, <1>4, <2>2, <2>3, <2>4, QuietIInv DEF taskVars
<1>5. ASSUME NEW i \in Stealable(v), heist[e].left > 0,
             isReady' = [isReady EXCEPT ![v] = RemoveAt(@, i)],
             loot' = [loot EXCEPT ![e] = <<isReady[v][i]>> \o @],
             sizeOfQueue' = [sizeOfQueue EXCEPT ![v] = @ - 1, ![e] = @ + 1],
             heist' = [heist EXCEPT ![e].left = @ - 1, ![e].pos = i - 1],
             UNCHANGED <<pc, qMutex>>
      PROVE  IInv'
  <2> DEFINE t == isReady[v][i]
             q == RemoveAt(isReady[v], i)
             l == <<t>> \o loot[e]
  <2>1. isReady[v] \in Seq(Tasks) /\ loot[e] \in Seq(Tasks)
        /\ Distinct(isReady[v]) /\ Distinct(loot[e])
    BY <1>2 DEF TypeOK, QueueInv
  <2>2. i \in DOMAIN isReady[v] /\ isStealable[t] /\ In(t, isReady[v])
    BY <1>5 DEF Stealable, In
  <2>3. /\ t \in Tasks /\ \A x : In(x, q) => In(x, isReady[v])
        /\ Distinct(q) /\ ~In(t, q)
    BY <2>1, <2>2, EraseAt
  <2>4. q \in Seq(Tasks) /\ Len(isReady[v]) = Len(q) + 1
    BY <2>1, <2>2, EraseAt
  <2>5. scheduler[t] = v /\ status[t] = "READY" /\ \A d \in Executors : ~In(t, loot[d])
    BY <1>2, <2>2, <2>3 DEF QueueInv
  <2>6. Distinct(l) /\ \A x : In(x, l) <=> (x = t \/ In(x, loot[e]))
    BY <2>1, <2>3, <2>5, PushFront
  <2>7. l \in Seq(Tasks) /\ Len(l) = Len(loot[e]) + 1
    BY <2>1, <2>3, PushFront
  <2>8. isReady' = [isReady EXCEPT ![v] = q] /\ loot' = [loot EXCEPT ![e] = l]
    BY <1>5
  <2>h. heist' \in [Executors -> Heists] /\ \A d \in Executors : heist'[d].from = heist[d].from
    <3>1. i \in Nat \ {0}
      <4>1. DOMAIN isReady[v] = 1..Len(isReady[v]) /\ Len(isReady[v]) \in Nat
        BY <2>1, LenProperties
      <4> QED BY <2>2, <4>1
    <3>2. [heist[e] EXCEPT !.left = @ - 1, !.pos = i - 1] \in Heists
      <4>1. heist[e].left \in Nat
        BY <1>3 DEF Heists
      <4>2. heist[e].left - 1 \in Nat /\ i - 1 \in Nat
        BY <1>5, <3>1, <4>1
      <4> QED BY <1>3, <4>2 DEF Heists
    <3>3. heist' \in [Executors -> Heists]
      <4>1. heist' = [heist EXCEPT ![e] = [heist[e] EXCEPT !.left = @ - 1, !.pos = i - 1]]
        BY ONLY <1>5
      <4> DEFINE h == [heist[e] EXCEPT !.left = @ - 1, !.pos = i - 1]
      <4>2. heist' = [heist EXCEPT ![e] = h] /\ h \in Heists
        BY <3>2, <4>1
      <4> HIDE DEF h
      <4> QED BY ONLY <1>3, <4>2
    <3>4. heist'[e].from = heist[e].from
      BY <1>3, <1>5 DEF Heists
    <3>5. \A d \in Executors : d # e => heist'[d] = heist[d]
      BY <1>3, <1>5
    <3> QED BY <3>3, <3>4, <3>5
  <2> HIDE DEF t, q, l, v
  <2>9. \A d \in Executors :
          /\ sizeOfQueue[d] \in Nat /\ sizeOfQueue'[d] \in Nat
          /\ sizeOfQueue'[d] >= Len(isReady'[d]) + Len(loot'[d])
    <3> TAKE d \in Executors
    <3>1. /\ Len(isReady[d]) \in Nat /\ Len(loot[d]) \in Nat /\ sizeOfQueue[d] \in Nat
          /\ Len(q) \in Nat /\ Len(l) \in Nat /\ Len(loot[e]) \in Nat
      BY <2>1, <2>4, <2>7, LenProperties DEF TypeOK
    <3>2. sizeOfQueue[d] >= Len(isReady[d]) + Len(loot[d])
      BY DEF SizeInv
    <3>3. /\ isReady'[d] = IF d = v THEN q ELSE isReady[d]
          /\ loot'[d] = IF d = e THEN l ELSE loot[d]
      BY <1>2, <2>8 DEF TypeOK
    <3>4. sizeOfQueue'[d] = IF d = v THEN IF d = e THEN sizeOfQueue[d] - 1 + 1
                                                   ELSE sizeOfQueue[d] - 1
                            ELSE IF d = e THEN sizeOfQueue[d] + 1 ELSE sizeOfQueue[d]
      <4>1. sizeOfQueue \in [Executors -> Nat]
        BY DEF TypeOK
      <4>2. sizeOfQueue' = [sizeOfQueue EXCEPT ![v] = @ - 1, ![e] = @ + 1]
        BY <1>5
      <4> QED BY ONLY <1>2, <4>1, <4>2, d \in Executors, e \in Executors
    <3>5. /\ Len(isReady'[d]) = IF d = v THEN Len(isReady[d]) - 1 ELSE Len(isReady[d])
          /\ Len(loot'[d]) = IF d = e THEN Len(loot[d]) + 1 ELSE Len(loot[d])
          /\ d = v => Len(isReady[d]) > 0
      <4>1. d = v => Len(isReady'[d]) = Len(q) /\ Len(isReady[d]) = Len(q) + 1
        BY <3>3, <2>4
      <4>2. d = e => Len(loot'[d]) = Len(l) /\ Len(l) = Len(loot[d]) + 1
        BY <3>3, <2>7
      <4>3. (d # v => Len(isReady'[d]) = Len(isReady[d])) /\ (d # e => Len(loot'[d]) = Len(loot[d]))
        BY <3>3
      <4>4. \A a \in Nat : a + 1 - 1 = a /\ a + 1 > 0
        OBVIOUS
      <4> QED BY ONLY <4>1, <4>2, <4>3, <4>4, <3>1
    <3> DEFINE s == sizeOfQueue[d]
               r == Len(isReady[d])
               o == Len(loot[d])
    <3>6. s \in Nat /\ r \in Nat /\ o \in Nat /\ s >= r + o
      BY <3>1, <3>2
    <3> HIDE DEF s, r, o
    <3>7. \A a, b, c \in Nat : a >= b + c /\ b > 0 =>
             /\ a - 1 + 1 \in Nat /\ a - 1 + 1 >= (b - 1) + (c + 1)
             /\ a - 1 \in Nat /\ a - 1 >= (b - 1) + c
      OBVIOUS
    <3>8. \A a, b, c \in Nat : a >= b + c => a + 1 \in Nat /\ a + 1 >= b + (c + 1)
      OBVIOUS
    <3>9. CASE d = v /\ d = e
      <4>0. r > 0
        BY <3>5, <3>9 DEF r
      <4>1. s - 1 + 1 \in Nat /\ s - 1 + 1 >= (r - 1) + (o + 1)
        BY ONLY <3>6, <3>7, <4>0
      <4>2. sizeOfQueue'[d] = s - 1 + 1 /\ Len(isReady'[d]) = r - 1 /\ Len(loot'[d]) = o + 1
        BY <3>4, <3>5, <3>9 DEF s, r, o
      <4> QED BY ONLY <3>6, <4>1, <4>2 DEF s
    <3>10. CASE d = v /\ d # e
      <4>1. s - 1 \in Nat /\ s - 1 >= (r - 1) + o
        BY <3>5, <3>6, <3>7, <3>10 DEF r
      <4>2. sizeOfQueue'[d] = s - 1 /\ Len(isReady'[d]) = r - 1 /\ Len(loot'[d]) = o
        BY <3>4, <3>5, <3>10 DEF s, r, o
      <4> QED BY ONLY <3>6, <4>1, <4>2 DEF s
    <3>11. CASE d # v /\ d = e
      BY ONLY <3>4, <3>5, <3>6, <3>8, <3>11 DEF s, r, o
    <3>12. CASE d # v /\ d # e
      BY ONLY <3>4, <3>5, <3>6, <3>12 DEF s, r, o
    <3> QED BY <3>9, <3>10, <3>11, <3>12 DEF s
  <2>10. TypeOK'
    <3>1. isReady' \in [Executors -> Seq(Tasks)] /\ loot' \in [Executors -> Seq(Tasks)]
      BY <1>2, <2>4, <2>7, <2>8 DEF TypeOK
    <3>2. sizeOfQueue' \in [Executors -> Nat]
      <4>1. DOMAIN sizeOfQueue' = Executors
            /\ sizeOfQueue' = [d \in Executors |-> sizeOfQueue'[d]]
        BY <1>5 DEF TypeOK
      <4> QED BY <2>9, <4>1
    <3> QED BY <1>1, <1>5, <2>h, <3>1, <3>2 DEF TypeOK
  <2>11. \A d \in Executors : ThreadInv(d)'
    BY <1>1, <1>5, <2>h DEF ThreadInv
  <2>12. \A d \in Executors : ContextInv(d)'
    BY <1>1, <1>5 DEF ContextInv, Executing
  <2>13. \A x \in Tasks : TaskInv(x)'
    BY <1>1, <1>5 DEF TaskInv
  <2>14. ASSUME NEW d \in Executors PROVE QueueInv(d)'
    <3>1. \A x \in Tasks, c \in Executors : In(x, isReady'[c]) =>
            x # t /\ In(x, isReady[c])
      <4> TAKE x \in Tasks, c \in Executors
      <4>1. CASE c = v
        <5>1. isReady'[c] = q
          BY <1>2, <2>8, <4>1 DEF TypeOK
        <5> QED BY <2>3, <4>1, <5>1
      <4>2. CASE c # v
        <5>1. isReady'[c] = isReady[c]
          BY <1>2, <2>8, <4>2 DEF TypeOK
        <5>2. ~In(t, isReady[c])
          BY <2>3, <2>5, <4>2 DEF QueueInv
        <5> QED BY <5>1, <5>2
      <4> QED BY <4>1, <4>2
    <3>2. \A x \in Tasks, c \in Executors : In(x, loot'[c]) =>
            In(x, loot[c]) \/ (x = t /\ c = e)
      BY <2>6, <2>8 DEF TypeOK
    <3>3. Distinct(isReady'[d]) /\ Distinct(loot'[d])
      <4>1. /\ isReady'[d] = IF d = v THEN q ELSE isReady[d]
            /\ loot'[d] = IF d = e THEN l ELSE loot[d]
        BY <1>2, <2>8 DEF TypeOK
      <4>2. Distinct(isReady[d]) /\ Distinct(loot[d]) /\ Distinct(q) /\ Distinct(l)
        BY <1>2, <2>3, <2>6 DEF QueueInv
      <4> QED BY ONLY <4>1, <4>2
    <3>4. \A x \in Tasks : In(x, isReady'[d]) => scheduler'[x] = d /\ status'[x] = "READY"
      BY <1>1, <3>1 DEF QueueInv
    <3>5. ASSUME NEW x \in Tasks, In(x, loot'[d])
          PROVE  /\ isStealable'[x] /\ status'[x] = "READY"
                 /\ \A c \in Executors : ~In(x, isReady'[c]) /\ (In(x, loot'[c]) => c = d)
      <4>0. t \in Tasks /\ isStealable[t] /\ status[t] = "READY"
        BY <2>2, <2>3, <2>5
      <4>1. CASE x = t
        BY <1>1, <3>1, <3>2, <3>5, <2>5, <4>0, <4>1
      <4>2. CASE x # t
        BY <1>1, <3>1, <3>2, <3>5, <4>2 DEF QueueInv
      <4> QED BY <4>1, <4>2
    <3> QED BY <3>3, <3>4, <3>5 DEF QueueInv
  <2>15. \A d \in Executors : SizeInv(d)'
    BY <2>9 DEF SizeInv
  <2> QED BY <2>10, <2>11, <2>12, <2>13, <2>14, <2>15
<1> QED BY <1>4, <1>5 DEF StealTake, Goto

(* The loot gets the thief's scheduler and goes to the front of its queue. *)
LEMMA StealPutIInv ==
  ASSUME IInv, NEW e \in Executors, StealPut(e)
  PROVE  IInv'
<1> USE DEF IInv
<1> DEFINE q == loot[e] \o isReady[e]
           l == IF loot[e] = <<>> THEN "steal" ELSE "relock"
<1>1. /\ pc[e] = "put"
      /\ isReady' = [isReady EXCEPT ![e] = q]
      /\ sizeOfQueue' = [sizeOfQueue EXCEPT ![e] = @ + Len(loot[e])]
      /\ loot' = [loot EXCEPT ![e] = <<>>]
      /\ pc' = [pc EXCEPT ![e] = l]
      /\ UNCHANGED <<ctx, thisTask, nextTask, heist, toContinue, qMutex, status,
                     isStealable, uContext, waker, deletes, ops>>
  BY DEF StealPut, Goto
<1>2. scheduler' = [t \in Tasks |-> IF isStealable[t] /\ In(t, loot[e])
                                       THEN e ELSE scheduler[t]]
  BY DEF StealPut, In
<1>3. isReady[e] \in Seq(Tasks) /\ loot[e] \in Seq(Tasks)
      /\ Distinct(isReady[e]) /\ Distinct(loot[e])
  BY DEF TypeOK, QueueInv
<1>t. \A x : In(x, loot[e]) => x \in Tasks
  BY <1>3 DEF In
<1>4. \A t \in Tasks : In(t, loot[e]) =>
        /\ isStealable[t] /\ status[t] = "READY" /\ uContext[t] # "live"
        /\ \A d \in Executors : ~In(t, isReady[d]) /\ (In(t, loot[d]) => d = e)
  BY DEF QueueInv, TaskInv
<1>5. Distinct(q) /\ \A x : In(x, q) <=> (In(x, loot[e]) \/ In(x, isReady[e]))
  BY <1>3, <1>t, <1>4, Concat
<1>6. q \in Seq(Tasks) /\ Len(q) = Len(loot[e]) + Len(isReady[e])
  BY <1>3, Concat
<1>7. l \in {"steal", "relock"}
  OBVIOUS
<1>e. Distinct(<<>>) /\ \A x : ~In(x, <<>>)
  BY DEF Distinct, In
<1> HIDE DEF q, l
<1>8. \A t \in Tasks : /\ In(t, loot[e]) => scheduler'[t] = e
                       /\ ~In(t, loot[e]) => scheduler'[t] = scheduler[t]
  BY <1>2, <1>4
<1>s. \A d \in Executors : /\ sizeOfQueue'[d] \in Nat
                           /\ sizeOfQueue'[d] >= Len(isReady'[d]) + Len(loot'[d])
  <2> TAKE d \in Executors
  <2>1. /\ Len(isReady[d]) \in Nat /\ Len(loot[d]) \in Nat /\ sizeOfQueue[d] \in Nat
    BY <1>3, LenProperties DEF TypeOK
  <2>2. sizeOfQueue[d] >= Len(isReady[d]) + Len(loot[d])
    BY DEF SizeInv
  <2>3. CASE d = e
    <3>1. sizeOfQueue'[d] = sizeOfQueue[d] + Len(loot[d])
      BY <1>1, <2>3 DEF TypeOK
    <3>2. Len(isReady'[d]) = Len(loot[d]) + Len(isReady[d])
      BY <1>1, <1>6, <2>3 DEF TypeOK
    <3>3. Len(loot'[d]) = 0
      BY <1>1, <2>3 DEF TypeOK
    <3>4. \A a, b, c \in Nat : a >= b + c => a + c \in Nat /\ a + c >= (c + b) + 0
      OBVIOUS
    <3> QED BY ONLY <2>1, <2>2, <3>1, <3>2, <3>3, <3>4
  <2>4. CASE d # e
    BY <1>1, <2>1, <2>2, <2>4 DEF TypeOK
  <2> QED BY <2>3, <2>4
<1>9. TypeOK'
  <2>1. isReady' \in [Executors -> Seq(Tasks)] /\ loot' \in [Executors -> Seq(Tasks)]
    BY <1>1, <1>6 DEF TypeOK
  <2>2. sizeOfQueue' \in [Executors -> Nat]
    <3>1. DOMAIN sizeOfQueue' = Executors
          /\ sizeOfQueue' = [d \in Executors |-> sizeOfQueue'[d]]
      BY <1>1 DEF TypeOK
    <3> QED BY <1>s, <3>1
  <2>3. scheduler' \in [Tasks -> 0..N]
    <3>1. e \in 0..N
      BY DEF Executors
    <3> QED BY <1>2, <3>1 DEF TypeOK
  <2> QED BY <1>1, <1>7, <2>1, <2>2, <2>3 DEF TypeOK, Labels
<1>10. \A d \in Executors : ThreadInv(d)'
  BY <1>1, <1>7 DEF ThreadInv, TypeOK
<1>11. ASSUME NEW d \in Executors PROVE ContextInv(d)'
  <2>1. ctx[d] \in Tasks => scheduler'[ctx[d]] = scheduler[ctx[d]]
    BY <1>4, <1>8 DEF ContextInv
  <2>2. nextTask[d] \in Tasks => scheduler'[nextTask[d]] = scheduler[nextTask[d]]
    BY <1>4, <1>8 DEF ContextInv
  <2>3. pc[d] = "endflag" /\ thisTask[d] \in Tasks =>
          scheduler'[thisTask[d]] = scheduler[thisTask[d]]
    BY <1>4, <1>8 DEF ContextInv
  <2>4. pc'[d] = pc[d] \/ (pc[d] = "put" /\ pc'[d] \in {"steal", "relock"})
    BY <1>1, <1>7 DEF TypeOK
  <2> QED BY <1>1, <2>1, <2>2, <2>3, <2>4 DEF ContextInv, Executing
<1>12. ASSUME NEW x \in Tasks PROVE TaskInv(x)'
  <2>1. CASE In(x, loot[e])
    <3>1. scheduler'[x] = e /\ e # 0
      BY <1>8, <2>1 DEF Executors
    <3> QED BY <1>1, <1>4, <2>1, <3>1 DEF TaskInv
  <2>2. CASE ~In(x, loot[e])
    BY <1>1, <1>8, <2>2 DEF TaskInv
  <2> QED BY <2>1, <2>2
<1>13. ASSUME NEW d \in Executors PROVE QueueInv(d)'
  <2>1. \A x \in Tasks, c \in Executors : In(x, isReady'[c]) =>
          In(x, isReady[c]) \/ (c = e /\ In(x, loot[e]))
    BY <1>1, <1>5 DEF TypeOK
  <2>2. \A x \in Tasks, c \in Executors : In(x, loot'[c]) => c # e /\ In(x, loot[c])
    BY <1>1, <1>e DEF TypeOK
  <2>3. Distinct(isReady'[d]) /\ Distinct(loot'[d])
    BY <1>1, <1>5, <1>e DEF QueueInv, TypeOK
  <2>4. \A x \in Tasks : In(x, isReady'[d]) => scheduler'[x] = d /\ status'[x] = "READY"
    <3> TAKE x \in Tasks
    <3>1. CASE In(x, loot[e])
      BY <1>1, <1>4, <1>8, <2>1, <3>1
    <3>2. CASE ~In(x, loot[e])
      BY <1>1, <1>8, <2>1, <3>2 DEF QueueInv
    <3> QED BY <3>1, <3>2
  <2>5. ASSUME NEW x \in Tasks, In(x, loot'[d])
        PROVE  /\ isStealable'[x] /\ status'[x] = "READY"
               /\ \A c \in Executors : ~In(x, isReady'[c]) /\ (In(x, loot'[c]) => c = d)
    <3>1. d # e /\ In(x, loot[d]) /\ ~In(x, loot[e])
      BY <1>4, <2>2, <2>5
    <3>2. /\ isStealable[x] /\ status[x] = "READY"
          /\ \A c \in Executors : ~In(x, isReady[c]) /\ (In(x, loot[c]) => c = d)
      BY <3>1 DEF QueueInv
    <3> QED BY <1>1, <2>1, <2>2, <3>1, <3>2
  <2> QED BY <2>3, <2>4, <2>5 DEF QueueInv
<1>14. \A d \in Executors : SizeInv(d)'
  BY <1>s DEF SizeInv
<1> QED BY <1>9, <1>10, <1>11, <1>12, <1>13, <1>14

-----------------------------------------------------------------------------
(* The theorems.  They are about Spec, where the locks given to wait are    *)
(* spin locks: in SpecMutex a registered task may be in a queue, and no     *)
(* invariant of this kind holds (see NoDuplicateReady).                     *)

(* Every step of every thread, timer and caller preserves the invariant. *)
LEMMA NextIInv == IInv /\ [Next]_vars => IInv'
<1> SUFFICES ASSUME IInv, [Next]_vars PROVE IInv'
  OBVIOUS
<1>1. ASSUME NEW e \in Executors, Thread(e) PROVE IInv'
  BY <1>1, MainLoopIInv, GetNextTaskIInv, StealScanIInv, StealTakeIInv, StealPutIInv,
     SwapOutIInv, EndTaskFlagIInv, EndTaskDeleteIInv, YieldIInv, BlockIInv, FinishIInv
     DEF Thread
<1>2. ASSUME NEW e \in Executors, SpuriousWakeup(e) \/ StopSchedulerMainLoop(e)
      PROVE  IInv'
  BY <1>2, SpuriousWakeupIInv, StopIInv
<1>3. ASSUME NEW t \in Tasks, Wake(t) PROVE IInv'
  BY <1>3, WakeIInv
<1>4. ASSUME NEW t \in Tasks, NEW creator \in 0..N, NEW pin \in 0..N,
             NEW immediately \in BOOLEAN, CreateBatchTask(t, creator, pin, immediately)
      PROVE  IInv'
  BY <1>4, CreateIInv
<1>5. CASE UNCHANGED vars
  <2> USE <1>5 DEF vars, IInv
  <2>1. TypeOK'
    BY DEF TypeOK
  <2>2. \A e \in Executors : ThreadInv(e)' /\ ContextInv(e)'
    BY DEF ThreadInv, ContextInv, Executing
  <2>3. \A t \in Tasks : TaskInv(t)'
    BY DEF TaskInv
  <2>4. \A e \in Executors : QueueInv(e)' /\ SizeInv(e)'
    BY DEF QueueInv, SizeInv
  <2> QED BY <2>1, <2>2, <2>3, <2>4
<1> QED BY <1>1, <1>2, <1>3, <1>4, <1>5 DEF Next

(* The inductive invariant holds in every reachable state: a task is in one *)
(* place at a time and stealable only while no thread is on its stack.      *)
THEOREM Invariance == Spec => []IInv
<1>1. IInv /\ [Next]_vars => IInv'
  BY NextIInv
<1> QED BY <1>1, InitIInv, PTL DEF Spec

(* Every variable keeps its type; in particular the unsigned sizeOfQueue    *)
(* never wraps below zero, although stealing updates it under one lock.     *)
THEOREM TypeCorrect == Spec => []TypeOK
<1>1. IInv => TypeOK
  BY DEF IInv
<1> QED BY <1>1, Invariance, PTL

(* No two kernel threads execute on the same task's stack: the handshake of *)
(* isStealable and scheduler replaces a lock around the context switch.     *)
THEOREM StackExclusion == Spec => []OneThreadPerStack
<1>1. IInv => OneThreadPerStack
  BY DEF IInv, OneThreadPerStack, ContextInv, TypeOK
<1> QED BY <1>1, Invariance, PTL

(* SwapOut enters only contexts that have been saved or never been run.     *)
THEOREM SavedContext == Spec => []EntersSavedContext
<1>1. IInv => EntersSavedContext
  <2>1. SUFFICES ASSUME IInv, NEW e \in Executors, pc[e] = "swap",
                        nextTask[e] \in Tasks, nextTask[e] # ctx[e],
                        uContext[nextTask[e]] = "live"
                 PROVE  FALSE
    BY DEF EntersSavedContext
  <2>2. scheduler[nextTask[e]] = e
    BY <2>1 DEF IInv, ContextInv
  <2>3. ctx[scheduler[nextTask[e]]] = nextTask[e]
    BY <2>1 DEF IInv, TaskInv
  <2> QED BY <2>1, <2>2, <2>3
<1> QED BY <1>1, Invariance, PTL

(* If the locks given to wait are spin locks, the assertion "Should not     *)
(* duplicate ready worksteal" of Enable and EnableImmediately never fails.  *)
THEOREM NoDuplicates == Spec => []NoDuplicateReady
<1>1. IInv => NoDuplicateReady
  <2>1. SUFFICES ASSUME IInv, NEW t \in Tasks,
                        t \in waker \/ \E e \in Executors : pc[e] = "run" /\ thisTask[e] = t
                 PROVE  \A d \in Executors : ~In(t, isReady[d]) /\ ~In(t, loot[d])
    BY DEF NoDuplicateReady
  <2>2. status[t] = "RUNNING"
    BY <2>1 DEF IInv, TaskInv, ThreadInv, ContextInv, Executing
  <2> QED BY <2>1, <2>2 DEF IInv, QueueInv
<1> QED BY <1>1, Invariance, PTL

(* Task code runs on the executor its scheduler pointer names, on a task    *)
(* that is neither finished nor deleted.                                    *)
THEOREM OwnTask == Spec => []RunsItsOwnTask
<1>1. IInv => RunsItsOwnTask
  <2>1. SUFFICES ASSUME IInv, NEW e \in Executors, pc[e] = "run"
                 PROVE  /\ thisTask[e] = ctx[e] /\ scheduler[thisTask[e]] = e
                        /\ status[thisTask[e]] = "RUNNING"
                        /\ deletes[thisTask[e]] = 0
    BY DEF RunsItsOwnTask
  <2>2. thisTask[e] = ctx[e] /\ ctx[e] \in Tasks
    BY <2>1 DEF IInv, ThreadInv
  <2>3. scheduler[ctx[e]] = e /\ status[ctx[e]] = "RUNNING"
    BY <2>1, <2>2 DEF IInv, ContextInv, Executing
  <2>4. deletes[ctx[e]] \in 0..2 /\ ~(deletes[ctx[e]] > 0)
    BY <2>1, <2>2, <2>3 DEF IInv, TaskInv, TypeOK
  <2>5. deletes[ctx[e]] = 0
    BY <2>4
  <2> QED BY <2>2, <2>3, <2>5
<1> QED BY <1>1, Invariance, PTL

(* The size every placement decision reads never understates the queue.     *)
THEOREM SizeCovers == Spec => []SizeCoversQueue
<1>1. IInv => SizeCoversQueue
  <2>1. SUFFICES ASSUME IInv, NEW e \in Executors PROVE sizeOfQueue[e] >= Len(isReady[e])
    BY DEF SizeCoversQueue
  <2>2. sizeOfQueue[e] \in Nat /\ Len(isReady[e]) \in Nat /\ Len(loot[e]) \in Nat
    BY <2>1, LenProperties DEF IInv, TypeOK
  <2>3. sizeOfQueue[e] >= Len(isReady[e]) + Len(loot[e])
    BY <2>1 DEF IInv, SizeInv
  <2>4. \A a, b, c \in Nat : a >= b + c => a >= b
    OBVIOUS
  <2> QED BY ONLY <2>2, <2>3, <2>4
<1> QED BY <1>1, Invariance, PTL

(* A task that has run on a shared stack never changes its executor.        *)
THEOREM StaysPut == Spec => SharedStackStaysPut
<1> DEFINE Put == \A t \in Tasks \ StandAlone :
                    uContext[t] # "fresh" => scheduler'[t] = scheduler[t]
<1>1. IInv /\ [Next]_vars => [Put]_vars
  <2>1. SUFFICES ASSUME IInv, Next, NEW t \in Tasks \ StandAlone, uContext[t] # "fresh"
                 PROVE  scheduler'[t] = scheduler[t]
    BY DEF vars
  <2>2. t \in Tasks /\ ~isStealable[t] /\ status[t] # "NEW"
    BY <2>1 DEF IInv, TaskInv
  <2>3. ASSUME NEW e \in Executors, StealPut(e) PROVE scheduler'[t] = scheduler[t]
    BY <2>2, <2>3 DEF StealPut
  <2>4. ASSUME NEW x \in Tasks, NEW creator \in 0..N, NEW pin \in 0..N,
               NEW immediately \in BOOLEAN, CreateBatchTask(x, creator, pin, immediately)
        PROVE  scheduler'[t] = scheduler[t]
    BY <2>1, <2>2, <2>4 DEF CreateBatchTask, IInv, TypeOK
  <2>5. ASSUME NEW e \in Executors, Thread(e), ~StealPut(e) PROVE UNCHANGED scheduler
    BY <2>5 DEF Thread, MainLoop, GetNextTask, AfterRound, StealScan, StealTake, SwapOut,
       EndTaskFlag, EndTaskDelete, Yield, Block, Finish, taskVars
  <2>6. ASSUME NEW e \in Executors, SpuriousWakeup(e) \/ StopSchedulerMainLoop(e)
        PROVE  UNCHANGED scheduler
    BY <2>6 DEF SpuriousWakeup, StopSchedulerMainLoop, taskVars
  <2>7. ASSUME NEW x \in Tasks, Wake(x) PROVE UNCHANGED scheduler
    BY <2>7 DEF Wake, taskVars
  <2> QED BY <2>1, <2>3, <2>4, <2>5, <2>6, <2>7 DEF Next
<1> QED BY <1>1, Invariance, PTL DEF Spec, SharedStackStaysPut

=============================================================================
