--------------------------- MODULE MonitorsProofs ---------------------------
(* Proofs about Monitors, for any number of tasks: no wake-up is lost, limits are
   kept, and elements are taken in the order they were put in.

   What makes the wake-ups cover is a balance. A task that goes to sleep has
   found nothing to take, and holds the lock until it is in the list (SleepInv).
   From then on whoever gives a permit, an element or a job also wakes one of
   those asleep, and whoever stops being awake has taken one or found none
   (CoverInv). At a channel of limited capacity with one reader and one writer
   the two are never asleep at the same time, so that the one who is woken is
   the one who has to be; with more of them it may be the wrong one, and only
   the limits and the order are left.                                        *)
EXTENDS Monitors, FiniteSetTheorems, SequenceTheorems, TLAPS

ObjectKinds == {"semaphore", "waitgroup", "channel", "variable", "logger", "pool"}
Labels == {"idle", "test", "awake", "sleep", "asleep", "notify", "closing", "exit"}
Waiting == {"test", "awake", "sleep", "asleep"}

TypeInv ==
    /\ kind \in ObjectKinds /\ cap \in Nat /\ count \in Int
    /\ queue \in Seq(Nat) /\ taken \in Seq(Nat) /\ put \in Nat
    /\ waitList \in Seq(Tasks)
    /\ pc \in [Tasks -> Labels]
    /\ DOMAIN op = Tasks
    /\ closed \in BOOLEAN
    /\ cap > 0 => kind = "channel"

\* The call a task waits in fits the object.
CallInv ==
    \A t \in Tasks :
        /\ pc[t] \in Waiting =>
             \/ kind \in {"semaphore", "waitgroup"} /\ op[t] = "Wait"
             \/ kind = "variable" /\ op[t] = "Get"
             \/ kind = "pool" /\ op[t] = "work"
             \/ kind = "logger" /\ op[t] = "flush"
             \/ kind = "channel" /\ op[t] = "push" /\ t \in Producers
             \/ kind = "channel" /\ op[t] = "pop" /\ t \in Consumers
        /\ pc[t] \in Waiting \ {"test"} /\ op[t] = "push" => cap > 0
        /\ pc[t] = "notify" => kind = "pool"

\* The list holds the tasks that are asleep, each once.
Distinct == \A i, j \in DOMAIN waitList : waitList[i] = waitList[j] => i = j
ListInv ==
    /\ Distinct
    /\ \A t \in Tasks : pc[t] = "asleep" <=> \E i \in DOMAIN waitList : waitList[i] = t

\* A task about to sleep has the lock, and nothing to take.
SleepInv ==
    \A t \in Tasks : pc[t] = "sleep" =>
        /\ lock = t
        /\ kind = "semaphore" => count <= 0
        /\ kind = "waitgroup" => count > 0
        /\ op[t] \in {"pop", "Get", "work"} => queue = <<>>
        /\ op[t] = "push" => Len(queue) >= cap

\* Add never lowers the counter.
Rising == Increments \subseteq Nat

\* While a task is asleep, as many tasks are awake as there is to take.
CoverInv ==
    \A t \in Tasks : pc[t] = "asleep" =>
        /\ kind = "semaphore" => count <= Cardinality(Awake)
        /\ kind = "waitgroup" /\ Rising => count > 0
        /\ kind = "pool" \/ (kind = "channel" /\ cap = 0) => Len(queue) <= Cardinality(Awake)
        /\ kind = "variable" => Len(queue) <= Cardinality(Awake) \/ closed = TRUE

IInv ==
    /\ TypeInv /\ CallInv /\ ListInv /\ SleepInv /\ CoverInv
    /\ LimitsKept /\ TakenInOrder

------------------------------------------------------------------------------
(* Counting tasks that are awake. *)

\* A set that keeps all but t, or gains u, has at least as many elements as said.
LEMMA Counting ==
    ASSUME NEW A \in SUBSET Tasks, NEW B \in SUBSET Tasks, NEW t, A \ {t} \subseteq B
    PROVE  /\ Cardinality(A) \in Nat /\ Cardinality(B) \in Nat
           /\ Cardinality(A) <= Cardinality(B) + 1
           /\ A \subseteq B => Cardinality(A) <= Cardinality(B)
           /\ \A u \in B \ A : /\ Cardinality(A) <= Cardinality(B)
                               /\ A \subseteq B => Cardinality(A) + 1 <= Cardinality(B)
<1>1. IsFiniteSet(A) /\ IsFiniteSet(B)
  BY TasksAssumption, FS_Subset
<1>2. Cardinality(A) \in Nat /\ Cardinality(B) \in Nat
  BY <1>1, FS_CardinalityType
<1>3. A \subseteq B => Cardinality(A) <= Cardinality(B)
  BY <1>1, FS_Subset
<1>4. Cardinality(A) <= Cardinality(B) + 1
  <2>1. A \subseteq B \cup {t} /\ IsFiniteSet(B \cup {t})
    BY <1>1, FS_AddElement
  <2>2. Cardinality(B \cup {t}) <= Cardinality(B) + 1
    <3>1. CASE t \in B
      <4>1. B \cup {t} = B
        BY <3>1
      <4> QED
        BY <1>2, <4>1
    <3>2. CASE t \notin B
      <4>1. Cardinality(B \cup {t}) = Cardinality(B) + 1
        BY <1>1, <3>2, FS_AddElement
      <4> QED
        BY <1>2, <4>1
    <3> QED
      BY <3>1, <3>2
  <2>3. Cardinality(A) <= Cardinality(B \cup {t}) /\ Cardinality(B \cup {t}) \in Nat
    BY <1>1, <2>1, FS_Subset, FS_CardinalityType
  <2> QED
    BY <1>2, <2>2, <2>3
<1>5. ASSUME NEW u \in B \ A PROVE Cardinality(A) <= Cardinality(B)
  <2>1. IsFiniteSet(A \ {t}) /\ u \notin A \ {t} /\ (A \ {t}) \cup {u} \subseteq B
    BY <1>1, FS_Subset
  <2>2. Cardinality((A \ {t}) \cup {u}) = Cardinality(A \ {t}) + 1
    BY <2>1, FS_AddElement
  <2>3. Cardinality((A \ {t}) \cup {u}) <= Cardinality(B)
    BY <1>1, <2>1, FS_Subset
  <2>4. Cardinality(A \ {t}) >= Cardinality(A) - 1 /\ Cardinality(A \ {t}) \in Nat
    BY <1>1, <1>2, FS_RemoveElement, FS_CardinalityType, <2>1
  <2> QED
    BY <1>2, <2>2, <2>3, <2>4
<1>6. ASSUME NEW u \in B \ A, A \subseteq B PROVE Cardinality(A) + 1 <= Cardinality(B)
  <2>1. A \cup {u} \subseteq B /\ u \notin A
    BY <1>6
  <2>2. Cardinality(A \cup {u}) = Cardinality(A) + 1
    BY <1>1, <2>1, FS_AddElement
  <2> QED
    BY <1>1, <2>1, <2>2, FS_Subset
<1> QED
  BY <1>2, <1>3, <1>4, <1>5, <1>6

\* The step of a task t to the label l that wakes the tasks W.
Moves(t, l, W) ==
    pc' = [u \in Tasks |-> IF u = t THEN l ELSE IF u \in W THEN "awake" ELSE pc[u]]

\* How many tasks are awake afterwards.
LEMMA AwakeAfter ==
    ASSUME TypeInv, NEW t \in Tasks, NEW l, NEW W \in SUBSET Tasks, Moves(t, l, W),
           \A u \in W : pc[u] = "asleep"
    PROVE  /\ Cardinality(Awake) \in Nat /\ Cardinality(Awake)' \in Nat
           /\ Cardinality(Awake) <= Cardinality(Awake)' + 1
           /\ t \notin Awake \/ l \in {"awake", "notify"} => Cardinality(Awake) <= Cardinality(Awake)'
           /\ \A u \in W \ {t} :
                /\ Cardinality(Awake) <= Cardinality(Awake)'
                /\ t \notin Awake => Cardinality(Awake) + 1 <= Cardinality(Awake)'
           /\ t \notin Awake /\ l \in {"awake", "notify"} => Cardinality(Awake) + 1 <= Cardinality(Awake)'
<1>1. Awake \in SUBSET Tasks /\ Awake' \in SUBSET Tasks
  BY DEF Awake
<1>2. /\ Awake \ {t} \subseteq Awake'
      /\ t \notin Awake \/ l \in {"awake", "notify"} => Awake \subseteq Awake'
      /\ \A u \in W \ {t} : u \in Awake' \ Awake
      /\ t \notin Awake /\ l \in {"awake", "notify"} => t \in Awake' \ Awake
  BY DEF Awake, Moves
<1> QED
  BY <1>1, <1>2, Counting

------------------------------------------------------------------------------
(* The list of those asleep. *)

\* One task leaves the list.
LEMMA OneWoken ==
    ASSUME TypeInv, ListInv, NEW t \in Tasks, NEW l, l # "asleep",
           NEW i \in DOMAIN waitList, WakeAt(i, t, l), pc[t] # "asleep" \/ waitList[i] = t
    PROVE  /\ waitList[i] \in Tasks /\ pc[waitList[i]] = "asleep"
           /\ Moves(t, l, {waitList[i]})
           /\ waitList' \in Seq(Tasks) /\ ListInv'
<1>1. PICK n \in Nat : n = Len(waitList) /\ DOMAIN waitList = 1..n /\ i \in 1..n
  BY DEF TypeInv
<1>2. \A j \in 1..n : waitList[j] \in Tasks
  BY <1>1 DEF TypeInv
<1>3. Moves(t, l, {waitList[i]}) /\ waitList' = RemoveAt(waitList, i)
  BY DEF WakeAt, Wake, Moves
<1>4. /\ waitList' \in Seq(Tasks) /\ Len(waitList') = n - 1 /\ DOMAIN waitList' = 1..(n - 1)
      /\ \A j \in 1..(n - 1) : waitList'[j] = IF j < i THEN waitList[j] ELSE waitList[j + 1]
  <2>1. PICK a : a = SubSeq(waitList, 1, i - 1)
    OBVIOUS
  <2>2. PICK b : b = SubSeq(waitList, i + 1, n)
    OBVIOUS
  <2>3. /\ a \in Seq(Tasks) /\ Len(a) = i - 1 /\ \A j \in 1..(i - 1) : a[j] = waitList[j]
    BY <1>1, <1>2, <2>1 DEF TypeInv
  <2>4. /\ b \in Seq(Tasks) /\ Len(b) = n - i /\ \A j \in 1..(n - i) : b[j] = waitList[j + i]
    BY <1>1, <1>2, <2>2 DEF TypeInv
  <2>5. waitList' = a \o b
    BY <1>1, <1>3, <2>1, <2>2 DEF RemoveAt
  <2>6. waitList' \in Seq(Tasks) /\ Len(waitList') = n - 1
    BY <1>1, <2>3, <2>4, <2>5
  <2>7. ASSUME NEW j \in 1..(n - 1)
        PROVE  waitList'[j] = IF j < i THEN waitList[j] ELSE waitList[j + 1]
    <3>1. CASE j < i
      BY <1>1, <2>3, <2>4, <2>5, <3>1
    <3>2. CASE ~(j < i)
      <4>1. j - Len(a) \in 1..(n - i) /\ (j - Len(a)) + i = j + 1 /\ j > Len(a)
        BY <1>1, <2>3, <3>2
      <4>2. (a \o b)[j] = b[j - Len(a)]
        <5>1. Len(a) + Len(b) = n - 1 /\ ~(j <= Len(a)) /\ j \in 1 .. Len(a) + Len(b)
          <6>1. Len(a) = i - 1 /\ Len(b) = n - i /\ i \in 1..n
            BY <1>1, <2>3, <2>4, Zenon
          <6> QED
            BY <3>2, <6>1
        <5>2. \A k \in 1 .. Len(a) + Len(b) :
                 (a \o b)[k] = IF k <= Len(a) THEN a[k] ELSE b[k - Len(a)]
          BY <2>3, <2>4, ConcatProperties, Zenon
        <5> QED
          BY <5>1, <5>2, Zenon
      <4> QED
        BY <2>4, <2>5, <3>2, <4>1, <4>2
    <3> QED
      BY <3>1, <3>2
  <2> QED
    BY <1>1, <2>6, <2>7
<1>5. pc[waitList[i]] = "asleep" /\ waitList[i] \in Tasks
  BY <1>1, <1>2 DEF ListInv
<1>6. Distinct'
  <2> SUFFICES ASSUME NEW j \in 1..(n - 1), NEW k \in 1..(n - 1), waitList'[j] = waitList'[k]
               PROVE  j = k
    BY <1>4 DEF Distinct
  <2>1. PICK j2 \in 1..n : j2 = (IF j < i THEN j ELSE j + 1) /\ waitList'[j] = waitList[j2]
    BY <1>1, <1>4
  <2>2. PICK k2 \in 1..n : k2 = (IF k < i THEN k ELSE k + 1) /\ waitList'[k] = waitList[k2]
    BY <1>1, <1>4
  <2>3. j2 = k2
    <3>1. waitList[j2] = waitList[k2] /\ j2 \in DOMAIN waitList /\ k2 \in DOMAIN waitList
      BY <1>1, <2>1, <2>2
    <3> QED
      BY <3>1 DEF ListInv, Distinct
  <2> QED
    BY <1>1, <2>1, <2>2, <2>3
<1>7. ASSUME NEW u \in Tasks
      PROVE  pc'[u] = "asleep" <=> \E j \in DOMAIN waitList' : waitList'[j] = u
  <2>1. pc'[u] = "asleep" <=> pc[u] = "asleep" /\ u # waitList[i]
    BY <1>3, <1>5 DEF Moves
  <2>2. ASSUME NEW j \in 1..(n - 1), waitList'[j] = u PROVE pc[u] = "asleep" /\ u # waitList[i]
    <3>1. PICK j2 \in 1..n : j2 # i /\ u = waitList[j2]
      BY <1>1, <1>4, <2>2
    <3> QED
      BY <1>1, <3>1 DEF ListInv, Distinct
  <2>3. ASSUME pc[u] = "asleep", u # waitList[i] PROVE \E j \in 1..(n - 1) : waitList'[j] = u
    <3>1. PICK j2 \in 1..n : waitList[j2] = u
      BY <1>1, <2>3 DEF ListInv
    <3>2. j2 < i \/ j2 > i
      BY <1>1, <2>3, <3>1
    <3>3. CASE j2 < i
      BY <1>1, <1>4, <3>1, <3>3
    <3>4. CASE j2 > i
      <4>1. j2 - 1 \in 1..(n - 1) /\ ~(j2 - 1 < i) /\ (j2 - 1) + 1 = j2
        BY <1>1, <3>4
      <4> QED
        BY <1>4, <3>1, <4>1
    <3> QED
      BY <3>2, <3>3, <3>4
  <2> QED
    BY <1>4, <2>1, <2>2, <2>3
<1> QED
  BY <1>3, <1>4, <1>5, <1>6, <1>7 DEF ListInv


\* A step of t to the label l that wakes W, which leaves the list as it has to be.
Woken(t, l, W) ==
    /\ W \in SUBSET Tasks /\ \A u \in W : pc[u] = "asleep"
    /\ Moves(t, l, W)
    /\ waitList' \in Seq(Tasks) /\ ListInv'

\* notify_one wakes a task unless nobody is asleep.
LEMMA NotifiesOne ==
    ASSUME TypeInv, ListInv, NEW t \in Tasks, NEW l, l # "asleep", pc[t] # "asleep",
           NotifyOne(t, l)
    PROVE  \E W : Woken(t, l, W) /\ (W = {} => \A u \in Tasks : pc[u] # "asleep")
<1>1. CASE waitList = <<>> /\ NotifyNobody(t, l)
  <2>1. Moves(t, l, {}) /\ waitList' = waitList
    BY <1>1 DEF NotifyNobody, Wake, Moves
  <2>2. \A u \in Tasks : pc[u] # "asleep"
    BY <1>1 DEF ListInv
  <2>3. \A u \in Tasks : pc'[u] # "asleep"
    BY <2>1, <2>2 DEF Moves
  <2>4. ListInv'
    BY <1>1, <2>1, <2>3 DEF ListInv, Distinct
  <2> QED
    BY <2>1, <2>2, <2>4 DEF Woken, TypeInv
<1>2. ASSUME NEW i \in DOMAIN waitList, WakeAt(i, t, l)
      PROVE  Woken(t, l, {waitList[i]})
  BY <1>2, OneWoken DEF Woken
<1> QED
  BY <1>1, <1>2 DEF NotifyOne

LEMMA NotifiesNobody ==
    ASSUME TypeInv, ListInv, NEW t \in Tasks, NEW l, l # "asleep", pc[t] # "asleep",
           Moves(t, l, {}), waitList' = waitList
    PROVE  Woken(t, l, {})
<1>1. \A u \in Tasks : pc'[u] = "asleep" <=> pc[u] = "asleep"
  BY DEF Moves
<1>2. ListInv'
  BY <1>1 DEF ListInv, Distinct
<1> QED
  BY <1>2 DEF Woken, TypeInv

\* Afterwards nobody is asleep.
LEMMA NotifiesAll ==
    ASSUME TypeInv, ListInv, NEW t \in Tasks, NEW l, l # "asleep", pc[t] # "asleep",
           NotifyAll(t, l)
    PROVE  \E W : Woken(t, l, W) /\ \A u \in Tasks : pc'[u] # "asleep"
<1>1. /\ \A u : u \in ToSet(waitList) => u \in Tasks /\ pc[u] = "asleep"
      /\ \A u \in Tasks : pc[u] = "asleep" => u \in ToSet(waitList)
  BY DEF ToSet, ListInv, TypeInv
<1>2. Moves(t, l, ToSet(waitList)) /\ waitList' = <<>>
  BY DEF NotifyAll, Wake, Moves
<1>3. \A u \in Tasks : pc'[u] # "asleep"
  BY <1>1, <1>2 DEF Moves
<1>4. ListInv'
  BY <1>2, <1>3 DEF ListInv, Distinct
<1>5. waitList' \in Seq(Tasks)
  BY <1>2, EmptySeq
<1> QED
  BY <1>1, <1>2, <1>3, <1>4, <1>5 DEF Woken

------------------------------------------------------------------------------
(* What most steps leave as it is. *)

\* The call of t, whose label changed to l, is all that CallInv and SleepInv
\* depend on, when nobody held the lock or nothing they mention changed.
LEMMA OthersKept ==
    ASSUME TypeInv, CallInv, SleepInv, NEW t \in Tasks, NEW l, NEW W, Woken(t, l, W),
           l \in Labels \ {"sleep", "asleep"},
           kind' = kind, cap' = cap, \A u \in Tasks \ {t} : op'[u] = op[u],
           lock' = lock, lock = Nobody \/ (count' = count /\ queue' = queue),
           CallInv!(t)'
    PROVE  CallInv' /\ SleepInv' /\ pc' \in [Tasks -> Labels]
<1>1. pc' \in [Tasks -> Labels] /\ pc'[t] = l
  BY DEF Woken, Moves, TypeInv, Labels
<1>2. ASSUME NEW u \in Tasks, u # t
      PROVE  /\ op'[u] = op[u]
             /\ pc'[u] # pc[u] => pc[u] = "asleep" /\ pc'[u] = "awake"
  BY <1>2 DEF Woken, Moves, TypeInv
<1>3. ASSUME NEW u \in Tasks, u # t PROVE CallInv!(u)'
  BY <1>2, <1>3 DEF CallInv, Waiting
<1>4. ASSUME NEW u \in Tasks PROVE SleepInv!(u)'
  <2> SUFFICES ASSUME pc'[u] = "sleep" PROVE SleepInv!(u)!2'
    OBVIOUS
  <2>1. u # t /\ pc[u] = "sleep" /\ op'[u] = op[u]
    BY <1>1, <1>2
  <2>2. lock = u /\ lock # Nobody
    BY <2>1, TasksAssumption DEF SleepInv
  <2> QED
    BY <2>1, <2>2 DEF SleepInv
<1> QED
  BY <1>1, <1>3, <1>4 DEF CallInv, SleepInv

\* Whoever is asleep after the step was asleep before it, and not woken by it.
LEMMA StillAsleep ==
    ASSUME NEW t \in Tasks, NEW l, NEW W, Woken(t, l, W), l # "asleep",
           NEW u \in Tasks, pc'[u] = "asleep"
    PROVE  u # t /\ u \notin W /\ pc[u] = "asleep"
BY DEF Woken, Moves

\* Nothing to take is added, and t is not one who was on the way to it.
LEMMA CoverKept ==
    ASSUME TypeInv, CoverInv, NEW t \in Tasks, NEW l, NEW W, Woken(t, l, W), l # "asleep",
           t \notin Awake \/ l \in {"awake", "notify"} \/ W # {},
           pc[t] # "asleep" \/ l \in {"awake", "notify"},
           kind' = kind, cap' = cap, \A u \in Tasks \ {t} : op'[u] = op[u],
           count' = count, queue' = queue, closed' \in {closed, TRUE}
    PROVE  CoverInv'
<1>1. Cardinality(Awake) \in Nat /\ Cardinality(Awake)' \in Nat /\ Cardinality(Awake) <= Cardinality(Awake)'
  <2>1. CASE t \notin Awake \/ l \in {"awake", "notify"}
    BY <2>1, AwakeAfter DEF Woken
  <2>2. CASE ~(t \notin Awake \/ l \in {"awake", "notify"})
    <3>1. PICK u : u \in W /\ u # t
      BY <2>2 DEF Woken, Awake
    <3> QED
      BY <3>1, AwakeAfter DEF Woken
  <2> QED
    BY <2>1, <2>2
<1>2. PICK a \in Nat : a = Cardinality(Awake)
  BY <1>1
<1>3. PICK b \in Nat : b = Cardinality(Awake)' /\ a <= b
  BY <1>1, <1>2
<1> SUFFICES ASSUME NEW u \in Tasks, pc'[u] = "asleep" PROVE CoverInv!(u)!2'
  BY DEF CoverInv
<1>4. u # t /\ pc[u] = "asleep" /\ op'[u] = op[u]
  BY StillAsleep
<1>5. CoverInv!(u)!2
  BY <1>4 DEF CoverInv
<1>6. count \in Int /\ Len(queue) \in Nat
  BY DEF TypeInv
<1>7. count <= a => count' <= b
  BY <1>2, <1>3, <1>6
<1>8. Len(queue) <= a => Len(queue)' <= b
  BY <1>2, <1>3, <1>6
<1>9. closed = TRUE => closed' = TRUE
  OBVIOUS
<1> QED
  BY <1>2, <1>3, <1>4, <1>5, <1>7, <1>8, <1>9, Zenon


------------------------------------------------------------------------------
(* The elements. *)

\* TakenInOrder, element by element.
Numbered(a, b, n) ==
    /\ Len(a) + Len(b) = n
    /\ \A i \in 1 .. Len(a) : a[i] = i
    /\ \A i \in 1 .. Len(b) : b[i] = Len(a) + i

LEMMA InOrder ==
    ASSUME NEW a \in Seq(Nat), NEW b \in Seq(Nat), NEW n \in Nat
    PROVE  a \o b = [i \in 1 .. n |-> i] <=> Numbered(a, b, n)
<1> DEFINE c == a \o b
           d == [i \in 1 .. n |-> i]
<1>1. /\ c \in Seq(Nat) /\ Len(c) = Len(a) + Len(b)
      /\ \A i \in 1 .. Len(a) + Len(b) : c[i] = IF i <= Len(a) THEN a[i] ELSE b[i - Len(a)]
  BY ConcatProperties
<1>2. d \in Seq(Nat) /\ Len(d) = n /\ \A i \in 1 .. n : d[i] = i
  OBVIOUS
<1>3. PICK m \in Nat : m = Len(a)
  OBVIOUS
<1>4. PICK k \in Nat : k = Len(b)
  OBVIOUS
<1> HIDE DEF c, d
<1>5. ASSUME c = d
      PROVE  /\ m + k = n /\ \A i \in 1 .. m : a[i] = i
             /\ \A i \in 1 .. k : b[i] = m + i
  <2>1. m + k = n /\ \A i \in 1 .. m + k : c[i] = i
    BY <1>1, <1>2, <1>3, <1>4, <1>5
  <2>2. ASSUME NEW i \in 1 .. m PROVE a[i] = i
    <3>1. i \in 1 .. m + k /\ i <= m
      OBVIOUS
    <3> QED
      BY <1>1, <1>3, <1>4, <2>1, <3>1
  <2>3. ASSUME NEW i \in 1 .. k PROVE b[i] = m + i
    <3>1. m + i \in 1 .. m + k /\ ~(m + i <= m) /\ (m + i) - m = i
      OBVIOUS
    <3> QED
      BY <1>1, <1>3, <1>4, <2>1, <3>1
  <2> QED
    BY <2>1, <2>2, <2>3
<1>6. ASSUME m + k = n, \A i \in 1 .. m : a[i] = i, \A i \in 1 .. k : b[i] = m + i
      PROVE  c = d
  <2>1. ASSUME NEW i \in 1 .. n PROVE c[i] = i
    <3>1. CASE i <= m
      BY <1>1, <1>3, <1>4, <1>6, <3>1
    <3>2. CASE ~(i <= m)
      <4>1. i - m \in 1 .. k /\ m + (i - m) = i
        BY <1>6, <3>2
      <4> QED
        BY <1>1, <1>3, <1>4, <1>6, <3>2, <4>1
    <3> QED
      BY <3>1, <3>2
  <2>2. Len(c) = n
    BY <1>1, <1>3, <1>4, <1>6
  <2> QED
    BY <1>1, <1>2, <2>1, <2>2, SeqEqual
<1> QED
  BY <1>3, <1>4, <1>5, <1>6 DEF c, d, Numbered

QueueType == queue \in Seq(Nat) /\ taken \in Seq(Nat) /\ put \in Nat

LEMMA Puts ==
    ASSUME QueueType, TakenInOrder, PutElement, UNCHANGED taken
    PROVE  QueueType' /\ TakenInOrder' /\ Len(queue)' = Len(queue) + 1
<1>1. PICK n \in Nat : n = put + 1
  BY DEF QueueType
<1>2. queue' = Append(queue, n) /\ put' = n /\ taken' = taken
  BY <1>1 DEF PutElement
<1>3. /\ queue' \in Seq(Nat) /\ Len(queue') = Len(queue) + 1
      /\ \A i \in 1 .. Len(queue) : queue'[i] = queue[i]
      /\ queue'[Len(queue) + 1] = n
  BY <1>2, AppendProperties DEF QueueType
<1>4. QueueType'
  BY <1>2, <1>3 DEF QueueType
<1>5. /\ Len(taken) + Len(queue) = put
      /\ \A i \in 1 .. Len(taken) : taken[i] = i
      /\ \A i \in 1 .. Len(queue) : queue[i] = Len(taken) + i
  <2>1. Numbered(taken, queue, put)
    BY InOrder DEF QueueType, TakenInOrder
  <2> QED
    BY <2>1 DEF Numbered
<1>6. Len(taken') + Len(queue') = put'
  BY <1>1, <1>2, <1>3, <1>5 DEF QueueType
<1>7. ASSUME NEW i \in 1 .. Len(queue') PROVE queue'[i] = Len(taken') + i
  <2>1. CASE i = Len(queue) + 1
    <3>1. n = Len(taken) + i
      <4>1. Len(taken) \in Nat /\ Len(queue) \in Nat
        BY DEF QueueType
      <4> QED
        BY <1>1, <1>5, <2>1, <4>1
    <3> QED
      BY <1>2, <1>3, <2>1, <3>1, Zenon
  <2>2. CASE i \in 1 .. Len(queue)
    BY <1>2, <1>3, <1>5, <2>2
  <2> QED
    BY <1>3, <2>1, <2>2 DEF QueueType
<1>8. taken' \o queue' = [i \in 1 .. put' |-> i]
  <2>1. \A i \in 1 .. Len(taken') : taken'[i] = i
    BY <1>2, <1>5
  <2>2. queue' \in Seq(Nat) /\ taken' \in Seq(Nat) /\ put' \in Nat
    BY <1>4 DEF QueueType
  <2> QED
    <3>1. Numbered(taken', queue', put')
      BY <1>6, <1>7, <2>1 DEF Numbered
    <3> QED
      BY <2>2, <3>1, InOrder
<1> QED
  BY <1>3, <1>4, <1>8 DEF TakenInOrder

LEMMA Takes ==
    ASSUME QueueType, TakenInOrder, queue # <<>>, TakeElement
    PROVE  QueueType' /\ TakenInOrder' /\ Len(queue)' = Len(queue) - 1 /\ Len(queue) > 0
<1>1. PICK h \in Nat : h = Head(queue) /\ h = queue[1] /\ Len(queue) \in Nat /\ Len(queue) > 0
  BY DEF QueueType
<1>2. queue' = Tail(queue) /\ taken' = Append(taken, h) /\ put' = put
  BY <1>1 DEF TakeElement
<1>3. /\ queue' \in Seq(Nat) /\ Len(queue') = Len(queue) - 1
      /\ \A i \in 1 .. Len(queue') : queue'[i] = queue[i + 1]
  BY <1>2, HeadTailProperties DEF QueueType
<1>4. /\ taken' \in Seq(Nat) /\ Len(taken') = Len(taken) + 1
      /\ \A i \in 1 .. Len(taken) : taken'[i] = taken[i]
      /\ taken'[Len(taken) + 1] = h
  BY <1>2, AppendProperties DEF QueueType
<1>5. /\ Len(taken) + Len(queue) = put
      /\ \A i \in 1 .. Len(taken) : taken[i] = i
      /\ \A i \in 1 .. Len(queue) : queue[i] = Len(taken) + i
  <2>1. Numbered(taken, queue, put)
    BY InOrder DEF QueueType, TakenInOrder
  <2> QED
    BY <2>1 DEF Numbered
<1>6. Len(taken') + Len(queue') = put' /\ Len(taken) \in Nat
  <2>1. Len(taken) \in Nat
    BY DEF QueueType
  <2> QED
    BY <1>1, <1>2, <1>3, <1>4, <1>5, <2>1
<1>7. ASSUME NEW i \in 1 .. Len(taken') PROVE taken'[i] = i
  <2>1. CASE i = Len(taken) + 1
    BY <1>1, <1>4, <1>5, <2>1
  <2>2. CASE i \in 1 .. Len(taken)
    BY <1>4, <1>5, <2>2
  <2> QED
    BY <1>4, <1>6, <2>1, <2>2
<1>8. ASSUME NEW i \in 1 .. Len(queue') PROVE queue'[i] = Len(taken') + i
  <2>1. i + 1 \in 1 .. Len(queue)
    BY <1>1, <1>3
  <2>2. queue'[i] = Len(taken) + (i + 1)
    BY <1>3, <1>5, <2>1
  <2> QED
    BY <1>4, <1>6, <2>2
<1>9. queue' \in Seq(Nat) /\ taken' \in Seq(Nat) /\ put' \in Nat
  BY <1>2, <1>3, <1>4 DEF QueueType
<1>10. taken' \o queue' = [i \in 1 .. put' |-> i]
  <2>1. Numbered(taken', queue', put')
    BY <1>6, <1>7, <1>8 DEF Numbered
  <2> QED
    BY <1>9, <2>1, InOrder
<1> QED
  BY <1>1, <1>3, <1>9, <1>10 DEF TakenInOrder, QueueType

\* A flush takes all.
LEMMA TakesAll ==
    ASSUME QueueType, TakenInOrder, taken' = taken \o queue, queue' = <<>>, put' = put
    PROVE  QueueType' /\ TakenInOrder'
<1>1. taken \o queue \in Seq(Nat) /\ <<>> \in Seq(Nat)
  BY ConcatProperties, EmptySeq DEF QueueType
<1>2. (taken \o queue) \o <<>> = taken \o queue
  BY <1>1, ConcatEmptySeq
<1> QED
  BY <1>1, <1>2 DEF QueueType, TakenInOrder


------------------------------------------------------------------------------
(* Putting a step together. *)

\* What steps under the lock, and steps that give and take nothing, have to show.
LEMMA Assembled ==
    ASSUME IInv, NEW t \in Tasks, NEW l, NEW W, Woken(t, l, W),
           l \in Labels \ {"sleep", "asleep"}, CallInv!(t)',
           kind' = kind, cap' = cap, lock' = lock, closed' \in BOOLEAN,
           DOMAIN op' = Tasks, \A u \in Tasks \ {t} : op'[u] = op[u],
           lock = Nobody \/ (count' = count /\ queue' = queue),
           count' \in Int, QueueType', TakenInOrder', LimitsKept', CoverInv'
    PROVE  IInv'
<1>1. CallInv' /\ SleepInv' /\ pc' \in [Tasks -> Labels]
  BY OthersKept DEF IInv
<1>2. TypeInv'
  BY <1>1 DEF IInv, TypeInv, QueueType, Woken
<1> QED
  BY <1>1, <1>2 DEF IInv, Woken

LEMMA NothingGiven ==
    ASSUME IInv, NEW t \in Tasks, NEW l, NEW W, Woken(t, l, W),
           l \in Labels \ {"sleep", "asleep"}, CallInv!(t)',
           t \notin Awake \/ l \in {"awake", "notify"} \/ W # {},
           pc[t] # "asleep" \/ l \in {"awake", "notify"},
           UNCHANGED <<kind, cap, lock, count, queue, put, taken>>,
           closed' \in BOOLEAN, closed' \in {closed, TRUE},
           DOMAIN op' = Tasks, \A u \in Tasks \ {t} : op'[u] = op[u]
    PROVE  IInv'
<1>1. CoverInv'
  BY CoverKept DEF IInv
<1>2. count' \in Int /\ QueueType' /\ TakenInOrder' /\ LimitsKept'
  BY DEF IInv, TypeInv, QueueType, TakenInOrder, LimitsKept
<1> QED
  BY <1>1, <1>2, Assembled

\* The cover is kept if what there is to take grows by no more than those awake.
LEMMA CoverBalanced ==
    ASSUME IInv, NEW t \in Tasks, NEW l, NEW W, Woken(t, l, W), l # "asleep",
           kind' = kind, cap' = cap, closed' = closed, \A u \in Tasks \ {t} : op'[u] = op[u],
           kind = "semaphore" => (count <= Cardinality(Awake) => count' <= Cardinality(Awake)'),
           kind = "waitgroup" /\ Rising => (count > 0 => count' > 0),
           kind \in {"pool", "variable", "channel"} /\ cap = 0 =>
             (Len(queue) <= Cardinality(Awake) => Len(queue)' <= Cardinality(Awake)'),
           cap > 0 => queue' = queue
    PROVE  CoverInv'
<1> SUFFICES ASSUME NEW u \in Tasks, pc'[u] = "asleep" PROVE CoverInv!(u)!2'
  BY DEF CoverInv
<1>1. u # t /\ pc[u] = "asleep" /\ op'[u] = op[u]
  BY StillAsleep
<1>2. CoverInv!(u)!2
  BY <1>1 DEF IInv, CoverInv
<1>3. kind # "channel" => cap = 0
  BY DEF IInv, TypeInv
<1> QED
  BY <1>1, <1>2, <1>3

\* Where nobody is asleep there is nothing to cover.
LEMMA NobodyAsleep ==
    ASSUME \A u \in Tasks : pc'[u] # "asleep"
    PROVE  CoverInv'
BY DEF CoverInv

------------------------------------------------------------------------------
(* One lemma for each kind of step. *)

LEMMA BeginStep ==
    ASSUME IInv, NEW t \in Tasks, Call(t) \/ Push(t) \/ Pop(t) \/ Loop(t)
    PROVE  IInv'
<1>1. /\ pc[t] = "idle" /\ waitList' = waitList
      /\ UNCHANGED <<kind, cap, lock, count, queue, put, taken, closed>>
  BY DEF Call, Push, Pop, Loop, Begin
<1>2. TypeInv /\ ListInv /\ DOMAIN op = Tasks /\ closed \in BOOLEAN /\ pc \in [Tasks -> Labels]
  BY DEF IInv, TypeInv
<1>3. \E l \in {"idle", "test", "exit"} : pc' = [pc EXCEPT ![t] = l]
  BY DEF Call, Push, Pop, Loop
<1>4. PICK l \in {"idle", "test", "exit"} : pc' = [pc EXCEPT ![t] = l]
  BY <1>3
<1>5. Moves(t, l, {})
  BY <1>2, <1>4 DEF Moves
<1>6. Woken(t, l, {})
  BY <1>1, <1>2, <1>5, NotifiesNobody
<1>7. DOMAIN op' = Tasks /\ \A u \in Tasks \ {t} : op'[u] = op[u]
  BY <1>2 DEF Call, Push, Pop, Loop, Begin
<1>8. CallInv!(t)'
  <2>1. pc'[t] = l
    BY <1>2, <1>4
  <2> SUFFICES ASSUME l = "test" PROVE CallInv!(t)!1!2'
    BY <2>1 DEF Waiting
  <2>2. CASE Call(t)
    BY <1>2, <2>2 DEF Call, Begin
  <2>3. CASE Push(t)
    BY <1>2, <2>3 DEF Push, Begin
  <2>4. CASE Pop(t)
    BY <1>2, <2>4 DEF Pop, Begin
  <2>5. CASE Loop(t)
    BY <1>2, <2>5 DEF Loop
  <2> QED
    BY <2>2, <2>3, <2>4, <2>5
<1>9. t \notin Awake /\ l \in Labels \ {"sleep", "asleep"}
  BY <1>1 DEF Awake, Labels
<1> QED
  BY <1>1, <1>2, <1>6, <1>7, <1>8, <1>9, NothingGiven


\* A task that finds nothing to take is no loss to the cover.
LEMMA TestFailsStep ==
    ASSUME IInv, NEW t \in Tasks, TestFails(t)
    PROVE  IInv'
<1>1. /\ pc[t] \in {"test", "awake"} /\ lock = Nobody /\ ~Ready(t) /\ lock' = t
      /\ pc' = [pc EXCEPT ![t] = "sleep"]
      /\ UNCHANGED <<kind, cap, count, queue, closed, waitList, op, put, taken>>
  BY DEF TestFails
<1>2. TypeInv /\ pc \in [Tasks -> Labels] /\ CallInv /\ SleepInv /\ CoverInv /\ ListInv
  BY DEF IInv, TypeInv
<1>3. Moves(t, "sleep", {}) /\ pc[t] # "asleep"
  BY <1>1, <1>2 DEF Moves
<1>4. Woken(t, "sleep", {})
  BY <1>1, <1>2, <1>3, NotifiesNobody
<1>5. \A u \in Tasks : pc'[u] = IF u = t THEN "sleep" ELSE pc[u]
  BY <1>1, <1>2
<1>6. /\ kind = "semaphore" => count <= 0
      /\ kind = "waitgroup" => count > 0
      /\ op[t] \in {"pop", "Get", "work"} => queue = <<>> /\ closed = FALSE
      /\ op[t] = "push" => cap > 0 /\ Len(queue) >= cap
  <2>1. CallInv!(t)!1!2
    BY <1>1, <1>2 DEF CallInv, Waiting
  <2>2. count \in Int /\ cap \in Nat /\ Len(queue) \in Nat /\ closed \in BOOLEAN
    BY <1>2 DEF TypeInv
  <2>3. CASE op[t] = "Wait"
    BY <1>1, <2>1, <2>2, <2>3 DEF Ready
  <2>4. CASE op[t] = "push"
    BY <1>1, <2>1, <2>2, <2>4 DEF Ready
  <2>5. CASE op[t] \in {"pop", "Get", "work"}
    BY <1>1, <2>1, <2>2, <2>5 DEF Ready
  <2>6. CASE op[t] = "flush"
    BY <2>1, <2>6
  <2> QED
    BY <2>1, <2>3, <2>4, <2>5, <2>6
<1>7. CallInv'
  <2>1. ASSUME NEW u \in Tasks, u # t PROVE CallInv!(u)'
    BY <1>1, <1>2, <1>5, <2>1 DEF CallInv
  <2>2. CallInv!(t)'
    BY <1>1, <1>2, <1>5, <1>6 DEF CallInv, Waiting
  <2> QED
    BY <2>1, <2>2 DEF CallInv
<1>8. SleepInv'
  <2>1. ASSUME NEW u \in Tasks, u # t PROVE pc'[u] # "sleep"
    BY <1>1, <1>2, <1>5, <2>1, TasksAssumption DEF SleepInv
  <2>2. SleepInv!(t)!2'
    BY <1>1, <1>6
  <2> QED
    BY <2>1, <2>2 DEF SleepInv
<1>9. CoverInv'
  <2>1. Cardinality(Awake) \in Nat /\ Cardinality(Awake)' \in Nat
    BY <1>2, <1>3, AwakeAfter
  <2> SUFFICES ASSUME NEW u \in Tasks, pc'[u] = "asleep" PROVE CoverInv!(u)!2'
    BY DEF CoverInv
  <2>2. u # t /\ pc[u] = "asleep"
    BY <1>5
  <2>3. CoverInv!(u)!2
    BY <1>2, <2>2 DEF CoverInv
  <2>4. kind = "semaphore" => count' <= Cardinality(Awake)'
    BY <1>1, <1>2, <1>6, <2>1 DEF TypeInv
  <2>5. kind \in {"pool", "variable"} \/ (kind = "channel" /\ cap = 0) => Len(queue)' <= Cardinality(Awake)'
    <3> SUFFICES ASSUME kind \in {"pool", "variable"} \/ (kind = "channel" /\ cap = 0)
                 PROVE  Len(queue)' = 0
      BY <2>1
    <3>1. op[t] \in {"pop", "Get", "work"}
      BY <1>1, <1>2, <1>6 DEF CallInv, Waiting, TypeInv
    <3> QED
      BY <1>1, <1>6, <3>1, EmptySeq
  <2> QED
    BY <1>1, <2>3, <2>4, <2>5
<1>10. TypeInv' /\ TakenInOrder' /\ LimitsKept'
  BY <1>1, <1>2 DEF IInv, TypeInv, TakenInOrder, LimitsKept, Labels
<1> QED
  BY <1>4, <1>7, <1>8, <1>9, <1>10 DEF IInv, Woken

\* The lock was held since the predicate was tested.
LEMMA SleepStep ==
    ASSUME IInv, NEW t \in Tasks, Sleep(t)
    PROVE  IInv'
<1>1. /\ pc[t] = "sleep" /\ lock' = Nobody
      /\ waitList' = Append(waitList, t)
      /\ pc' = [pc EXCEPT ![t] = "asleep"]
      /\ UNCHANGED <<kind, cap, count, queue, closed, op, put, taken>>
  BY DEF Sleep
<1>2. TypeInv /\ pc \in [Tasks -> Labels] /\ CallInv /\ SleepInv /\ CoverInv /\ ListInv
  BY DEF IInv, TypeInv
<1>3. \A u \in Tasks : pc'[u] = IF u = t THEN "asleep" ELSE pc[u]
  BY <1>1, <1>2
<1>4. waitList' \in Seq(Tasks) /\ ListInv'
  <2>1. PICK n \in Nat : n = Len(waitList) /\ DOMAIN waitList = 1..n
    BY <1>2 DEF TypeInv
  <2>2. /\ waitList' \in Seq(Tasks) /\ DOMAIN waitList' = 1..(n + 1)
        /\ \A i \in 1..n : waitList'[i] = waitList[i] /\ waitList[i] # t
        /\ waitList'[n + 1] = t
    <3>1. /\ waitList' \in Seq(Tasks) /\ Len(waitList') = n + 1
          /\ \A i \in 1..n : waitList'[i] = waitList[i]
          /\ waitList'[n + 1] = t
      BY <1>1, <1>2, <2>1, AppendProperties DEF TypeInv
    <3>2. \A i \in 1..n : waitList[i] # t
      BY <1>1, <1>2, <2>1 DEF ListInv
    <3> QED
      BY <3>1, <3>2
  <2>3. \A i \in 1..(n + 1) : i \in 1..n \/ i = n + 1
    BY <2>1
  <2>4. Distinct'
    <3> SUFFICES ASSUME NEW i \in 1..(n + 1), NEW j \in 1..(n + 1), waitList'[i] = waitList'[j]
                 PROVE  i = j
      BY <2>2 DEF Distinct
    <3>1. CASE i \in 1..n /\ j \in 1..n
      BY <1>2, <2>1, <2>2, <3>1 DEF ListInv, Distinct
    <3> QED
      BY <2>2, <2>3, <3>1
  <2>5. ASSUME NEW u \in Tasks
        PROVE  pc'[u] = "asleep" <=> \E i \in DOMAIN waitList' : waitList'[i] = u
    <3>1. n + 1 \in 1..(n + 1) /\ \A i \in 1..n : i \in 1..(n + 1)
      BY <2>1
    <3>2. CASE u = t
      BY <1>3, <2>2, <3>1, <3>2
    <3>3. CASE u # t
      <4>1. pc'[u] = "asleep" <=> \E i \in 1..n : waitList[i] = u
        BY <1>2, <1>3, <2>1, <3>3 DEF ListInv
      <4> QED
        BY <2>2, <2>3, <3>1, <3>3, <4>1
    <3> QED
      BY <3>2, <3>3
  <2> QED
    BY <2>2, <2>4, <2>5 DEF ListInv
<1>5. CallInv'
  <2>1. ASSUME NEW u \in Tasks PROVE CallInv!(u)'
    BY <1>1, <1>2, <1>3 DEF CallInv, Waiting
  <2> QED
    BY <2>1 DEF CallInv
<1>6. SleepInv'
  <2>1. ASSUME NEW u \in Tasks PROVE pc'[u] # "sleep"
    BY <1>1, <1>2, <1>3 DEF SleepInv
  <2> QED
    BY <2>1 DEF SleepInv
<1>7. CoverInv'
  <2>1. Cardinality(Awake) \in Nat /\ Awake' = Awake
    <3>1. Awake \in SUBSET Tasks
      BY DEF Awake
    <3>2. Cardinality(Awake) \in Nat
      BY <3>1, TasksAssumption, FS_Subset, FS_CardinalityType
    <3> QED
      BY <1>1, <1>3, <3>2 DEF Awake
  <2>2. PICK a \in Nat : a = Cardinality(Awake)
    BY <2>1
  <2>3. a = Cardinality(Awake)'
    BY <2>1, <2>2
  <2>4. ASSUME NEW u \in Tasks, u # t, pc'[u] = "asleep" PROVE CoverInv!(u)!2'
    <3>1. CoverInv!(u)!2
      BY <1>2, <1>3, <2>4 DEF CoverInv
    <3> QED
      BY <1>1, <2>2, <2>3, <3>1
  <2>5. CoverInv!(t)!2'
    <3>1. SleepInv!(t)!2 /\ CallInv!(t)!1!2
      BY <1>1, <1>2 DEF SleepInv, CallInv, Waiting
    <3>2. op[t] \in {"pop", "Get", "work"} => Len(queue)' = 0
      BY <1>1, <3>1, EmptySeq
    <3>3. op[t] = "push" => cap > 0
      BY <1>1, <1>2 DEF CallInv, Waiting
    <3>4. count \in Int /\ cap \in Nat
      BY <1>2 DEF TypeInv
    <3>5. kind = "semaphore" => count' <= a
      BY <1>1, <2>2, <3>1, <3>4
    <3>6. kind \in {"pool", "variable"} \/ (kind = "channel" /\ cap = 0) => Len(queue)' <= a
      BY <2>2, <3>1, <3>2, <3>3, <3>4
    <3> QED
      BY <1>1, <2>3, <3>1, <3>5, <3>6
  <2> QED
    BY <2>4, <2>5 DEF CoverInv
<1>8. TypeInv' /\ TakenInOrder' /\ LimitsKept'
  BY <1>1, <1>2, <1>4 DEF IInv, TypeInv, TakenInOrder, LimitsKept, Labels
<1> QED
  BY <1>4, <1>5, <1>6, <1>7, <1>8 DEF IInv


\* Steps that only wake: Notice passes its place on to the one it wakes.
LEMMA WakeStep ==
    ASSUME IInv, NEW t \in Tasks, Spurious(t) \/ Notice(t) \/ Close(t) \/ Closing(t)
    PROVE  IInv'
<1>1. TypeInv /\ ListInv /\ DOMAIN op = Tasks /\ closed \in BOOLEAN /\ pc \in [Tasks -> Labels]
  BY DEF IInv, TypeInv
<1>2. /\ UNCHANGED <<kind, cap, lock, count, queue, put, taken, op>>
      /\ closed' \in BOOLEAN /\ closed' \in {closed, TRUE}
  BY <1>1 DEF Spurious, Notice, Close, Closing
<1>3. DOMAIN op' = Tasks /\ \A u \in Tasks \ {t} : op'[u] = op[u]
  BY <1>1, <1>2
<1>4. ASSUME NEW l \in {"idle", "closing"}, NEW W, Woken(t, l, W) PROVE CallInv!(t)'
  <2>1. pc'[t] = l
    BY <1>4 DEF Woken, Moves
  <2> QED
    BY <2>1 DEF Waiting
<1>5. {"idle", "closing", "awake"} \subseteq Labels \ {"sleep", "asleep"}
  BY DEF Labels
<1>6. CASE Spurious(t)
  <2>1. PICK i \in DOMAIN waitList : waitList[i] = t /\ WakeAt(i, t, "awake")
    BY <1>6 DEF Spurious
  <2>2. pc[t] = "asleep" /\ Woken(t, "awake", {t})
    BY <1>1, <2>1, OneWoken DEF Woken
  <2>3. CallInv!(t)'
    <3>1. pc'[t] = "awake"
      BY <2>2 DEF Woken, Moves
    <3> QED
      BY <1>2, <2>2, <3>1 DEF IInv, CallInv, Waiting
  <2> QED
    BY <1>2, <1>3, <1>5, <2>2, <2>3, NothingGiven
<1>7. ASSUME NEW l \in {"idle", "closing"}, NotifyOne(t, l), pc[t] \in {"idle", "notify", "closing"}
      PROVE  IInv'
  <2>1. PICK W : Woken(t, l, W) /\ (W = {} => \A u \in Tasks : pc[u] # "asleep")
    BY <1>1, <1>7, NotifiesOne
  <2>2. CallInv!(t)'
    BY <1>4, <2>1
  <2>3. CASE W # {}
    BY <1>2, <1>3, <1>5, <1>7, <2>1, <2>2, <2>3, NothingGiven
  <2>4. CASE W = {}
    <3>1. \A u \in Tasks : pc'[u] # "asleep"
      BY <2>1, <2>4, StillAsleep
    <3>2. CoverInv'
      BY <3>1, NobodyAsleep
    <3>3. count' \in Int /\ QueueType' /\ TakenInOrder' /\ LimitsKept'
      BY <1>2 DEF IInv, TypeInv, QueueType, TakenInOrder, LimitsKept
    <3> QED
      BY <1>2, <1>3, <1>5, <1>7, <2>1, <2>2, <3>2, <3>3, Assembled
  <2> QED
    BY <2>3, <2>4
<1>8. ASSUME NEW l \in {"idle", "closing"}, NotifyNobody(t, l), pc[t] \in {"idle", "closing"}
      PROVE  IInv'
  <2>1. Moves(t, l, {}) /\ waitList' = waitList
    BY <1>8 DEF NotifyNobody, Wake, Moves
  <2>2. Woken(t, l, {}) /\ t \notin Awake
    BY <1>1, <1>8, <2>1, NotifiesNobody DEF Awake
  <2>3. CallInv!(t)'
    BY <1>4, <2>2
  <2> QED
    BY <1>2, <1>3, <1>5, <1>8, <2>2, <2>3, NothingGiven
<1>9. ASSUME NotifyAll(t, "idle"), pc[t] = "closing"
      PROVE  IInv'
  <2>1. PICK W : Woken(t, "idle", W) /\ \A u \in Tasks : pc'[u] # "asleep"
    BY <1>1, <1>9, NotifiesAll
  <2>2. CoverInv' /\ CallInv!(t)'
    BY <1>4, <2>1, NobodyAsleep
  <2>3. count' \in Int /\ QueueType' /\ TakenInOrder' /\ LimitsKept'
    BY <1>2 DEF IInv, TypeInv, QueueType, TakenInOrder, LimitsKept
  <2> QED
    BY <1>2, <1>3, <1>5, <2>1, <2>2, <2>3, Assembled
<1> QED
  BY <1>6, <1>7, <1>8, <1>9 DEF Notice, Close, Closing

------------------------------------------------------------------------------
(* Steps that give, all of tasks that were in no call. *)

LEMMA Given ==
    ASSUME IInv, NEW t \in Tasks, pc[t] = "idle", lock = Nobody,
           NEW l \in {"idle", "notify"}, NEW W, Woken(t, l, W),
           l = "notify" => kind = "pool",
           UNCHANGED <<kind, cap, closed, lock>>, op' = [op EXCEPT ![t] = "none"],
           count' \in Int, QueueType', TakenInOrder', LimitsKept', CoverInv'
    PROVE  IInv'
<1>1. closed' \in BOOLEAN /\ DOMAIN op' = Tasks /\ \A u \in Tasks \ {t} : op'[u] = op[u]
  BY DEF IInv, TypeInv
<1>2. pc'[t] = l
  BY DEF Woken, Moves
<1>3. CallInv!(t)' /\ l \in Labels \ {"sleep", "asleep"}
  BY <1>2 DEF Waiting, Labels
<1> QED
  BY <1>1, <1>3, Assembled

\* Semaphore and WaitGroup.
LEMMA CounterStep ==
    ASSUME IInv, NEW t \in Tasks, Signal(t) \/ TryWait(t) \/ Add(t) \/ Done(t)
    PROVE  IInv'
<1>1. TypeInv /\ ListInv /\ pc \in [Tasks -> Labels] /\ count \in Int
  BY DEF IInv, TypeInv
<1>2. /\ pc[t] = "idle" /\ lock = Nobody /\ kind \in {"semaphore", "waitgroup"}
      /\ UNCHANGED <<kind, cap, closed, lock, queue, put, taken>>
      /\ op' = [op EXCEPT ![t] = "none"]
  BY DEF Signal, TryWait, Add, Done, Begin
<1>3. QueueType' /\ TakenInOrder' /\ cap = 0
  BY <1>2 DEF IInv, TypeInv, QueueType, TakenInOrder
<1>4. t \notin Awake /\ \A u \in Tasks \ {t} : op'[u] = op[u]
  BY <1>2, <1>1 DEF Awake, TypeInv
<1>5. count' \in Int /\ LimitsKept'
  <2>1. CASE Add(t)
    <3>1. PICK i \in Increments : count' = count + i
      BY <2>1 DEF Add
    <3>2. i \in Int
      BY SizeAssumption
    <3> QED
      BY <1>1, <1>2, <1>3, <2>1, <3>1, <3>2 DEF Add, LimitsKept
  <2>2. CASE ~Add(t)
    BY <1>1, <1>2, <1>3, <2>2 DEF Signal, TryWait, Done, IInv, LimitsKept
  <2> QED
    BY <2>1, <2>2
<1>6. ASSUME NEW W, Woken(t, "idle", W)
      PROVE  /\ Cardinality(Awake) \in Nat /\ Cardinality(Awake)' \in Nat
             /\ Cardinality(Awake) <= Cardinality(Awake)'
             /\ W # {} => Cardinality(Awake) + 1 <= Cardinality(Awake)'
  <2>1. \A u \in W : u # t
    BY <1>2, <1>6 DEF Woken
  <2> QED
    BY <1>1, <1>4, <1>6, <2>1, AwakeAfter DEF Woken
<1>7. ASSUME TryWait(t) \/ Add(t) \/ (Done(t) /\ NotifyNobody(t, "idle") /\ count' > 0)
      PROVE  IInv'
  <2>1. Moves(t, "idle", {}) /\ waitList' = waitList
    BY <1>1, <1>2, <1>7 DEF TryWait, Add, NotifyNobody, Wake, Moves
  <2>2. Woken(t, "idle", {})
    BY <1>1, <1>2, <2>1, NotifiesNobody
  <2>3. /\ kind = "semaphore" => count' <= count
        /\ kind = "waitgroup" /\ Rising => (count > 0 => count' > 0)
    <3>1. CASE Add(t)
      <4>1. PICK i \in Increments : count' = count + i
        BY <3>1 DEF Add
      <4>2. Rising => i \in Nat
        BY DEF Rising
      <4> QED
        BY <1>1, <3>1, <4>1, <4>2 DEF Add
    <3>2. CASE ~Add(t)
      BY <1>1, <1>7, <3>2 DEF TryWait, Done
    <3> QED
      BY <3>1, <3>2
  <2>4. kind = "semaphore" => (count <= Cardinality(Awake) => count' <= Cardinality(Awake)')
    BY <1>1, <1>5, <1>6, <2>2, <2>3
  <2>5. CoverInv'
    BY <1>2, <1>3, <1>4, <2>2, <2>3, <2>4, CoverBalanced
  <2> QED
    BY <1>2, <1>3, <1>5, <2>2, <2>5, Given
<1>8. CASE Signal(t)
  <2>1. PICK W : Woken(t, "idle", W) /\ (W = {} => \A u \in Tasks : pc[u] # "asleep")
    BY <1>1, <1>2, <1>8, NotifiesOne DEF Signal
  <2>2. CoverInv'
    <3>1. CASE W = {}
      BY <2>1, <3>1, StillAsleep, NobodyAsleep
    <3>2. CASE W # {}
      <4>1. count <= Cardinality(Awake) => count' <= Cardinality(Awake)'
        BY <1>1, <1>6, <1>8, <2>1, <3>2 DEF Signal
      <4> QED
        BY <1>2, <1>3, <1>4, <1>8, <2>1, <4>1, CoverBalanced DEF Signal
    <3> QED
      BY <3>1, <3>2
  <2> QED
    BY <1>2, <1>3, <1>5, <2>1, <2>2, Given
<1>9. CASE Done(t) /\ NotifyAll(t, "idle")
  <2>1. PICK W : Woken(t, "idle", W) /\ \A u \in Tasks : pc'[u] # "asleep"
    BY <1>1, <1>2, <1>9, NotifiesAll
  <2> QED
    BY <1>2, <1>3, <1>5, <2>1, NobodyAsleep, Given
<1>10. Done(t) => NotifyAll(t, "idle") \/ (NotifyNobody(t, "idle") /\ count' > 0)
  BY <1>5 DEF Done, AllDone
<1> QED
  BY <1>7, <1>8, <1>9, <1>10


\* BroadcastVariable, logger and thread pool.
LEMMA PutStep ==
    ASSUME IInv, NEW t \in Tasks, AppendElement(t) \/ LogRaw(t) \/ Enqueue(t)
    PROVE  IInv'
<1>1. TypeInv /\ ListInv /\ pc \in [Tasks -> Labels] /\ QueueType /\ TakenInOrder /\ Len(queue) \in Nat
  BY DEF IInv, TypeInv, QueueType
<1>2. /\ pc[t] = "idle" /\ lock = Nobody /\ kind \in {"variable", "logger", "pool"}
      /\ UNCHANGED <<kind, cap, closed, lock, count, taken>>
      /\ op' = [op EXCEPT ![t] = "none"]
  BY DEF AppendElement, LogRaw, Enqueue, Begin
<1>3. cap = 0 /\ count' \in Int /\ LimitsKept'
  BY <1>2 DEF IInv, TypeInv, LimitsKept
<1>4. t \notin Awake /\ \A u \in Tasks \ {t} : op'[u] = op[u]
  BY <1>2, <1>1 DEF Awake, TypeInv
<1>5. PutElement => QueueType' /\ TakenInOrder' /\ Len(queue)' = Len(queue) + 1
  BY <1>1, <1>2, Puts
<1>6. ASSUME Enqueue(t), closed PROVE IInv'
  <2>1. Moves(t, "idle", {}) /\ waitList' = waitList /\ queue' = queue /\ put' = put
    BY <1>1, <1>2, <1>6 DEF Enqueue, Moves
  <2>2. Woken(t, "idle", {})
    BY <1>1, <1>2, <2>1, NotifiesNobody
  <2>3. QueueType' /\ TakenInOrder'
    BY <1>1, <1>2, <2>1 DEF QueueType, TakenInOrder
  <2>4. CoverInv'
    BY <1>1, <1>2, <1>4, <2>1, <2>2, CoverKept DEF IInv
  <2> QED
    BY <1>2, <1>3, <2>2, <2>3, <2>4, Given
<1>7. ASSUME Enqueue(t), ~closed PROVE IInv'
  <2>1. PutElement /\ Moves(t, "notify", {}) /\ waitList' = waitList /\ kind = "pool"
    BY <1>1, <1>7 DEF Enqueue, Moves
  <2>2. Woken(t, "notify", {})
    BY <1>1, <1>2, <2>1, NotifiesNobody
  <2>3. /\ Cardinality(Awake) \in Nat /\ Cardinality(Awake)' \in Nat
        /\ Cardinality(Awake) + 1 <= Cardinality(Awake)'
    BY <1>1, <1>4, <2>2, AwakeAfter DEF Woken
  <2>4. Len(queue) <= Cardinality(Awake) => Len(queue)' <= Cardinality(Awake)'
    BY <1>1, <1>5, <2>1, <2>3
  <2>5. CoverInv'
    BY <1>2, <1>3, <1>4, <2>1, <2>2, <2>4, CoverBalanced
  <2> QED
    BY <1>2, <1>3, <1>5, <2>1, <2>2, <2>5, Given
<1>8. ASSUME PutElement, NotifyOne(t, "idle") PROVE IInv'
  <2>1. PICK W : Woken(t, "idle", W) /\ (W = {} => \A u \in Tasks : pc[u] # "asleep")
    BY <1>1, <1>2, <1>8, NotifiesOne
  <2>2. CoverInv'
    <3>1. CASE W = {}
      BY <2>1, <3>1, StillAsleep, NobodyAsleep
    <3>2. CASE W # {}
      <4>1. PICK u : u \in W /\ u # t
        BY <1>2, <2>1, <3>2 DEF Woken
      <4>2. /\ Cardinality(Awake) \in Nat /\ Cardinality(Awake)' \in Nat
            /\ Cardinality(Awake) + 1 <= Cardinality(Awake)'
        BY <1>1, <1>4, <2>1, <4>1, AwakeAfter DEF Woken
      <4>3. Len(queue) <= Cardinality(Awake) => Len(queue)' <= Cardinality(Awake)'
        BY <1>1, <1>5, <1>8, <4>2
      <4> QED
        BY <1>2, <1>3, <1>4, <2>1, <4>3, CoverBalanced
    <3> QED
      BY <3>1, <3>2
  <2> QED
    BY <1>2, <1>3, <1>5, <1>8, <2>1, <2>2, Given
<1>9. ASSUME kind = "logger", PutElement, NotifyNobody(t, "idle") PROVE IInv'
  <2>1. Moves(t, "idle", {}) /\ waitList' = waitList
    BY <1>9 DEF NotifyNobody, Wake, Moves
  <2>2. Woken(t, "idle", {})
    BY <1>1, <1>2, <2>1, NotifiesNobody
  <2>3. CoverInv'
    BY <1>2, <1>3, <1>4, <1>9, <2>2, CoverBalanced
  <2> QED
    BY <1>2, <1>3, <1>5, <1>9, <2>2, <2>3, Given
<1> QED
  BY <1>6, <1>7, <1>8, <1>9 DEF AppendElement, LogRaw

------------------------------------------------------------------------------
(* Steps of a task whose predicate is true. *)

LEMMA ProceedStep ==
    ASSUME IInv, NEW t \in Tasks, Proceed(t)
    PROVE  IInv'
<1>1. /\ TypeInv /\ ListInv /\ CallInv /\ QueueType /\ TakenInOrder /\ LimitsKept
      /\ pc \in [Tasks -> Labels] /\ Len(queue) \in Nat /\ cap \in Nat /\ count \in Int
      /\ cap > 0 => kind = "channel"
  BY DEF IInv, TypeInv, QueueType
<1>2. /\ pc[t] \in {"test", "awake"} /\ lock = Nobody /\ Ready(t)
      /\ UNCHANGED <<kind, cap, closed, lock, op>>
  BY DEF Proceed, Passes
<1>3. CallInv!(t)!1!2 /\ (pc[t] = "awake" /\ op[t] = "push" => cap > 0)
  BY <1>1, <1>2 DEF CallInv, Waiting
<1>4. \A u \in Tasks \ {t} : op'[u] = op[u]
  BY <1>2
<1>5. ASSUME NEW l \in {"idle", "exit"}, NEW W, Woken(t, l, W), count' \in Int,
             QueueType', TakenInOrder', LimitsKept', CoverInv'
      PROVE  IInv'
  <2>1. pc'[t] = l
    BY <1>5 DEF Woken, Moves
  <2>2. CallInv!(t)' /\ l \in Labels \ {"sleep", "asleep"}
    BY <2>1 DEF Waiting, Labels
  <2>3. closed' \in BOOLEAN /\ DOMAIN op' = Tasks
    BY <1>1, <1>2 DEF TypeInv
  <2> QED
    BY <1>2, <1>4, <1>5, <2>2, <2>3, Assembled
<1>6. ASSUME NEW l \in {"idle", "exit"}, NEW W, Woken(t, l, W)
      PROVE  /\ Cardinality(Awake) \in Nat /\ Cardinality(Awake)' \in Nat
             /\ Cardinality(Awake) <= Cardinality(Awake)' + 1
             /\ t \notin Awake /\ W # {} => Cardinality(Awake) + 1 <= Cardinality(Awake)'
             /\ W # {} => Cardinality(Awake) <= Cardinality(Awake)'
  <2>1. \A u \in W : u # t
    BY <1>2, <1>6 DEF Woken
  <2> QED
    BY <1>1, <1>6, <2>1, AwakeAfter DEF Woken
<1>7. ASSUME NEW l \in {"idle", "exit"}, NotifyNobody(t, l) PROVE Woken(t, l, {})
  <2>1. Moves(t, l, {}) /\ waitList' = waitList
    BY <1>7 DEF NotifyNobody, Wake, Moves
  <2> QED
    BY <1>1, <1>2, <2>1, NotifiesNobody
<1>8. CASE DoWait(t)
  <2>1. /\ op[t] = "Wait" /\ kind \in {"semaphore", "waitgroup"} /\ cap = 0
        /\ Woken(t, "idle", {}) /\ UNCHANGED <<queue, taken, put>>
    BY <1>1, <1>3, <1>7, <1>8 DEF DoWait, TakeNothing
  <2>2. /\ kind = "semaphore" => count > 0 /\ count' = count - 1
        /\ kind = "waitgroup" => count' = count
    BY <1>2, <1>8, <2>1 DEF DoWait, Ready
  <2>3. kind = "semaphore" => (count <= Cardinality(Awake) => count' <= Cardinality(Awake)')
    BY <1>1, <1>6, <2>1, <2>2
  <2>4. CoverInv'
    BY <1>2, <1>4, <2>1, <2>2, <2>3, CoverBalanced
  <2>5. count' \in Int /\ LimitsKept' /\ QueueType' /\ TakenInOrder'
    BY <1>1, <1>2, <2>1, <2>2 DEF LimitsKept, QueueType, TakenInOrder
  <2> QED
    BY <1>5, <2>1, <2>4, <2>5
\* notify_one by a task at a channel; the list is shared by readers and writers.
<1>9. ASSUME NotifyOne(t, "idle"), kind = "channel", count' = count, op[t] \in {"push", "pop"},
             QueueType', TakenInOrder', cap > 0 => Len(queue)' <= cap,
             cap = 0 => \/ op[t] = "push" /\ Len(queue)' = Len(queue) + 1
                        \/ Len(queue)' = Len(queue) - 1
                        \/ Len(queue)' = 0
      PROVE  IInv'
  <2>1. PICK W : Woken(t, "idle", W) /\ (W = {} => \A u \in Tasks : pc[u] # "asleep")
    BY <1>1, <1>2, <1>9, NotifiesOne
  <2>2. CoverInv'
    <3>1. CASE W = {}
      BY <2>1, <3>1, StillAsleep, NobodyAsleep
    <3>3. CASE W # {} /\ cap = 0
      <4>1. op[t] = "push" => t \notin Awake
        BY <1>2, <1>3, <3>3 DEF Awake
      <4>2. Len(queue) <= Cardinality(Awake) => Len(queue)' <= Cardinality(Awake)'
        BY <1>1, <1>6, <1>9, <2>1, <3>3, <4>1
      <4> QED
        BY <1>2, <1>4, <1>9, <2>1, <3>3, <4>2, CoverBalanced
    <3>4. CASE cap > 0
      BY <1>2, <1>9, <3>4 DEF CoverInv
    <3> QED
      BY <1>1, <3>1, <3>3, <3>4
  <2>3. count' \in Int /\ LimitsKept'
    BY <1>1, <1>2, <1>9 DEF LimitsKept
  <2> QED
    BY <1>5, <1>9, <2>1, <2>2, <2>3
<1>10. CASE DoPush(t)
  <2>1. /\ op[t] = "push" /\ kind = "channel" /\ NotifyOne(t, "idle")
        /\ PutElement /\ UNCHANGED <<count, taken>>
    BY <1>3, <1>10 DEF DoPush
  <2>2. QueueType' /\ TakenInOrder' /\ Len(queue)' = Len(queue) + 1
    BY <1>1, <2>1, Puts
  <2>3. cap = 0 \/ Len(queue) < cap
    BY <1>2, <2>1 DEF Ready
  <2>4. cap > 0 => Len(queue)' <= cap
    BY <1>1, <2>2, <2>3
  <2> QED
    BY <1>9, <2>1, <2>2, <2>4
<1>11. CASE DoPop(t)
  <2>1. op[t] = "pop" /\ kind = "channel" /\ NotifyOne(t, "idle") /\ count' = count
    BY <1>3, <1>11 DEF DoPop
  <2>2. CASE queue = <<>>
    <3>1. UNCHANGED <<queue, taken, put>>
      BY <1>11, <2>2 DEF DoPop, TakeNothing
    <3>2. QueueType' /\ TakenInOrder' /\ Len(queue)' = 0
      BY <1>1, <2>2, <3>1, EmptySeq DEF QueueType, TakenInOrder
    <3> QED
      BY <1>1, <1>9, <2>1, <3>2
  <2>3. CASE queue # <<>>
    <3>1. QueueType' /\ TakenInOrder' /\ Len(queue)' = Len(queue) - 1
      BY <1>1, <1>11, <2>3, Takes DEF DoPop
    <3>2. cap > 0 => Len(queue)' <= cap
      BY <1>1, <3>1 DEF LimitsKept
    <3> QED
      BY <1>9, <2>1, <3>1, <3>2
  <2> QED
    BY <2>2, <2>3
\* Taking one element, or finding none.
<1>12. ASSUME NEW l \in {"idle", "exit"}, Woken(t, l, {}), kind \in {"variable", "pool"}, count' = count,
              (queue # <<>> /\ TakeElement) \/ ((queue = <<>> \/ (kind = "variable" /\ closed = TRUE)) /\ TakeNothing)
       PROVE  IInv'
  <2>1. cap = 0
    BY <1>1, <1>12
  <2>2. CASE queue # <<>> /\ TakeElement
    <3>1. QueueType' /\ TakenInOrder' /\ Len(queue)' = Len(queue) - 1
      BY <1>1, <2>2, Takes
    <3>2. Len(queue) <= Cardinality(Awake) => Len(queue)' <= Cardinality(Awake)'
      BY <1>1, <1>6, <1>12, <3>1
    <3>3. CoverInv'
      BY <1>2, <1>4, <1>12, <2>1, <3>2, CoverBalanced
    <3>4. count' \in Int /\ LimitsKept'
      BY <1>1, <1>2, <1>12, <2>1 DEF LimitsKept
    <3> QED
      BY <1>5, <1>12, <3>1, <3>3, <3>4
  <2>3. CASE (queue = <<>> \/ (kind = "variable" /\ closed = TRUE)) /\ TakeNothing
    <3>1. UNCHANGED <<queue, taken, put>>
      BY <2>3 DEF TakeNothing
    <3>2. count' \in Int /\ LimitsKept' /\ QueueType' /\ TakenInOrder'
      BY <1>1, <1>2, <1>12, <2>1, <3>1 DEF LimitsKept, QueueType, TakenInOrder
    <3>3. CoverInv'
      <4>1. CASE queue = <<>>
        <5>1. Len(queue)' = 0
          BY <3>1, <4>1, EmptySeq
        <5>2. Len(queue)' <= Cardinality(Awake)'
          BY <1>6, <1>12, <5>1
        <5> QED
          BY <1>2, <1>4, <1>12, <2>1, <5>2, CoverBalanced
      <4>2. CASE kind = "variable" /\ closed = TRUE
        BY <1>2, <2>1, <4>2 DEF CoverInv
      <4> QED
        BY <2>3, <4>1, <4>2
    <3> QED
      BY <1>5, <1>12, <3>2, <3>3
  <2> QED
    BY <1>12, <2>2, <2>3
<1>13. CASE DoGet(t)
  <2>1. op[t] = "Get" /\ kind = "variable" /\ Woken(t, "idle", {}) /\ count' = count
    BY <1>3, <1>7, <1>13 DEF DoGet
  <2>2. queue # <<>> \/ closed
    BY <1>2, <2>1 DEF Ready
  <2>3. (queue # <<>> /\ TakeElement) \/ (kind = "variable" /\ closed = TRUE /\ TakeNothing)
    BY <1>1, <1>13, <2>1, <2>2 DEF DoGet, TypeInv
  <2> QED
    BY <1>12, <2>1, <2>3
<1>14. CASE DoWork(t)
  <2>1. PICK l \in {"idle", "exit"} : NotifyNobody(t, l)
    BY <1>14 DEF DoWork
  <2>2. op[t] = "work" /\ kind = "pool" /\ Woken(t, l, {}) /\ count' = count
    BY <1>3, <1>7, <1>14, <2>1 DEF DoWork
  <2>3. queue # <<>> \/ closed
    BY <1>2, <2>2 DEF Ready
  <2>4. (queue # <<>> /\ TakeElement) \/ (queue = <<>> /\ TakeNothing)
    BY <1>1, <1>14, <2>3 DEF DoWork, Leaves
  <2> QED
    BY <1>12, <2>2, <2>4
<1>15. CASE DoFlush(t)
  <2>1. op[t] = "flush" /\ kind = "logger" /\ Woken(t, "idle", {}) /\ count' = count /\ cap = 0
    BY <1>1, <1>3, <1>7, <1>15 DEF DoFlush
  <2>2. QueueType' /\ TakenInOrder'
    BY <1>1, <1>15, TakesAll DEF DoFlush
  <2>3. CoverInv' /\ LimitsKept' /\ count' \in Int
    BY <1>1, <1>2, <2>1 DEF CoverInv, LimitsKept
  <2> QED
    BY <1>5, <2>1, <2>2, <2>3
<1> QED
  BY <1>8, <1>10, <1>11, <1>13, <1>14, <1>15 DEF Proceed


------------------------------------------------------------------------------
\* Whatever the tasks at a semaphore, a WaitGroup, a channel, a variable, the
\* logger or the thread pool do, in any number, the invariant above holds.
THEOREM MonitorsInvariant == Spec => []IInv
<1>1. Init => IInv
  <2> SUFFICES ASSUME Init PROVE IInv
    OBVIOUS
  <2>1. /\ \A t \in Tasks : pc[t] = "idle"
        /\ waitList = <<>> /\ queue = <<>> /\ taken = <<>> /\ put = 0 /\ Len(queue) = 0
        /\ DOMAIN waitList = {}
    BY EmptySeq DEF Init
  <2>2. cap \in Nat /\ (cap > 0 => kind = "channel") /\ count \in Int
    <3>1. cap \in Capacities \/ cap = 0
      BY DEF Init
    <3>2. cap > 0 => kind = "channel"
      BY DEF Init
    <3>3. count \in {SemaphoreSize} \/ count \in Garbage \/ count = 0
      <4>1. CASE kind = "semaphore"
        BY <4>1 DEF Init
      <4>2. CASE kind = "waitgroup"
        BY <4>2 DEF Init
      <4>3. CASE ~(kind = "semaphore" \/ kind = "waitgroup")
        BY <4>3 DEF Init
      <4> QED
        BY <4>1, <4>2, <4>3
    <3>4. cap \in Nat
      <4>1. Capacities \subseteq Nat /\ 0 \in Nat
        BY SizeAssumption
      <4> QED
        BY <3>1, <4>1, Zenon
    <3>5. count \in Int
      <4>1. SemaphoreSize \in Int /\ Garbage \subseteq Int /\ 0 \in Int
        BY SizeAssumption
      <4> QED
        BY <3>3, <4>1, Zenon
    <3> QED
      BY <3>2, <3>4, <3>5
  <2>3. TypeInv
    <3>1. queue \in Seq(Nat) /\ taken \in Seq(Nat) /\ waitList \in Seq(Tasks)
      BY <2>1, EmptySeq
    <3> QED
      BY <2>2, <3>1 DEF Init, TypeInv, ObjectKinds, Labels
  <2>4. CallInv /\ ListInv /\ SleepInv /\ CoverInv
    BY <2>1 DEF CallInv, ListInv, Distinct, SleepInv, CoverInv, Waiting
  <2>5. LimitsKept
    <3>1. kind = "semaphore" => count = SemaphoreSize
      BY DEF Init
    <3> QED
      BY <2>1, <2>2, <3>1, SizeAssumption DEF LimitsKept
  <2>6. TakenInOrder
    <3>1. <<>> \in Seq(Nat) /\ Numbered(<<>>, <<>>, 0)
      BY EmptySeq DEF Numbered
    <3>2. <<>> \o <<>> = [i \in 1 .. 0 |-> i]
      BY <3>1, InOrder
    <3> QED
      BY <2>1, <3>2 DEF TakenInOrder
  <2> QED
    BY <2>3, <2>4, <2>5, <2>6 DEF IInv
<1>2. IInv /\ [Next]_vars => IInv'
  <2> SUFFICES ASSUME IInv, [Next]_vars PROVE IInv'
    OBVIOUS
  <2>1. ASSUME NEW t \in Tasks,
               \/ Call(t) \/ Push(t) \/ Pop(t) \/ Loop(t)
               \/ TestFails(t) \/ Sleep(t) \/ Proceed(t) \/ Spurious(t)
               \/ Signal(t) \/ TryWait(t) \/ Add(t) \/ Done(t)
               \/ AppendElement(t) \/ LogRaw(t) \/ Enqueue(t) \/ Notice(t)
               \/ Close(t) \/ Closing(t)
        PROVE  IInv'
    BY <2>1, BeginStep, TestFailsStep, SleepStep, WakeStep, CounterStep, PutStep, ProceedStep
  <2>2. CASE UNCHANGED vars
    <3>1. UNCHANGED Awake
      BY <2>2 DEF vars, Awake
    <3> QED
      BY <2>2, <3>1 DEF vars, IInv, TypeInv, CallInv, ListInv, Distinct, SleepInv, CoverInv,
                        LimitsKept, TakenInOrder
  <2> QED
    BY <2>1, <2>2 DEF Next
<1> QED
  BY <1>1, <1>2, PTL DEF Spec

------------------------------------------------------------------------------
(* One reader and one writer of a channel of limited capacity. *)

\* Who waits at a channel has begun a call, and until a second reader or writer
\* comes, nobody sleeps before a channel that has what he waits for.
PairInv ==
    /\ ops \in [Tasks -> Nat]
    /\ kind = "channel" => \A t \in Tasks : pc[t] \in Waiting => ops[t] > 0
    /\ OnePair /\ cap > 0 => \A t \in Tasks : pc[t] = "asleep" =>
          /\ op[t] = "pop" => queue = <<>>
          /\ op[t] = "push" => Len(queue) >= cap

\* The number of calls of a task only grows.
LEMMA CallsGrow ==
    ASSUME ops \in [Tasks -> Nat], NEW t \in Tasks, NEW what,
           Begin(t, what) \/ UNCHANGED ops
    PROVE  /\ ops' \in [Tasks -> Nat]
           /\ \A u \in Tasks : ops[u] > 0 => ops'[u] > 0
           /\ OnePair' => OnePair
           /\ Begin(t, what) => ops'[t] > 0
BY DEF Begin, OnePair

\* There is no third task inside a call.
LEMMA OnlyTwo ==
    ASSUME TypeInv, CallInv, PairInv, OnePair, cap > 0,
           NEW t \in Tasks, NEW u \in Tasks, NEW w \in Tasks,
           pc[t] \in Waiting, pc[u] \in Waiting, pc[w] \in Waiting, t # u, t # w
    PROVE  u = w
<1>0. kind = "channel"
  BY DEF TypeInv
<1>1. \A x \in {t, u, w} : x \in Sole \cap Producers \/ x \in Sole \cap Consumers
  BY <1>0 DEF CallInv, PairInv, OnePair
<1> QED
  BY <1>1, SoleAssumption

\* What every step leaves: kind and capacity, and the calls already made.
LEMMA PairFrame ==
    ASSUME IInv, PairInv, Next
    PROVE  /\ kind' = kind /\ cap' = cap /\ ops' \in [Tasks -> Nat]
           /\ OnePair' => OnePair
           /\ \A u \in Tasks : ops[u] > 0 => ops'[u] > 0
<1>1. PICK t \in Tasks : Next!(t)
  BY DEF Next
<1>2. kind' = kind /\ cap' = cap /\ (UNCHANGED ops \/ \E what : Begin(t, what))
  BY <1>1 DEF Call, Push, Pop, Loop, TestFails, Sleep, Proceed, Spurious, Signal, TryWait,
     Add, Done, AppendElement, LogRaw, Enqueue, Notice, Close, Closing
<1>3. ops \in [Tasks -> Nat]
  BY DEF PairInv
<1> QED
  BY <1>2, <1>3, CallsGrow

\* The steps of the tasks at a channel.
ChannelStep(t) ==
    \/ Push(t) \/ Pop(t) \/ TestFails(t) \/ Sleep(t) \/ Proceed(t) \/ Close(t) \/ Closing(t)

LEMMA AtChannel ==
    ASSUME IInv, NEW t \in Tasks, Next!(t), kind = "channel"
    PROVE  ChannelStep(t)
BY DEF IInv, CallInv, ChannelStep, Call, Loop, Spurious, Signal, TryWait, Add, Done,
   AppendElement, LogRaw, Enqueue, Notice

\* A step that only wakes lets nobody fall asleep or begin a call.
LEMMA ChannelWakes ==
    ASSUME IInv, NEW t \in Tasks, kind = "channel", NEW l \in {"idle", "closing"},
           pc[t] # "asleep", NotifyOne(t, l) \/ NotifyNobody(t, l)
    PROVE  /\ pc'[t] = l
           /\ \A u \in Tasks : /\ pc'[u] \in Waiting => pc[u] \in Waiting
                               /\ pc'[u] = "asleep" => pc[u] = "asleep" /\ u # t
           /\ NotifyOne(t, l) /\ (\E u \in Tasks : pc[u] = "asleep") =>
                 \E w \in Tasks : pc[w] = "asleep" /\ pc'[w] # "asleep"
<1>1. TypeInv /\ ListInv /\ pc \in [Tasks -> Labels]
  BY DEF IInv, TypeInv
<1>2. CASE NotifyOne(t, l)
  <2>1. PICK W : Woken(t, l, W) /\ (W = {} => \A u \in Tasks : pc[u] # "asleep")
    BY <1>1, <1>2, NotifiesOne
  <2> QED
    BY <1>1, <2>1 DEF Woken, Moves, Waiting
<1>3. CASE NotifyNobody(t, l) /\ ~NotifyOne(t, l)
  <2>1. Moves(t, l, {})
    BY <1>3 DEF NotifyNobody, Wake, Moves
  <2> QED
    BY <1>1, <1>3, <2>1 DEF Moves, Waiting
<1> QED
  BY <1>2, <1>3

LEMMA PairStep ==
    ASSUME IInv, PairInv, Next
    PROVE  PairInv'
<1>1. /\ kind' = kind /\ cap' = cap /\ ops' \in [Tasks -> Nat]
      /\ OnePair' => OnePair
      /\ \A u \in Tasks : ops[u] > 0 => ops'[u] > 0
  BY PairFrame
<1>2. PICK t \in Tasks : Next!(t)
  BY DEF Next
<1>3. /\ TypeInv /\ CallInv /\ SleepInv /\ pc \in [Tasks -> Labels] /\ DOMAIN op = Tasks
      /\ cap > 0 => kind = "channel"
  BY DEF IInv, TypeInv
<1>4. CASE kind # "channel"
  BY <1>1, <1>3, <1>4 DEF PairInv
<1>5. CASE kind = "channel"
  <2>0. ChannelStep(t)
    BY <1>2, <1>5, AtChannel
  <2>1. CASE Push(t) \/ Pop(t)
    <3>1. /\ pc[t] = "idle" /\ queue' = queue /\ ops'[t] > 0
          /\ \E l \in {"idle", "test"} : pc' = [pc EXCEPT ![t] = l]
          /\ \A u \in Tasks \ {t} : op'[u] = op[u]
      BY <1>1, <1>3, <2>1, CallsGrow DEF Push, Pop, Begin, PairInv
    <3>2. \A u \in Tasks : u # t => pc'[u] = pc[u] /\ op'[u] = op[u]
      BY <1>3, <3>1
    <3>3. pc'[t] # "asleep"
      BY <1>3, <3>1
    <3> QED
      BY <1>1, <3>1, <3>2, <3>3 DEF PairInv
  <2>2. CASE TestFails(t)
    <3>1. pc[t] \in {"test", "awake"} /\ queue' = queue /\ op' = op /\ pc' = [pc EXCEPT ![t] = "sleep"]
      BY <2>2 DEF TestFails
    <3>2. \A u \in Tasks : u # t => pc'[u] = pc[u]
      BY <1>3, <3>1
    <3>3. pc'[t] = "sleep"
      BY <1>3, <3>1
    <3> QED
      BY <1>1, <3>1, <3>2, <3>3 DEF PairInv, Waiting
  <2>3. CASE Sleep(t)
    <3>1. pc[t] = "sleep" /\ queue' = queue /\ op' = op /\ pc' = [pc EXCEPT ![t] = "asleep"]
      BY <2>3 DEF Sleep
    <3>2. \A u \in Tasks : u # t => pc'[u] = pc[u]
      BY <1>3, <3>1
    <3>3. /\ op[t] = "pop" => queue = <<>>
          /\ op[t] = "push" => Len(queue) >= cap
      BY <1>3, <3>1 DEF SleepInv
    <3> QED
      BY <1>1, <3>1, <3>2, <3>3 DEF PairInv, Waiting
  <2>4. CASE Close(t) \/ Closing(t)
    <3>1. /\ queue' = queue /\ op' = op /\ pc[t] # "asleep"
          /\ \E l \in {"idle", "closing"} : NotifyOne(t, l) \/ NotifyNobody(t, l)
      BY <1>5, <2>4 DEF Close, Closing
    <3>2. \A u \in Tasks : /\ pc'[u] \in Waiting => pc[u] \in Waiting
                           /\ pc'[u] = "asleep" => pc[u] = "asleep"
      BY <1>5, <3>1, ChannelWakes
    <3> QED
      BY <1>1, <3>1, <3>2 DEF PairInv
  <2>5. CASE Proceed(t)
    <3>1. pc[t] \in {"test", "awake"} /\ NotifyOne(t, "idle")
      BY <1>3, <1>5, <2>5 DEF Proceed, DoWait, DoPush, DoPop, DoGet, DoWork, DoFlush, CallInv, Waiting
    <3>2. /\ \A u \in Tasks : /\ pc'[u] \in Waiting => pc[u] \in Waiting
                              /\ pc'[u] = "asleep" => pc[u] = "asleep" /\ u # t
          /\ (\E u \in Tasks : pc[u] = "asleep") =>
                \E w \in Tasks : pc[w] = "asleep" /\ pc'[w] # "asleep"
      BY <1>5, <3>1, ChannelWakes
    \* The pair is this task and at most one that was asleep, which was woken.
    <3>3. ASSUME OnePair', cap' > 0, NEW u \in Tasks, pc'[u] = "asleep" PROVE FALSE
      <4>1. OnePair /\ cap > 0 /\ pc[u] = "asleep" /\ u # t
        BY <1>1, <3>2, <3>3
      <4>2. PICK w \in Tasks : pc[w] = "asleep" /\ pc'[w] # "asleep"
        BY <3>2, <4>1
      <4>3. u = w
        BY <1>3, <3>1, <4>1, <4>2, OnlyTwo DEF Waiting
      <4> QED
        BY <3>3, <4>2, <4>3
    <3> QED
      BY <1>1, <3>2, <3>3 DEF PairInv
  <2> QED
    BY <2>0, <2>1, <2>2, <2>3, <2>4, <2>5 DEF ChannelStep
<1> QED
  BY <1>4, <1>5

\* Until a second reader or writer comes to a channel of limited capacity, none of
\* the two sleeps before what he waits for.
THEOREM PairInvariant == Spec => []PairInv
<1>1. Init => PairInv
  BY DEF Init, PairInv, Waiting
<1>2. IInv /\ PairInv /\ [Next]_vars => PairInv'
  <2>1. PairInv /\ UNCHANGED vars => PairInv'
    BY DEF vars, PairInv, OnePair
  <2> QED
    BY <2>1, PairStep
<1> QED
  BY <1>1, <1>2, MonitorsInvariant, PTL DEF Spec

\* Nobody sleeps in vain: while a task sleeps, those who are awake suffice for what
\* there is to take, whoever was notified or came in between, in Semaphore::Wait,
\* WaitGroup::Wait, Channel, BroadcastVariable::Get and the workers of the pool, as
\* long as WaitGroup::Add is not used to lower the counter and, of a channel of
\* limited capacity, no second reader or writer has come.
THEOREM NoWakeupLost ==
    ASSUME Increments \subseteq Nat
    PROVE  Spec => []WakeupsCover
<1>0. Rising
  BY DEF Rising
<1>1. IInv /\ PairInv => WakeupsCover
  <2> SUFFICES ASSUME IInv, PairInv, NEW t \in ToSet(waitList) PROVE WakeupsCover!(t)
    BY DEF WakeupsCover
  <2>1. t \in Tasks /\ pc[t] = "asleep"
    BY DEF IInv, TypeInv, ListInv, ToSet
  <2>2. CoverInv!(t)!2 /\ Rising /\ CallInv!(t)!1!2 /\ (op[t] = "push" => cap > 0)
    BY <1>0, <2>1 DEF IInv, CoverInv, CallInv, Waiting
  <2>3. Cardinality(Awake) \in Nat
    <3>1. Awake \in SUBSET Tasks
      BY DEF Awake
    <3> QED
      BY <3>1, TasksAssumption, FS_Subset, FS_CardinalityType
  <2>4. op[t] = "pop" /\ (cap = 0 \/ OnePair) => Len(queue) <= Cardinality(Awake)
    <3>1. CASE cap = 0
      BY <2>2, <3>1
    <3>2. CASE cap > 0
      BY <2>1, <2>3, <3>2, EmptySeq DEF PairInv
    <3>3. cap \in Nat
      BY DEF IInv, TypeInv
    <3> QED
      BY <3>1, <3>2, <3>3
  <2>5. op[t] = "push" /\ OnePair => Len(queue) >= cap
    BY <2>1, <2>2 DEF PairInv
  <2> QED
    BY <2>2, <2>4, <2>5
<1> QED
  BY <1>1, MonitorsInvariant, PairInvariant, PTL

\* Semaphore::Wait and TryWait never take a permit that is not there, and a
\* channel never holds more than its capacity, whoever uses them.
THEOREM LimitsAlwaysKept == Spec => []LimitsKept
<1>1. IInv => LimitsKept
  BY DEF IInv
<1> QED
  BY <1>1, MonitorsInvariant, PTL

\* Elements of a channel, a variable, the logger's buffer and the pool's list of
\* jobs are taken once, in order, and none disappears.
THEOREM OrderAlwaysKept == Spec => []TakenInOrder
<1>1. IInv => TakenInOrder
  BY DEF IInv
<1> QED
  BY <1>1, MonitorsInvariant, PTL
=============================================================================
