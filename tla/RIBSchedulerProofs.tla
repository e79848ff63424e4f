------------------------- MODULE RIBSchedulerProofs -------------------------
(* Proofs about RIBScheduler, for any number of tasks and any schedules.     *)
(*                                                                           *)
(* The first part is about the tasks: each is in one place at a time (a      *)
(* queue, a list, an executor, a waker, the processor), although qMutex is   *)
(* released in the middle of GetAnInteractiveBatchTask.  The second part is  *)
(* about the cycle: an index that stays in the schedule and a cycle that is  *)
(* not cut short, for schedules without gaps.                                *)
EXTENDS RIBScheduler, FiniteSetTheorems, FunctionTheorems, SequenceTheorems, TLAPS

Labels == {"loop", "exit", "top", "rtspin", "slot", "give", "idle", "tail", "run", "stuck"}

TypeInv ==
    /\ pc \in Labels /\ active \in Tasks \cup {NoTask}
    /\ bQueue \in Seq(Batch) /\ iCancelStack \in Seq(Interactive)
    /\ toStealTasks \in Seq(Interactive)
    /\ iEDFPriorityQueue \in SUBSET Interactive /\ rtRegisterTable \in SUBSET RealTime
    /\ degraded \in SUBSET Interactive /\ waker \in SUBSET Suspending
    /\ joins \in [Tasks -> Tasks \cup {NoTask}]
    /\ status \in [Tasks -> {"NEW", "READY", "FINISHED"}]
    /\ deleted \in SUBSET Tasks
    /\ ran \in Nat

(* A task that somebody has to hold: it exists and does not run.             *)
Waits(t) == status[t] = "READY" /\ t \notin deleted /\ ~(pc = "run" /\ active = t)

(* A real-time task that suspends is the exception: EndTask deletes it.      *)
Held(t) ==
    IF Waits(t) THEN \E h \in Holders(t) : Holders(t) = {h} ELSE Holders(t) = {}
Kept == Tasks \ (RealTime \cap Suspending)
HoldInv == \A t \in Kept : Held(t)

Distinct(q) == \A i, j \in DOMAIN q : q[i] = q[j] => i = j
ListInv ==
    /\ Distinct(bQueue) /\ Distinct(iCancelStack) /\ Distinct(toStealTasks)
    /\ toStealTasks # <<>> => pc = "give"
    /\ \A t \in Tasks : joins[t] # NoTask => t \in Suspending

(* The task whose stack the main thread is on.  After an interactive one the *)
(* main loop takes over before anything is taken off the EDF queue.          *)
ActiveInv ==
    /\ active # NoTask => active \notin deleted /\ status[active] # "NEW"
    /\ pc = "run" => active # NoTask /\ status[active] = "READY"
    /\ active \in Interactive =>
         pc \in {"run", "top"} /\ active \notin degraded \cup ToSet(iCancelStack)
    /\ active \in RealTime \ Suspending /\ pc # "run" => status[active] = "FINISHED"
    /\ pc \in {"loop", "exit"} => active = NoTask
    /\ active \notin rtRegisterTable
    /\ \A t \in rtRegisterTable : status[t] = "READY" /\ t \notin deleted
    /\ \A t \in deleted : status[t] # "NEW"

HInv == TypeInv /\ HoldInv /\ ListInv /\ ActiveInv

-----------------------------------------------------------------------------
(* Queues: what they hold, and that they hold it once.                       *)

LEMMA Appended ==
    ASSUME NEW S, NEW q \in Seq(S), NEW x \in S
    PROVE  /\ Append(q, x) \in Seq(S) /\ ToSet(Append(q, x)) = ToSet(q) \cup {x}
           /\ Distinct(q) /\ x \notin ToSet(q) => Distinct(Append(q, x))
<1>1. PICK n \in Nat : n = Len(q) /\ DOMAIN q = 1..n
  OBVIOUS
<1>2. PICK r : r = Append(q, x)
  OBVIOUS
<1>3. /\ r \in Seq(S) /\ DOMAIN r = 1..(n + 1)
      /\ \A i \in 1..n : r[i] = q[i]
      /\ r[n + 1] = x
  BY <1>1, <1>2, AppendProperties
<1>4. \A i \in 1..(n + 1) : i \in 1..n \/ i = n + 1
  BY <1>1
<1>5. n + 1 \in 1..(n + 1) /\ \A i \in 1..n : i \in 1..(n + 1)
  BY <1>1
<1>6. ToSet(r) = ToSet(q) \cup {x}
  <2>1. ASSUME NEW y \in ToSet(r) PROVE y \in ToSet(q) \cup {x}
    BY <1>1, <1>3, <1>4, <2>1 DEF ToSet
  <2>2. ASSUME NEW y \in ToSet(q) PROVE y \in ToSet(r)
    BY <1>1, <1>3, <1>5, <2>2 DEF ToSet
  <2>3. x \in ToSet(r)
    BY <1>3, <1>5 DEF ToSet
  <2> QED
    BY <2>1, <2>2, <2>3
<1>7. ASSUME Distinct(q), x \notin ToSet(q) PROVE Distinct(r)
  <2>1. \A i \in 1..n : q[i] # x
    BY <1>1, <1>7 DEF ToSet
  <2>2. \A i, j \in 1..n : r[i] = r[j] => i = j
    BY <1>1, <1>3, <1>7 DEF Distinct
  <2> QED
    BY <1>3, <1>4, <2>1, <2>2 DEF Distinct
<1> QED
  BY <1>2, <1>3, <1>6, <1>7

LEMMA TailOf ==
    ASSUME NEW S, NEW q \in Seq(S), q # <<>>, Distinct(q)
    PROVE  /\ Head(q) \in S /\ Head(q) \in ToSet(q) /\ Tail(q) \in Seq(S) /\ Distinct(Tail(q))
           /\ ToSet(Tail(q)) = ToSet(q) \ {Head(q)}
<1>1. PICK n \in Nat : n = Len(q) /\ DOMAIN q = 1..n /\ n >= 1
  OBVIOUS
<1>2. PICK r : r = Tail(q)
  OBVIOUS
<1>3. /\ r \in Seq(S) /\ DOMAIN r = 1..(n - 1) /\ \A i \in 1..(n - 1) : r[i] = q[i + 1]
      /\ Head(q) = q[1] /\ Head(q) \in S
  BY <1>1, <1>2
<1>4. \A i \in 1..(n - 1) : i + 1 \in 1..n /\ i + 1 # 1
  BY <1>1
<1>5. \A i, j \in 1..n : q[i] = q[j] => i = j
  BY <1>1 DEF Distinct
<1>6. Distinct(r)
  <2> SUFFICES ASSUME NEW i \in 1..(n - 1), NEW j \in 1..(n - 1), r[i] = r[j] PROVE i = j
    BY <1>3 DEF Distinct
  <2>1. i + 1 \in 1..n /\ j + 1 \in 1..n /\ i \in Int /\ j \in Int
    BY <1>4
  <2>2. q[i + 1] = q[j + 1]
    BY <1>3
  <2>3. i + 1 = j + 1
    BY <1>5, <2>1, <2>2, Zenon
  <2> QED
    BY <2>1, <2>3
<1>7. ToSet(r) = ToSet(q) \ {Head(q)}
  <2>1. ASSUME NEW y \in ToSet(r) PROVE y \in ToSet(q) \ {Head(q)}
    <3>1. PICK i \in 1..(n - 1) : y = q[i + 1]
      BY <1>3, <2>1 DEF ToSet
    <3>2. 1 \in 1..n /\ i + 1 \in 1..n /\ i + 1 # 1
      BY <1>1, <1>4
    <3>3. q[i + 1] # q[1]
      BY <1>5, <3>2
    <3> QED
      BY <1>1, <1>3, <3>1, <3>2, <3>3 DEF ToSet
  <2>2. ASSUME NEW y \in ToSet(q), y # Head(q) PROVE y \in ToSet(r)
    <3>1. PICK i \in 1..n : y = q[i] /\ i # 1
      BY <1>1, <1>3, <2>2 DEF ToSet
    <3>2. i - 1 \in 1..(n - 1) /\ (i - 1) + 1 = i
      BY <1>1, <3>1
    <3> QED
      BY <1>3, <3>1, <3>2 DEF ToSet
  <2> QED
    BY <2>1, <2>2
<1>8. Head(q) \in ToSet(q)
  <2>1. 1 \in DOMAIN q
    BY <1>1
  <2> QED
    BY <1>3, <2>1 DEF ToSet
<1> QED
  BY <1>2, <1>3, <1>6, <1>7, <1>8

LEMMA FrontOf ==
    ASSUME NEW S, NEW q \in Seq(S), q # <<>>, Distinct(q)
    PROVE  /\ Last(q) \in S /\ Last(q) \in ToSet(q) /\ Front(q) \in Seq(S) /\ Distinct(Front(q))
           /\ ToSet(Front(q)) = ToSet(q) \ {Last(q)}
<1>1. PICK n \in Nat : n = Len(q) /\ DOMAIN q = 1..n /\ n >= 1
  OBVIOUS
<1>2. PICK r : r = Front(q)
  OBVIOUS
<1>3. /\ r \in Seq(S) /\ DOMAIN r = 1..(n - 1) /\ \A i \in 1..(n - 1) : r[i] = q[i]
      /\ Last(q) = q[n] /\ Last(q) \in S
  <2>1. \A i \in 1..(n - 1) : q[i] \in S
    BY <1>1
  <2>2. r = SubSeq(q, 1, n - 1)
    BY <1>1, <1>2 DEF Front
  <2> QED
    BY <1>1, <2>1, <2>2 DEF Last
<1>4. \A i \in 1..(n - 1) : i \in 1..n /\ i # n
  BY <1>1
<1>5. \A i, j \in 1..n : q[i] = q[j] => i = j
  BY <1>1 DEF Distinct
<1>6. Distinct(r)
  BY <1>3, <1>4, <1>5 DEF Distinct
<1>7. ToSet(r) = ToSet(q) \ {Last(q)}
  <2>1. n \in 1..n
    BY <1>1
  <2>2. ASSUME NEW y \in ToSet(r) PROVE y \in ToSet(q) \ {Last(q)}
    <3>1. PICK i \in 1..(n - 1) : y = q[i]
      BY <1>3, <2>2 DEF ToSet
    <3>2. i \in 1..n /\ i # n
      BY <1>4
    <3>3. q[i] # q[n]
      BY <1>5, <2>1, <3>2
    <3> QED
      BY <1>1, <1>3, <3>1, <3>2, <3>3 DEF ToSet
  <2>3. ASSUME NEW y \in ToSet(q), y # Last(q) PROVE y \in ToSet(r)
    <3>1. PICK i \in 1..n : y = q[i] /\ i # n
      BY <1>1, <1>3, <2>3 DEF ToSet
    <3>2. i \in 1..(n - 1)
      BY <1>1, <3>1
    <3> QED
      BY <1>3, <3>1, <3>2 DEF ToSet
  <2> QED
    BY <2>2, <2>3
<1>8. Last(q) \in ToSet(q)
  <2>1. n \in DOMAIN q
    BY <1>1
  <2> QED
    BY <1>3, <2>1 DEF ToSet
<1> QED
  BY <1>2, <1>3, <1>6, <1>7, <1>8

LEMMA Concatenated ==
    ASSUME NEW S, NEW p \in Seq(S), NEW q \in Seq(S)
    PROVE  /\ p \o q \in Seq(S) /\ ToSet(p \o q) = ToSet(p) \cup ToSet(q)
           /\ Distinct(p) /\ Distinct(q) /\ ToSet(p) \cap ToSet(q) = {} => Distinct(p \o q)
<1>1. PICK m \in Nat : m = Len(p) /\ DOMAIN p = 1..m
  OBVIOUS
<1>2. PICK n \in Nat : n = Len(q) /\ DOMAIN q = 1..n
  OBVIOUS
<1>3. PICK r : r = p \o q
  OBVIOUS
<1>4. r \in Seq(S) /\ DOMAIN r = 1..(m + n)
  BY <1>1, <1>2, <1>3
<1>5. \A i \in 1..m : i \in DOMAIN r /\ r[i] = p[i]
  BY <1>1, <1>2, <1>3
<1>6. \A i \in 1..n : m + i \in DOMAIN r /\ r[m + i] = q[i]
  BY <1>1, <1>2, <1>3
<1>7. \A i \in DOMAIN r : \/ i \in 1..m /\ r[i] = p[i]
                          \/ \E k \in 1..n : i = m + k /\ r[i] = q[k]
  <2> SUFFICES ASSUME NEW i \in DOMAIN r, i \notin 1..m
               PROVE  \E k \in 1..n : i = m + k /\ r[i] = q[k]
    BY <1>5
  <2>1. i - m \in 1..n /\ i = m + (i - m)
    BY <1>1, <1>2, <1>4
  <2> QED
    BY <1>6, <2>1
<1>8. ToSet(r) = ToSet(p) \cup ToSet(q)
  <2>1. ASSUME NEW y \in ToSet(r) PROVE y \in ToSet(p) \cup ToSet(q)
    BY <1>1, <1>2, <1>7, <2>1 DEF ToSet
  <2>2. ASSUME NEW y \in ToSet(p) PROVE y \in ToSet(r)
    BY <1>1, <1>5, <2>2 DEF ToSet
  <2>3. ASSUME NEW y \in ToSet(q) PROVE y \in ToSet(r)
    BY <1>2, <1>6, <2>3 DEF ToSet
  <2> QED
    BY <2>1, <2>2, <2>3
<1>9. ASSUME Distinct(p), Distinct(q), ToSet(p) \cap ToSet(q) = {} PROVE Distinct(r)
  <2>1. \A i \in 1..m, k \in 1..n : p[i] # q[k]
    BY <1>1, <1>2, <1>9 DEF ToSet
  <2>2. \A i, j \in 1..m : p[i] = p[j] => i = j
    BY <1>1, <1>9 DEF Distinct
  <2>3. \A i, j \in 1..n : q[i] = q[j] => i = j
    BY <1>2, <1>9 DEF Distinct
  <2> SUFFICES ASSUME NEW i \in DOMAIN r, NEW j \in DOMAIN r, r[i] = r[j] PROVE i = j
    BY DEF Distinct
  <2>4. CASE i \in 1..m /\ r[i] = p[i]
    <3>1. j \in 1..m /\ r[j] = p[j]
      BY ONLY <1>7, <2>1, <2>4, r[i] = r[j], j \in DOMAIN r, Zenon
    <3> QED
      BY ONLY <2>2, <2>4, <3>1, r[i] = r[j], Zenon
  <2>5. CASE \E k \in 1..n : i = m + k /\ r[i] = q[k]
    <3>1. \E k \in 1..n : j = m + k /\ r[j] = q[k]
      BY ONLY <1>7, <2>1, <2>5, r[i] = r[j], j \in DOMAIN r, Zenon
    <3> QED
      BY ONLY <2>3, <2>5, <3>1, r[i] = r[j], Zenon
  <2> QED
    BY <1>7, <2>4, <2>5
<1> QED
  BY <1>3, <1>4, <1>8, <1>9

(* The members of a finite set in some order.                                *)
LEMMA Arranged ==
    ASSUME NEW S, IsFiniteSet(S), NEW s \in SetToSeqs(S)
    PROVE  s \in Seq(S) /\ ToSet(s) = S /\ Distinct(s)
<1>1. PICK n \in Nat : n = Cardinality(S)
  BY FS_CardinalityType
<1>2. s \in [1..n -> S] /\ \A i, j \in 1..n : i # j => s[i] # s[j]
  BY <1>1 DEF SetToSeqs
<1>3. s \in Seq(S) /\ Distinct(s)
  BY <1>1, <1>2 DEF Distinct
<1>4. s \in Injection(1..n, S)
  BY <1>2 DEF Injection, IsInjective
<1>5. Cardinality(1..n) = n
  BY <1>1, FS_Interval
<1>6. s \in Surjection(1..n, S)
  BY <1>1, <1>4, <1>5, FS_Injection
<1>7. ToSet(s) = S
  BY <1>2, <1>6 DEF Surjection, ToSet
<1> QED
  BY <1>3, <1>7

LEMMA LengthCounts ==
    ASSUME NEW S, NEW q \in Seq(S), Distinct(q)
    PROVE  Len(q) = Cardinality(ToSet(q))
<1>1. PICK n \in Nat : n = Len(q) /\ DOMAIN q = 1..n
  OBVIOUS
<1>2. q \in [1..n -> ToSet(q)]
  BY <1>1 DEF ToSet
<1>3. q \in Bijection(1..n, ToSet(q))
  BY <1>1, <1>2 DEF Bijection, Injection, Surjection, IsInjective, ToSet, Distinct
<1>4. ExistsBijection(1..n, ToSet(q))
  BY <1>3 DEF ExistsBijection
<1>5. IsFiniteSet(1..n)
  BY <1>1, FS_Interval
<1>6. Cardinality(1..n) = n
  <2>1. n \in Int /\ 1 \in Int
    OBVIOUS
  <2>2. Cardinality(1..n) = IF 1 > n THEN 0 ELSE n - 1 + 1
    BY <2>1, FS_Interval, Zenon
  <2> QED
    BY <2>2
<1> QED
  BY <1>1, <1>4, <1>5, <1>6, FS_Bijection

-----------------------------------------------------------------------------
(* The cycle.                                                                *)

(* A schedule that begins at 0 and leaves no gap, with slots at least as     *)
(* long as a real-time task runs.                                            *)
Seamless(s) ==
    /\ s # <<>> /\ s[1].sTime = 0
    /\ \A i \in DOMAIN s : s[i].eTime >= s[i].sTime + RtRun /\ s[i].eTime > s[i].sTime
    /\ \A i \in DOMAIN s : i > 1 => s[i].sTime = s[i - 1].eTime

SeamlessPlans == \A p \in Plans : Seamless(p[1]) /\ Seamless(p[2])

CycleTypeInv ==
    /\ pc \in Labels /\ phase \in Nat /\ ran \in Nat /\ idxRealTimeTask \in Nat
    /\ plan = <<>> => currentSchedule = <<>>
    /\ plan # <<>> => Seamless(plan[1]) /\ Seamless(plan[2]) /\ plan \in Seq(Slots) \X Seq(Slots)
    /\ currentSchedule = <<>> => idxRealTimeTask = 0
    /\ currentSchedule # <<>> => Seamless(currentSchedule) /\ currentSchedule \in Seq(Slots)
    /\ idxRealTimeTask <= Len(currentSchedule)

(* The slots before the current one are over.                                *)
PassedInv == idxRealTimeTask > 0 => phase >= currentSchedule[idxRealTimeTask].eTime

(* Where a slot is current, and how far a real-time task may have overrun it *)
CurrentInv ==
    /\ pc \in {"idle", "tail", "rtspin"} => idxRealTimeTask < Len(currentSchedule)
    /\ pc = "give" /\ currentSchedule # <<>> => idxRealTimeTask < Len(currentSchedule)
    /\ active \in RealTime /\ pc \in {"run", "top", "rtspin", "give", "idle", "tail", "stuck"} =>
         idxRealTimeTask < Len(currentSchedule)
    /\ active \in RealTime => currentSchedule # <<>>
    /\ active \in RealTime /\ idxRealTimeTask < Len(currentSchedule) =>
         /\ pc = "run" => phase <= Slot.eTime + ran /\ ran <= RtRun
         /\ pc \in {"top", "rtspin"} => phase <= Slot.eTime + RtRun \/ phase <= Slot.eTime + 1
         /\ pc = "slot" => InSlot
         /\ pc = "give" => phase <= Slot.eTime
         /\ pc \in {"idle", "tail"} => phase <= Slot.eTime + 1

CInv == CycleTypeInv /\ PassedInv /\ CurrentInv

(* The times of a slot of a schedule; k counts from 0.                       *)
LEMMA SeamlessSlot ==
    ASSUME NEW s \in Seq(Slots), Seamless(s), NEW k \in Nat, k < Len(s)
    PROVE  /\ s[k + 1].sTime \in Nat /\ s[k + 1].eTime \in Nat /\ RtRun \in Nat
           /\ s[k + 1].eTime >= s[k + 1].sTime + RtRun /\ s[k + 1].eTime > s[k + 1].sTime
           /\ k = 0 => s[k + 1].sTime = 0
           /\ k > 0 => s[k + 1].sTime = s[k].eTime
<1>1. PICK i \in DOMAIN s : i = k + 1 /\ i \in Nat /\ i - 1 = k
  OBVIOUS
<1>2. s[i] \in Slots
  BY <1>1
<1>3. s[i].sTime \in Nat /\ s[i].eTime \in Nat /\ RtRun \in Nat
  BY <1>2, BoundAssumption DEF Slots
<1>4. s[i].eTime >= s[i].sTime + RtRun /\ s[i].eTime > s[i].sTime
  BY <1>1 DEF Seamless
<1>5. k = 0 => s[i].sTime = 0
  BY <1>1 DEF Seamless
<1>6. k > 0 => s[i].sTime = s[k].eTime
  BY <1>1 DEF Seamless
<1> QED
  BY <1>1, <1>3, <1>4, <1>5, <1>6

LEMMA SlotTimes ==
    ASSUME CycleTypeInv, idxRealTimeTask < Len(currentSchedule)
    PROVE  /\ Slot.sTime \in Nat /\ Slot.eTime \in Nat /\ RtRun \in Nat
           /\ Slot.eTime >= Slot.sTime + RtRun /\ Slot.eTime > Slot.sTime
           /\ idxRealTimeTask = 0 => Slot.sTime = 0
           /\ idxRealTimeTask > 0 => Slot.sTime = currentSchedule[idxRealTimeTask].eTime
<1>1. currentSchedule # <<>>
  BY DEF CycleTypeInv
<1>2. currentSchedule \in Seq(Slots) /\ Seamless(currentSchedule) /\ idxRealTimeTask \in Nat
  BY <1>1 DEF CycleTypeInv
<1> QED
  BY <1>2, SeamlessSlot DEF Slot

(* Other steps than those of a real-time task only have to say that there is *)
(* a current slot where one is used.                                         *)
LEMMA CycleFrame ==
    ASSUME CInv, UNCHANGED <<currentSchedule, idxRealTimeTask, phase, plan>>,
           pc' \in Labels, ran' \in Nat, active' \notin RealTime,
           pc' \in {"idle", "tail", "rtspin"} => idxRealTimeTask < Len(currentSchedule),
           pc' = "give" /\ currentSchedule # <<>> => idxRealTimeTask < Len(currentSchedule)
    PROVE  CInv'
BY DEF CInv, CycleTypeInv, PassedInv, CurrentInv

(* Steps of other threads.                                                   *)
LEMMA CycleOthers ==
    ASSUME CInv, UNCHANGED <<currentSchedule, idxRealTimeTask, phase, plan, pc, ran, active>>
    PROVE  CInv'
BY DEF CInv, CycleTypeInv, PassedInv, CurrentInv, InSlot, Slot

LEMMA CycleSetSchedule ==
    ASSUME CInv, SeamlessPlans, NEW p \in Plans, SetSchedule(p)
    PROVE  CInv'
<1>1. /\ UNCHANGED <<currentSchedule, idxRealTimeTask, phase, pc, ran, active>> /\ plan' = p
  BY DEF SetSchedule, timeVars
<1>2. p # <<>> /\ Seamless(p[1]) /\ Seamless(p[2]) /\ p \in Seq(Slots) \X Seq(Slots)
  BY PlanAssumption DEF SeamlessPlans
<1> QED
  BY <1>1, <1>2 DEF CInv, CycleTypeInv, PassedInv, CurrentInv, InSlot, Slot

LEMMA CycleTick ==
    ASSUME CInv, TypeInv, Tick
    PROVE  CInv'
<1>1. /\ UNCHANGED <<currentSchedule, idxRealTimeTask, plan, pc, active>> /\ TimePasses
      /\ phase' \in {phase, phase + 1}
      /\ ran' = IF active # NoTask /\ ran < MaxRun THEN ran + 1 ELSE ran
  BY DEF Tick, slotVars
<1>2. phase \in Nat /\ phase' \in Nat /\ phase' >= phase /\ phase' <= phase + 1
      /\ ran \in Nat /\ ran' \in Nat /\ ran' >= ran
  BY <1>1 DEF CInv, CycleTypeInv
<1>3. CycleTypeInv'
  BY <1>1, <1>2 DEF CInv, CycleTypeInv
<1>4. PassedInv'
  <2> SUFFICES ASSUME idxRealTimeTask > 0 PROVE phase' >= currentSchedule[idxRealTimeTask].eTime
    BY <1>1 DEF PassedInv
  <2>1. currentSchedule # <<>> /\ idxRealTimeTask \in Nat /\ idxRealTimeTask <= Len(currentSchedule)
    BY DEF CInv, CycleTypeInv
  <2>2. currentSchedule \in Seq(Slots) /\ idxRealTimeTask \in DOMAIN currentSchedule
    BY <2>1 DEF CInv, CycleTypeInv
  <2>3. currentSchedule[idxRealTimeTask].eTime \in Nat
    <3>1. currentSchedule[idxRealTimeTask] \in Slots
      BY <2>2
    <3> QED
      BY <3>1 DEF Slots
  <2> QED
    BY <1>2, <2>3 DEF CInv, PassedInv
<1>5. CurrentInv'
  <2> SUFFICES ASSUME active \in RealTime, idxRealTimeTask < Len(currentSchedule)
               PROVE  /\ pc = "run" => phase' <= Slot.eTime + ran' /\ ran' <= RtRun
                      /\ pc \in {"top", "rtspin"} =>
                           phase' <= Slot.eTime + RtRun \/ phase' <= Slot.eTime + 1
                      /\ pc = "slot" => Slot.sTime <= phase' /\ phase' <= Slot.eTime
                      /\ pc = "give" => phase' <= Slot.eTime
                      /\ pc \in {"idle", "tail"} => phase' <= Slot.eTime + 1
    BY <1>1 DEF CInv, CurrentInv, Slot, InSlot
  <2>1. PICK e \in Nat : e = Slot.eTime
    BY SlotTimes DEF CInv
  <2>2. RtRun \in Nat /\ MaxRun \in Nat /\ RtRun <= MaxRun
    BY BoundAssumption
  <2>3. CASE pc = "run"
    <3>1. ran < RtRun /\ phase <= e + ran
      BY <1>1, <2>1, <2>3 DEF TimePasses, CInv, CurrentInv
    <3>2. ran' = ran + 1
      BY <1>1, <1>2, <2>2, <3>1, TaskAssumption DEF Tasks
    <3> QED
      BY <1>2, <2>1, <2>2, <2>3, <3>1, <3>2
  <2>4. CASE pc = "rtspin"
    <3>1. phase < e
      BY <1>1, <1>2, <2>1, <2>4 DEF TimePasses, SlotOver
    <3> QED
      BY <1>2, <2>1, <2>4, <3>1
  <2>5. CASE pc = "idle"
    <3>1. ~(phase > e - SpinTime) /\ SpinTime \in Nat
      BY <1>1, <2>1, <2>5, BoundAssumption DEF TimePasses, IdleOver
    <3>2. phase <= e
      BY <1>2, <2>1, <3>1
    <3> QED
      BY <1>2, <2>1, <2>5, <3>2
  <2>6. CASE pc = "tail"
    <3>1. phase <= e
      BY <1>1, <2>1, <2>6 DEF TimePasses
    <3> QED
      BY <1>2, <2>1, <2>6, <3>1
  <2>7. CASE pc = "slot"
    BY <1>1, <2>7 DEF TimePasses, CInv, CycleTypeInv
  <2> QED
    BY <1>1, <2>3, <2>4, <2>5, <2>6, <2>7 DEF TimePasses
<1> QED
  BY <1>3, <1>4, <1>5 DEF CInv


LEMMA CycleRtSpin ==
    ASSUME CInv, RtSpin
    PROVE  CInv'
<1>1. /\ pc = "rtspin" /\ SlotOver /\ idxRealTimeTask' = idxRealTimeTask + 1 /\ pc' = "slot"
      /\ UNCHANGED <<active, plan, currentSchedule, phase, ran>>
  BY DEF RtSpin, timeVars
<1>2. idxRealTimeTask < Len(currentSchedule) /\ idxRealTimeTask \in Nat /\ phase \in Nat
  BY <1>1 DEF CInv, CurrentInv, CycleTypeInv
<1>3. /\ Slot.eTime \in Nat /\ RtRun \in Nat /\ phase >= Slot.eTime
      /\ currentSchedule'[idxRealTimeTask'] = Slot
  BY <1>1, <1>2, SlotTimes DEF CInv, SlotOver, Slot
<1>4. CycleTypeInv'
  <2>1. currentSchedule # <<>> /\ Len(currentSchedule) \in Nat
    BY <1>2 DEF CInv, CycleTypeInv
  <2> QED
    BY <1>1, <1>2, <2>1 DEF CInv, CycleTypeInv, Labels
<1>5. PassedInv'
  BY <1>1, <1>3 DEF PassedInv
<1>6. CurrentInv'
  <2> SUFFICES ASSUME active \in RealTime, idxRealTimeTask' < Len(currentSchedule') PROVE InSlot'
    BY <1>1 DEF CInv, CurrentInv
  <2>1. /\ Slot'.sTime \in Nat /\ Slot'.eTime \in Nat
        /\ Slot'.eTime >= Slot'.sTime + RtRun /\ Slot'.eTime > Slot'.sTime
        /\ Slot'.sTime = currentSchedule'[idxRealTimeTask'].eTime
    <3>1. /\ currentSchedule' \in Seq(Slots) /\ Seamless(currentSchedule')
          /\ idxRealTimeTask' \in Nat /\ idxRealTimeTask' > 0
      BY <1>1, <1>2 DEF CInv, CycleTypeInv
    <3> QED
      BY <3>1, SeamlessSlot DEF Slot
  <2>2. phase <= Slot.eTime + RtRun \/ phase <= Slot.eTime + 1
    BY <1>1, <1>2 DEF CInv, CurrentInv
  <2> QED
    BY <1>1, <1>2, <1>3, <2>1, <2>2 DEF InSlot
<1> QED
  BY <1>4, <1>5, <1>6 DEF CInv

(* GetAnInteractiveBatchTask within a slot, or while there is no schedule.   *)
LEMMA CycleGet ==
    ASSUME CInv, TypeInv, NEW goto \in {"idle", "slot"}, GetAnInteractiveBatchTask(goto),
           UNCHANGED <<currentSchedule, idxRealTimeTask, phase, plan>>,
           currentSchedule = <<>> \/ (idxRealTimeTask < Len(currentSchedule) /\ phase <= Slot.eTime),
           currentSchedule = <<>> => goto = "slot",
           currentSchedule # <<>> => goto = "idle"
    PROVE  CInv'
<1>1. CASE pc' = goto /\ UNCHANGED <<active, ran>>
  <2>1. CASE currentSchedule = <<>>
    <3>1. active \notin RealTime /\ pc' = "slot" /\ ran' \in Nat
      BY <1>1, <2>1 DEF CInv, CurrentInv, CycleTypeInv
    <3> QED
      BY <1>1, <2>1, <3>1, CycleFrame DEF Labels
  <2>2. CASE currentSchedule # <<>>
    <3>1. phase <= Slot.eTime + 1 /\ pc' = "idle"
      BY <1>1, <2>2, SlotTimes DEF CInv, CycleTypeInv
    <3> QED
      BY <1>1, <2>2, <3>1 DEF CInv, CycleTypeInv, PassedInv, CurrentInv, Slot, Labels
  <2> QED
    BY <2>1, <2>2
<1>2. CASE bQueue # <<>> /\ Return(Head(bQueue))
  <2>1. Head(bQueue) \in Batch
    BY <1>2 DEF TypeInv
  <2>2. Head(bQueue) # NoTask /\ Head(bQueue) \notin RealTime
    BY <2>1, TaskAssumption DEF Tasks
  <2> QED
    BY <1>2, <2>2, CycleFrame DEF Return, Labels
<1>3. CASE pc' = "give" /\ UNCHANGED <<active, ran>>
  BY <1>3 DEF CInv, CycleTypeInv, PassedInv, CurrentInv, Slot, Labels
<1> QED
  BY <1>1, <1>2, <1>3 DEF GetAnInteractiveBatchTask

LEMMA CycleSlotTest ==
    ASSUME CInv, TypeInv, SlotTest
    PROVE  CInv'
<1>1. pc = "slot" /\ plan' = plan
  BY DEF SlotTest
<1>2. idxRealTimeTask \in Nat /\ phase \in Nat /\ Len(currentSchedule) \in Nat
  <2>1. CASE currentSchedule = <<>>
    BY <2>1 DEF CInv, CycleTypeInv
  <2>2. CASE currentSchedule # <<>>
    BY <2>2 DEF CInv, CycleTypeInv
  <2> QED
    BY <2>1, <2>2
<1>3. ASSUME idxRealTimeTask < Len(currentSchedule), InSlot,
             UNCHANGED <<currentSchedule, idxRealTimeTask, phase>>
      PROVE  CInv'
  <2>1. currentSchedule # <<>> /\ phase <= Slot.eTime
    BY <1>2, <1>3 DEF InSlot
  <2>2. ASSUME NEW t \in rtRegisterTable, Return(t) PROVE CInv'
    <3>1. t \in RealTime /\ t # NoTask
      BY <2>2, TaskAssumption DEF TypeInv, Tasks
    <3>2. pc' = "run" /\ active' = t /\ ran' = 0
      BY <2>2, <3>1 DEF Return
    <3>3. phase <= Slot.eTime + 0 /\ 0 <= RtRun
      BY <1>2, <1>3, <2>1, SlotTimes DEF CInv
    <3> QED
      BY <1>1, <1>3, <2>1, <3>2, <3>3 DEF CInv, CycleTypeInv, PassedInv, CurrentInv, Slot, Labels
  <2>3. ASSUME GetAnInteractiveBatchTask("idle") PROVE CInv'
    BY <1>1, <1>3, <2>1, <2>3, CycleGet
  <2>4. ASSUME pc' = "tail", UNCHANGED <<active, ran>> PROVE CInv'
    <3>1. phase <= Slot.eTime + 1
      BY <1>2, <1>3, <2>1, SlotTimes DEF CInv
    <3> QED
      BY <1>1, <1>3, <2>1, <2>4, <3>1 DEF CInv, CycleTypeInv, PassedInv, CurrentInv, Slot, Labels
  <2> QED
    BY <1>1, <1>2, <1>3, <2>2, <2>3, <2>4 DEF SlotTest
<1>4. ASSUME idxRealTimeTask < Len(currentSchedule), ~InSlot,
             idxRealTimeTask' = idxRealTimeTask + 1, pc' = "top",
             UNCHANGED <<active, ran, currentSchedule, phase>>
      PROVE  CInv'
  <2>1. active \notin RealTime /\ currentSchedule # <<>>
    BY <1>1, <1>2, <1>4 DEF CInv, CurrentInv
  <2>2. Slot.sTime \in Nat /\ Slot.eTime \in Nat /\ Slot.sTime <= phase
    BY <1>2, <1>4, SlotTimes DEF CInv, PassedInv
  <2>3. phase >= Slot.eTime
    BY <1>2, <1>4, <2>2 DEF InSlot
  <2>4. PassedInv'
    BY <1>2, <1>4, <2>3 DEF PassedInv, Slot
  <2>5. CycleTypeInv' /\ CurrentInv'
    BY <1>1, <1>2, <1>4, <2>1 DEF CInv, CycleTypeInv, CurrentInv, Labels
  <2> QED
    BY <2>4, <2>5 DEF CInv
<1>5. ASSUME idxRealTimeTask >= Len(currentSchedule), plan = <<>>,
             GetAnInteractiveBatchTask("slot"),
             UNCHANGED <<currentSchedule, idxRealTimeTask, phase>>
      PROVE  CInv'
  <2>1. currentSchedule = <<>>
    BY <1>5 DEF CInv, CycleTypeInv
  <2> QED
    BY <1>1, <1>5, <2>1, CycleGet
<1>6. ASSUME plan # <<>>, NEW i \in 1..2, currentSchedule' = plan[i], idxRealTimeTask' = 0,
             phase' = 0, pc' = "top", UNCHANGED <<active, ran>>
      PROVE  CInv'
  <2>1. Seamless(plan[i]) /\ plan[i] \in Seq(Slots)
    BY <1>6 DEF CInv, CycleTypeInv
  <2>2. plan[i] # <<>> /\ Len(plan[i]) \in Nat /\ 0 < Len(plan[i])
    BY <2>1 DEF Seamless
  <2>3. CycleTypeInv' /\ PassedInv'
    BY <1>1, <1>6, <2>1, <2>2 DEF CInv, CycleTypeInv, PassedInv, Labels
  <2>4. Slot'.eTime \in Nat /\ RtRun \in Nat
    BY <1>6, <2>1, <2>2, SeamlessSlot DEF Slot
  <2>5. phase' <= Slot'.eTime + RtRun
    BY <1>6, <2>4
  <2> QED
    BY <1>6, <2>2, <2>3, <2>5 DEF CInv, CurrentInv
<1> QED
  BY <1>2, <1>3, <1>4, <1>5, <1>6 DEF SlotTest

(* The other steps of the main thread.                                       *)
LEMMA CycleMain ==
    ASSUME CInv, TypeInv, ActiveInv,
           \/ MainLoop \/ Top \/ Degrade \/ CancelOldest \/ TakeInteractive \/ Idle \/ TailSpin
           \/ Yield \/ Block \/ Finish \/ \E u \in Joinable : Join(u)
    PROVE  CInv'
<1>1. UNCHANGED <<currentSchedule, idxRealTimeTask, phase, plan>>
  BY DEF MainLoop, Top, Degrade, CancelOldest, TakeInteractive, Idle, TailSpin, Yield, Block,
         Finish, Join, slotVars, timeVars
<1>2. /\ pc \in Labels /\ phase \in Nat /\ ran \in Nat
      /\ 0 \in Nat /\ NoTask \notin RealTime /\ Interactive \cap RealTime = {}
      /\ {"loop", "exit", "top", "rtspin", "slot", "give", "idle", "tail", "run", "stuck"} = Labels
  BY TaskAssumption DEF CInv, CycleTypeInv, Labels, Tasks
<1>3. CASE MainLoop
  BY <1>1, <1>2, <1>3, CycleFrame DEF MainLoop, timeVars, ActiveInv
<1>4. ASSUME Return(NoTask) PROVE CInv'
  BY <1>1, <1>2, <1>4, CycleFrame DEF Return
<1>5. CASE Top
  <2>1. CASE active \in RealTime /\ pc' = "rtspin" /\ UNCHANGED <<active, ran>>
    BY <1>1, <1>5, <2>1 DEF Top, CInv, CycleTypeInv, PassedInv, CurrentInv, Slot, Labels
  <2>2. CASE active \notin RealTime /\ pc' = "slot" /\ UNCHANGED <<active, ran>>
    BY <1>1, <1>2, <2>2, CycleFrame
  <2>3. active = NoTask \/ active \in Batch => active \notin RealTime
    BY TaskAssumption DEF Tasks
  <2> QED
    BY <1>4, <1>5, <2>1, <2>2, <2>3 DEF Top
<1>6. CASE Degrade \/ CancelOldest
  <2>1. pc = "give" /\ pc' \in {"give", "stuck"} /\ UNCHANGED <<active, ran>>
    BY <1>6 DEF Degrade, CancelOldest, timeVars
  <2> QED
    BY <1>1, <2>1 DEF CInv, CycleTypeInv, PassedInv, CurrentInv, Slot, Labels
<1>7. CASE TakeInteractive
  <2>1. pc = "give"
    BY <1>7 DEF TakeInteractive
  <2>2. ASSUME NEW n \in Interactive, Return(n) PROVE CInv'
    <3>1. n # NoTask /\ n \notin RealTime
      BY TaskAssumption DEF Tasks
    <3> QED
      BY <1>1, <1>2, <2>2, <3>1, CycleFrame DEF Return
  <2>3. ASSUME currentSchedule = <<>>, pc' = "slot", UNCHANGED <<active, ran>> PROVE CInv'
    BY <1>1, <1>2, <2>3, CycleFrame DEF CInv, CurrentInv
  <2>4. ASSUME currentSchedule # <<>>, pc' = "idle", UNCHANGED <<active, ran>> PROVE CInv'
    <3>1. idxRealTimeTask < Len(currentSchedule)
      BY <2>1, <2>4 DEF CInv, CurrentInv
    <3>2. active \in RealTime => phase <= Slot.eTime + 1
      BY <1>2, <2>1, <3>1, SlotTimes DEF CInv, CurrentInv
    <3> QED
      BY <1>1, <2>1, <2>4, <3>1, <3>2 DEF CInv, CycleTypeInv, PassedInv, CurrentInv, Slot, Labels
  <2>5. iCancelStack # <<>> => Head(iCancelStack) \in Interactive
    BY DEF TypeInv
  <2>6. \A t \in iEDFPriorityQueue : t \in Interactive
    BY DEF TypeInv
  <2> QED
    BY <1>7, <2>2, <2>3, <2>4, <2>5, <2>6 DEF TakeInteractive
<1>8. CASE Idle
  <2>1. pc = "idle" /\ idxRealTimeTask < Len(currentSchedule)
    BY <1>8 DEF Idle, CInv, CurrentInv
  <2>2. currentSchedule # <<>> /\ SpinTime \in Nat /\ Slot.eTime \in Nat
    BY <2>1, SlotTimes, BoundAssumption DEF CInv, CycleTypeInv
  <2>3. ASSUME pc' = "top", UNCHANGED <<active, ran>> PROVE CInv'
    BY <1>1, <2>1, <2>3 DEF CInv, CycleTypeInv, PassedInv, CurrentInv, Slot, Labels
  <2>4. ASSUME phase <= Slot.eTime - SpinTime, GetAnInteractiveBatchTask("idle") PROVE CInv'
    <3>1. phase <= Slot.eTime
      BY <1>2, <2>2, <2>4
    <3> QED
      BY <1>1, <2>1, <2>2, <2>4, <3>1, CycleGet
  <2> QED
    BY <1>4, <1>8, <2>3, <2>4 DEF Idle
<1>9. CASE TailSpin
  BY <1>1, <1>9 DEF TailSpin, timeVars, CInv, CycleTypeInv, PassedInv, CurrentInv, Slot, Labels
<1>10. CASE Yield \/ Block \/ Finish \/ \E u \in Joinable : Join(u)
  <2>1. pc = "run" /\ pc' = "top" /\ UNCHANGED <<active, ran>>
    BY <1>10 DEF Yield, Block, Finish, Join, MayYield, MaySuspend, timeVars
  <2>2. CASE active \notin RealTime
    BY <1>1, <1>2, <2>1, <2>2, CycleFrame
  <2>3. CASE active \in RealTime
    <3>1. idxRealTimeTask < Len(currentSchedule) /\ phase <= Slot.eTime + ran /\ ran <= RtRun
      BY <2>1, <2>3 DEF CInv, CurrentInv
    <3>2. phase <= Slot.eTime + RtRun
      BY <1>2, <3>1, SlotTimes DEF CInv
    <3> QED
      BY <1>1, <2>1, <2>3, <3>1, <3>2 DEF CInv, CycleTypeInv, PassedInv, CurrentInv, Slot, Labels
  <2> QED
    BY <2>2, <2>3
<1> QED
  BY <1>3, <1>5, <1>6, <1>7, <1>8, <1>9, <1>10

-----------------------------------------------------------------------------
(* The places of the tasks.                                                  *)

placeVars ==
    <<bQueue, iEDFPriorityQueue, iCancelStack, rtRegisterTable, toStealTasks, degraded, waker,
      joins>>

(* A task that no step touches stays where it is.                            *)
LEMMA Stays ==
    ASSUME NEW t, Held(t), Waits(t)' <=> Waits(t),
           t \in ToSet(bQueue') <=> t \in ToSet(bQueue),
           t \in iEDFPriorityQueue' <=> t \in iEDFPriorityQueue,
           t \in ToSet(iCancelStack') <=> t \in ToSet(iCancelStack),
           t \in rtRegisterTable' <=> t \in rtRegisterTable,
           t \in ToSet(toStealTasks') <=> t \in ToSet(toStealTasks),
           t \in degraded' <=> t \in degraded,
           t \in waker' <=> t \in waker,
           joins'[t] # NoTask <=> joins[t] # NoTask
    PROVE  Held(t)'
<1>1. Holders(t)' = Holders(t)
  BY DEF Holders
<1> QED
  BY <1>1 DEF Held

(* Where a task is, it is only there.                                        *)
LEMMA OnlyThere ==
    ASSUME NEW t, Held(t), NEW h \in Holders(t)
    PROVE  Waits(t) /\ Holders(t) = {h}
BY DEF Held

(* What the places are, for a task that is nowhere or in one of them.        *)
LEMMA Nowhere ==
    ASSUME NEW t, Holders(t) = {}
    PROVE  /\ t \notin ToSet(bQueue) /\ t \notin iEDFPriorityQueue
           /\ t \notin ToSet(iCancelStack) /\ t \notin rtRegisterTable
           /\ t \notin ToSet(toStealTasks) /\ t \notin degraded /\ t \notin waker
           /\ joins[t] = NoTask
BY DEF Holders

LEMMA InBatch ==
    ASSUME NEW t, Held(t), t \in ToSet(bQueue)
    PROVE  /\ Waits(t) /\ t \notin iEDFPriorityQueue
           /\ t \notin ToSet(iCancelStack) /\ t \notin rtRegisterTable
           /\ t \notin ToSet(toStealTasks) /\ t \notin degraded /\ t \notin waker
           /\ joins[t] = NoTask
<1>1. "batch" \in Holders(t)
  BY DEF Holders
<1>2. Waits(t) /\ Holders(t) = {"batch"}
  BY <1>1, OnlyThere
<1> QED
  BY <1>2 DEF Holders

LEMMA InEdf ==
    ASSUME NEW t, Held(t), t \in iEDFPriorityQueue
    PROVE  /\ Waits(t) /\ t \notin ToSet(bQueue)
           /\ t \notin ToSet(iCancelStack) /\ t \notin rtRegisterTable
           /\ t \notin ToSet(toStealTasks) /\ t \notin degraded /\ t \notin waker
           /\ joins[t] = NoTask
<1>1. "edf" \in Holders(t)
  BY DEF Holders
<1>2. Waits(t) /\ Holders(t) = {"edf"}
  BY <1>1, OnlyThere
<1> QED
  BY <1>2 DEF Holders

LEMMA InStack ==
    ASSUME NEW t, Held(t), t \in ToSet(iCancelStack)
    PROVE  /\ Waits(t) /\ t \notin ToSet(bQueue) /\ t \notin iEDFPriorityQueue
           /\ t \notin rtRegisterTable
           /\ t \notin ToSet(toStealTasks) /\ t \notin degraded /\ t \notin waker
           /\ joins[t] = NoTask
<1>1. "stack" \in Holders(t)
  BY DEF Holders
<1>2. Waits(t) /\ Holders(t) = {"stack"}
  BY <1>1, OnlyThere
<1> QED
  BY <1>2 DEF Holders

LEMMA InTable ==
    ASSUME NEW t, Held(t), t \in rtRegisterTable
    PROVE  /\ Waits(t) /\ t \notin ToSet(bQueue) /\ t \notin iEDFPriorityQueue
           /\ t \notin ToSet(iCancelStack)
           /\ t \notin ToSet(toStealTasks) /\ t \notin degraded /\ t \notin waker
           /\ joins[t] = NoTask
<1>1. "table" \in Holders(t)
  BY DEF Holders
<1>2. Waits(t) /\ Holders(t) = {"table"}
  BY <1>1, OnlyThere
<1> QED
  BY <1>2 DEF Holders

LEMMA InSteal ==
    ASSUME NEW t, Held(t), t \in ToSet(toStealTasks)
    PROVE  /\ Waits(t) /\ t \notin ToSet(bQueue) /\ t \notin iEDFPriorityQueue
           /\ t \notin ToSet(iCancelStack) /\ t \notin rtRegisterTable
           /\ t \notin degraded /\ t \notin waker
           /\ joins[t] = NoTask
<1>1. "steal" \in Holders(t)
  BY DEF Holders
<1>2. Waits(t) /\ Holders(t) = {"steal"}
  BY <1>1, OnlyThere
<1> QED
  BY <1>2 DEF Holders

LEMMA OnExecutor ==
    ASSUME NEW t, Held(t), t \in degraded
    PROVE  /\ Waits(t) /\ t \notin ToSet(bQueue) /\ t \notin iEDFPriorityQueue
           /\ t \notin ToSet(iCancelStack) /\ t \notin rtRegisterTable
           /\ t \notin ToSet(toStealTasks) /\ t \notin waker
           /\ joins[t] = NoTask
<1>1. "executor" \in Holders(t)
  BY DEF Holders
<1>2. Waits(t) /\ Holders(t) = {"executor"}
  BY <1>1, OnlyThere
<1> QED
  BY <1>2 DEF Holders

LEMMA WithWaker ==
    ASSUME NEW t, Held(t), t \in waker
    PROVE  /\ Waits(t) /\ t \notin ToSet(bQueue) /\ t \notin iEDFPriorityQueue
           /\ t \notin ToSet(iCancelStack) /\ t \notin rtRegisterTable
           /\ t \notin ToSet(toStealTasks) /\ t \notin degraded
           /\ joins[t] = NoTask
<1>1. "waker" \in Holders(t)
  BY DEF Holders
<1>2. Waits(t) /\ Holders(t) = {"waker"}
  BY <1>1, OnlyThere
<1> QED
  BY <1>2 DEF Holders

LEMMA InJoin ==
    ASSUME NEW t, Held(t), joins[t] # NoTask
    PROVE  /\ Waits(t) /\ t \notin ToSet(bQueue) /\ t \notin iEDFPriorityQueue
           /\ t \notin ToSet(iCancelStack) /\ t \notin rtRegisterTable
           /\ t \notin ToSet(toStealTasks) /\ t \notin degraded /\ t \notin waker
<1>1. "join" \in Holders(t)
  BY DEF Holders
<1>2. Waits(t) /\ Holders(t) = {"join"}
  BY <1>1, OnlyThere
<1> QED
  BY <1>2 DEF Holders

(* Steps that move no task, and between which no task starts or stops.       *)
LEMMA QuietStep ==
    ASSUME HInv, UNCHANGED placeVars, UNCHANGED <<status, deleted, active>>,
           ran' \in Nat, pc' \in Labels,
           pc' = pc \/ (pc # "run" /\ pc' # "run"),
           active \in Interactive => pc' \in {"run", "top"},
           pc' \in {"loop", "exit"} => active = NoTask,
           toStealTasks # <<>> => pc' = "give"
    PROVE  HInv'
<1>1. TypeInv' /\ ListInv'
  BY DEF HInv, TypeInv, ListInv, placeVars
<1>2. HoldInv'
  <2> SUFFICES ASSUME NEW t \in Kept PROVE Held(t)'
    BY DEF HoldInv, Kept, Tasks
  <2>1. Held(t)
    BY DEF HInv, HoldInv
  <2>2. Waits(t)' <=> Waits(t)
    BY DEF Waits
  <2> QED
    BY <2>1, <2>2, Stays DEF placeVars
<1>3. ActiveInv'
  BY DEF HInv, ActiveInv, placeVars
<1> QED
  BY <1>1, <1>2, <1>3 DEF HInv

(* Time passes.                                                              *)
LEMMA TickStep ==
    ASSUME HInv, Tick
    PROVE  HInv'
<1>1. UNCHANGED placeVars /\ UNCHANGED <<status, deleted, active, pc>>
  BY DEF Tick, placeVars, queueVars, taskVars
<1>2. TypeInv'
  <2>1. ran' \in Nat
    BY DEF Tick, HInv, TypeInv
  <2> QED
    BY <1>1, <2>1 DEF HInv, TypeInv, placeVars
<1>3. ListInv' /\ ActiveInv'
  BY <1>1 DEF HInv, ListInv, ActiveInv, placeVars
<1>4. HoldInv'
  <2> SUFFICES ASSUME NEW t \in Kept PROVE Held(t)'
    BY DEF HoldInv, Kept, Tasks
  <2>1. Held(t)
    BY DEF HInv, HoldInv
  <2>2. Waits(t)' <=> Waits(t)
    BY <1>1 DEF Waits
  <2> QED
    BY <1>1, <2>1, <2>2, Stays DEF placeVars
<1> QED
  BY <1>2, <1>3, <1>4 DEF HInv

(* GetNextTask returns: who runs next, and what EndTask deletes, of the      *)
(* tasks that stay where they are.                                           *)
LEMMA ReturnLeaves ==
    ASSUME HInv, NEW n \in Tasks \cup {NoTask}, Return(n), pc # "run", status' = status,
           NEW t \in Kept, t # n
    PROVE  Waits(t)' <=> Waits(t)
<1>1. t \in Tasks /\ NoTask \notin Tasks
  BY TaskAssumption DEF Kept
<1>2. active' = n /\ deleted' \subseteq deleted \cup {active}
  BY DEF Return
<1>3. ASSUME t \in deleted', t \notin deleted PROVE status[t] = "FINISHED"
  <2>1. t = active /\ Ends(active, n)
    BY <1>3 DEF Return
  <2> QED
    BY <1>1, <2>1 DEF Ends, HInv, ActiveInv, Kept
<1>4. deleted \subseteq deleted'
  BY DEF Return
<1> QED
  BY <1>2, <1>3, <1>4 DEF Waits

(* It returns to a task that waited.                                         *)
LEMMA ReturnTask ==
    ASSUME HInv, NEW n \in Tasks, Return(n), pc # "run", status' = status,
           status[n] = "READY", n \notin deleted, n \notin rtRegisterTable',
           rtRegisterTable' \subseteq rtRegisterTable,
           n \in Interactive => n \notin degraded' \cup ToSet(iCancelStack')
    PROVE  ActiveInv' /\ ~Waits(n)' /\ pc' = "run" /\ active' = n /\ ran' = 0
<1>1. n # NoTask
  BY TaskAssumption
<1>2. /\ active' = n /\ pc' = "run" /\ ran' = 0
      /\ deleted' \subseteq deleted \cup {active} /\ n \notin deleted'
      /\ deleted' # deleted => active # NoTask
  BY <1>1 DEF Return, Ends
<1> QED
  BY <1>1, <1>2 DEF HInv, ActiveInv, Waits

(* It returns nullptr.                                                       *)
LEMMA ReturnNoTask ==
    ASSUME HInv, Return(NoTask), pc \in {"top", "idle"}, UNCHANGED placeVars, status' = status
    PROVE  HInv'
<1>1. pc' = "loop" /\ active' = NoTask /\ ran' = 0 /\ toStealTasks = <<>>
  BY DEF Return, HInv, ListInv
<1>2. deleted' \subseteq deleted \cup {active} /\ (deleted' # deleted => active # NoTask)
  BY DEF Return, Ends
<1>3. NoTask \notin Tasks
  BY TaskAssumption
<1>4. TypeInv'
  BY <1>1, <1>2, <1>3 DEF HInv, TypeInv, Labels, placeVars
<1>5. ListInv'
  BY <1>1 DEF HInv, ListInv, placeVars
<1>6. ActiveInv'
  <2>1. NoTask \notin Interactive /\ NoTask \notin RealTime
    BY <1>3 DEF Tasks
  <2>2. NoTask \notin rtRegisterTable'
    BY <2>1 DEF HInv, TypeInv, placeVars
  <2> QED
    BY <1>1, <1>2, <2>1, <2>2 DEF HInv, ActiveInv, placeVars
<1>7. HoldInv'
  <2> SUFFICES ASSUME NEW t \in Kept PROVE Held(t)'
    BY DEF HoldInv, Kept, Tasks
  <2>1. Held(t) /\ t # NoTask
    BY <1>3 DEF HInv, HoldInv, Kept
  <2>2. Waits(t)' <=> Waits(t)
    BY <2>1, ReturnLeaves
  <2> QED
    BY <2>1, <2>2, Stays DEF placeVars
<1> QED
  BY <1>4, <1>5, <1>6, <1>7 DEF HInv

(* EnableImmediately of tasks that are in neither queue.                     *)
LEMMA Enabled ==
    ASSUME HInv, NEW S \in SUBSET Tasks, EnableImmediately(S), S \cap ToSet(bQueue) = {}
    PROVE  /\ iEDFPriorityQueue' = iEDFPriorityQueue \cup (S \cap Interactive)
           /\ iEDFPriorityQueue' \in SUBSET Interactive
           /\ bQueue' \in Seq(Batch) /\ Distinct(bQueue')
           /\ ToSet(bQueue') = ToSet(bQueue) \cup (S \cap Batch)
<1>1. IsFiniteSet(S \cap Batch)
  BY TaskAssumption, FS_Subset DEF Tasks
<1>2. PICK s \in SetToSeqs(S \cap Batch) : bQueue' = s \o bQueue
  BY DEF EnableImmediately
<1>3. s \in Seq(S \cap Batch) /\ ToSet(s) = S \cap Batch /\ Distinct(s)
  BY <1>1, <1>2, Arranged
<1>4. s \in Seq(Batch) /\ bQueue \in Seq(Batch) /\ Distinct(bQueue) /\ ToSet(s) \cap ToSet(bQueue) = {}
  BY <1>3 DEF HInv, TypeInv, ListInv
<1>5. /\ bQueue' \in Seq(Batch) /\ Distinct(bQueue')
      /\ ToSet(bQueue') = ToSet(bQueue) \cup (S \cap Batch)
  BY <1>2, <1>3, <1>4, Concatenated
<1> QED
  BY <1>5 DEF EnableImmediately, HInv, TypeInv

(* A task is created.                                                        *)
LEMMA NewTask ==
    ASSUME HInv, NEW t \in Tasks, status[t] = "NEW"
    PROVE  /\ t # active /\ t \notin deleted
           /\ t \notin ToSet(iCancelStack) /\ t \notin ToSet(toStealTasks)
           /\ t \in Kept => Holders(t) = {}
<1>1. t # active /\ t \notin deleted
  BY TaskAssumption DEF HInv, ActiveInv
<1>2. t \in Kept => Held(t) /\ ~Waits(t)
  BY DEF HInv, HoldInv, Waits
<1>3. t \in Kept => Holders(t) = {}
  BY <1>2 DEF Held
<1>4. t \in ToSet(iCancelStack) \cup ToSet(toStealTasks) => t \in Kept
  BY TaskAssumption DEF HInv, TypeInv, ToSet, Kept, Tasks
<1> QED
  BY <1>1, <1>3, <1>4, Nowhere

LEMMA CreateStep ==
    ASSUME HInv,
           \/ \E t \in Interactive : CreateInteractiveTask(t)
           \/ \E t \in Batch : CreateBatchTask(t)
           \/ \E t \in RealTime : CreateRealTimeTask(t)
    PROVE  HInv'
<1>1. PICK t \in Tasks :
        /\ status[t] = "NEW" /\ status' = [status EXCEPT ![t] = "READY"]
        /\ UNCHANGED <<pc, active, iCancelStack, toStealTasks, degraded, waker, joins, ran, deleted>>
        /\ \/ /\ t \in Interactive /\ iEDFPriorityQueue' = iEDFPriorityQueue \cup {t}
              /\ UNCHANGED <<bQueue, rtRegisterTable>>
           \/ /\ t \in Batch /\ bQueue' = Append(bQueue, t)
              /\ UNCHANGED <<iEDFPriorityQueue, rtRegisterTable>>
           \/ /\ t \in RealTime /\ rtRegisterTable' = rtRegisterTable \cup {t}
              /\ UNCHANGED <<bQueue, iEDFPriorityQueue>>
  BY DEF CreateInteractiveTask, CreateBatchTask, CreateRealTimeTask, Tasks, timeVars
<1>2. /\ t # active /\ t \notin deleted
      /\ t \notin ToSet(iCancelStack) /\ t \notin ToSet(toStealTasks)
      /\ t \in Kept => Holders(t) = {}
  BY <1>1, NewTask
<1>3. /\ status' \in [Tasks -> {"NEW", "READY", "FINISHED"}] /\ status'[t] = "READY"
      /\ \A u \in Tasks : u # t => status'[u] = status[u]
  BY <1>1 DEF HInv, TypeInv
<1>4. t \in Batch => t \in Kept
  BY <1>1, TaskAssumption DEF Kept
<1>5. /\ bQueue' \in Seq(Batch) /\ Distinct(bQueue')
      /\ ToSet(bQueue') = ToSet(bQueue) \cup ({t} \cap Batch)
  <2>1. CASE t \in Batch
    <3>1. bQueue' = Append(bQueue, t)
      BY <1>1, <2>1, TaskAssumption
    <3>2. t \notin ToSet(bQueue)
      BY <1>2, <1>4, <2>1, Nowhere
    <3>3. bQueue \in Seq(Batch) /\ Distinct(bQueue)
      BY DEF HInv, TypeInv, ListInv
    <3> QED
      BY <2>1, <3>1, <3>2, <3>3, Appended
  <2>2. CASE t \notin Batch
    BY <1>1, <2>2 DEF HInv, TypeInv, ListInv
  <2> QED
    BY <2>1, <2>2
<1>6. /\ iEDFPriorityQueue' = iEDFPriorityQueue \cup ({t} \cap Interactive)
      /\ rtRegisterTable' = rtRegisterTable \cup ({t} \cap RealTime)
  BY <1>1, TaskAssumption
<1>8. TypeInv'
  BY <1>1, <1>3, <1>5, <1>6 DEF HInv, TypeInv
<1>9. ListInv'
  BY <1>1, <1>5 DEF HInv, ListInv
<1>10. HoldInv'
  <2> SUFFICES ASSUME NEW u \in Kept PROVE Held(u)'
    BY DEF HoldInv, Kept, Tasks
  <2>1. CASE u # t
    <3>1. Held(u) /\ u \in Tasks
      BY DEF HInv, HoldInv, Kept
    <3>2. Waits(u)' <=> Waits(u)
      BY <1>1, <1>3, <2>1, <3>1 DEF Waits
    <3> QED
      BY <1>1, <1>5, <1>6, <2>1, <3>1, <3>2, Stays
  <2>2. CASE u = t
    <3>1. Waits(t)'
      BY <1>1, <1>2, <1>3 DEF Waits
    <3>2. /\ t \notin ToSet(bQueue) /\ t \notin iEDFPriorityQueue
          /\ t \notin ToSet(iCancelStack) /\ t \notin rtRegisterTable
          /\ t \notin ToSet(toStealTasks) /\ t \notin degraded /\ t \notin waker
          /\ joins[t] = NoTask
      BY <1>2, <2>2, Nowhere
    <3>3. CASE t \in Interactive
      <4>1. Holders(t)' = {"edf"}
        BY <1>1, <1>5, <1>6, <3>2, <3>3, TaskAssumption DEF Holders
      <4> QED
        BY <2>2, <3>1, <4>1 DEF Held
    <3>4. CASE t \in Batch
      <4>1. Holders(t)' = {"batch"}
        BY <1>1, <1>5, <1>6, <3>2, <3>4, TaskAssumption DEF Holders
      <4> QED
        BY <2>2, <3>1, <4>1 DEF Held
    <3>5. CASE t \in RealTime
      <4>1. Holders(t)' = {"table"}
        BY <1>1, <1>5, <1>6, <3>2, <3>5, TaskAssumption DEF Holders
      <4> QED
        BY <2>2, <3>1, <4>1 DEF Held
    <3> QED
      BY <3>3, <3>4, <3>5 DEF Tasks
  <2> QED
    BY <2>1, <2>2
<1>11. ActiveInv'
  <2>1. \A u \in deleted : u \in Tasks /\ u # t
    BY <1>2 DEF HInv, TypeInv
  <2>2. \A u \in rtRegisterTable : u \in Tasks
    BY DEF HInv, TypeInv, Tasks
  <2>3. active # NoTask => active \in Tasks
    BY DEF HInv, TypeInv
  <2>4. active \notin rtRegisterTable' /\ \A u \in rtRegisterTable' : u \in rtRegisterTable \/ u = t
    BY <1>2, <1>6 DEF HInv, ActiveInv
  <2>5. active \in RealTime => active \in Tasks
    BY DEF Tasks
  <2> QED
    BY <1>1, <1>2, <1>3, <2>1, <2>2, <2>3, <2>4, <2>5 DEF HInv, ActiveInv
<1> QED
  BY <1>8, <1>9, <1>10, <1>11 DEF HInv

(* A blocked task is woken.                                                  *)
LEMMA WakeStep ==
    ASSUME HInv, NEW t \in Tasks, Wake(t)
    PROVE  HInv'
<1>1. /\ t \in waker /\ waker' = waker \ {t} /\ EnableImmediately({t})
      /\ UNCHANGED <<pc, active, iCancelStack, rtRegisterTable, toStealTasks, degraded, joins,
                     status, deleted, ran>>
  BY DEF Wake, timeVars
<1>2. t \in Kept => Held(t)
  BY DEF HInv, HoldInv
<1>3. t \notin ToSet(bQueue)
  <2>1. t \in ToSet(bQueue) => t \in Kept
    BY TaskAssumption DEF HInv, TypeInv, ToSet, Kept
  <2> QED
    BY <1>1, <1>2, <2>1, WithWaker
<1>4. /\ iEDFPriorityQueue' = iEDFPriorityQueue \cup ({t} \cap Interactive)
      /\ iEDFPriorityQueue' \in SUBSET Interactive
      /\ bQueue' \in Seq(Batch) /\ Distinct(bQueue')
      /\ ToSet(bQueue') = ToSet(bQueue) \cup ({t} \cap Batch)
  BY <1>1, <1>3, Enabled
<1>5. TypeInv' /\ ListInv' /\ ActiveInv'
  BY <1>1, <1>4 DEF HInv, TypeInv, ListInv, ActiveInv
<1>7. HoldInv'
  <2> SUFFICES ASSUME NEW u \in Kept PROVE Held(u)'
    BY DEF HoldInv, Kept, Tasks
  <2>1. Held(u) /\ (Waits(u)' <=> Waits(u))
    BY <1>1 DEF HInv, HoldInv, Waits
  <2>2. CASE u # t
    BY <1>1, <1>4, <2>1, <2>2, Stays
  <2>3. CASE u = t
    <3>1. /\ Waits(t) /\ t \notin ToSet(bQueue) /\ t \notin iEDFPriorityQueue
          /\ t \notin ToSet(iCancelStack) /\ t \notin rtRegisterTable
          /\ t \notin ToSet(toStealTasks) /\ t \notin degraded
          /\ joins[t] = NoTask
      BY <1>1, <2>1, <2>3, WithWaker
    <3>2. t \notin RealTime
      BY <1>1, <2>3 DEF Kept, HInv, TypeInv
    <3>3. CASE t \in Interactive
      <4>1. Holders(t)' = {"edf"}
        BY <1>1, <1>4, <3>1, <3>3, TaskAssumption DEF Holders
      <4> QED
        BY <2>1, <2>3, <3>1, <4>1 DEF Held
    <3>4. CASE t \in Batch
      <4>1. Holders(t)' = {"batch"}
        BY <1>1, <1>4, <3>1, <3>4, TaskAssumption DEF Holders
      <4> QED
        BY <2>1, <2>3, <3>1, <4>1 DEF Held
    <3> QED
      BY <3>2, <3>3, <3>4 DEF Tasks
  <2> QED
    BY <2>2, <2>3
<1> QED
  BY <1>5, <1>7 DEF HInv

(* A task ends, and those that join it are enabled.                          *)
LEMMA Notified ==
    ASSUME HInv, NEW t \in Tasks, Notify(t)
    PROVE  /\ iEDFPriorityQueue' = iEDFPriorityQueue \cup (Joiners(t) \cap Interactive)
           /\ iEDFPriorityQueue' \in SUBSET Interactive
           /\ bQueue' \in Seq(Batch) /\ Distinct(bQueue')
           /\ ToSet(bQueue') = ToSet(bQueue) \cup (Joiners(t) \cap Batch)
           /\ joins' \in [Tasks -> Tasks \cup {NoTask}]
           /\ \A u \in Tasks : joins'[u] = IF u \in Joiners(t) THEN NoTask ELSE joins[u]
           /\ \A u \in Joiners(t) : joins[u] # NoTask
<1>1. Joiners(t) \in SUBSET Tasks /\ EnableImmediately(Joiners(t))
  BY DEF Joiners, Notify
<1>2. \A u \in Joiners(t) : u \in Tasks /\ joins[u] = t /\ joins[u] # NoTask
  BY TaskAssumption DEF Joiners
<1>3. Joiners(t) \cap ToSet(bQueue) = {}
  <2> SUFFICES ASSUME NEW u \in Joiners(t), u \in ToSet(bQueue) PROVE FALSE
    OBVIOUS
  <2>1. Held(u)
    BY TaskAssumption DEF HInv, HoldInv, TypeInv, ToSet, Kept, Tasks
  <2> QED
    BY <1>2, <2>1, InJoin
<1>4. /\ joins' \in [Tasks -> Tasks \cup {NoTask}]
      /\ \A u \in Tasks : joins'[u] = IF u \in Joiners(t) THEN NoTask ELSE joins[u]
  BY DEF Notify, HInv, TypeInv
<1> QED
  BY <1>1, <1>2, <1>3, <1>4, Enabled

(* What Notify does to a task whose status it leaves alone.                  *)
LEMMA NotifiedHeld ==
    ASSUME HInv, NEW t \in Tasks, Notify(t), NEW u \in Kept, Waits(u)' <=> Waits(u),
           u \in degraded' <=> u \in degraded,
           UNCHANGED <<iCancelStack, rtRegisterTable, toStealTasks, waker>>
    PROVE  Held(u)'
<1>1. /\ iEDFPriorityQueue' = iEDFPriorityQueue \cup (Joiners(t) \cap Interactive)
      /\ ToSet(bQueue') = ToSet(bQueue) \cup (Joiners(t) \cap Batch)
      /\ joins'[u] = IF u \in Joiners(t) THEN NoTask ELSE joins[u]
      /\ u \in Joiners(t) => joins[u] # NoTask
  BY Notified DEF Kept
<1>2. Held(u) /\ u \in Tasks
  BY DEF HInv, HoldInv, Kept
<1>3. CASE u \notin Joiners(t)
  BY <1>1, <1>2, <1>3, Stays
<1>4. CASE u \in Joiners(t)
  <2>1. /\ Waits(u) /\ u \notin ToSet(bQueue) /\ u \notin iEDFPriorityQueue
        /\ u \notin ToSet(iCancelStack) /\ u \notin rtRegisterTable
        /\ u \notin ToSet(toStealTasks) /\ u \notin degraded /\ u \notin waker
    BY <1>1, <1>2, <1>4, InJoin
  <2>2. u \notin RealTime
    BY <1>1, <1>2, <1>4 DEF Kept, HInv, ListInv
  <2>3. joins'[u] = NoTask
    BY <1>1, <1>4
  <2>4. CASE u \in Interactive
    <3>1. Holders(u)' = {"edf"}
      BY <1>1, <1>4, <2>1, <2>3, <2>4, TaskAssumption DEF Holders
    <3> QED
      BY <2>1, <3>1 DEF Held
  <2>5. CASE u \in Batch
    <3>1. Holders(u)' = {"batch"}
      BY <1>1, <1>4, <2>1, <2>3, <2>5, TaskAssumption DEF Holders
    <3> QED
      BY <2>1, <3>1 DEF Held
  <2> QED
    BY <1>2, <2>2, <2>4, <2>5 DEF Tasks
<1> QED
  BY <1>3, <1>4

LEMMA ExecutorStep ==
    ASSUME HInv, NEW t \in Tasks, ExecutorFinishes(t)
    PROVE  HInv'
<1>1. /\ t \in degraded /\ degraded' = degraded \ {t} /\ deleted' = deleted \cup {t}
      /\ status' = [status EXCEPT ![t] = "FINISHED"] /\ Notify(t)
      /\ UNCHANGED <<pc, active, iCancelStack, rtRegisterTable, toStealTasks, waker, ran>>
  BY DEF ExecutorFinishes, timeVars
<1>2. t \in Interactive /\ t \in Kept /\ t # active /\ t \notin rtRegisterTable
  BY <1>1, TaskAssumption DEF HInv, TypeInv, ActiveInv, Kept, Tasks
<1>3. /\ Waits(t) /\ t \notin ToSet(bQueue) /\ t \notin iEDFPriorityQueue
      /\ t \notin ToSet(iCancelStack) /\ t \notin rtRegisterTable
      /\ t \notin ToSet(toStealTasks) /\ t \notin waker
      /\ joins[t] = NoTask
  BY <1>1, <1>2, OnExecutor DEF HInv, HoldInv
<1>4. /\ iEDFPriorityQueue' = iEDFPriorityQueue \cup (Joiners(t) \cap Interactive)
      /\ iEDFPriorityQueue' \in SUBSET Interactive
      /\ bQueue' \in Seq(Batch) /\ Distinct(bQueue')
      /\ ToSet(bQueue') = ToSet(bQueue) \cup (Joiners(t) \cap Batch)
      /\ joins' \in [Tasks -> Tasks \cup {NoTask}]
      /\ \A u \in Tasks : joins'[u] = IF u \in Joiners(t) THEN NoTask ELSE joins[u]
      /\ \A u \in Joiners(t) : joins[u] # NoTask
  BY <1>1, Notified
<1>5. /\ status' \in [Tasks -> {"NEW", "READY", "FINISHED"}] /\ status'[t] = "FINISHED"
      /\ \A u \in Tasks : u # t => status'[u] = status[u]
  BY <1>1 DEF HInv, TypeInv
<1>6. TypeInv'
  BY <1>1, <1>4, <1>5 DEF HInv, TypeInv
<1>7. ListInv'
  BY <1>1, <1>4 DEF HInv, ListInv
<1>8. ActiveInv'
  <2>1. (\A u \in deleted : u \in Tasks) /\ (\A u \in rtRegisterTable : u \in Tasks)
    BY DEF HInv, TypeInv, Tasks
  <2>2. (active # NoTask => active \in Tasks) /\ (active \in RealTime => active \in Tasks)
    BY DEF HInv, TypeInv, Tasks
  <2> QED
    BY <1>1, <1>2, <1>5, <2>1, <2>2 DEF HInv, ActiveInv
<1>10. HoldInv'
  <2> SUFFICES ASSUME NEW u \in Kept PROVE Held(u)'
    BY DEF HoldInv, Kept, Tasks
  <2>1. CASE u # t
    <3>1. Waits(u)' <=> Waits(u)
      BY <1>1, <1>5, <2>1 DEF Waits, Kept
    <3> QED
      BY <1>1, <2>1, <3>1, NotifiedHeld
  <2>2. CASE u = t
    <3>1. ~Waits(t)' /\ t \notin Joiners(t)
      BY <1>3, <1>4, <1>5 DEF Waits
    <3>2. Holders(t)' = {}
      BY <1>1, <1>3, <1>4, <3>1 DEF Holders
    <3> QED
      BY <2>2, <3>1, <3>2 DEF Held
  <2> QED
    BY <2>1, <2>2
<1> QED
  BY <1>6, <1>7, <1>8, <1>10 DEF HInv

LEMMA FinishStep ==
    ASSUME HInv, Finish
    PROVE  HInv'
<1>1. /\ pc = "run" /\ pc' = "top" /\ status' = [status EXCEPT ![active] = "FINISHED"]
      /\ Notify(active)
      /\ UNCHANGED <<active, iCancelStack, rtRegisterTable, toStealTasks, degraded, waker, deleted, ran>>
  BY DEF Finish, timeVars
<1>2. active \in Tasks /\ status[active] = "READY" /\ toStealTasks = <<>> /\ active # NoTask
  BY <1>1 DEF HInv, TypeInv, ActiveInv, ListInv
<1>3. PICK t \in Tasks : t = active
  BY <1>2
<1>4. /\ iEDFPriorityQueue' = iEDFPriorityQueue \cup (Joiners(t) \cap Interactive)
      /\ iEDFPriorityQueue' \in SUBSET Interactive
      /\ bQueue' \in Seq(Batch) /\ Distinct(bQueue')
      /\ ToSet(bQueue') = ToSet(bQueue) \cup (Joiners(t) \cap Batch)
      /\ joins' \in [Tasks -> Tasks \cup {NoTask}]
      /\ \A u \in Tasks : joins'[u] = IF u \in Joiners(t) THEN NoTask ELSE joins[u]
      /\ \A u \in Joiners(t) : joins[u] # NoTask
  BY <1>1, <1>3, Notified
<1>5. /\ status' \in [Tasks -> {"NEW", "READY", "FINISHED"}] /\ status'[t] = "FINISHED"
      /\ \A u \in Tasks : u # t => status'[u] = status[u]
  BY <1>1, <1>3 DEF HInv, TypeInv
<1>6. TypeInv'
  BY <1>1, <1>4, <1>5 DEF HInv, TypeInv, Labels
<1>7. ListInv'
  BY <1>1, <1>2, <1>4 DEF HInv, ListInv
<1>8. ActiveInv'
  <2>1. (\A u \in deleted : u \in Tasks) /\ (\A u \in rtRegisterTable : u \in Tasks)
    BY DEF HInv, TypeInv, Tasks
  <2> QED
    BY <1>1, <1>2, <1>3, <1>5, <2>1 DEF HInv, ActiveInv
<1>10. HoldInv'
  <2> SUFFICES ASSUME NEW u \in Kept PROVE Held(u)'
    BY DEF HoldInv, Kept, Tasks
  <2>1. Waits(u)' <=> Waits(u)
    BY <1>1, <1>2, <1>3, <1>5 DEF Waits, Kept
  <2> QED
    BY <1>1, <1>3, <2>1, NotifiedHeld
<1> QED
  BY <1>6, <1>7, <1>8, <1>10 DEF HInv

(* The running task yields, blocks or joins.                                 *)
LEMMA SuspendStep ==
    ASSUME HInv, Yield \/ Block \/ \E u \in Joinable : Join(u)
    PROVE  HInv'
<1>1. /\ pc = "run" /\ pc' = "top" /\ active \in Suspending
      /\ UNCHANGED <<active, iCancelStack, rtRegisterTable, toStealTasks, degraded, deleted, status, ran>>
  BY TaskAssumption DEF Yield, Block, Join, MayYield, MaySuspend, timeVars, queueVars
<1>2. active \in Tasks /\ status[active] = "READY" /\ toStealTasks = <<>> /\ active # NoTask
      /\ active \notin deleted
  BY <1>1 DEF HInv, TypeInv, ActiveInv, ListInv
<1>3. PICK t \in Tasks : t = active
  BY <1>2
<1>4. ~Waits(t) /\ Waits(t)'
  BY <1>1, <1>2, <1>3 DEF Waits
<1>5. t \in Kept => Holders(t) = {}
  BY <1>4 DEF HInv, HoldInv, Held
<1>6. t \in Kept => /\ t \notin ToSet(bQueue) /\ t \notin iEDFPriorityQueue
                    /\ t \notin ToSet(iCancelStack) /\ t \notin rtRegisterTable
                    /\ t \notin ToSet(toStealTasks) /\ t \notin degraded /\ t \notin waker
                    /\ joins[t] = NoTask
  BY <1>5, Nowhere
<1>7. t \in Batch \/ t \in Interactive => t \in Kept
  BY TaskAssumption DEF Kept, Tasks
<1>8. bQueue \in Seq(Batch) /\ Distinct(bQueue)
  BY DEF HInv, TypeInv, ListInv
<1>9. \/ /\ iEDFPriorityQueue' = iEDFPriorityQueue \cup ({t} \cap Interactive)
         /\ bQueue' \in Seq(Batch) /\ Distinct(bQueue')
         /\ ToSet(bQueue') = ToSet(bQueue) \cup ({t} \cap Batch)
         /\ waker' = waker /\ joins' = joins
      \/ /\ waker' = waker \cup {t}
         /\ UNCHANGED <<bQueue, iEDFPriorityQueue, joins>>
      \/ /\ \E u \in Tasks : joins' = [joins EXCEPT ![t] = u]
         /\ UNCHANGED <<bQueue, iEDFPriorityQueue, waker>>
  <2>1. CASE Yield
    <3>1. t \in Batch => /\ Append(bQueue, t) \in Seq(Batch) /\ Distinct(Append(bQueue, t))
                         /\ ToSet(Append(bQueue, t)) = ToSet(bQueue) \cup {t}
      BY <1>6, <1>7, <1>8, Appended
    <3>2. CASE t \in Batch
      <4>1. bQueue' = Append(bQueue, t)
        BY <1>3, <2>1, <3>2 DEF Yield
      <4>2. /\ bQueue' \in Seq(Batch) /\ Distinct(bQueue')
            /\ ToSet(bQueue') = ToSet(bQueue) \cup ({t} \cap Batch)
        BY <3>1, <3>2, <4>1
      <4> QED
        BY <1>3, <2>1, <4>2 DEF Yield
    <3>3. CASE t \notin Batch
      BY <1>3, <1>8, <2>1, <3>3 DEF Yield
    <3> QED
      BY <3>2, <3>3
  <2>2. CASE Block
    BY <1>3, <2>2 DEF Block, queueVars
  <2>3. CASE \E u \in Joinable : Join(u)
    BY <1>3, <2>3, TaskAssumption DEF Join, queueVars
  <2> QED
    BY <2>1, <2>2, <2>3
<1>10. TypeInv'
  BY <1>1, <1>3, <1>9 DEF HInv, TypeInv, Labels
<1>11. ListInv'
  <2>1. ASSUME NEW u \in Tasks, joins'[u] # NoTask PROVE u \in Suspending
    BY <1>1, <1>3, <1>9, <2>1 DEF HInv, TypeInv, ListInv
  <2> QED
    BY <1>1, <1>2, <1>8, <1>9, <2>1 DEF HInv, ListInv
<1>12. ActiveInv'
  BY <1>1, <1>2 DEF HInv, ActiveInv
<1>14. HoldInv'
  <2> SUFFICES ASSUME NEW u \in Kept PROVE Held(u)'
    BY DEF HoldInv, Kept, Tasks
  <2>1. CASE u # t
    <3>1. Held(u) /\ (Waits(u)' <=> Waits(u)) /\ u \in Tasks
      BY <1>1, <1>3, <2>1 DEF HInv, HoldInv, Waits, Kept
    <3>2. joins'[u] = joins[u]
      BY <1>9, <2>1, <3>1 DEF HInv, TypeInv
    <3> QED
      BY <1>1, <1>9, <2>1, <3>1, <3>2, Stays
  <2>2. CASE u = t
    <3>1. t \in Interactive \/ t \in Batch
      BY <1>1, <1>3, <2>2 DEF Kept, Tasks
    <3>2. CASE /\ iEDFPriorityQueue' = iEDFPriorityQueue \cup ({t} \cap Interactive)
               /\ ToSet(bQueue') = ToSet(bQueue) \cup ({t} \cap Batch)
               /\ waker' = waker /\ joins' = joins
      <4>1. CASE t \in Interactive
        <5>1. Holders(t)' = {"edf"}
          BY <1>1, <1>6, <1>7, <3>2, <4>1, TaskAssumption DEF Holders
        <5> QED
          BY <1>4, <2>2, <5>1 DEF Held
      <4>2. CASE t \in Batch
        <5>1. Holders(t)' = {"batch"}
          BY <1>1, <1>6, <1>7, <3>2, <4>2, TaskAssumption DEF Holders
        <5> QED
          BY <1>4, <2>2, <5>1 DEF Held
      <4> QED
        BY <3>1, <4>1, <4>2
    <3>3. CASE waker' = waker \cup {t} /\ UNCHANGED <<bQueue, iEDFPriorityQueue, joins>>
      <4>1. Holders(t)' = {"waker"}
        BY <1>1, <1>6, <2>2, <3>3 DEF Holders
      <4> QED
        BY <1>4, <2>2, <4>1 DEF Held
    <3>4. CASE /\ \E v \in Tasks : joins' = [joins EXCEPT ![t] = v]
               /\ UNCHANGED <<bQueue, iEDFPriorityQueue, waker>>
      <4>1. joins'[t] # NoTask
        BY <3>4, TaskAssumption DEF HInv, TypeInv
      <4>2. Holders(t)' = {"join"}
        BY <1>1, <1>6, <2>2, <3>4, <4>1 DEF Holders
      <4> QED
        BY <1>4, <2>2, <4>2 DEF Held
    <3> QED
      BY <1>9, <3>2, <3>3, <3>4
  <2> QED
    BY <2>1, <2>2
<1> QED
  BY <1>10, <1>11, <1>12, <1>14 DEF HInv

(* GetNextTask gives the processor to a task that it took from a queue, and  *)
(* the other tasks stay where they are.                                      *)
LEMMA DispatchStep ==
    ASSUME HInv, NEW n \in Tasks, Return(n), pc # "run",
           status[n] = "READY", n \notin deleted, n \notin degraded,
           n \in Kept => n \notin waker /\ joins[n] = NoTask,
           UNCHANGED <<degraded, waker, joins, status>>,
           bQueue' \in Seq(Batch), Distinct(bQueue'), ToSet(bQueue') = ToSet(bQueue) \ {n},
           iEDFPriorityQueue' = iEDFPriorityQueue \ {n},
           iCancelStack' \in Seq(Interactive), Distinct(iCancelStack'),
           ToSet(iCancelStack') = ToSet(iCancelStack) \ {n},
           rtRegisterTable' = rtRegisterTable \ {n},
           toStealTasks = <<>>, toStealTasks' = <<>>
    PROVE  HInv'
<1>1. ActiveInv' /\ ~Waits(n)' /\ pc' = "run" /\ active' = n /\ ran' = 0
  BY ReturnTask
<1>2. deleted' \subseteq deleted \cup {active} /\ deleted' \subseteq Tasks
  BY TaskAssumption DEF Return, Ends, HInv, TypeInv
<1>3. TypeInv'
  <2>1. toStealTasks' \in Seq(Interactive)
    BY EmptySeq
  <2> QED
    BY <1>1, <1>2, <2>1 DEF HInv, TypeInv, Labels
<1>4. ListInv'
  BY DEF HInv, ListInv, Distinct
<1>6. HoldInv'
  <2> SUFFICES ASSUME NEW u \in Kept PROVE Held(u)'
    BY DEF HoldInv, Kept, Tasks
  <2>1. CASE u # n
    <3>1. Held(u) /\ (Waits(u)' <=> Waits(u))
      BY <2>1, ReturnLeaves DEF HInv, HoldInv
    <3> QED
      BY <2>1, <3>1, Stays
  <2>2. CASE u = n
    <3>1. /\ n \notin ToSet(bQueue') /\ n \notin iEDFPriorityQueue'
          /\ n \notin ToSet(iCancelStack') /\ n \notin rtRegisterTable'
          /\ n \notin degraded' /\ n \notin waker' /\ joins'[n] = NoTask
      BY <2>2
    <3>2. n \notin ToSet(toStealTasks')
      BY DEF ToSet
    <3>3. Holders(n)' = {}
      BY <3>1, <3>2 DEF Holders
    <3> QED
      BY <1>1, <2>2, <3>3 DEF Held
  <2> QED
    BY <2>1, <2>2
<1> QED
  BY <1>1, <1>3, <1>4, <1>6 DEF HInv

(* The tasks at the front of the EDF queue that are late are taken off it:   *)
(* each goes to one of the two lists.                                        *)
LEMMA ExpiredStep ==
    ASSUME HInv, pc \in {"slot", "idle"}, pc' = "give",
           NEW s \in SetToSeqs(ExpiredPrefix \cap Stealable),
           NEW c \in SetToSeqs(ExpiredPrefix \ Stealable),
           toStealTasks' = s, iCancelStack' = c \o iCancelStack,
           iEDFPriorityQueue' = iEDFPriorityQueue \ ExpiredPrefix,
           UNCHANGED <<active, ran, deleted, bQueue, rtRegisterTable, degraded, waker, joins, status>>
    PROVE  HInv'
<1>1. PICK P : P = ExpiredPrefix
  OBVIOUS
<1>2. P \subseteq iEDFPriorityQueue /\ P \subseteq Interactive
  BY <1>1 DEF ExpiredPrefix, Expired, HInv, TypeInv
<1>3. IsFiniteSet(P \cap Stealable) /\ IsFiniteSet(P \ Stealable)
  BY <1>2, TaskAssumption, FS_Subset DEF Tasks
<1>4. s \in Seq(P \cap Stealable) /\ ToSet(s) = P \cap Stealable /\ Distinct(s)
  BY <1>1, <1>3, Arranged
<1>5. c \in Seq(P \ Stealable) /\ ToSet(c) = P \ Stealable /\ Distinct(c)
  BY <1>1, <1>3, Arranged
<1>6. \A t \in P : /\ t \in Kept /\ Waits(t) /\ t \notin ToSet(bQueue)
                   /\ t \notin ToSet(iCancelStack) /\ t \notin rtRegisterTable
                   /\ t \notin degraded /\ t \notin waker /\ joins[t] = NoTask
  <2> SUFFICES ASSUME NEW t \in P
               PROVE  /\ t \in Kept /\ Waits(t) /\ t \notin ToSet(bQueue)
                      /\ t \notin ToSet(iCancelStack) /\ t \notin rtRegisterTable
                      /\ t \notin degraded /\ t \notin waker /\ joins[t] = NoTask
    OBVIOUS
  <2>1. t \in Kept /\ Held(t) /\ t \in iEDFPriorityQueue
    BY <1>2, TaskAssumption DEF Kept, Tasks, HInv, HoldInv
  <2> QED
    BY <2>1, InEdf
<1>7. s \in Seq(Interactive) /\ c \in Seq(Interactive) /\ iCancelStack \in Seq(Interactive)
      /\ Distinct(iCancelStack) /\ ToSet(c) \cap ToSet(iCancelStack) = {}
  BY <1>2, <1>4, <1>5, <1>6 DEF HInv, TypeInv, ListInv
<1>8. /\ iCancelStack' \in Seq(Interactive) /\ Distinct(iCancelStack')
      /\ ToSet(iCancelStack') = (P \ Stealable) \cup ToSet(iCancelStack)
  BY <1>5, <1>7, Concatenated
<1>9. /\ toStealTasks = <<>> /\ ToSet(toStealTasks) = {} /\ ToSet(toStealTasks') = P \cap Stealable
  BY <1>4 DEF HInv, ListInv, ToSet
<1>10. TypeInv'
  BY <1>7, <1>8 DEF HInv, TypeInv, Labels
<1>11. ListInv'
  BY <1>4, <1>8 DEF HInv, ListInv
<1>12. ActiveInv'
  BY DEF HInv, ActiveInv
<1>14. HoldInv'
  <2> SUFFICES ASSUME NEW u \in Kept PROVE Held(u)'
    BY DEF HoldInv, Kept, Tasks
  <2>1. Held(u) /\ (Waits(u)' <=> Waits(u))
    BY DEF HInv, HoldInv, Waits
  <2>2. CASE u \notin P
    BY <1>1, <1>8, <1>9, <2>1, <2>2, Stays
  <2>3. CASE u \in P /\ u \in Stealable
    <3>1. Holders(u)' = {"steal"}
      BY <1>1, <1>6, <1>8, <1>9, <2>3 DEF Holders
    <3> QED
      BY <1>6, <2>1, <2>3, <3>1 DEF Held
  <2>4. CASE u \in P /\ u \notin Stealable
    <3>1. Holders(u)' = {"stack"}
      BY <1>1, <1>6, <1>8, <1>9, <2>4 DEF Holders
    <3> QED
      BY <1>6, <2>1, <2>4, <3>1 DEF Held
  <2> QED
    BY <2>2, <2>3, <2>4
<1> QED
  BY <1>10, <1>11, <1>12, <1>14 DEF HInv

LEMMA GetStep ==
    ASSUME HInv, pc \in {"slot", "idle"}, NEW goto \in {"slot", "idle"},
           GetAnInteractiveBatchTask(goto),
           UNCHANGED <<degraded, waker, joins, status>>
    PROVE  HInv'
<1>1. toStealTasks = <<>> /\ active \notin Interactive
  BY DEF HInv, ListInv, ActiveInv
<1>2. CASE pc' = goto /\ UNCHANGED <<active, ran, deleted, queueVars, toStealTasks>>
  <2>1. UNCHANGED placeVars /\ pc' \in Labels /\ ran' \in Nat
    BY <1>2 DEF placeVars, queueVars, Labels, HInv, TypeInv
  <2> QED
    BY <1>1, <1>2, <2>1, QuietStep
<1>3. CASE /\ bQueue # <<>> /\ bQueue' = Tail(bQueue) /\ Return(Head(bQueue))
           /\ UNCHANGED <<iEDFPriorityQueue, iCancelStack, rtRegisterTable, toStealTasks>>
  <2>1. PICK n : n = Head(bQueue)
    OBVIOUS
  <2>2. /\ n \in Batch /\ n \in ToSet(bQueue) /\ Tail(bQueue) \in Seq(Batch)
        /\ Distinct(Tail(bQueue)) /\ ToSet(Tail(bQueue)) = ToSet(bQueue) \ {n}
    <3>1. bQueue \in Seq(Batch) /\ Distinct(bQueue)
      BY DEF HInv, TypeInv, ListInv
    <3> QED
      BY <1>3, <2>1, <3>1, TailOf
  <2>3. n \in Tasks /\ n \in Kept
    BY <2>2, TaskAssumption DEF Kept, Tasks
  <2>4. /\ Waits(n) /\ n \notin iEDFPriorityQueue
        /\ n \notin ToSet(iCancelStack) /\ n \notin rtRegisterTable
        /\ n \notin degraded /\ n \notin waker /\ joins[n] = NoTask
    BY <2>2, <2>3, InBatch DEF HInv, HoldInv
  <2>5. status[n] = "READY" /\ n \notin deleted
    BY <2>4 DEF Waits
  <2>6. iCancelStack \in Seq(Interactive) /\ Distinct(iCancelStack)
    BY DEF HInv, TypeInv, ListInv
  <2> QED
    BY <1>1, <1>3, <2>1, <2>2, <2>3, <2>4, <2>5, <2>6, DispatchStep
<1>4. CASE /\ pc' = "give"
           /\ \E s \in SetToSeqs(ExpiredPrefix \cap Stealable),
                 c \in SetToSeqs(ExpiredPrefix \ Stealable) :
                toStealTasks' = s /\ iCancelStack' = c \o iCancelStack
           /\ iEDFPriorityQueue' = iEDFPriorityQueue \ ExpiredPrefix
           /\ UNCHANGED <<active, ran, deleted, bQueue, rtRegisterTable>>
  BY <1>4, ExpiredStep
<1>5. \/ pc' = goto /\ UNCHANGED <<active, ran, deleted, queueVars, toStealTasks>>
      \/ /\ bQueue # <<>> /\ bQueue' = Tail(bQueue) /\ Return(Head(bQueue))
         /\ UNCHANGED <<iEDFPriorityQueue, iCancelStack, rtRegisterTable, toStealTasks>>
      \/ /\ pc' = "give"
         /\ \E s \in SetToSeqs(ExpiredPrefix \cap Stealable),
               c \in SetToSeqs(ExpiredPrefix \ Stealable) :
              toStealTasks' = s /\ iCancelStack' = c \o iCancelStack
         /\ iEDFPriorityQueue' = iEDFPriorityQueue \ ExpiredPrefix
         /\ UNCHANGED <<active, ran, deleted, bQueue, rtRegisterTable>>
  BY Zenon DEF GetAnInteractiveBatchTask
<1> QED
  BY <1>2, <1>3, <1>4, <1>5

(* A late task is given to an executor.                                      *)
LEMMA DegradeStep ==
    ASSUME HInv, Degrade
    PROVE  HInv'
<1>1. /\ pc = "give" /\ toStealTasks # <<>> /\ degraded' = degraded \cup {Head(toStealTasks)}
      /\ toStealTasks' = Tail(toStealTasks)
      /\ UNCHANGED <<pc, active, bQueue, iEDFPriorityQueue, iCancelStack, rtRegisterTable, waker,
                     joins, status, deleted, ran>>
  BY DEF Degrade, timeVars, queueVars
<1>2. PICK n : n = Head(toStealTasks)
  OBVIOUS
<1>3. /\ n \in Interactive /\ n \in ToSet(toStealTasks) /\ Tail(toStealTasks) \in Seq(Interactive)
      /\ Distinct(Tail(toStealTasks)) /\ ToSet(Tail(toStealTasks)) = ToSet(toStealTasks) \ {n}
  <2>1. toStealTasks \in Seq(Interactive) /\ Distinct(toStealTasks)
    BY DEF HInv, TypeInv, ListInv
  <2> QED
    BY <1>1, <1>2, <2>1, TailOf
<1>4. TypeInv' /\ ListInv'
  BY <1>1, <1>2, <1>3 DEF HInv, TypeInv, ListInv
<1>5. ActiveInv'
  BY <1>1 DEF HInv, ActiveInv
<1>7. HoldInv'
  <2> SUFFICES ASSUME NEW u \in Kept PROVE Held(u)'
    BY DEF HoldInv, Kept, Tasks
  <2>1. Held(u) /\ (Waits(u)' <=> Waits(u))
    BY <1>1 DEF HInv, HoldInv, Waits
  <2>2. CASE u # n
    BY <1>1, <1>2, <1>3, <2>1, <2>2, Stays
  <2>3. CASE u = n
    <3>1. /\ Waits(n) /\ n \notin ToSet(bQueue) /\ n \notin iEDFPriorityQueue
          /\ n \notin ToSet(iCancelStack) /\ n \notin rtRegisterTable
          /\ n \notin degraded /\ n \notin waker /\ joins[n] = NoTask
      BY <1>3, <2>1, <2>3, InSteal
    <3>2. Holders(n)' = {"executor"}
      BY <1>1, <1>2, <1>3, <3>1 DEF Holders
    <3> QED
      BY <2>1, <2>3, <3>1, <3>2 DEF Held
  <2> QED
    BY <2>2, <2>3
<1> QED
  BY <1>4, <1>5, <1>7 DEF HInv

(* The oldest late task is cancelled.                                        *)
LEMMA CancelStep ==
    ASSUME HInv, CancelOldest
    PROVE  HInv'
<1>1. PICK n : n = Last(iCancelStack)
  OBVIOUS
<1>2. /\ pc = "give" /\ toStealTasks = <<>> /\ Len(iCancelStack) > CancelCap
      /\ iCancelStack' = Front(iCancelStack) /\ deleted' = deleted \cup {n}
      /\ pc' \in {"give", "stuck"}
      /\ UNCHANGED <<active, bQueue, iEDFPriorityQueue, rtRegisterTable, toStealTasks, degraded,
                     waker, joins, status, ran>>
  BY <1>1 DEF CancelOldest, timeVars, taskVars
<1>3. iCancelStack # <<>>
  BY <1>2, BoundAssumption
<1>4. /\ n \in Interactive /\ n \in ToSet(iCancelStack) /\ Front(iCancelStack) \in Seq(Interactive)
      /\ Distinct(Front(iCancelStack)) /\ ToSet(Front(iCancelStack)) = ToSet(iCancelStack) \ {n}
  <2>1. iCancelStack \in Seq(Interactive) /\ Distinct(iCancelStack)
    BY DEF HInv, TypeInv, ListInv
  <2> QED
    BY <1>1, <1>3, <2>1, FrontOf
<1>5. n \in Tasks /\ n \in Kept /\ n # active /\ n \notin rtRegisterTable
  BY <1>2, <1>4, TaskAssumption DEF Kept, Tasks, HInv, TypeInv, ActiveInv
<1>6. /\ Waits(n) /\ n \notin ToSet(bQueue) /\ n \notin iEDFPriorityQueue
      /\ n \notin rtRegisterTable /\ n \notin ToSet(toStealTasks)
      /\ n \notin degraded /\ n \notin waker /\ joins[n] = NoTask
  BY <1>4, <1>5, InStack DEF HInv, HoldInv
<1>7. TypeInv' /\ ListInv'
  BY <1>2, <1>4, <1>5 DEF HInv, TypeInv, ListInv, Labels
<1>8. ActiveInv'
  <2>1. status[n] = "READY"
    BY <1>6 DEF Waits
  <2> QED
    BY <1>2, <1>5, <2>1 DEF HInv, ActiveInv
<1>10. HoldInv'
  <2> SUFFICES ASSUME NEW u \in Kept PROVE Held(u)'
    BY DEF HoldInv, Kept, Tasks
  <2>1. CASE u # n
    <3>1. Held(u) /\ (Waits(u)' <=> Waits(u))
      BY <1>2, <2>1 DEF HInv, HoldInv, Waits
    <3> QED
      BY <1>2, <1>4, <2>1, <3>1, Stays
  <2>2. CASE u = n
    <3>1. ~Waits(n)'
      BY <1>2 DEF Waits
    <3>2. Holders(n)' = {}
      BY <1>2, <1>4, <1>6 DEF Holders
    <3> QED
      BY <2>2, <3>1, <3>2 DEF Held
  <2> QED
    BY <2>1, <2>2
<1> QED
  BY <1>7, <1>8, <1>10 DEF HInv

LEMMA TakeStep ==
    ASSUME HInv, TakeInteractive
    PROVE  HInv'
<1>1. /\ pc = "give" /\ toStealTasks = <<>>
      /\ UNCHANGED <<bQueue, rtRegisterTable, toStealTasks, degraded, waker, joins, status>>
  BY DEF TakeInteractive, taskVars
<1>2. /\ bQueue \in Seq(Batch) /\ Distinct(bQueue)
      /\ iCancelStack \in Seq(Interactive) /\ Distinct(iCancelStack)
  BY DEF HInv, TypeInv, ListInv
<1>3. \A t \in Interactive : t \in Tasks /\ t \in Kept /\ Held(t)
  BY TaskAssumption DEF HInv, HoldInv, Kept, Tasks
<1>4. ASSUME NEW n \in iEDFPriorityQueue, Return(n), iCancelStack' = iCancelStack,
             iEDFPriorityQueue' = iEDFPriorityQueue \ {n}
      PROVE  HInv'
  <2>1. n \in Interactive
    BY DEF HInv, TypeInv
  <2>2. /\ Waits(n) /\ n \notin ToSet(bQueue)
        /\ n \notin ToSet(iCancelStack) /\ n \notin rtRegisterTable
        /\ n \notin degraded /\ n \notin waker /\ joins[n] = NoTask
    BY <1>3, <2>1, InEdf
  <2>3. status[n] = "READY" /\ n \notin deleted
    BY <2>2 DEF Waits
  <2> QED
    BY <1>1, <1>2, <1>3, <1>4, <2>1, <2>2, <2>3, DispatchStep
<1>5. ASSUME iCancelStack # <<>>, iCancelStack' = Tail(iCancelStack), Return(Head(iCancelStack)),
             iEDFPriorityQueue' = iEDFPriorityQueue
      PROVE  HInv'
  <2>1. PICK n : n = Head(iCancelStack)
    OBVIOUS
  <2>2. /\ n \in Interactive /\ n \in ToSet(iCancelStack) /\ iCancelStack' \in Seq(Interactive)
        /\ Distinct(iCancelStack') /\ ToSet(iCancelStack') = ToSet(iCancelStack) \ {n}
    BY <1>2, <1>5, <2>1, TailOf
  <2>3. /\ Waits(n) /\ n \notin ToSet(bQueue) /\ n \notin iEDFPriorityQueue
        /\ n \notin rtRegisterTable
        /\ n \notin degraded /\ n \notin waker /\ joins[n] = NoTask
    BY <1>3, <2>2, InStack
  <2>4. status[n] = "READY" /\ n \notin deleted
    BY <2>3 DEF Waits
  <2> QED
    BY <1>1, <1>2, <1>3, <1>5, <2>1, <2>2, <2>3, <2>4, DispatchStep
<1>6. ASSUME pc' \in {"slot", "idle"},
             UNCHANGED <<active, ran, deleted, iEDFPriorityQueue, iCancelStack>>
      PROVE  HInv'
  <2>1. UNCHANGED placeVars /\ pc' \in Labels /\ ran' \in Nat /\ active \notin Interactive
    BY <1>1, <1>6 DEF placeVars, Labels, HInv, TypeInv, ActiveInv
  <2> QED
    BY <1>1, <1>6, <2>1, QuietStep
<1> QED
  BY <1>4, <1>5, <1>6 DEF TakeInteractive

LEMMA TopStep ==
    ASSUME HInv, Top
    PROVE  HInv'
<1>1. /\ pc = "top" /\ UNCHANGED placeVars /\ status' = status
  BY DEF Top, placeVars, queueVars, taskVars
<1>2. toStealTasks = <<>> /\ ran \in Nat
  BY <1>1 DEF HInv, ListInv, TypeInv
<1>3. ASSUME Return(NoTask) PROVE HInv'
  BY <1>1, <1>2, <1>3, ReturnNoTask
<1>4. ASSUME active \notin Interactive, pc' \in {"slot", "rtspin"},
             UNCHANGED <<active, ran, deleted>>
      PROVE  HInv'
  <2>1. pc' \in Labels
    BY <1>4 DEF Labels
  <2> QED
    BY <1>1, <1>2, <1>4, <2>1, QuietStep
<1>6. active = NoTask \/ active \in Batch \/ active \in RealTime => active \notin Interactive
  BY TaskAssumption DEF Tasks
<1> QED
  BY <1>3, <1>4, <1>6 DEF Top

LEMMA SlotTestStep ==
    ASSUME HInv, SlotTest
    PROVE  HInv'
<1>1. /\ pc = "slot" /\ UNCHANGED <<degraded, waker, joins, status>>
      /\ toStealTasks = <<>> /\ active \notin Interactive /\ ran \in Nat
  BY DEF SlotTest, taskVars, HInv, ListInv, ActiveInv, TypeInv
<1>2. ASSUME NEW n \in rtRegisterTable, rtRegisterTable' = rtRegisterTable \ {n}, Return(n),
             UNCHANGED <<bQueue, iEDFPriorityQueue, iCancelStack, toStealTasks>>
      PROVE  HInv'
  <2>1. n \in RealTime /\ n \in Tasks /\ n \notin Interactive /\ n \notin Batch
    BY TaskAssumption DEF HInv, TypeInv, Tasks
  <2>2. status[n] = "READY" /\ n \notin deleted
    BY DEF HInv, ActiveInv
  <2>3. n \in Kept => n \notin waker /\ joins[n] = NoTask
    BY InTable DEF HInv, HoldInv
  <2>4. /\ bQueue \in Seq(Batch) /\ Distinct(bQueue) /\ n \notin ToSet(bQueue)
        /\ iCancelStack \in Seq(Interactive) /\ Distinct(iCancelStack)
        /\ n \notin ToSet(iCancelStack) /\ n \notin iEDFPriorityQueue /\ n \notin degraded
    BY <2>1 DEF HInv, TypeInv, ListInv, ToSet
  <2> QED
    BY <1>1, <1>2, <2>1, <2>2, <2>3, <2>4, DispatchStep
<1>3. ASSUME NEW goto \in {"slot", "idle"}, GetAnInteractiveBatchTask(goto) PROVE HInv'
  BY <1>1, <1>3, GetStep
<1>4. ASSUME pc' \in {"top", "tail"}, UNCHANGED <<active, ran, deleted, queueVars, toStealTasks>>
      PROVE  HInv'
  <2>1. UNCHANGED placeVars /\ pc' \in Labels
    BY <1>1, <1>4 DEF placeVars, queueVars, Labels
  <2> QED
    BY <1>1, <1>4, <2>1, QuietStep
<1> QED
  BY <1>2, <1>3, <1>4 DEF SlotTest

LEMMA IdleStep ==
    ASSUME HInv, Idle
    PROVE  HInv'
<1>1. /\ pc = "idle" /\ UNCHANGED <<degraded, waker, joins, status>>
      /\ toStealTasks = <<>> /\ active \notin Interactive /\ ran \in Nat
  BY DEF Idle, taskVars, HInv, ListInv, ActiveInv, TypeInv
<1>2. ASSUME Return(NoTask), UNCHANGED <<queueVars, toStealTasks>> PROVE HInv'
  <2>1. UNCHANGED placeVars
    BY <1>1, <1>2 DEF placeVars, queueVars
  <2> QED
    BY <1>1, <1>2, <2>1, ReturnNoTask
<1>3. ASSUME GetAnInteractiveBatchTask("idle") PROVE HInv'
  BY <1>1, <1>3, GetStep
<1>4. ASSUME pc' = "top", UNCHANGED <<active, ran, deleted, queueVars, toStealTasks>>
      PROVE  HInv'
  <2>1. UNCHANGED placeVars /\ pc' \in Labels
    BY <1>1, <1>4 DEF placeVars, queueVars, Labels
  <2> QED
    BY <1>1, <1>4, <2>1, QuietStep
<1> QED
  BY <1>2, <1>3, <1>4 DEF Idle

(* The other steps.                                                          *)
LEMMA OtherStep ==
    ASSUME HInv,
           \/ MainLoop \/ RtSpin \/ TailSpin \/ ShutDown \/ (\E p \in Plans : SetSchedule(p))
           \/ UNCHANGED vars
    PROVE  HInv'
<1>1. UNCHANGED placeVars /\ UNCHANGED <<status, deleted, active, ran>>
  BY DEF MainLoop, RtSpin, TailSpin, ShutDown, SetSchedule, vars, placeVars, queueVars, taskVars,
         timeVars
<1>2. \/ pc' = pc
      \/ /\ pc = "loop" /\ pc' \in {"top", "exit"}
      \/ /\ pc = "rtspin" /\ pc' = "slot"
      \/ /\ pc = "tail" /\ pc' = "top"
  BY DEF MainLoop, RtSpin, TailSpin, ShutDown, SetSchedule, vars
<1>3. ran' \in Nat /\ pc' \in Labels /\ (pc' = pc \/ (pc # "run" /\ pc' # "run"))
  BY <1>1, <1>2 DEF HInv, TypeInv, Labels
<1>4. (toStealTasks # <<>> => pc' = "give") /\ (active \in Interactive => pc' \in {"run", "top"})
  BY <1>2 DEF HInv, ListInv, ActiveInv
<1>5. pc' \in {"loop", "exit"} => active = NoTask
  BY <1>2 DEF HInv, ActiveInv
<1> QED
  BY <1>1, <1>3, <1>4, <1>5, QuietStep

LEMMA HoldInit == Init => HInv
<1> SUFFICES ASSUME Init PROVE HInv
  OBVIOUS
<1>1. ToSet(<<>>) = {} /\ DOMAIN <<>> = {}
  BY DEF ToSet
<1>2. NoTask \notin Tasks /\ NoTask \notin Interactive /\ NoTask \notin RealTime
  BY TaskAssumption DEF Tasks
<1>3. TypeInv
  BY EmptySeq DEF Init, TypeInv, Labels
<1>4. ListInv
  BY <1>1 DEF Init, ListInv, Distinct
<1>5. ActiveInv
  BY <1>2 DEF Init, ActiveInv
<1>7. HoldInv
  <2> SUFFICES ASSUME NEW t \in Tasks PROVE Held(t)
    BY DEF HoldInv, Kept
  <2>1. Holders(t) = {}
    BY <1>1 DEF Init, Holders
  <2>2. ~Waits(t)
    BY DEF Init, Waits
  <2> QED
    BY <2>1, <2>2 DEF Held
<1> QED
  BY <1>3, <1>4, <1>5, <1>7 DEF HInv

LEMMA HoldNext == HInv /\ [Next]_vars => HInv'
<1> SUFFICES ASSUME HInv, [Next]_vars PROVE HInv'
  OBVIOUS
<1>1. CASE MainThread
  BY <1>1, OtherStep, TopStep, SlotTestStep, DegradeStep, CancelStep, TakeStep, IdleStep,
     SuspendStep, FinishStep DEF MainThread
<1>2. CASE \E t \in Tasks : Wake(t) \/ ExecutorFinishes(t)
  BY <1>2, WakeStep, ExecutorStep
<1> QED
  BY <1>1, <1>2, TickStep, OtherStep, CreateStep DEF Next

(* The places of the tasks, and of what the main thread runs, hold as HInv   *)
(* states them in every state, whatever the schedules, the bounds and the    *)
(* kinds of the tasks that suspend.                                          *)
THEOREM PlacesInvariant == Spec => []HInv
BY HoldInit, HoldNext, PTL DEF Spec

(* If no real-time task suspends, a task is in one queue or with one waker   *)
(* whenever it exists and does not run, never in two and never nowhere.      *)
THEOREM TasksHeldOnce ==
    ASSUME Suspending \cap RealTime = {}
    PROVE  Spec => []HeldOnce
<1>1. HInv => HeldOnce
  <2> SUFFICES ASSUME HInv PROVE HeldOnce
    OBVIOUS
  <2>1. ASSUME NEW t \in Tasks
        PROVE  IF status[t] = "READY" /\ t \notin deleted /\ ~(pc = "run" /\ active = t)
                 THEN Cardinality(Holders(t)) = 1 ELSE Holders(t) = {}
    <3>1. Held(t)
      BY DEF HInv, HoldInv, Kept
    <3>2. CASE Waits(t)
      <4>1. PICK h : Holders(t) = {h}
        BY <3>1, <3>2 DEF Held
      <4>2. Cardinality(Holders(t)) = 1
        BY <4>1, FS_Singleton
      <4> QED
        BY <3>2, <4>2 DEF Waits
    <3>3. CASE ~Waits(t)
      BY <3>1, <3>3 DEF Held, Waits
    <3> QED
      BY <3>2, <3>3
  <2>2. /\ Len(bQueue) = Cardinality(ToSet(bQueue))
        /\ Len(iCancelStack) = Cardinality(ToSet(iCancelStack))
    BY LengthCounts DEF HInv, TypeInv, ListInv
  <2>3. (active # NoTask => active \notin deleted) /\ (pc = "run" => status[active] = "READY")
    BY DEF HInv, ActiveInv
  <2> QED
    BY <2>1, <2>2, <2>3 DEF HeldOnce
<1> QED
  BY <1>1, PlacesInvariant, PTL

-----------------------------------------------------------------------------
(* The cycle, continued: for schedules without gaps.                         *)

LEMMA CycleInit ==
    ASSUME SeamlessPlans, Init
    PROVE  CInv
<1>1. /\ pc = "loop" /\ active = NoTask /\ currentSchedule = <<>> /\ idxRealTimeTask = 0
      /\ phase = 0 /\ ran = 0 /\ plan \in InitPlans
  BY DEF Init
<1>2. plan # <<>> => Seamless(plan[1]) /\ Seamless(plan[2]) /\ plan \in Seq(Slots) \X Seq(Slots)
  BY <1>1, PlanAssumption DEF SeamlessPlans
<1>3. active \notin RealTime
  BY <1>1, TaskAssumption DEF Tasks
<1> QED
  BY <1>1, <1>2, <1>3 DEF CInv, CycleTypeInv, PassedInv, CurrentInv, Labels

LEMMA CycleNext ==
    ASSUME SeamlessPlans, CInv, HInv, [Next]_vars
    PROVE  CInv'
<1>1. TypeInv /\ ActiveInv
  BY DEF HInv
<1>2. CASE MainThread
  BY <1>1, <1>2, CycleMain, CycleRtSpin, CycleSlotTest DEF MainThread
<1>3. CASE \/ ShutDown \/ UNCHANGED vars
           \/ \E t \in Tasks : Wake(t) \/ ExecutorFinishes(t)
           \/ \E t \in Interactive : CreateInteractiveTask(t)
           \/ \E t \in Batch : CreateBatchTask(t)
           \/ \E t \in RealTime : CreateRealTimeTask(t)
  <2>1. UNCHANGED <<currentSchedule, idxRealTimeTask, phase, plan, pc, ran, active>>
    BY <1>3 DEF ShutDown, vars, Wake, ExecutorFinishes, CreateInteractiveTask, CreateBatchTask,
                CreateRealTimeTask, slotVars, timeVars
  <2> QED
    BY <2>1, CycleOthers
<1> QED
  BY <1>1, <1>2, <1>3, CycleTick, CycleSetSchedule DEF Next

(* With schedules whose slots leave no gap and are as long as a real-time    *)
(* task runs, the slots before the current one are over, and a real-time     *)
(* task that suspends or ends is still in its slot or within its overrun.    *)
THEOREM CycleInvariant ==
    ASSUME SeamlessPlans
    PROVE  Spec => []CInv
<1>1. Init => CInv
  BY CycleInit
<1>2. CInv /\ HInv /\ [Next]_vars => CInv'
  BY CycleNext
<1> QED
  BY <1>1, <1>2, PlacesInvariant, PTL DEF Spec

(* GetNextTask reads no slot behind the end of such a schedule.              *)
THEOREM IndexStaysInBounds ==
    ASSUME SeamlessPlans
    PROVE  Spec => []IndexInBounds
<1>1. CInv => IndexInBounds
  BY DEF CInv, CurrentInv, IndexInBounds
<1> QED
  BY <1>1, CycleInvariant, PTL

(* A cycle of such a schedule is not cut short, though the schedules may be  *)
(* replaced at any time.                                                     *)
THEOREM CycleNotCutShort ==
    ASSUME SeamlessPlans
    PROVE  Spec => CycleLength
<1>1. ASSUME CInv, [Next]_vars PROVE [phase' < phase => phase >= CycleEnd]_vars
  <2> SUFFICES ASSUME phase' < phase PROVE phase >= CycleEnd
    OBVIOUS
  <2>1. phase \in Nat
    BY <1>1 DEF CInv, CycleTypeInv
  <2>2. phase' # phase /\ ~Tick
    BY <2>1 DEF Tick
  <2>3. SlotTest
    BY <1>1, <2>2 DEF Next, MainThread, MainLoop, Top, RtSpin, Degrade, CancelOldest,
         TakeInteractive, Idle, TailSpin, Yield, Block, Finish, Join, ShutDown, SetSchedule,
         Wake, ExecutorFinishes, CreateInteractiveTask, CreateBatchTask, CreateRealTimeTask,
         vars, timeVars
  <2>4. idxRealTimeTask >= Len(currentSchedule)
    BY <2>2, <2>3 DEF SlotTest
  <2>5. CASE currentSchedule = <<>>
    BY <2>1, <2>5 DEF CycleEnd
  <2>6. CASE currentSchedule # <<>>
    <3>1. PICK n \in Nat : n = Len(currentSchedule) /\ n > 0
      BY <1>1, <2>6 DEF CInv, CycleTypeInv
    <3>2. idxRealTimeTask = n
      BY <1>1, <2>4, <3>1 DEF CInv, CycleTypeInv
    <3>3. phase >= currentSchedule[n].eTime
      BY <1>1, <3>1, <3>2 DEF CInv, PassedInv
    <3> QED
      BY <2>6, <3>1, <3>3 DEF CycleEnd, Last
  <2> QED
    BY <2>5, <2>6
<1> QED
  BY <1>1, CycleInvariant, PTL DEF Spec, CycleLength
=============================================================================
