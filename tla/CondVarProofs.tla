---------------------------- MODULE CondVarProofs ----------------------------
(****************************************************************************)
(* Proofs about CondVar: a task that waits on a condition variable is woken *)
(* once, by the timer or by a notification, its call leaves nothing behind, *)
(* and only a waiter that timed out makes others lose their notification.   *)
(*                                                                          *)
(* What is promised ends when a timeout is leaked, so every part of the     *)
(* invariant but the types is about states without a leak.  They say, of a  *)
(* task at each place of its call: what its call can be (CallInv), that     *)
(* wait_until holds wListLock from registering until the timer is armed     *)
(* (HoldInv), where its timeout can be (TimerInv), that it is in the list   *)
(* once and only while it waits (ListInv), what cvStatus says of who woke   *)
(* it (StatusInv), how often it is in a ready queue (ReadyInv) and that who *)
(* waits without a deadline is in the list or woken (LostInv).              *)
(****************************************************************************)
EXTENDS CondVar, TLAPS

Labels   == {"run", "pred", "unlock", "yielded", "arm", "swap", "disarm", "check",
             "relock", "after"}
Ops      == {"none", "wait", "until", "sleep", "timeout"}
Statuses == {"0", "this", "-1", "-2"}

TypeInv ==
    /\ pc \in [Tasks -> Labels]
    /\ op \in [Tasks -> Ops]
    /\ waitList \in Seq(Tasks)
    /\ cvStatus \in [Tasks -> Statuses]
    /\ timeOut \in [Tasks -> Lists]
    /\ due \in [Tasks -> BOOLEAN]
    /\ ready \in [Tasks -> 0..2]
    /\ swept \in BOOLEAN
    /\ leaked \in BOOLEAN

(* The call a task is in, from where it is.                                 *)
CallInv ==
    \A t \in Tasks :
        /\ pc[t] = "run" => op[t] = "none"
        /\ pc[t] \in {"pred", "unlock", "yielded"} => op[t] \in {"wait", "until"}
        /\ pc[t] = "arm" => op[t] \in {"until", "sleep"}
        /\ pc[t] = "swap" => op[t] \in {"wait", "until", "sleep"}
        /\ pc[t] \in {"disarm", "check"} => op[t] = "until"
        /\ pc[t] \in {"relock", "after"} => op[t] \in {"wait", "until", "timeout"}

(* Who waits with a deadline holds wListLock until the timer is armed.      *)
HoldInv ==
    \A t \in Tasks :
        op[t] = "until" /\ pc[t] \in {"unlock", "yielded", "arm"} => wListLock = t

(* A timeout is on a list only during the sleep it ends, and on the expired *)
(* list only when its time has come.                                        *)
TimerInv ==
    \A t \in Tasks :
        /\ timeOut[t] # "none" => pc[t] \in {"swap", "disarm"} /\ op[t] \in {"until", "sleep"}
        /\ timeOut[t] = "expired" => due[t] = TRUE

(* A task is in the list at most once, ...                                  *)
Distinct ==
    \A i, j \in DOMAIN waitList : waitList[i] = waitList[j] => i = j

(* ... and only while it waits: woken and still linked is who timed out.    *)
ListInv ==
    \A t \in Tasks : Linked(t) =>
        /\ op[t] \in {"wait", "until"}
        /\ pc[t] \in {"unlock", "yielded", "arm", "swap", "disarm", "check"}
        /\ pc[t] \in {"disarm", "check"} => due[t] = TRUE

(* cvStatus tells a wait without a deadline ("0"), a wait with a deadline   *)
(* that nobody has ended ("this"), one that a notification has ended ("-1") *)
(* and one that the timer has ended ("-2").                                 *)
StatusInv ==
    \A t \in Tasks :
        /\ op[t] = "wait" /\ pc[t] \in {"unlock", "yielded", "swap"} => cvStatus[t] = "0"
        /\ op[t] = "until" /\ pc[t] \in {"unlock", "yielded", "arm"} => cvStatus[t] = "this"
        /\ op[t] = "until" /\ pc[t] = "swap" => cvStatus[t] # "0"
        /\ op[t] = "sleep" /\ pc[t] = "swap" => cvStatus[t] \in {"0", "-2"}
        /\ pc[t] \in {"disarm", "check"} => cvStatus[t] \in {"-1", "-2"}
        /\ op[t] \in {"until", "sleep"} /\ pc[t] \in {"swap", "disarm"} /\ cvStatus[t] = "-2"
               => timeOut[t] = "none" /\ due[t] = TRUE
        /\ op[t] = "until" /\ pc[t] \in {"swap", "disarm", "check"} /\ cvStatus[t] = "-1"
               => ~Linked(t)

(* How often a task is in a ready queue: a yield inside the unlocking of a  *)
(* Mutex puts it there, and one notification or the timer.                  *)
ReadyInv ==
    \A t \in Tasks :
        /\ pc[t] \notin {"unlock", "yielded", "swap"} => ready[t] = 0
        /\ op[t] = "until" /\ pc[t] = "unlock" => ready[t] = 0
        /\ op[t] = "until" /\ pc[t] = "yielded" => ready[t] = 1
        /\ op[t] \in {"until", "sleep"} /\ pc[t] = "swap" =>
               ready[t] <= (IF cvStatus[t] \in {"this", "0"} THEN 0 ELSE 1)
        /\ op[t] = "wait" /\ pc[t] \in {"unlock", "swap"} =>
               ready[t] <= (IF Linked(t) THEN 0 ELSE 1)
        /\ op[t] = "wait" /\ pc[t] = "yielded" =>
               ready[t] <= (IF Linked(t) THEN 1 ELSE 2)

(* Until the list is cleared, who waits without a deadline is in it or was  *)
(* woken; a yield counts for itself.                                        *)
LostInv ==
    \A t \in Tasks : op[t] = "wait" /\ swept = FALSE =>
        /\ pc[t] \in {"unlock", "swap"} => Linked(t) \/ ready[t] >= 1
        /\ pc[t] = "yielded" => ready[t] >= (IF Linked(t) THEN 1 ELSE 2)

Core == HoldInv /\ TimerInv /\ Distinct /\ ListInv /\ StatusInv /\ ReadyInv /\ LostInv

(* Only the unlocking of a Mutex yields.                                    *)
YieldInv == LockKind = "spin" => \A t \in Tasks : pc[t] # "yielded"

IInv == TypeInv /\ CallInv /\ YieldInv /\ (leaked \/ Core)

(* A wait whose predicate holds returns. *)
LEMMA PredHoldsHolds ==
    ASSUME IInv, NEW t \in Tasks, PredHolds(t)
    PROVE  IInv'
<1> USE DEF PredHolds, Return, Goto, timerVars, listVars
<1>1. TypeInv'
  BY DEF IInv, TypeInv, Labels, Ops, Statuses, Lists
<1>2. YieldInv'
  BY LockKindAssumption DEF IInv, YieldInv, TypeInv
<1>3. CallInv'
  BY DEF IInv, CallInv, TypeInv
<1>4. ASSUME leaked' = FALSE PROVE Core'
  <2>1. leaked = FALSE /\ TypeInv /\ CallInv /\ Core
    BY <1>4 DEF IInv, TypeInv
  <2>2. \A u \in Tasks : Linked(u)' <=> Linked(u)
    BY DEF Linked
  <2> USE <2>1, <2>2, <1>4 DEF Core, TypeInv
  <2>4. HoldInv'
    BY DEF HoldInv, CallInv
  <2>5. TimerInv'
    BY DEF TimerInv, CallInv
  <2>6. Distinct'
    BY DEF Distinct
  <2>7. ListInv'
    BY DEF ListInv, CallInv, StatusInv, ReadyInv
  <2>8. StatusInv'
    BY DEF StatusInv, CallInv, ReadyInv, TimerInv
  <2>9. ReadyInv'
    BY DEF ReadyInv, CallInv, StatusInv, TimerInv
  <2>10. LostInv'
    BY DEF LostInv, CallInv, ReadyInv
  <2> QED
    BY <2>4, <2>5, <2>6, <2>7, <2>8, <2>9, <2>10
<1> QED
  BY <1>1, <1>2, <1>3, <1>4 DEF IInv, TypeInv

(* Unlocking the caller's lock leaves the list and the timer alone. *)
LEMMA UnlockHolds ==
    ASSUME IInv, NEW t \in Tasks, Unlock(t)
    PROVE  IInv'
<1> USE DEF Unlock, Goto, timerVars, listVars
<1>1. TypeInv'
  BY DEF IInv, TypeInv, Labels, Ops, Statuses, Lists
<1>2. YieldInv'
  BY LockKindAssumption DEF IInv, YieldInv, TypeInv
<1>3. CallInv'
  BY DEF IInv, CallInv, TypeInv
<1>4. ASSUME leaked' = FALSE PROVE Core'
  <2>1. leaked = FALSE /\ TypeInv /\ CallInv /\ Core
    BY <1>4 DEF IInv, TypeInv
  <2>2. \A u \in Tasks : Linked(u)' <=> Linked(u)
    BY DEF Linked
  <2> USE <2>1, <2>2, <1>4 DEF Core, TypeInv
  <2>4. HoldInv'
    BY DEF HoldInv, CallInv
  <2>5. TimerInv'
    BY DEF TimerInv, CallInv
  <2>6. Distinct'
    BY DEF Distinct
  <2>7. ListInv'
    BY DEF ListInv, CallInv, StatusInv, ReadyInv
  <2>8. StatusInv'
    BY DEF StatusInv, CallInv, ReadyInv, TimerInv
  <2>9. ReadyInv'
    BY DEF ReadyInv, CallInv, StatusInv, TimerInv
  <2>10. LostInv'
    BY DEF LostInv, CallInv, ReadyInv
  <2> QED
    BY <2>4, <2>5, <2>6, <2>7, <2>8, <2>9, <2>10
<1> QED
  BY <1>1, <1>2, <1>3, <1>4 DEF IInv, TypeInv

(* A yield puts the task into a ready queue, and only that. *)
LEMMA SpinYieldHolds ==
    ASSUME IInv, NEW t \in Tasks, SpinYield(t)
    PROVE  IInv'
<1> USE DEF SpinYield, Goto, EnableAll, timerVars, listVars
<1>1. TypeInv'
  BY DEF IInv, TypeInv, Labels, Ops, Statuses, Lists
<1>2. YieldInv'
  BY LockKindAssumption DEF IInv, YieldInv, TypeInv
<1>3. CallInv'
  BY DEF IInv, CallInv, TypeInv
<1>4. ASSUME leaked' = FALSE PROVE Core'
  <2>1. leaked = FALSE /\ TypeInv /\ CallInv /\ Core
    BY <1>4 DEF IInv, TypeInv
  <2>2. \A u \in Tasks : Linked(u)' <=> Linked(u)
    BY DEF Linked
  <2> USE <2>1, <2>2, <1>4 DEF Core, TypeInv
  <2>4. HoldInv'
    BY DEF HoldInv, CallInv
  <2>5. TimerInv'
    BY DEF TimerInv, CallInv
  <2>6. Distinct'
    BY DEF Distinct
  <2>7. ListInv'
    BY DEF ListInv, CallInv, StatusInv, ReadyInv
  <2>8. StatusInv'
    BY DEF StatusInv, CallInv, ReadyInv, TimerInv
  <2>9. ReadyInv'
    BY DEF ReadyInv, CallInv, StatusInv, TimerInv
  <2>10. LostInv'
    BY DEF LostInv, CallInv, ReadyInv
  <2> QED
    BY <2>4, <2>5, <2>6, <2>7, <2>8, <2>9, <2>10
<1> QED
  BY <1>1, <1>2, <1>3, <1>4 DEF IInv, TypeInv

(* A sleep begins with no timeout set. *)
LEMMA SleepHolds ==
    ASSUME IInv, NEW t \in Tasks, Sleep(t)
    PROVE  IInv'
<1> USE DEF Sleep, Goto, listVars
<1>1. TypeInv'
  BY DEF IInv, TypeInv, Labels, Ops, Statuses, Lists
<1>2. YieldInv'
  BY LockKindAssumption DEF IInv, YieldInv, TypeInv
<1>3. CallInv'
  BY DEF IInv, CallInv, TypeInv
<1>4. ASSUME leaked' = FALSE PROVE Core'
  <2>1. leaked = FALSE /\ TypeInv /\ CallInv /\ Core
    BY <1>4 DEF IInv, TypeInv
  <2>2. \A u \in Tasks : Linked(u)' <=> Linked(u)
    BY DEF Linked
  <2> USE <2>1, <2>2, <1>4 DEF Core, TypeInv
  <2>4. HoldInv'
    BY DEF HoldInv, CallInv
  <2>5. TimerInv'
    BY DEF TimerInv, CallInv
  <2>6. Distinct'
    BY DEF Distinct
  <2>7. ListInv'
    BY DEF ListInv, CallInv, StatusInv, ReadyInv
  <2>8. StatusInv'
    BY DEF StatusInv, CallInv, ReadyInv, TimerInv
  <2>9. ReadyInv'
    BY DEF ReadyInv, CallInv, StatusInv, TimerInv
  <2>10. LostInv'
    BY DEF LostInv, CallInv, ReadyInv
  <2> QED
    BY <2>4, <2>5, <2>6, <2>7, <2>8, <2>9, <2>10
<1> QED
  BY <1>1, <1>2, <1>3, <1>4 DEF IInv, TypeInv

(* Time passes. *)
LEMMA TickHolds ==
    ASSUME IInv, NEW t \in Tasks, Tick(t)
    PROVE  IInv'
<1> USE DEF Tick, listVars
<1>1. TypeInv'
  BY DEF IInv, TypeInv, Labels, Ops, Statuses, Lists
<1>2. YieldInv'
  BY LockKindAssumption DEF IInv, YieldInv, TypeInv
<1>3. CallInv'
  BY DEF IInv, CallInv, TypeInv
<1>4. ASSUME leaked' = FALSE PROVE Core'
  <2>1. leaked = FALSE /\ TypeInv /\ CallInv /\ Core
    BY <1>4 DEF IInv, TypeInv
  <2>2. \A u \in Tasks : Linked(u)' <=> Linked(u)
    BY DEF Linked
  <2> USE <2>1, <2>2, <1>4 DEF Core, TypeInv
  <2>4. HoldInv'
    BY DEF HoldInv, CallInv
  <2>5. TimerInv'
    BY DEF TimerInv, CallInv
  <2>6. Distinct'
    BY DEF Distinct
  <2>7. ListInv'
    BY DEF ListInv, CallInv, StatusInv, ReadyInv
  <2>8. StatusInv'
    BY DEF StatusInv, CallInv, ReadyInv, TimerInv
  <2>9. ReadyInv'
    BY DEF ReadyInv, CallInv, StatusInv, TimerInv
  <2>10. LostInv'
    BY DEF LostInv, CallInv, ReadyInv
  <2> QED
    BY <2>4, <2>5, <2>6, <2>7, <2>8, <2>9, <2>10
<1> QED
  BY <1>1, <1>2, <1>3, <1>4 DEF IInv, TypeInv

(* The timeout of a task is set while it is on no list. *)
LEMMA SetTimeoutHolds ==
    ASSUME IInv, NEW t \in Tasks, SetTimeout(t)
    PROVE  IInv'
<1> USE DEF SetTimeout, Goto, Added, UpdateTimeout
<1>1. TypeInv'
  BY DEF IInv, TypeInv, Labels, Ops, Statuses, Lists
<1>2. YieldInv'
  BY LockKindAssumption DEF IInv, YieldInv, TypeInv
<1>3. CallInv'
  BY DEF IInv, CallInv, TypeInv
<1>4. ASSUME leaked' = FALSE PROVE Core'
  <2>1. leaked = FALSE /\ TypeInv /\ CallInv /\ Core
    BY <1>4 DEF IInv, TypeInv
  <2>2. \A u \in Tasks : Linked(u)' <=> Linked(u)
    BY DEF Linked
  <2>a. timeOut[t] = "none"
    BY <2>1 DEF Core, TimerInv, TypeInv
  <2>b. timeOut'[t] \in {"wheel", "expired"} /\ (timeOut'[t] = "expired" => due[t] = TRUE)
    BY <2>1, <2>a DEF TypeInv
  <2>c. \A u \in Tasks \ {t} :
              \/ timeOut'[u] = timeOut[u]
              \/ timeOut[u] = "wheel" /\ timeOut'[u] = "expired" /\ due[u] = TRUE
    BY <2>1, <2>a DEF TypeInv
  <2>3. /\ timeOut[t] = "none" /\ timeOut'[t] \in {"wheel", "expired"}
        /\ timeOut'[t] = "expired" => due[t] = TRUE
        /\ \A u \in Tasks \ {t} :
              \/ timeOut'[u] = timeOut[u]
              \/ timeOut[u] = "wheel" /\ timeOut'[u] = "expired" /\ due[u] = TRUE
    BY ONLY <2>a, <2>b, <2>c
  <2> USE <2>1, <2>2, <2>3, <1>4 DEF Core, TypeInv
  <2>4. HoldInv'
    BY DEF HoldInv, CallInv
  <2>5. TimerInv'
    BY DEF TimerInv, CallInv
  <2>6. Distinct'
    BY DEF Distinct
  <2>7. ListInv'
    BY DEF ListInv, CallInv, StatusInv, ReadyInv
  <2>8. StatusInv'
    BY DEF StatusInv, CallInv, ReadyInv, TimerInv
  <2>9. ReadyInv'
    BY DEF ReadyInv, CallInv, StatusInv, TimerInv
  <2>10. LostInv'
    BY DEF LostInv, CallInv, ReadyInv
  <2> QED
    BY <2>4, <2>5, <2>6, <2>7, <2>8, <2>9, <2>10
<1> QED
  BY <1>1, <1>2, <1>3, <1>4 DEF IInv, TypeInv

(* A task that goes on was woken by exactly one of the two. *)
LEMMA SwapOutHolds ==
    ASSUME IInv, NEW t \in Tasks, SwapOut(t)
    PROVE  IInv'
<1> USE DEF Goto, timerVars, listVars
<1>0. /\ ready[t] > 0 /\ ready' = [ready EXCEPT ![t] = @ - 1]
      /\ \/ /\ pc[t] = "yielded" /\ op[t] \in {"wait", "until"}
            /\ pc' = [pc EXCEPT ![t] = "unlock"] /\ op' = op
         \/ /\ pc[t] = "swap" /\ op[t] = "wait"
            /\ pc' = [pc EXCEPT ![t] = "relock"] /\ op' = op
         \/ /\ pc[t] = "swap" /\ op[t] = "until"
            /\ pc' = [pc EXCEPT ![t] = "disarm"] /\ op' = op
         \/ /\ pc[t] = "swap" /\ op[t] = "sleep"
            /\ pc' = [pc EXCEPT ![t] = "run"] /\ op' = [op EXCEPT ![t] = "none"]
      /\ UNCHANGED <<wListLock, waitList, cvStatus, swept, sl, timeOut, due, leaked>>
  <2>1. /\ pc[t] \in {"swap", "yielded"} /\ t \in DOMAIN pc /\ t \in DOMAIN op
        /\ pc[t] = "yielded" => op[t] \in {"wait", "until"}
        /\ pc[t] = "swap" => op[t] \in {"wait", "until", "sleep"}
    BY DEF SwapOut, IInv, TypeInv, CallInv
  <2>2. CASE pc[t] = "yielded"
    BY <2>1, <2>2 DEF SwapOut
  <2>3. CASE pc[t] = "swap" /\ op[t] = "wait"
    BY <2>1, <2>3 DEF SwapOut
  <2>4. CASE pc[t] = "swap" /\ op[t] = "until"
    BY <2>1, <2>4 DEF SwapOut
  <2>5. CASE pc[t] = "swap" /\ op[t] = "sleep"
    BY <2>1, <2>5 DEF SwapOut
  <2> QED
    BY <2>1, <2>2, <2>3, <2>4, <2>5
<1> USE <1>0
<1>1. TypeInv'
  BY DEF IInv, TypeInv, Labels, Ops, Statuses, Lists
<1>2. YieldInv'
  BY LockKindAssumption DEF IInv, YieldInv, TypeInv
<1>3. CallInv'
  BY DEF IInv, CallInv, TypeInv
<1>4. ASSUME leaked' = FALSE PROVE Core'
  <2>1. leaked = FALSE /\ TypeInv /\ CallInv /\ Core
    BY <1>4 DEF IInv, TypeInv
  <2>2. \A u \in Tasks : Linked(u)' <=> Linked(u)
    BY DEF Linked
  <2>3. pc[t] = "swap" =>
          /\ op[t] = "wait" => ~Linked(t)
          /\ op[t] = "sleep" => timeOut[t] = "none"
          /\ op[t] = "until" => /\ cvStatus[t] \in {"-1", "-2"}
                                /\ Linked(t) => due[t] = TRUE
    BY <2>1 DEF Core, TypeInv, StatusInv, ReadyInv, Statuses
  <2> USE <2>1, <2>2, <2>3, <1>4 DEF Core, TypeInv
  <2>4. HoldInv'
    BY DEF HoldInv, CallInv
  <2>5. TimerInv'
    BY DEF TimerInv, CallInv
  <2>6. Distinct'
    BY DEF Distinct
  <2>7. ListInv'
    BY DEF ListInv
  <2>8. StatusInv'
    BY DEF StatusInv
  <2>9. ReadyInv'
    BY DEF ReadyInv, CallInv, StatusInv, TimerInv
  <2>10. LostInv'
    BY DEF LostInv, CallInv, ReadyInv
  <2> QED
    BY <2>4, <2>5, <2>6, <2>7, <2>8, <2>9, <2>10
<1> QED
  BY <1>1, <1>2, <1>3, <1>4 DEF IInv, TypeInv

(* A timeout that has not fired is taken back, or leaked. *)
LEMMA DisarmHolds ==
    ASSUME IInv, NEW t \in Tasks, Disarm(t)
    PROVE  IInv'
<1> USE DEF Disarm, Goto, DropTimeout, listVars
<1>1. TypeInv'
  BY DEF IInv, TypeInv, Labels, Ops, Statuses, Lists
<1>2. YieldInv'
  BY LockKindAssumption DEF IInv, YieldInv, TypeInv
<1>3. CallInv'
  BY DEF IInv, CallInv, TypeInv
<1>4. ASSUME leaked' = FALSE PROVE Core'
  <2>1. leaked = FALSE /\ TypeInv /\ CallInv /\ Core
    BY <1>4 DEF IInv, TypeInv
  <2>2. \A u \in Tasks : Linked(u)' <=> Linked(u)
    BY DEF Linked
  <2> USE <2>1, <2>2, <1>4 DEF Core, TypeInv
  <2>4. HoldInv'
    BY DEF HoldInv, CallInv
  <2>5. TimerInv'
    BY DEF TimerInv, CallInv
  <2>6. Distinct'
    BY DEF Distinct
  <2>7. ListInv'
    BY DEF ListInv, CallInv, StatusInv, ReadyInv
  <2>8. StatusInv'
    BY DEF StatusInv, CallInv, ReadyInv, TimerInv
  <2>9. ReadyInv'
    BY DEF ReadyInv, CallInv, StatusInv, TimerInv
  <2>10. LostInv'
    BY DEF LostInv, CallInv, ReadyInv
  <2> QED
    BY <2>4, <2>5, <2>6, <2>7, <2>8, <2>9, <2>10
<1> QED
  BY <1>1, <1>2, <1>3, <1>4 DEF IInv, TypeInv

(* Taking the lock again changes nothing else. *)
LEMMA RelockHolds ==
    ASSUME IInv, NEW t \in Tasks, Relock(t)
    PROVE  IInv'
<1> USE DEF Relock, Goto, timerVars, listVars
<1>1. TypeInv'
  BY DEF IInv, TypeInv, Labels, Ops, Statuses, Lists
<1>2. YieldInv'
  BY LockKindAssumption DEF IInv, YieldInv, TypeInv
<1>3. CallInv'
  BY DEF IInv, CallInv, TypeInv
<1>4. ASSUME leaked' = FALSE PROVE Core'
  <2>1. leaked = FALSE /\ TypeInv /\ CallInv /\ Core
    BY <1>4 DEF IInv, TypeInv
  <2>2. \A u \in Tasks : Linked(u)' <=> Linked(u)
    BY DEF Linked
  <2> USE <2>1, <2>2, <1>4 DEF Core, TypeInv
  <2>4. HoldInv'
    BY DEF HoldInv, CallInv
  <2>5. TimerInv'
    BY DEF TimerInv, CallInv
  <2>6. Distinct'
    BY DEF Distinct
  <2>7. ListInv'
    BY DEF ListInv, CallInv, StatusInv, ReadyInv
  <2>8. StatusInv'
    BY DEF StatusInv, CallInv, ReadyInv, TimerInv
  <2>9. ReadyInv'
    BY DEF ReadyInv, CallInv, StatusInv, TimerInv
  <2>10. LostInv'
    BY DEF LostInv, CallInv, ReadyInv
  <2> QED
    BY <2>4, <2>5, <2>6, <2>7, <2>8, <2>9, <2>10
<1> QED
  BY <1>1, <1>2, <1>3, <1>4 DEF IInv, TypeInv

(* A timed-out call returns, any other looks at the predicate again. *)
LEMMA AfterHolds ==
    ASSUME IInv, NEW t \in Tasks, After(t)
    PROVE  IInv'
<1> USE DEF After, Return, Goto, timerVars, listVars
<1>1. TypeInv'
  BY DEF IInv, TypeInv, Labels, Ops, Statuses, Lists
<1>2. YieldInv'
  BY LockKindAssumption DEF IInv, YieldInv, TypeInv
<1>3. CallInv'
  BY DEF IInv, CallInv, TypeInv
<1>4. ASSUME leaked' = FALSE PROVE Core'
  <2>1. leaked = FALSE /\ TypeInv /\ CallInv /\ Core
    BY <1>4 DEF IInv, TypeInv
  <2>2. \A u \in Tasks : Linked(u)' <=> Linked(u)
    BY DEF Linked
  <2> USE <2>1, <2>2, <1>4 DEF Core, TypeInv
  <2>4. HoldInv'
    BY DEF HoldInv, CallInv
  <2>5. TimerInv'
    BY DEF TimerInv, CallInv
  <2>6. Distinct'
    BY DEF Distinct
  <2>7. ListInv'
    BY DEF ListInv, CallInv, StatusInv, ReadyInv
  <2>8. StatusInv'
    BY DEF StatusInv, CallInv, ReadyInv, TimerInv
  <2>9. ReadyInv'
    BY DEF ReadyInv, CallInv, StatusInv, TimerInv
  <2>10. LostInv'
    BY DEF LostInv, CallInv, ReadyInv
  <2> QED
    BY <2>4, <2>5, <2>6, <2>7, <2>8, <2>9, <2>10
<1> QED
  BY <1>1, <1>2, <1>3, <1>4 DEF IInv, TypeInv

(* The timer collects what is due. *)
LEMMA TimerLockHolds ==
    ASSUME IInv, TimerLock
    PROVE  IInv'
<1> USE DEF TimerLock, UpdateTimeout, listVars
<1>1. TypeInv'
  BY DEF IInv, TypeInv, Labels, Ops, Statuses, Lists
<1>2. YieldInv'
  BY LockKindAssumption DEF IInv, YieldInv, TypeInv
<1>3. CallInv'
  BY DEF IInv, CallInv, TypeInv
<1>4. ASSUME leaked' = FALSE PROVE Core'
  <2>1. leaked = FALSE /\ TypeInv /\ CallInv /\ Core
    BY <1>4 DEF IInv, TypeInv
  <2>2. \A u \in Tasks : Linked(u)' <=> Linked(u)
    BY DEF Linked
  <2> USE <2>1, <2>2, <1>4 DEF Core, TypeInv
  <2>4. HoldInv'
    BY DEF HoldInv, CallInv
  <2>5. TimerInv'
    BY DEF TimerInv, CallInv
  <2>6. Distinct'
    BY DEF Distinct
  <2>7. ListInv'
    BY DEF ListInv, CallInv, StatusInv, ReadyInv
  <2>8. StatusInv'
    BY DEF StatusInv, CallInv, ReadyInv, TimerInv
  <2>9. ReadyInv'
    BY DEF ReadyInv, CallInv, StatusInv, TimerInv
  <2>10. LostInv'
    BY DEF LostInv, CallInv, ReadyInv
  <2> QED
    BY <2>4, <2>5, <2>6, <2>7, <2>8, <2>9, <2>10
<1> QED
  BY <1>1, <1>2, <1>3, <1>4 DEF IInv, TypeInv

(* The timer wakes a task unless a notification was first. *)
LEMMA TimeoutCallbackHolds ==
    ASSUME IInv, NEW t \in Tasks, TimeoutCallback(t)
    PROVE  IInv'
<1> USE DEF TimeoutCallback, EnableAll, TimerWakes
<1>1. TypeInv'
  BY DEF IInv, TypeInv, Labels, Ops, Statuses, Lists
<1>2. YieldInv'
  BY LockKindAssumption DEF IInv, YieldInv, TypeInv
<1>3. CallInv'
  BY DEF IInv, CallInv, TypeInv
<1>4. ASSUME leaked' = FALSE PROVE Core'
  <2>1. leaked = FALSE /\ TypeInv /\ CallInv /\ Core
    BY <1>4 DEF IInv, TypeInv
  <2>2. \A u \in Tasks : Linked(u)' <=> Linked(u)
    BY DEF Linked
  <2>3. /\ cvStatus'[t] = "-2"
        /\ \A u \in Tasks \ {t} : ready'[u] = ready[u] /\ cvStatus'[u] = cvStatus[u]
        /\ \/ cvStatus[t] = "-1" /\ ready'[t] = ready[t]
           \/ ready[t] = 0 /\ ready'[t] = 1 /\ pc[t] = "swap" /\ op[t] \in {"until", "sleep"}
    BY <2>1, <1>4 DEF Core, TimerInv, StatusInv, ReadyInv, CallInv, TypeInv, Statuses
  <2> USE <2>1, <2>2, <2>3, <1>4 DEF Core, TypeInv
  <2>4. HoldInv'
    BY DEF HoldInv, CallInv
  <2>5. TimerInv'
    BY DEF TimerInv, CallInv
  <2>6. Distinct'
    BY DEF Distinct
  <2>7. ListInv'
    BY DEF ListInv, CallInv, StatusInv, ReadyInv
  <2>8. StatusInv'
    BY DEF StatusInv, CallInv, ReadyInv, TimerInv
  <2>9. ReadyInv'
    BY DEF ReadyInv, CallInv, StatusInv, TimerInv
  <2>10. LostInv'
    BY DEF LostInv, CallInv, ReadyInv
  <2> QED
    BY <2>4, <2>5, <2>6, <2>7, <2>8, <2>9, <2>10
<1> QED
  BY <1>1, <1>2, <1>3, <1>4 DEF IInv, TypeInv

(* The timer lets go of its lock. *)
LEMMA TimerUnlockHolds ==
    ASSUME IInv, TimerUnlock
    PROVE  IInv'
<1> USE DEF TimerUnlock, listVars
<1>1. TypeInv'
  BY DEF IInv, TypeInv, Labels, Ops, Statuses, Lists
<1>2. YieldInv'
  BY LockKindAssumption DEF IInv, YieldInv, TypeInv
<1>3. CallInv'
  BY DEF IInv, CallInv, TypeInv
<1>4. ASSUME leaked' = FALSE PROVE Core'
  <2>1. leaked = FALSE /\ TypeInv /\ CallInv /\ Core
    BY <1>4 DEF IInv, TypeInv
  <2>2. \A u \in Tasks : Linked(u)' <=> Linked(u)
    BY DEF Linked
  <2> USE <2>1, <2>2, <1>4 DEF Core, TypeInv
  <2>4. HoldInv'
    BY DEF HoldInv, CallInv
  <2>5. TimerInv'
    BY DEF TimerInv, CallInv
  <2>6. Distinct'
    BY DEF Distinct
  <2>7. ListInv'
    BY DEF ListInv, CallInv, StatusInv, ReadyInv
  <2>8. StatusInv'
    BY DEF StatusInv, CallInv, ReadyInv, TimerInv
  <2>9. ReadyInv'
    BY DEF ReadyInv, CallInv, StatusInv, TimerInv
  <2>10. LostInv'
    BY DEF LostInv, CallInv, ReadyInv
  <2> QED
    BY <2>4, <2>5, <2>6, <2>7, <2>8, <2>9, <2>10
<1> QED
  BY <1>1, <1>2, <1>3, <1>4 DEF IInv, TypeInv

(* What a registration does to the list.                                    *)
LEMMA Appended ==
    ASSUME TypeInv, NEW t \in Tasks, waitList' = Append(waitList, t)
    PROVE  /\ \A u \in Tasks : Linked(u)' <=> Linked(u) \/ u = t
           /\ Distinct /\ ~Linked(t) => Distinct'
<1>1. waitList \in Seq(Tasks)
  BY DEF TypeInv
<1>2. /\ DOMAIN waitList = 1..Len(waitList) /\ Len(waitList) \in Nat
      /\ DOMAIN waitList' = 1..(Len(waitList) + 1)
      /\ \A i \in 1..Len(waitList) : waitList'[i] = waitList[i]
      /\ waitList'[Len(waitList) + 1] = t
  BY <1>1
<1>3. \A i \in DOMAIN waitList' : i \in DOMAIN waitList \/ i = Len(waitList) + 1
  BY <1>2
<1> QED
  BY <1>2, <1>3 DEF Linked, Distinct

(* What notify_one does to it.                                              *)
LEMMA Popped ==
    ASSUME TypeInv, Distinct, waitList # <<>>, waitList' = Tail(waitList)
    PROVE  /\ Head(waitList) \in Tasks
           /\ Linked(Head(waitList))
           /\ \A u \in Tasks : Linked(u)' <=> Linked(u) /\ u # Head(waitList)
           /\ Distinct'
<1>1. waitList \in Seq(Tasks)
  BY DEF TypeInv
<1>2. /\ DOMAIN waitList = 1..Len(waitList) /\ Len(waitList) \in Nat /\ Len(waitList) > 0
      /\ DOMAIN waitList' = 1..(Len(waitList) - 1)
      /\ \A i \in 1..(Len(waitList) - 1) : waitList'[i] = waitList[i + 1]
      /\ Head(waitList) = waitList[1] /\ waitList[1] \in Tasks
  BY <1>1
<1>3. Distinct'
  BY <1>2 DEF Distinct
<1>4. \A u \in Tasks : Linked(u)' => Linked(u) /\ u # Head(waitList)
  <2> SUFFICES ASSUME NEW u \in Tasks, NEW i \in DOMAIN waitList', waitList'[i] = u
               PROVE  Linked(u) /\ u # Head(waitList)
    BY DEF Linked
  <2>1. i + 1 \in DOMAIN waitList /\ waitList[i + 1] = u /\ i + 1 # 1 /\ 1 \in DOMAIN waitList
    BY <1>2
  <2> QED
    BY <1>2, <2>1 DEF Linked, Distinct
<1>5. \A u \in Tasks : Linked(u) /\ u # Head(waitList) => Linked(u)'
  <2> SUFFICES ASSUME NEW u \in Tasks, NEW i \in DOMAIN waitList, waitList[i] = u, i # 1
               PROVE  Linked(u)'
    BY <1>2 DEF Linked
  <2>1. i - 1 \in DOMAIN waitList' /\ waitList'[i - 1] = u
    BY <1>2
  <2> QED
    BY <2>1 DEF Linked
<1> QED
  BY <1>2, <1>3, <1>4, <1>5 DEF Linked

(* A list that was cleared or whose waiters were all popped.                *)
LEMMA Emptied ==
    ASSUME waitList' = <<>>
    PROVE  /\ \A u \in Tasks : ~Linked(u)'
           /\ Distinct'
BY DEF Linked, Distinct

(* A call begins with nothing left behind by an earlier one. *)
LEMMA CallHolds ==
    ASSUME IInv, NEW t \in Tasks, NEW k \in Kinds, Call(t, k)
    PROVE  IInv'
<1> USE DEF Goto, listVars
<1>0. PICK d \in BOOLEAN : due' = [due EXCEPT ![t] = d /\ k = "until"]
  BY DEF Call
<1> USE <1>0, KindsAssumption DEF Call
<1>1. TypeInv'
  BY DEF IInv, TypeInv, Labels, Ops, Statuses, Lists
<1>2. YieldInv'
  BY LockKindAssumption DEF IInv, YieldInv, TypeInv
<1>3. CallInv'
  BY DEF IInv, CallInv, TypeInv
<1>4. ASSUME leaked' = FALSE PROVE Core'
  <2>1. leaked = FALSE /\ TypeInv /\ CallInv /\ Core
    BY <1>4 DEF IInv, TypeInv
  <2>2. \A u \in Tasks : Linked(u)' <=> Linked(u)
    BY DEF Linked, Call
  <2> USE <2>1, <2>2, <1>4 DEF Core, TypeInv
  <2>4. HoldInv'
    BY DEF HoldInv, CallInv
  <2>5. TimerInv'
    BY DEF TimerInv, CallInv
  <2>6. Distinct'
    BY DEF Distinct
  <2>7. ListInv'
    BY DEF ListInv, CallInv, StatusInv, ReadyInv
  <2>8. StatusInv'
    BY DEF StatusInv, CallInv, ReadyInv, TimerInv
  <2>9. ReadyInv'
    BY DEF ReadyInv, CallInv, StatusInv, TimerInv
  <2>10. LostInv'
    BY DEF LostInv, CallInv, ReadyInv
  <2> QED
    BY <2>4, <2>5, <2>6, <2>7, <2>8, <2>9, <2>10
<1> QED
  BY <1>1, <1>2, <1>3, <1>4 DEF IInv, TypeInv

(* A task that registers is not in the list. *)
LEMMA RegisterHolds ==
    ASSUME IInv, NEW t \in Tasks, Register(t)
    PROVE  IInv'
<1> USE DEF Register, Goto, timerVars
<1>1. TypeInv'
  BY DEF IInv, TypeInv, Labels, Ops, Statuses, Lists
<1>2. YieldInv'
  BY LockKindAssumption DEF IInv, YieldInv, TypeInv
<1>3. CallInv'
  BY DEF IInv, CallInv, TypeInv
<1>4. ASSUME leaked' = FALSE PROVE Core'
  <2>1. leaked = FALSE /\ TypeInv /\ CallInv /\ Core
    BY <1>4 DEF IInv, TypeInv
  <2>2. (\A u \in Tasks : Linked(u)' <=> Linked(u) \/ u = t) /\ (Distinct /\ ~Linked(t) => Distinct')
    BY <2>1, Appended
  <2> USE <2>1, <2>2, <1>4 DEF Core, TypeInv
  <2>4. HoldInv'
    BY TimedAssumption DEF HoldInv, CallInv
  <2>5. TimerInv'
    BY DEF TimerInv, CallInv
  <2>6. Distinct'
    BY DEF ListInv
  <2>7. ListInv'
    BY DEF ListInv, CallInv, StatusInv, ReadyInv
  <2>8. StatusInv'
    BY DEF StatusInv, CallInv, ReadyInv, TimerInv
  <2>9. ReadyInv'
    BY DEF ReadyInv, CallInv, StatusInv, TimerInv
  <2>10. LostInv'
    BY DEF LostInv, CallInv, ReadyInv
  <2> QED
    BY <2>4, <2>5, <2>6, <2>7, <2>8, <2>9, <2>10
<1> QED
  BY <1>1, <1>2, <1>3, <1>4 DEF IInv, TypeInv

(* A waiter that timed out clears the list, and is in it no more. *)
LEMMA CheckTimeoutHolds ==
    ASSUME IInv, NEW t \in Tasks, CheckTimeout(t)
    PROVE  IInv'
<1> USE DEF CheckTimeout, Goto, timerVars, RemoveFromList
<1>0. waitList' \in Seq(Tasks)
  <2>1. <<>> \in Seq(Tasks)
    OBVIOUS
  <2>2. waitList' = <<>> \/ waitList' = waitList
    BY DEF IInv, TypeInv
  <2> QED
    BY <2>1, <2>2 DEF IInv, TypeInv
<1>1. TypeInv'
  BY <1>0 DEF IInv, TypeInv, Labels, Ops, Statuses, Lists
<1>2. YieldInv'
  BY LockKindAssumption DEF IInv, YieldInv, TypeInv
<1>3. CallInv'
  BY DEF IInv, CallInv, TypeInv
<1>4. ASSUME leaked' = FALSE PROVE Core'
  <2>1. leaked = FALSE /\ TypeInv /\ CallInv /\ Core
    BY <1>4 DEF IInv, TypeInv
  <2>2. \/ due[t] = TRUE /\ swept' = TRUE /\ (\A u \in Tasks : ~Linked(u)') /\ Distinct'
        \/ due[t] = FALSE /\ UNCHANGED <<waitList, op, swept>> /\ \A u \in Tasks : Linked(u)' <=> Linked(u)
    BY <2>1, Emptied DEF Linked, TypeInv
  <2> USE <2>1, <2>2, <1>4 DEF Core, TypeInv
  <2>4. HoldInv'
    BY DEF HoldInv, CallInv
  <2>5. TimerInv'
    BY DEF TimerInv, CallInv
  <2>6. Distinct'
    BY DEF Distinct
  <2>7. ListInv'
    BY DEF ListInv, CallInv, StatusInv, ReadyInv
  <2>8. StatusInv'
    BY DEF StatusInv, CallInv, ReadyInv, TimerInv
  <2>9. ReadyInv'
    BY DEF ReadyInv, CallInv, StatusInv, TimerInv
  <2>10. LostInv'
    BY DEF LostInv, CallInv, ReadyInv
  <2> QED
    BY <2>4, <2>5, <2>6, <2>7, <2>8, <2>9, <2>10
<1> QED
  BY <1>1, <1>2, <1>3, <1>4 DEF IInv, TypeInv
(* What waking the tasks of S from the list does to a task.                 *)
LEMMA Woken ==
    ASSUME TypeInv, CallInv, Core, NEW S \in SUBSET Tasks, NEW rest, WakeUp(S, rest),
           \A u \in S : Linked(u)
    PROVE  /\ \A u \in Tasks \ S : ready'[u] = ready[u] /\ cvStatus'[u] = cvStatus[u]
           /\ \A u \in S : ~(op[u] = "until" /\ pc[u] \in {"unlock", "yielded", "arm"})
           /\ \A u \in S : op[u] = "wait" =>
                /\ cvStatus'[u] = "0"
                /\ ready'[u] = ready[u] + 1
                /\ pc[u] \in {"unlock", "yielded", "swap"}
           /\ \A u \in S : op[u] = "until" =>
                \/ /\ cvStatus[u] = "this" /\ cvStatus'[u] = "-1" /\ pc[u] = "swap"
                   /\ ready[u] = 0 /\ ready'[u] = 1
                \/ cvStatus[u] = "-2" /\ cvStatus'[u] = "-2" /\ ready'[u] = ready[u]
           /\ UNCHANGED <<wListLock, swept>>
<1> USE DEF WakeUp, EnableAll, NotifyWakes, TypeInv, Core
<1>1. \A u \in Tasks \ S : ready'[u] = ready[u] /\ cvStatus'[u] = cvStatus[u]
  OBVIOUS
<1>2. \A u \in S : ~(op[u] = "until" /\ pc[u] \in {"unlock", "yielded", "arm"})
  BY TimedAssumption DEF HoldInv
<1>3. ASSUME NEW u \in S, op[u] = "wait"
      PROVE  /\ cvStatus'[u] = "0"
             /\ ready'[u] = ready[u] + 1
             /\ pc[u] \in {"unlock", "yielded", "swap"}
  <2>1. pc[u] \in {"unlock", "yielded", "swap"}
    BY <1>3 DEF ListInv, CallInv
  <2>2. cvStatus[u] = "0" /\ ready[u] < 2
    BY <1>3, <2>1 DEF StatusInv, ReadyInv
  <2> QED
    BY <2>1, <2>2
<1>4. ASSUME NEW u \in S, op[u] = "until"
      PROVE  \/ /\ cvStatus[u] = "this" /\ cvStatus'[u] = "-1" /\ pc[u] = "swap"
                /\ ready[u] = 0 /\ ready'[u] = 1
             \/ cvStatus[u] = "-2" /\ cvStatus'[u] = "-2" /\ ready'[u] = ready[u]
  <2>1. pc[u] \in {"swap", "disarm", "check"} /\ u \in Tasks
    BY <1>2, <1>4 DEF ListInv
  <2>2. cvStatus[u] \in {"this", "-2"} /\ (cvStatus[u] = "this" => pc[u] = "swap")
    BY <1>4, <2>1 DEF StatusInv, Statuses
  <2>3. cvStatus[u] = "this" => ready[u] = 0
    BY <1>4, <2>1, <2>2 DEF ReadyInv
  <2> QED
    BY <2>1, <2>2, <2>3
<1> QED
  BY <1>1, <1>2, <1>3, <1>4

(* A notification wakes each waiter it pops once, and no other task.        *)
LEMMA WakeUpHolds ==
    ASSUME IInv, NEW S, NEW rest \in Seq(Tasks), WakeUp(S, rest),
           UNCHANGED <<pc, op, timerVars>>,
           TypeInv /\ Core => /\ S \in SUBSET Tasks
                              /\ \A u \in S : Linked(u)
                              /\ \A u \in Tasks : Linked(u)' <=> Linked(u) /\ u \notin S
                              /\ Distinct'
    PROVE  IInv'
<1> USE DEF timerVars
<1>1. TypeInv'
  BY DEF IInv, TypeInv, WakeUp, EnableAll, Statuses
<1>2. CallInv' /\ YieldInv'
  BY DEF IInv, CallInv, YieldInv
<1>3. ASSUME leaked' = FALSE PROVE Core'
  <2>1. leaked = FALSE /\ TypeInv /\ CallInv /\ Core
    BY <1>3 DEF IInv, TypeInv
  <2>2. /\ S \in SUBSET Tasks
        /\ \A u \in S : Linked(u)
        /\ \A u \in Tasks : Linked(u)' <=> Linked(u) /\ u \notin S
        /\ Distinct'
    BY <2>1
  <2>3. /\ \A u \in Tasks \ S : ready'[u] = ready[u] /\ cvStatus'[u] = cvStatus[u]
        /\ \A u \in S : ~(op[u] = "until" /\ pc[u] \in {"unlock", "yielded", "arm"})
        /\ \A u \in S : op[u] = "wait" =>
             /\ cvStatus'[u] = "0"
             /\ ready'[u] = ready[u] + 1
             /\ pc[u] \in {"unlock", "yielded", "swap"}
        /\ \A u \in S : op[u] = "until" =>
             \/ /\ cvStatus[u] = "this" /\ cvStatus'[u] = "-1" /\ pc[u] = "swap"
                /\ ready[u] = 0 /\ ready'[u] = 1
             \/ cvStatus[u] = "-2" /\ cvStatus'[u] = "-2" /\ ready'[u] = ready[u]
        /\ UNCHANGED <<wListLock, swept>>
    BY <2>1, <2>2, Woken
  <2>4. \A u \in S : op[u] \in {"wait", "until"}
    BY <2>1, <2>2 DEF Core, ListInv
  <2> USE <2>1, <2>2, <2>3, <2>4 DEF Core, TypeInv
  <2>5. HoldInv'
    BY DEF HoldInv
  <2>6. TimerInv'
    BY DEF TimerInv
  <2>7. ListInv'
    BY DEF ListInv
  <2>8. StatusInv'
    BY DEF StatusInv
  <2>9. ReadyInv'
    BY DEF ReadyInv, CallInv
  <2>10. LostInv'
    BY DEF LostInv
  <2> QED
    BY <2>5, <2>6, <2>7, <2>8, <2>9, <2>10
<1> QED
  BY <1>1, <1>2, <1>3 DEF IInv, TypeInv

(* notify_one pops the first waiter.                                        *)
LEMMA NotifyOneHolds ==
    ASSUME IInv, NotifyOne
    PROVE  IInv'
<1>1. /\ waitList \in Seq(Tasks) /\ waitList # <<>> /\ waitList' = Tail(waitList)
      /\ WakeUp({Head(waitList)}, Tail(waitList))
      /\ UNCHANGED <<pc, op, timerVars>>
  BY DEF IInv, TypeInv, NotifyOne, WakeUp
<1>2. Tail(waitList) \in Seq(Tasks)
  BY <1>1
<1>3. TypeInv /\ Core => /\ {Head(waitList)} \in SUBSET Tasks
                         /\ \A u \in {Head(waitList)} : Linked(u)
                         /\ \A u \in Tasks : Linked(u)' <=> Linked(u) /\ u \notin {Head(waitList)}
                         /\ Distinct'
  BY <1>1, Popped DEF Core
<1> QED
  BY <1>1, <1>2, <1>3, WakeUpHolds

(* Setting the flag pops all of them.                                       *)
LEMMA SetReadyHolds ==
    ASSUME IInv, SetReady
    PROVE  IInv'
<1>1. /\ waitList' = <<>>
      /\ WakeUp(AllWaiters, <<>>)
      /\ UNCHANGED <<pc, op, timerVars>>
  BY DEF SetReady, WakeUp
<1>2. <<>> \in Seq(Tasks)
  OBVIOUS
<1>3. \A u : u \in AllWaiters <=> Linked(u)
  BY DEF AllWaiters, ToSet, Linked
<1>4. TypeInv => AllWaiters \in SUBSET Tasks
  BY DEF AllWaiters, ToSet, TypeInv
<1>5. TypeInv /\ Core => /\ AllWaiters \in SUBSET Tasks
                         /\ \A u \in AllWaiters : Linked(u)
                         /\ \A u \in Tasks : Linked(u)' <=> Linked(u) /\ u \notin AllWaiters
                         /\ Distinct'
  BY <1>1, <1>3, <1>4, Emptied
<1> QED
  BY <1>1, <1>2, <1>5, WakeUpHolds

(* Initially nobody is in a call.                                           *)
LEMMA InitHolds == Init => IInv
<1> SUFFICES ASSUME Init PROVE IInv
  OBVIOUS
<1> USE DEF Init
<1>1. waitList \in Seq(Tasks)
  <2>1. <<>> \in Seq(Tasks)
    OBVIOUS
  <2> QED
    BY <2>1
<1>2. TypeInv
  <2>1. /\ pc \in [Tasks -> Labels]
        /\ op \in [Tasks -> Ops]
        /\ cvStatus \in [Tasks -> Statuses]
        /\ timeOut \in [Tasks -> Lists]
        /\ due \in [Tasks -> BOOLEAN]
        /\ ready \in [Tasks -> 0..2]
    BY DEF Labels, Ops, Statuses, Lists
  <2> QED
    BY <1>1, <2>1 DEF TypeInv
<1>3. CallInv /\ YieldInv
  BY DEF CallInv, YieldInv
<1>4. ~ \E t \in Tasks : Linked(t)
  BY DEF Linked
<1>5. HoldInv /\ TimerInv /\ Distinct /\ ListInv /\ StatusInv /\ ReadyInv /\ LostInv
  BY <1>4 DEF HoldInv, TimerInv, Distinct, ListInv, StatusInv, ReadyInv, LostInv
<1> QED
  BY <1>2, <1>3, <1>5 DEF IInv, Core

(* Every step keeps the invariant.                                          *)
LEMMA NextHolds == IInv /\ [Next]_vars => IInv'
<1> SUFFICES ASSUME IInv, [Next]_vars PROVE IInv'
  OBVIOUS
<1>1. ASSUME NEW t \in Tasks, Step(t) PROVE IInv'
  BY <1>1, PredHoldsHolds, RegisterHolds, UnlockHolds, SetTimeoutHolds, SwapOutHolds,
     DisarmHolds, CheckTimeoutHolds, RelockHolds, AfterHolds DEF Step
<1>2. ASSUME NEW t \in Tasks, SpinYield(t) \/ Sleep(t) \/ Tick(t) PROVE IInv'
  BY <1>2, SpinYieldHolds, SleepHolds, TickHolds
<1>3. ASSUME NEW t \in Tasks, NEW k \in Kinds, Call(t, k) PROVE IInv'
  BY <1>3, CallHolds
<1>4. ASSUME TimerStep PROVE IInv'
  BY <1>4, TimerLockHolds, TimerUnlockHolds, TimeoutCallbackHolds DEF TimerStep
<1>5. ASSUME UNCHANGED vars PROVE IInv'
  BY <1>5 DEF vars, IInv, TypeInv, CallInv, YieldInv, Core, HoldInv, TimerInv, Distinct,
     ListInv, StatusInv, ReadyInv, LostInv, Linked
<1> QED
  BY <1>1, <1>2, <1>3, <1>4, <1>5, NotifyOneHolds, SetReadyHolds DEF Next

(* The inductive invariant holds for any tasks, whatever the lock is.       *)
THEOREM CondVarInvariant == Spec => []IInv
BY InitHolds, NextHolds, PTL DEF Spec

(* Until a timeout is leaked, a waiter is enabled once, by the timer or by  *)
(* a notification, and nobody enables a task that does not wait; the        *)
(* assertion of EnableImmediately fails only for a waiter without a         *)
(* deadline that the unlocking of its Mutex yields.                         *)
THEOREM WaiterWokenOnce == Spec => []WokenOnce
<1>1. IInv => WokenOnce
  BY DEF IInv, TypeInv, YieldInv, CallInv, Core, ReadyInv, WokenOnce
<1> QED
  BY <1>1, CondVarInvariant, PTL

(* The same of sleeps and waits with a deadline, whatever the lock is.      *)
THEOREM TimedWaiterWokenOnce == Spec => []TimedWokenOnce
<1>1. IInv => TimedWokenOnce
  BY DEF IInv, TypeInv, CallInv, Core, ReadyInv, TimedWokenOnce
<1> QED
  BY <1>1, CondVarInvariant, PTL

(* Until a timeout is leaked, a call that returned is neither in the wait   *)
(* list nor in the timer.                                                   *)
THEOREM CallLeavesNothing == Spec => []NothingLeftBehind
<1>1. IInv => NothingLeftBehind
  BY DEF IInv, Core, TimerInv, ListInv, NothingLeftBehind, AssertNotWaiting
<1> QED
  BY <1>1, CondVarInvariant, PTL

(* A waiter without a deadline loses its notification only if a waiter that *)
(* timed out cleared the list, or a timeout was leaked.                     *)
THEOREM OnlyTimeoutsLose == Spec => []LostOnlyAfterTimeout
<1>1. IInv => LostOnlyAfterTimeout
  BY DEF IInv, TypeInv, Core, LostInv, LostOnlyAfterTimeout
<1> QED
  BY <1>1, CondVarInvariant, PTL
=============================================================================
