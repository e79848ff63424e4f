--------------------------- MODULE SpinLocksProofs ---------------------------
(* Exclusion of SpinLocks is inductive together with the types of the variables:
   it holds for every finite set of tasks.                                   *)
EXTENDS SpinLocks, FiniteSetTheorems, TLAPS

Labels == {"out", "write", "read"} \cup Trying \cup Leaving

\* The variables keep their types.
LockTypes ==
    /\ l \in Int
    /\ lpc \in [Lockers -> Labels]
    /\ expected \in [Lockers -> Int]

LockInv == LockTypes /\ Exclusion

\* The sets of holders are finite, and counted by natural numbers.
LEMMA HoldersFinite ==
    /\ IsFiniteSet(Readers) /\ Cardinality(Readers) \in Nat
    /\ (Readers = {} <=> Cardinality(Readers) = 0)
<1>1. Readers \subseteq Lockers
  BY DEF Readers
<1>2. IsFiniteSet(Readers)
  BY <1>1, LockersAssumption, FS_Subset
<1> QED
  BY <1>2, FS_CardinalityType, FS_EmptySet

\* Initially nobody holds the lock.
LEMMA InitHolds == LockInit => LockInv
<1> SUFFICES ASSUME LockInit PROVE LockInv
  OBVIOUS
<1> USE DEF LockInit
<1>1. LockTypes
  BY DEF LockTypes, Labels, SPIN_LOCK_UNLOCK
<1>2. Writers = {} /\ Readers = {}
  BY DEF Writers, Readers
<1>3. \A t \in Lockers : lpc[t] \notin Leaving
  BY DEF Leaving
<1> QED
  BY <1>1, <1>2, <1>3, FS_EmptySet DEF LockInv, Exclusion, SPIN_LOCK_UNLOCK

\* An operation that begins loads a value that a holder can release.
LEMMA EnterHolds ==
    ASSUME LockInv, NEW t \in Lockers, Enter(t)
    PROVE  LockInv'
<1> USE DEF LockInv
<1>1. PICK what \in Trying \cup Leaving :
        /\ CASE lpc[t] = "out" -> what \in Trying
             [] lpc[t] = "write" -> what = "unlock"
             [] lpc[t] = "read" -> what = "unlock_shared"
             [] OTHER -> FALSE
        /\ lpc' = [lpc EXCEPT ![t] = what]
  BY DEF Enter
<1>2. /\ expected' = [expected EXCEPT ![t] = l]
      /\ l' = l
  BY DEF Enter
<1>3. \/ lpc[t] = "out" /\ what \in Trying
      \/ lpc[t] = "write" /\ what = "unlock"
      \/ lpc[t] = "read" /\ what = "unlock_shared"
  BY <1>1
<1>4. LockTypes'
  BY <1>1, <1>2 DEF LockTypes, Labels
<1>5. Writers' = Writers /\ Readers' = Readers
  BY <1>1, <1>3 DEF Writers, Readers, LockTypes, Trying
<1>6. ASSUME NEW u \in Lockers, lpc'[u] \in Leaving
      PROVE  Admits(lpc'[u], expected'[u])
  <2>1. CASE u # t
    <3>1. lpc'[u] = lpc[u] /\ expected'[u] = expected[u]
      BY <1>1, <1>2, <2>1 DEF LockTypes
    <3> QED
      BY <3>1, <1>6 DEF Exclusion
  <2>2. CASE u = t /\ what = "unlock"
    <3>1. t \in Writers
      BY <1>3, <2>2 DEF Writers, Trying
    <3>2. l = SPIN_LOCK_WRITE_LOCK
      BY <3>1 DEF Exclusion
    <3>3. lpc'[t] = "unlock" /\ expected'[t] = l
      BY <1>1, <1>2, <2>2 DEF LockTypes
    <3> QED
      BY <3>2, <3>3, <2>2 DEF Admits
  <2>3. CASE u = t /\ what = "unlock_shared"
    <3>1. t \in Readers
      BY <1>3, <2>3 DEF Readers, Trying
    <3>2. Writers = {}
      BY <3>1 DEF Exclusion
    <3>3. l > 0
      BY <3>1, <3>2, HoldersFinite DEF Exclusion
    <3>4. lpc'[t] = "unlock_shared" /\ expected'[t] = l
      BY <1>1, <1>2, <2>3 DEF LockTypes
    <3> QED
      BY <3>3, <3>4, <2>3 DEF Admits
  <2>4. u = t => what \in Leaving
    BY <1>1, <1>6 DEF LockTypes
  <2> QED
    BY <2>1, <2>2, <2>3, <2>4 DEF Leaving
<1>7. Exclusion'
  BY <1>2, <1>5, <1>6 DEF Exclusion
<1> QED
  BY <1>4, <1>7

\* A successful exchange lets in, or out, exactly the task that made it.
LEMMA ExchangeHolds ==
    ASSUME LockInv, NEW t \in Lockers, Exchange(t)
    PROVE  LockInv'
<1> USE DEF LockInv
<1>1. /\ lpc[t] \in Trying \cup Leaving
      /\ Admits(lpc[t], l)
      /\ l' = Desired(lpc[t], l)
      /\ lpc' = [lpc EXCEPT ![t] = After(lpc[t])]
      /\ expected' = expected
  BY DEF Exchange, Exchangeable
<1>2. \A u \in Lockers \ {t} : lpc'[u] = lpc[u]
  BY <1>1 DEF LockTypes
<1>3. \A u \in Lockers : lpc'[u] \in Leaving => Admits(lpc'[u], expected'[u])
  <2>1. lpc'[t] = After(lpc[t])
    BY <1>1 DEF LockTypes
  <2>2. lpc'[t] \notin Leaving
    BY <1>1, <2>1 DEF After, Trying, Leaving
  <2> QED
    BY <1>1, <1>2, <2>2 DEF Exclusion
<1>4. CASE lpc[t] \in {"lock", "try_lock"}
  <2>1. l = 0 /\ l' = -1 /\ lpc'[t] = "write"
    BY <1>1, <1>4 DEF Admits, Desired, After, LockTypes, Leaving, SPIN_LOCK_UNLOCK, SPIN_LOCK_WRITE_LOCK
  <2>2. Writers = {} /\ Readers = {}
    BY <2>1, HoldersFinite DEF Exclusion, SPIN_LOCK_WRITE_LOCK
  <2>3. Writers' = {t} /\ Readers' = {}
    BY <1>2, <2>1, <2>2 DEF Writers, Readers
  <2>4. LockTypes'
    BY <1>1, <1>4, <2>1 DEF LockTypes, Labels, After
  <2> QED
    BY <1>3, <2>1, <2>3, <2>4 DEF Exclusion, SPIN_LOCK_WRITE_LOCK
<1>5. CASE lpc[t] \in {"lock_shared", "try_lock_shared"}
  <2>1. l >= 0 /\ l' = l + 1 /\ lpc'[t] = "read"
    BY <1>1, <1>5 DEF Admits, Desired, After, LockTypes, Leaving
  <2>2. Writers = {} /\ l = Cardinality(Readers)
    BY <2>1 DEF Exclusion, SPIN_LOCK_WRITE_LOCK
  <2>3. t \notin Readers
    BY <1>5 DEF Readers
  <2>4. Writers' = {} /\ Readers' = Readers \cup {t}
    BY <1>2, <2>1, <2>2 DEF Writers, Readers
  <2>5. Cardinality(Readers \cup {t}) = Cardinality(Readers) + 1
    BY <2>3, HoldersFinite, FS_AddElement
  <2>6. LockTypes'
    BY <1>1, <1>5, <2>1 DEF LockTypes, Labels, After
  <2>7. l' = Cardinality(Readers')
    BY <2>1, <2>2, <2>4, <2>5
  <2> QED
    BY <1>3, <2>4, <2>6, <2>7 DEF Exclusion
<1>6. CASE lpc[t] = "unlock"
  <2>1. l' = 0 /\ lpc'[t] = "out"
    BY <1>1, <1>6 DEF Desired, After, LockTypes, Leaving, SPIN_LOCK_UNLOCK
  <2>2. Writers = {t} /\ Readers = {}
    BY <1>6 DEF Exclusion, Writers
  <2>3. Writers' = {} /\ Readers' = {}
    BY <1>2, <2>1, <2>2 DEF Writers, Readers
  <2>4. LockTypes'
    BY <1>1, <1>6, <2>1 DEF LockTypes, Labels, After, Leaving
  <2>5. Cardinality(Readers') = 0
    BY <2>3, FS_EmptySet
  <2> QED
    BY <1>3, <2>1, <2>3, <2>4, <2>5 DEF Exclusion
<1>7. CASE lpc[t] = "unlock_shared"
  <2>1. l' = l - 1 /\ lpc'[t] = "out"
    BY <1>1, <1>7 DEF Desired, After, LockTypes, Leaving
  <2>2. t \in Readers
    BY <1>7 DEF Readers
  <2>3. Writers = {} /\ l = Cardinality(Readers)
    BY <2>2 DEF Exclusion
  <2>4. Writers' = {} /\ Readers' = Readers \ {t}
    BY <1>2, <2>1, <2>3 DEF Writers, Readers
  <2>5. Cardinality(Readers \ {t}) = Cardinality(Readers) - 1
    BY <2>2, HoldersFinite, FS_RemoveElement
  <2>6. LockTypes'
    BY <1>1, <1>7, <2>1 DEF LockTypes, Labels, After, Leaving
  <2>7. l' = Cardinality(Readers')
    BY <2>1, <2>3, <2>4, <2>5
  <2> QED
    BY <1>3, <2>4, <2>6, <2>7 DEF Exclusion
<1> QED
  BY <1>1, <1>4, <1>5, <1>6, <1>7 DEF Trying, Leaving

\* Loading again, or giving up, changes no holder.
LEMMA AgainHolds ==
    ASSUME LockInv, NEW t \in Lockers, Again(t)
    PROVE  LockInv'
<1> USE DEF LockInv
<1>1. lpc[t] \in Trying \cup Leaving /\ l' = l
  BY DEF Again
<1>2. CASE lpc[t] \in {"try_lock", "try_lock_shared"}
  <2>1. lpc' = [lpc EXCEPT ![t] = "out"] /\ expected' = expected
    BY <1>2 DEF Again
  <2>2. LockTypes'
    BY <1>1, <2>1 DEF LockTypes, Labels
  <2>3. Writers' = Writers /\ Readers' = Readers
    BY <1>2, <2>1 DEF Writers, Readers, LockTypes
  <2>4. \A u \in Lockers : lpc'[u] \in Leaving => Admits(lpc'[u], expected'[u])
    BY <2>1 DEF Exclusion, LockTypes, Leaving
  <2> QED
    BY <1>1, <2>2, <2>3, <2>4 DEF Exclusion
<1>3. CASE lpc[t] \notin {"try_lock", "try_lock_shared"}
  <2>1. lpc' = lpc /\ expected' = [expected EXCEPT ![t] = l]
    BY <1>3 DEF Again
  <2>2. LockTypes'
    BY <1>1, <2>1 DEF LockTypes
  <2>3. Writers' = Writers /\ Readers' = Readers
    BY <2>1 DEF Writers, Readers
  <2>4. ASSUME NEW u \in Lockers, lpc'[u] \in Leaving
        PROVE  Admits(lpc'[u], expected'[u])
    <3>1. CASE u # t
      <4>1. lpc'[u] = lpc[u] /\ expected'[u] = expected[u]
        BY <2>1, <3>1 DEF LockTypes
      <4> QED
        BY <4>1, <2>4 DEF Exclusion
    <3>2. CASE u = t /\ lpc[t] = "unlock"
      <4>1. t \in Writers
        BY <3>2 DEF Writers
      <4>2. lpc'[t] = "unlock" /\ expected'[t] = SPIN_LOCK_WRITE_LOCK
        BY <4>1, <2>1, <3>2 DEF Exclusion, LockTypes
      <4> QED
        BY <4>2, <3>2 DEF Admits
    <3>3. CASE u = t /\ lpc[t] = "unlock_shared"
      <4>1. t \in Readers
        BY <3>3 DEF Readers
      <4>2. Writers = {}
        BY <4>1 DEF Exclusion
      <4>3. l > 0
        BY <4>1, <4>2, HoldersFinite DEF Exclusion
      <4>4. lpc'[t] = "unlock_shared" /\ expected'[t] = l
        BY <2>1, <3>3 DEF LockTypes
      <4> QED
        BY <4>3, <4>4, <3>3 DEF Admits
    <3> QED
      BY <2>1, <2>4, <3>1, <3>2, <3>3 DEF Leaving
  <2> QED
    BY <1>1, <2>2, <2>3, <2>4 DEF Exclusion
<1> QED
  BY <1>2, <1>3

\* However many tasks contend, the readers-writer lock of the remote layer keeps
\* writers alone, counts its readers and never fails an assertion.
THEOREM LockExclusion == LockSpec => []Exclusion
<1>1. LockInv /\ [LockNext]_lockVars => LockInv'
  <2> SUFFICES ASSUME LockInv, [LockNext]_lockVars PROVE LockInv'
    OBVIOUS
  <2>1. CASE LockNext
    BY <2>1, EnterHolds, ExchangeHolds, AgainHolds DEF LockNext
  <2>2. CASE UNCHANGED lockVars
    BY <2>2 DEF LockInv, LockTypes, Exclusion, Writers, Readers, lockVars, Admits
  <2> QED
    BY <2>1, <2>2
<1> QED
  BY <1>1, InitHolds, PTL DEF LockSpec, LockInv
==============================================================================
