------------------------------ MODULE SpinLocks ------------------------------
(* SharedSpinMutex (src/src/concurrency/spinrwlock.cc), the readers-writer lock of
   the remote layer: one integer, -1 while a writer holds it and else the number
   of readers. Every operation loads the integer and then tries to replace the
   value it saw, with a compare-exchange that may fail for nothing.           *)
EXTENDS Integers, FiniteSets

CONSTANT Lockers        \* the tasks that use the lock

ASSUME LockersAssumption == IsFiniteSet(Lockers)

VARIABLES
    l,          \* the integer
    lpc,        \* of every task: "out", the operation it is in, "write" or "read"
    expected    \* of every task: the value it loaded

lockVars == <<l, lpc, expected>>

SPIN_LOCK_UNLOCK == 0
SPIN_LOCK_WRITE_LOCK == -1

Trying == {"lock", "try_lock", "lock_shared", "try_lock_shared"}
Leaving == {"unlock", "unlock_shared"}

LockInit ==
    /\ l = SPIN_LOCK_UNLOCK
    /\ lpc = [t \in Lockers |-> "out"]
    /\ expected = [t \in Lockers |-> 0]

\* Whether an operation goes on to the exchange with the value it loaded.
Admits(what, e) ==
    CASE what \in {"lock", "try_lock"} -> e = SPIN_LOCK_UNLOCK
      [] what \in {"lock_shared", "try_lock_shared"} -> e >= 0
      [] what = "unlock" -> e = SPIN_LOCK_WRITE_LOCK
      [] what = "unlock_shared" -> e > 0

Desired(what, e) ==
    CASE what \in {"lock", "try_lock"} -> SPIN_LOCK_WRITE_LOCK
      [] what \in {"lock_shared", "try_lock_shared"} -> e + 1
      [] what = "unlock" -> SPIN_LOCK_UNLOCK
      [] what = "unlock_shared" -> e - 1

\* Where a task is after the exchange.
After(what) ==
    CASE what \in {"lock", "try_lock"} -> "write"
      [] what \in {"lock_shared", "try_lock_shared"} -> "read"
      [] what \in Leaving -> "out"

\* A task enters an operation and loads the integer; a holder releases with the
\* operation that fits.
Enter(t) ==
    /\ \E what \in Trying \cup Leaving :
         /\ CASE lpc[t] = "out" -> what \in Trying
              [] lpc[t] = "write" -> what = "unlock"
              [] lpc[t] = "read" -> what = "unlock_shared"
              [] OTHER -> FALSE
         /\ lpc' = [lpc EXCEPT ![t] = what]
    /\ expected' = [expected EXCEPT ![t] = l]
    /\ UNCHANGED l

\* Mutation: a plain store.
ExchangeableBlindly(t) == TRUE

\* atomic_compare_exchange_weak succeeds only on the value that was loaded.
Exchangeable(t) == l = expected[t]
Exchange(t) ==
    /\ lpc[t] \in Trying \cup Leaving
    /\ Admits(lpc[t], expected[t])
    /\ Exchangeable(t)
    /\ l' = Desired(lpc[t], expected[t])
    /\ lpc' = [lpc EXCEPT ![t] = After(lpc[t])]
    /\ UNCHANGED expected

\* The value did not fit, or the exchange failed: try_lock gives up, the others
\* load again (and yield every twentieth time).
Again(t) ==
    /\ lpc[t] \in Trying \cup Leaving
    /\ IF lpc[t] \in {"try_lock", "try_lock_shared"}
         THEN lpc' = [lpc EXCEPT ![t] = "out"] /\ UNCHANGED expected
         ELSE expected' = [expected EXCEPT ![t] = l] /\ UNCHANGED lpc
    /\ UNCHANGED l

LockNext == \E t \in Lockers : Enter(t) \/ Exchange(t) \/ Again(t)

LockSpec == LockInit /\ [][LockNext]_lockVars

------------------------------------------------------------------------------
\* The tasks that hold the lock, up to the exchange that releases it.
Writers == {t \in Lockers : lpc[t] \in {"write", "unlock"}}
Readers == {t \in Lockers : lpc[t] \in {"read", "unlock_shared"}}

\* A writer holds the lock alone; readers share it and the integer counts them, so
\* that none is shut out or let in by a stale value; and the assertions of unlock
\* and unlock_shared never fail: a holder always loads a value it can release.
Exclusion ==
    /\ \A w \in Writers : Writers = {w} /\ Readers = {}
    /\ l = IF Writers # {} THEN SPIN_LOCK_WRITE_LOCK ELSE Cardinality(Readers)
    /\ \A t \in Lockers : lpc[t] \in Leaving => Admits(lpc[t], expected[t])
==============================================================================
