------------------------------- MODULE MCSync -------------------------------
(* The objects of Monitors, the readers-writer lock of SpinLocks and the wheel of
   TimingWheel, one of them in each behaviour.                               *)
EXTENDS Monitors, SpinLocks, MCTimingWheel

\* What an uninitialised counter may hold.
AnyCounter == {-1, 0, 1}

VARIABLE subject    \* what this behaviour is about

\* Of the objects that a behaviour is not about, one initial state will do.
SyncInit ==
    /\ Init /\ LockInit /\ WheelInit
    /\ subject \in {"monitor", "lock", "wheel"}
    /\ subject # "monitor" => kind = "semaphore"

SyncNext ==
    /\ \/ subject = "monitor" /\ Next /\ UNCHANGED <<lockVars, wheelVars>>
       \/ subject = "lock" /\ LockNext /\ UNCHANGED <<vars, wheelVars>>
       \/ subject = "wheel" /\ WheelNext /\ UNCHANGED <<vars, lockVars>>
    /\ UNCHANGED subject

SyncSpec ==
    /\ SyncInit
    /\ [][SyncNext]_<<vars, lockVars, wheelVars, subject>>
    /\ Fairness
=============================================================================
