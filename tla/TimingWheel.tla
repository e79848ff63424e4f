------------------------------ MODULE TimingWheel ------------------------------
(* The hierarchical timing wheel under jamc::Timer (src/src/time/timeout.c): an
   array of WHEEL_NUM wheels of WHEEL_LEN slots, each slot a list of timeouts,
   a bit per slot that says whether its list is non-empty, and the list of the
   expired. The bit masks (wheel_t) are sets of slots, a rotation is addition
   modulo WHEEL_LEN, and timeout_t is a natural number: the clock is steady and
   the times that are given are far below 2^64.

   T stands for struct timeouts together with the fields of the timeouts
   registered with it. Every operation runs under the lock of Timer and is one
   step.                                                                     *)
EXTENDS Integers, Sequences, FiniteSets, SequencesExt

CONSTANTS
    Timers,     \* the timeouts
    ABS,        \* those with flag TIMEOUT_ABS: their times are absolute
    INT,        \* those with flag TIMEOUT_INT: they repeat
    WHEEL_BIT,  \* 6 in the build
    WHEEL_NUM,  \* 4 in the build
    MaxTime,    \* bound on the clock
    Times,      \* the times that are given
    Null,       \* the null pointer
    Expired,    \* the list of the expired
    Idle        \* the last operation was not timeouts_get

ASSUME WheelAssumption ==
    /\ WHEEL_BIT \in Nat \ {0}
    /\ WHEEL_NUM \in Nat \ {0, 1}
    /\ MaxTime \in Nat \ {0}
    /\ Times \subseteq 0 .. MaxTime
    /\ ABS \subseteq Timers
    /\ INT \subseteq Timers
    /\ IsFiniteSet(Timers)

VARIABLES
    T,          \* the timing wheel and its timeouts
    got         \* what timeouts_get returned

wheelVars == <<T, got>>

\* 1 << n
Shift[n \in Nat] == IF n = 0 THEN 1 ELSE 2 * Shift[n - 1]

WHEEL_LEN == Shift[WHEEL_BIT]
TIMEOUT_MAX == Shift[WHEEL_BIT * WHEEL_NUM] - 1
Wheels == 0 .. WHEEL_NUM - 1
Slots == 0 .. WHEEL_LEN - 1
Lists == (Wheels \X Slots) \cup {Expired}

ASSUME NullAssumption ==
    /\ Null \notin Nat \cup Lists
    /\ Expired \notin Wheels \X Slots

\* ~TIMEOUT_C(0), larger than every interval in the model.
Forever == 4 * MaxTime + TIMEOUT_MAX

\* The time one slot of a wheel stands for.
Unit(w) == Shift[w * WHEEL_BIT]

\* The slot of wheel w that the clock points to at a time.
SlotAt(w, time) == (time \div Unit(w)) % WHEEL_LEN

--------------------------------------------------------------------------------
\* timeouts_init: lists and masks are empty. The fields of the timeouts are
\* those timeout_init leaves: no time, no interval and on no list.
timeouts_init ==
    [list |-> [l \in Lists |-> <<>>],
     pending |-> {},
     curtime |-> 0,
     expires |-> [t \in Timers |-> 0],
     interval |-> [t \in Timers |-> 0],
     at |-> [t \in Timers |-> Null]]

\* TAILQ_REMOVE takes an element out of its list, wherever it is.
Position(q, t) == CHOOSE i \in DOMAIN q : q[i] = t
TAILQ_REMOVE(q, t) == RemoveAt(q, Position(q, t))

\* Mutation: the bit of an emptied slot stays set.
timeouts_delKeepsBit(S, t) ==
    IF S.at[t] = Null
    THEN S
    ELSE [S EXCEPT !.list[S.at[t]] = TAILQ_REMOVE(@, t), !.at[t] = Null]

\* timeouts_del: take the timeout off its list; the bit of a slot of a wheel is
\* cleared with its last timeout.
timeouts_del(S, t) ==
    IF S.at[t] = Null
    THEN S
    ELSE LET l == S.at[t]
             rest == TAILQ_REMOVE(S.list[l], t)
         IN  [S EXCEPT !.list[l] = rest,
                       !.pending = IF l # Expired /\ rest = <<>> THEN @ \ {l} ELSE @,
                       !.at[t] = Null]

\* fls: the position, from 1, of the highest bit.
fls(n) == CHOOSE k \in 1 .. n : Shift[k - 1] <= n /\ n < Shift[k]

timeout_wheel(rem) ==
    (fls(IF rem < TIMEOUT_MAX THEN rem ELSE TIMEOUT_MAX) - 1) \div WHEEL_BIT

\* timeout_slot: on the higher wheels one slot earlier than the time says.
timeout_slot(w, time) ==
    ((time \div Unit(w)) - (IF w = 0 THEN 0 ELSE 1)) % WHEEL_LEN

\* timeouts_sched: move the timeout to the slot for its time, or to the expired.
timeouts_sched(S, t, time) ==
    LET D == timeouts_del(S, t)
        w == timeout_wheel(time - S.curtime)
        l == IF time > S.curtime THEN <<w, timeout_slot(w, time)>> ELSE Expired
    IN  [D EXCEPT !.expires[t] = time,
                  !.list[l] = Append(@, t),
                  !.pending = IF l = Expired THEN @ ELSE @ \cup {l},
                  !.at[t] = l]

\* Mutation: counted from now.
NextTimeDrifts(S, t) ==
    LET time == S.expires[t] + S.interval[t]
    IN  IF time <= S.curtime THEN S.curtime + S.interval[t] ELSE time

\* timeouts_readd: the first multiple of the interval after the last time the
\* timeout fired that is still to come.
NextTime(S, t) ==
    LET time == S.expires[t] + S.interval[t]
        missed == (S.curtime - time) % S.interval[t]
    IN  IF time <= S.curtime
        THEN S.curtime + (S.interval[t] - missed)
        ELSE time

timeouts_readd(S, t) == timeouts_sched(S, t, NextTime(S, t))

\* timeouts_add
timeouts_add(S, t, timeout) ==
    LET I == IF t \in INT
             THEN [S EXCEPT !.interval[t] = IF timeout > 1 THEN timeout ELSE 1]
             ELSE S
    IN  timeouts_sched(I, t, IF t \in ABS THEN timeout ELSE S.curtime + timeout)

--------------------------------------------------------------------------------
\* The slots of wheel w the clock passed between two times, when "elapsed" is
\* taken for the time between them: all of them after a full turn, else those
\* from the old position on, those up to the new position, and the new position.
Passed(w, elapsed, old, new) ==
    LET n == elapsed \div Unit(w)
    IN  IF n > WHEEL_LEN - 1
        THEN Slots
        ELSE {(SlotAt(w, old) + i) % WHEEL_LEN : i \in 0 .. n - 1}
               \cup {(SlotAt(w, new) - i) % WHEEL_LEN : i \in 0 .. n}

\* Mutation: only the lowest wheel turns.
TickedLowest(S, new) ==
    {l \in Wheels \X Slots :
        l[1] = 0 /\ l[2] \in Passed(0, new - S.curtime, S.curtime, new)}

\* A higher wheel is looked at only when the one below turned past its end, and
\* is then taken to have ticked at least once.
Ticked(S, new) ==
    LET elapsed(w) == IF w = 0 \/ new - S.curtime > Unit(w)
                      THEN new - S.curtime
                      ELSE Unit(w)
        passed(w) == Passed(w, elapsed(w), S.curtime, new)
    IN  {l \in Wheels \X Slots :
            /\ \A v \in 0 .. l[1] - 1 : 0 \in passed(v)
            /\ l[2] \in passed(l[1])}

\* Wheel by wheel, in each wheel from the lowest slot, and each slot in the order
\* of its list.
Precedes(S, t, u) ==
    LET l == S.at[t]
        k == S.at[u]
    IN  \/ l[1] < k[1]
        \/ l[1] = k[1] /\ l[2] < k[2]
        \/ l = k /\ Position(S.list[l], t) < Position(S.list[l], u)

\* The timeouts of a set, in this order.
InTurn(S, A) ==
    [i \in 1 .. Cardinality(A) |->
        CHOOSE t \in A : Cardinality({u \in A : Precedes(S, u, t)}) = i - 1]

\* Schedule the timeouts of a sequence again, one by one.
Reschedule(S, todo) ==
    LET R[i \in 0 .. Len(todo)] ==
            IF i = 0
            THEN S
            ELSE timeouts_sched(R[i - 1], todo[i], R[i - 1].expires[todo[i]])
    IN  R[Len(todo)]

\* timeouts_update: collect the timeouts of the slots that the clock passed, set
\* the clock and schedule each of them again.
timeouts_update(S, new) ==
    LET ticked == Ticked(S, new) \cap S.pending
        todo == {t \in Timers : S.at[t] \in ticked}
        C == [S EXCEPT !.list = [l \in Lists |-> IF l \in ticked THEN <<>> ELSE @[l]],
                       !.pending = @ \ ticked,
                       !.curtime = new,
                       !.at = [t \in Timers |-> IF t \in todo THEN Null ELSE @[t]]]
    IN  Reschedule(C, InTurn(S, todo))

\* timeouts_get: the first of the expired, scheduled again if it repeats.
timeouts_get(S) ==
    LET t == Head(S.list[Expired])
        G == [S EXCEPT !.list[Expired] = Tail(@), !.at[t] = Null]
    IN  IF t \in INT /\ S.interval[t] > 0 THEN timeouts_readd(G, t) ELSE G

\* Mutation: the part of the slot that has passed is not subtracted.
UntilUncorrected(S, w) ==
    LET ahead == {(l[2] - SlotAt(w, S.curtime)) % WHEEL_LEN : l \in {k \in S.pending : k[1] = w}}
        first == CHOOSE i \in ahead : \A j \in ahead : i <= j
    IN  (first + (IF w = 0 THEN 0 ELSE 1)) * Unit(w)

\* timeouts_int: the time until the next slot whose bit is set comes up.
Until(S, w) ==
    LET ahead == {(l[2] - SlotAt(w, S.curtime)) % WHEEL_LEN : l \in {k \in S.pending : k[1] = w}}
        first == CHOOSE i \in ahead : \A j \in ahead : i <= j
    IN  (first + (IF w = 0 THEN 0 ELSE 1)) * Unit(w) - (S.curtime % Unit(w))

timeouts_int(S) ==
    LET until == {Until(S, w) : w \in {l[1] : l \in S.pending}} \cup {Forever}
    IN  CHOOSE i \in until : \A j \in until : i <= j

\* timeouts_timeout
timeouts_timeout(S) == IF S.list[Expired] # <<>> THEN 0 ELSE timeouts_int(S)

\* timeout_expired
timeout_expired(S, t) == S.at[t] = Expired

--------------------------------------------------------------------------------
\* Timer's constructor
WheelInit == T = timeouts_init /\ got = Idle

\* SetTimeout arms the timeout of a task.
AddTimeout(t) ==
    /\ \E timeout \in Times : T' = timeouts_add(T, t, timeout)
    /\ got' = Idle

\* SetTimeout, after the task came back: a timeout that has not expired is
\* taken off the wheel.
Cancel(t) ==
    /\ ~timeout_expired(T, t)
    /\ T' = timeouts_del(T, t)
    /\ got' = Idle

\* UpdateTimeoutWithoutLock reads the steady clock.
Update ==
    /\ \E now \in T.curtime .. MaxTime : T' = timeouts_update(T, now)
    /\ got' = Idle

\* NotifyAllTimeouts takes the expired one by one until there is none.
Get ==
    IF T.list[Expired] # <<>>
    THEN got' = Head(T.list[Expired]) /\ T' = timeouts_get(T)
    ELSE got' = Null /\ UNCHANGED T

\* ~Timer: timeouts_close takes every timeout off its list and frees the wheel;
\* a new Timer opens a new one.
CloseTimer ==
    /\ T' = [timeouts_init EXCEPT !.expires = T.expires, !.interval = T.interval]
    /\ got' = Idle

WheelNext ==
    \/ \E t \in Timers : AddTimeout(t)
    \/ \E t \in Timers : Cancel(t)
    \/ Update
    \/ Get
    \/ CloseTimer

WheelSpec == WheelInit /\ [][WheelNext]_wheelVars

--------------------------------------------------------------------------------
\* A timeout is on the list its field says, once, and on no other. A bit of the
\* masks is set exactly when its slot holds a timeout: a bit left behind makes
\* timeouts_int announce a time for nothing, and a bit that is lost makes
\* timeouts_update pass over a slot with timeouts in it.
BitsMatchLists ==
    /\ \A t \in Timers, l \in DOMAIN T.list :
          Cardinality({i \in DOMAIN T.list[l] : T.list[l][i] = t})
              = (IF T.at[t] = l THEN 1 ELSE 0)
    /\ T.pending = {l \in Wheels \X Slots : T.list[l] # <<>>}

\* timeouts_check, "missed timeout": whatever jumps the clock made over slots and
\* whole turns, a timeout still in a wheel is due in the future, and one among
\* the expired is due.
NoMissedTimeout ==
    \A t \in Timers :
        /\ (T.at[t] \notin {Null, Expired} => T.expires[t] > T.curtime)
        /\ (T.at[t] = Expired => T.expires[t] <= T.curtime)

\* timeouts_check, "wrong soft timeout": the interval a caller is told to wait
\* ends no later than the earliest timeout; it is not empty while nothing is
\* expired, and unlimited only when nothing is armed.
SoftTimeout ==
    LET armed == {t \in Timers : T.at[t] # Null}
    IN  /\ \A t \in armed \ {u \in Timers : timeout_expired(T, u)} :
              timeouts_int(T) <= T.expires[t] - T.curtime
        /\ (timeouts_timeout(T) = 0 <=> \E t \in Timers : timeout_expired(T, t))
        /\ (timeouts_timeout(T) = Forever <=> armed = {})

\* The self-test timeouts_check never fails, whatever was armed, cancelled and
\* handed out and however far the clock jumped each time.
TimeoutsCheck == NoMissedTimeout /\ SoftTimeout

\* The wheel implements the collection of timers of TimerSet: a timeout is
\* handed out when it is due and not before, once per deadline, and timeouts_get
\* answers that there is none only when none is due.
Deadlines == [t \in Timers |-> IF T.at[t] = Null THEN Null ELSE T.expires[t]]
Abstract == INSTANCE TimerSet WITH
    now <- T.curtime, deadline <- Deadlines, period <- T.interval, Repeating <- INT
ImplementsTimerSet == Abstract!Spec
================================================================================
