---------------------------- MODULE TimingWheelProofs ----------------------------
(* Proofs about the timing wheel, for every number and length of wheels, any
   timeouts and any times.

   The operators of TimingWheel work on a state S of the wheel that is a value,
   so that most lemmas here are about values: numbers, then lists, then S.   *)
EXTENDS TimingWheel, FiniteSetTheorems, FunctionTheorems, SequenceTheorems,
        WellFoundedInduction, TLAPS

--------------------------------------------------------------------------------
(* The inductive invariant. *)

\* The values of the fields.
WheelStates ==
    [list : [Lists -> Seq(Timers)],
     pending : SUBSET (Wheels \X Slots),
     curtime : 0 .. MaxTime,
     expires : [Timers -> 0 .. 2 * MaxTime],
     interval : [Timers -> 0 .. MaxTime],
     at : [Timers -> Lists \cup {Null}]]

\* t is on list q.
In(t, q) == \E i \in DOMAIN q : q[i] = t
Distinct(q) == \A i, j \in DOMAIN q : q[i] = q[j] => i = j

\* A list holds the timeouts whose field says so, once.
Listed(S) ==
    \A l \in Lists :
        /\ Distinct(S.list[l])
        /\ \A t \in Timers : In(t, S.list[l]) <=> S.at[t] = l

\* A bit is set if the list of the slot is not empty.
Marked(S) == S.pending = {l \in Wheels \X Slots : S.list[l] # <<>>}

\* A timeout in wheel 0 is due within one turn. One in a higher wheel is due
\* after that wheel ticked once more, and its slot comes up one tick before.
Placed(w, slot, expires, now) ==
    /\ slot = timeout_slot(w, expires)
    /\ IF w = 0
       THEN expires > now /\ expires - now < WHEEL_LEN
       ELSE expires \div Unit(w) >= now \div Unit(w) + 1

\* Every timeout is where its time says, ...
OnTime(l, expires, now) ==
    /\ \A w \in Wheels, slot \in Slots : l = <<w, slot>> => Placed(w, slot, expires, now)
    /\ l = Expired => expires <= now

Timely(S) == \A t \in Timers : OnTime(S.at[t], S.expires[t], S.curtime)

\* ... and a repeating one that is armed has an interval.
Repeats(S) == \A t \in INT : S.at[t] # Null => S.interval[t] > 0

WInv(S) == S \in WheelStates /\ Listed(S) /\ Marked(S) /\ Timely(S) /\ Repeats(S)

--------------------------------------------------------------------------------
(* Numbers. *)

\* Every non-empty set of natural numbers has a least element.
LEMMA Least ==
  ASSUME NEW S \in SUBSET Nat, S # {}
  PROVE  \E x \in S : \A y \in S : x <= y
<1>1. IsWellFoundedOn(OpToRel(<, Nat), Nat)
  BY NatLessThanWellFounded
<1>2. \E x \in S : \A y \in S : ~(<<y, x>> \in OpToRel(<, Nat))
  BY <1>1, WFMin
<1>3. PICK x \in S : \A y \in S : ~(<<y, x>> \in OpToRel(<, Nat))
  BY <1>2
<1>4. \A y \in S : ~(y < x)
  BY <1>3 DEF OpToRel
<1> QED BY <1>4

\* Induction over the natural numbers, with a set for the property.
LEMMA Induction ==
  ASSUME NEW S \in SUBSET Nat, 0 \in S, \A n \in S : n + 1 \in S
  PROVE  S = Nat
<1>1. SUFFICES ASSUME Nat \ S # {} PROVE FALSE
  OBVIOUS
<1>2. PICK m \in Nat \ S : \A y \in Nat \ S : m <= y
  BY <1>1, Least
<1>3. m # 0 /\ m - 1 \in Nat /\ ~(m <= m - 1) /\ (m - 1) + 1 = m
  BY <1>2
<1>4. m - 1 \in S
  BY <1>2, <1>3
<1> QED BY <1>2, <1>3, <1>4

\* The powers of two up to the n-th.
Prefix(n, f) == /\ f \in [0..n -> Nat] /\ f[0] = 1
                /\ \A i \in 1..n : f[i] = 2 * f[i - 1]

\* The recursive definition of Shift defines a function.
LEMMA ShiftDef == Shift = [n \in Nat |-> IF n = 0 THEN 1 ELSE 2 * Shift[n - 1]]
<1> DEFINE has == {n \in Nat : \E f : Prefix(n, f)}
<1>1. has = Nat
  <2>1. Prefix(0, [i \in 0..0 |-> 1])
    BY DEF Prefix
  <2>2. ASSUME NEW n \in has PROVE n + 1 \in has
    <3>1. PICK f : Prefix(n, f)
      OBVIOUS
    <3> DEFINE g == [i \in 0..(n + 1) |-> IF i = n + 1 THEN 2 * f[n] ELSE f[i]]
    <3>a. n \in Nat /\ n \in 0..n /\ f[n] \in Nat
      BY <3>1 DEF Prefix
    <3>2. g \in [0..(n + 1) -> Nat] /\ g[0] = 1
      BY <3>1, <3>a DEF Prefix
    <3>3. ASSUME NEW i \in 1..(n + 1) PROVE g[i] = 2 * g[i - 1]
      <4>1. CASE i = n + 1
        BY <3>a, <4>1
      <4>2. CASE i # n + 1
        <5>1. i \in 1..n /\ i - 1 \in 0..n /\ i - 1 # n + 1 /\ i - 1 \in 0..(n+1)
          BY <3>a, <4>2
        <5> QED BY <3>1, <4>2, <5>1 DEF Prefix
      <4> QED BY <4>1, <4>2
    <3>4. Prefix(n + 1, g)
      BY <3>2, <3>3 DEF Prefix
    <3> QED BY <3>a, <3>4
  <2>3. 0 \in has
    BY <2>1
  <2> HIDE DEF has
  <2>4. has \in SUBSET Nat
    BY DEF has
  <2> QED BY <2>2, <2>3, <2>4, Induction
<1> DEFINE P(n) == CHOOSE f : Prefix(n, f)
           g == [n \in Nat |-> P(n)[n]]
<1>2. ASSUME NEW n \in Nat PROVE Prefix(n, P(n))
  BY <1>1
<1> HIDE DEF P
<1>3. ASSUME NEW m \in Nat, NEW n \in Nat, m <= n PROVE P(m)[m] = P(n)[m]
  <2> DEFINE same == {i \in Nat : i <= m => P(m)[i] = P(n)[i]}
  <2>1. 0 \in same
    BY <1>2 DEF Prefix
  <2>2. ASSUME NEW i \in same PROVE i + 1 \in same
    <3>1. CASE i + 1 <= m
      <4>1. i + 1 \in 1..m /\ i + 1 \in 1..n /\ (i + 1) - 1 = i /\ i <= m
        BY <1>3, <3>1
      <4>2. Prefix(m, P(m)) /\ Prefix(n, P(n))
        BY <1>2
      <4>3. P(m)[i + 1] = 2 * P(m)[i] /\ P(n)[i + 1] = 2 * P(n)[i]
        BY <4>1, <4>2 DEF Prefix
      <4>4. P(m)[i] = P(n)[i]
        BY <4>1
      <4> QED BY <4>3, <4>4
    <3>2. CASE ~(i + 1 <= m)
      BY <3>2
    <3> QED BY <3>1, <3>2
  <2>3. same \in SUBSET Nat
    OBVIOUS
  <2>4. same = Nat
    <3> HIDE DEF same
    <3> QED BY <2>1, <2>2, <2>3, Induction
  <2> QED BY <2>4
<1>4. ASSUME NEW n \in Nat PROVE g[n] = IF n = 0 THEN 1 ELSE 2 * g[n - 1]
  <2>1. CASE n = 0
    BY <1>2, <2>1 DEF Prefix
  <2>2. CASE n # 0
    <3>1. n - 1 \in Nat /\ n - 1 <= n /\ n \in 1..n
      BY <2>2
    <3>2. P(n)[n] = 2 * P(n)[n - 1]
      BY <1>2, <3>1 DEF Prefix
    <3>3. P(n - 1)[n - 1] = P(n)[n - 1]
      BY <1>3, <3>1
    <3> QED BY <2>2, <3>1, <3>2, <3>3
  <2> QED BY <2>1, <2>2
<1>5. g = [n \in Nat |-> IF n = 0 THEN 1 ELSE 2 * g[n - 1]]
  BY <1>4
<1> HIDE DEF g
<1> QED BY <1>5 DEF Shift

\* A power of two is a positive number.
LEMMA ShiftType == Shift \in [Nat -> Nat \ {0}]
<1>0. \A n \in Nat : Shift[n] = IF n = 0 THEN 1 ELSE 2 * Shift[n - 1]
  BY ShiftDef
<1> DEFINE S == {n \in Nat : Shift[n] \in Nat \ {0}}
<1>1. 0 \in S
  BY <1>0
<1>2. ASSUME NEW n \in S PROVE n + 1 \in S
  <2>1. Shift[n + 1] = 2 * Shift[n]
    BY <1>0
  <2> QED BY <2>1
<1>3. S \in SUBSET Nat
  OBVIOUS
<1> HIDE DEF S
<1>4. S = Nat
  BY <1>1, <1>2, <1>3, Induction
<1>5. \A n \in Nat : Shift[n] \in Nat \ {0}
  BY <1>4 DEF S
<1>6. Shift = [n \in Nat |-> Shift[n]]
  BY ShiftDef
<1> QED BY <1>5, <1>6

\* Shifting by a sum is shifting twice.
LEMMA ShiftSum == \A m, n \in Nat : Shift[m + n] = Shift[m] * Shift[n]
<1>0. \A n \in Nat : Shift[n] = IF n = 0 THEN 1 ELSE 2 * Shift[n - 1]
  BY ShiftDef
<1> SUFFICES ASSUME NEW m \in Nat PROVE \A n \in Nat : Shift[m + n] = Shift[m] * Shift[n]
  OBVIOUS
<1> DEFINE S == {n \in Nat : Shift[m + n] = Shift[m] * Shift[n]}
<1>1. 0 \in S
  BY <1>0, ShiftType
<1>2. ASSUME NEW n \in S PROVE n + 1 \in S
  <2>1. Shift[n + 1] = 2 * Shift[n] /\ Shift[m + (n + 1)] = 2 * Shift[m + n]
    <3>1. m + (n + 1) \in Nat /\ m + (n + 1) # 0 /\ m + (n + 1) - 1 = m + n /\ n + 1 \in Nat /\ n + 1 # 0 /\ n + 1 - 1 = n
      OBVIOUS
    <3> QED BY <1>0, <3>1
  <2>2. PICK a \in Nat, b \in Nat : a = Shift[m] /\ b = Shift[n]
    BY ShiftType
  <2>3. 2 * (a * b) = a * (2 * b)
    BY <2>2
  <2> QED BY <2>1, <2>2, <2>3
<1>3. S \in SUBSET Nat
  OBVIOUS
<1> HIDE DEF S
<1>4. S = Nat
  BY <1>1, <1>2, <1>3, Induction
<1> QED BY <1>4 DEF S

\* Quotient and remainder, also of a negative number.
LEMMA Division ==
  ASSUME NEW a \in Int, NEW d \in Nat \ {0}
  PROVE  /\ a \div d \in Int /\ a % d \in 0 .. (d - 1)
         /\ a = d * (a \div d) + (a % d)
OBVIOUS

\* Quotient and remainder are unique.
LEMMA DivUnique ==
  ASSUME NEW d \in Nat \ {0}, NEW q \in Int, NEW p \in Int, NEW r \in 0..(d-1), NEW s \in 0..(d-1),
     d * q + r = d * p + s
  PROVE q = p /\ r = s
<1>1. ASSUME NEW x \in Int, NEW y \in Int, x < y PROVE d * x + d <= d * y
  <2>1. d * (y - x) >= d
    BY <1>1
  <2>2. d * (y - x) = d * y - d * x
    OBVIOUS
  <2> QED BY <2>1, <2>2
<1>2. ~(q < p)
  BY <1>1
<1>3. ~(p < q)
  BY <1>1
<1> QED BY <1>2, <1>3

\* The quotient is rounded down.
LEMMA Floor ==
  ASSUME NEW a \in Int, NEW d \in Nat \ {0}, NEW q \in Int
  PROVE  (d * q <= a) <=> q <= a \div d
<1>1. PICK p \in Int, r \in 0..(d-1) : p = a \div d /\ a = d * p + r
  BY Division
<1>2. ASSUME NEW x \in Int, NEW y \in Int, x < y PROVE d * x + d <= d * y
  <2>1. d * (y - x) >= d
    BY <1>2
  <2>2. d * (y - x) = d * y - d * x
    OBVIOUS
  <2> QED BY <2>1, <2>2
<1>3. ASSUME q <= p PROVE d * q <= a
  <2>1. CASE q = p
    BY <1>1, <2>1
  <2>2. CASE q < p
    BY <1>1, <1>2, <2>2
  <2> QED BY <1>3, <2>1, <2>2
<1>4. ASSUME p < q PROVE ~(d * q <= a)
  BY <1>1, <1>2, <1>4
<1> QED BY <1>1, <1>3, <1>4

\* x and y differ by a multiple of d.
Congruent(x, y, d) == \E k \in Int : x = y + d * k

\* Numbers that differ by a multiple of d have the same remainder.
LEMMA ModPeriod ==
  ASSUME NEW x \in Int, NEW y \in Int, NEW d \in Nat \ {0}, Congruent(x, y, d)
  PROVE  x % d = y % d
<1>0. PICK k \in Int : x = y + d * k
  BY DEF Congruent
<1>1. PICK p \in Int, r \in 0..(d-1) : r = x % d /\ x = d * p + r
  BY ONLY Division, x \in Int, d \in Nat \ {0}
<1>2. PICK q \in Int, s \in 0..(d-1) : s = y % d /\ y = d * q + s
  BY ONLY Division, y \in Int, d \in Nat \ {0}
<1>3. d * (q + k) + s = d * p + r
  <2>1. d * (q + k) = d * q + d * k
    OBVIOUS
  <2> QED BY <1>0, <1>1, <1>2, <2>1
<1>4. q + k \in Int
  OBVIOUS
<1>5. s = r
  BY ONLY <1>3, <1>4, DivUnique, d \in Nat \ {0}, p \in Int, r \in 0..(d-1), s \in 0..(d-1)
<1> QED BY <1>1, <1>2, <1>5

\* A remainder may be taken before a number is added or subtracted, ...
LEMMA ModSum ==
  ASSUME NEW a \in Int, NEW i \in Int, NEW d \in Nat \ {0}
  PROVE  /\ ((a % d) + i) % d = (a + i) % d
         /\ ((a % d) - i) % d = (a - i) % d
<1>1. PICK p \in Int, r \in 0..(d-1) : r = a % d /\ a = d * p + r
  BY Division
<1>2. PICK x \in Int, y \in Int : x = a + i /\ y = r + i
  OBVIOUS
<1>3. PICK z \in Int, u \in Int : z = a - i /\ u = r - i
  OBVIOUS
<1>4. Congruent(x, y, d) /\ Congruent(z, u, d)
  <2>1. x = y + d * p /\ z = u + d * p
    BY <1>1, <1>2, <1>3
  <2> QED BY <2>1 DEF Congruent
<1>5. x % d = y % d
  BY ONLY <1>4, ModPeriod, x \in Int, y \in Int, d \in Nat \ {0}
<1>6. z % d = u % d
  BY ONLY <1>4, ModPeriod, z \in Int, u \in Int, d \in Nat \ {0}
<1> QED BY ONLY <1>1, <1>2, <1>3, <1>5, <1>6

\* ... and of both numbers of a difference.
LEMMA ModDifference ==
  ASSUME NEW a \in Int, NEW b \in Int, NEW d \in Nat \ {0}
  PROVE  ((a % d) - (b % d)) % d = (a - b) % d
<1>1. PICK p \in Int, r \in 0..(d-1) : r = b % d /\ b = d * p + r
  BY Division
<1>2. ((a % d) - r) % d = (a - r) % d
  <2>1. r \in Int
    BY <1>1
  <2> QED BY ONLY <2>1, ModSum, a \in Int, d \in Nat \ {0}, Zenon
<1>3. PICK x \in Int, y \in Int : x = a - r /\ y = a - b
  OBVIOUS
<1>4. Congruent(x, y, d)
  <2>1. PICK m \in Int : m = d * p
    OBVIOUS
  <2>2. b = m + r
    BY ONLY <1>1, <2>1
  <2>3. x = y + m
    BY ONLY <1>3, <2>2, m \in Int, a \in Int, b \in Int, r \in 0..(d-1), d \in Nat \ {0}
  <2> QED BY <2>1, <2>3 DEF Congruent
<1>5. x % d = y % d
  BY ONLY <1>4, ModPeriod, x \in Int, y \in Int, d \in Nat \ {0}
<1> QED BY ONLY <1>1, <1>2, <1>3, <1>5

\* The remainder of a natural number is no larger than the number.
LEMMA ModBound ==
  ASSUME NEW a \in Nat, NEW d \in Nat \ {0}
  PROVE  a % d <= a /\ a \div d \in Nat
<1>1. PICK p \in Int, r \in 0..(d-1) : r = a % d /\ p = a \div d /\ a = d * p + r
  BY Division
<1>2. p >= 0
  <2> SUFFICES ASSUME p <= -1 PROVE FALSE
    OBVIOUS
  <2>1. d * p <= d * (-1)
    OBVIOUS
  <2> QED BY <1>1, <2>1
<1>3. d * p >= 0
  BY <1>2
<1> QED BY <1>1, <1>2, <1>3

\* The quotient of natural numbers is one.
LEMMA DivType ==
  ASSUME NEW a \in Nat, NEW d \in Nat \ {0}
  PROVE  a \div d \in Nat /\ a \div d \in Int
BY ModBound

\* Quotient and remainder of a natural number.
LEMMA Divided ==
  ASSUME NEW a \in Nat, NEW d \in Nat \ {0}
  PROVE  \E q \in Nat, r \in 0 .. (d - 1) :
            q = a \div d /\ r = a % d /\ a = d * q + r /\ r <= a
<1>1. PICK q, r : q = a \div d /\ r = a % d
  OBVIOUS
<1>2. a \in Int
  OBVIOUS
<1>3. r \in 0 .. (d - 1) /\ a = d * q + r
  BY ONLY <1>1, <1>2, Division, d \in Nat \ {0}
<1>4. q \in Nat /\ r <= a
  BY ONLY <1>1, ModBound, a \in Nat, d \in Nat \ {0}
<1> QED BY ONLY <1>1, <1>3, <1>4

\* A number that is d larger has a larger quotient, ...
LEMMA DivLater ==
  ASSUME NEW a \in Int, NEW b \in Int, NEW d \in Nat \ {0}, b - a >= d
  PROVE  b \div d >= (a \div d) + 1
<1>1. PICK p \in Int, r \in 0..(d-1) : p = a \div d /\ a = d * p + r
  BY Division
<1>2. PICK q \in Int : q = p + 1
  OBVIOUS
<1>3. d * q = d * p + d
  BY <1>2
<1>4. d * q <= b
  BY <1>1, <1>3
<1>5. q <= b \div d
  BY ONLY <1>4, Floor, b \in Int, d \in Nat \ {0}, q \in Int
<1> QED BY ONLY <1>1, <1>2, <1>5, Division, b \in Int, d \in Nat \ {0}

\* ... and between two numbers there are not many multiples of d more than their
\* difference holds.
LEMMA DivElapsed ==
  ASSUME NEW a \in Int, NEW b \in Int, NEW d \in Nat \ {0}, NEW e \in Int, e >= b - a
  PROVE  (b \div d) - (a \div d) - 1 <= e \div d
<1>1. PICK p \in Int, r \in 0..(d-1) : p = a \div d /\ a = d * p + r
  BY Division
<1>2. PICK q \in Int, s \in 0..(d-1) : q = b \div d /\ b = d * q + s
  BY Division
<1>3. PICK k \in Int : k = q - p - 1
  OBVIOUS
<1>4. d * k = d * q - d * p - d
  BY <1>3
<1>5. d * k <= e
  BY <1>1, <1>2, <1>4
<1>6. k <= e \div d
  BY ONLY <1>5, Floor, e \in Int, d \in Nat \ {0}, k \in Int
<1> QED BY ONLY <1>1, <1>2, <1>3, <1>6

\* A multiple of d between two numbers lies between their quotients.
LEMMA DivBetween ==
  ASSUME NEW a \in Int, NEW b \in Int, NEW d \in Nat \ {0}, NEW x \in Int, a < d * x, d * x <= b
  PROVE  a \div d < x /\ x <= b \div d
<1>1. x <= b \div d
  BY ONLY Floor, b \in Int, d \in Nat \ {0}, x \in Int, d * x <= b
<1>2. PICK p \in Int : p = a \div d
  BY Division
<1>3. ~(x <= p)
  <2>1. (d * x <= a) <=> x <= a \div d
    BY ONLY Floor, a \in Int, d \in Nat \ {0}, x \in Int
  <2>2. PICK m \in Int : m = d * x
    OBVIOUS
  <2> QED BY ONLY <1>2, <2>1, <2>2, a \in Int, a < d * x
<1> QED BY ONLY <1>1, <1>2, <1>3, x \in Int

\* Division by one.
LEMMA DivOne ==
  ASSUME NEW a \in Int
  PROVE  a \div 1 = a /\ a % 1 = 0
OBVIOUS

\* A longer shift gives no smaller power.
LEMMA ShiftMonotone ==
  ASSUME NEW m \in Nat, NEW n \in Nat, m <= n
  PROVE  Shift[m] <= Shift[n]
<1>1. PICK k \in Nat : n = m + k
  <2>1. n - m \in Nat /\ n = m + (n - m)
    OBVIOUS
  <2> QED BY <2>1
<1>2. PICK a \in Nat \ {0}, b \in Nat \ {0} : a = Shift[m] /\ b = Shift[k]
  BY ShiftType
<1>3. Shift[n] = a * b
  BY <1>1, <1>2, ShiftSum
<1>4. a <= a * b
  <2>1. a * (b - 1) >= 0
    BY <1>2
  <2>2. a * (b - 1) = a * b - a
    BY <1>2
  <2>3. PICK c \in Int : c = a * b
    BY <1>2
  <2> QED BY <2>1, <2>2, <2>3
<1> QED BY <1>2, <1>3, <1>4

\* The n-th power of two is above n, so that fls finds its position.
LEMMA ShiftAbove == \A n \in Nat : n < Shift[n]
<1> DEFINE S == {n \in Nat : n < Shift[n]}
<1>0. \A n \in Nat : Shift[n] = IF n = 0 THEN 1 ELSE 2 * Shift[n - 1]
  BY ShiftDef
<1>1. 0 \in S
  BY <1>0
<1>2. ASSUME NEW n \in S PROVE n + 1 \in S
  <2>1. Shift[n + 1] = 2 * Shift[n]
    BY <1>0
  <2>2. Shift[n] \in Nat
    BY ShiftType
  <2> QED BY <2>1, <2>2
<1>3. S \in SUBSET Nat
  OBVIOUS
<1> HIDE DEF S
<1>4. S = Nat
  BY <1>1, <1>2, <1>3, Induction
<1> QED BY <1>4 DEF S

\* fls finds the highest bit.
LEMMA FlsHolds ==
  ASSUME NEW n \in Nat \ {0}
  PROVE  fls(n) \in 1 .. n /\ Shift[fls(n) - 1] <= n /\ n < Shift[fls(n)]
<1>1. PICK k \in {j \in Nat : n < Shift[j]} : \A j \in {j \in Nat : n < Shift[j]} : k <= j
  <2>1. n \in {j \in Nat : n < Shift[j]}
    BY ShiftAbove
  <2> HIDE <2>1
  <2> QED BY <2>1, Least
<1>2. k <= n
  BY <1>1, ShiftAbove
<1>3. k # 0
  <2>1. Shift[0] = 1
    BY ShiftDef
  <2> QED BY <1>1, <2>1
<1>4. k - 1 \in Nat /\ ~(n < Shift[k - 1])
  BY <1>1, <1>3
<1>5. k \in 1 .. n /\ Shift[k - 1] <= n /\ n < Shift[k]
  <2>1. Shift[k - 1] \in Nat
    BY <1>4, ShiftType
  <2> QED BY <1>1, <1>2, <1>3, <1>4, <2>1
<1> QED BY <1>5 DEF fls

--------------------------------------------------------------------------------
(* Wheels and slots. *)

\* There are at least two wheels, and at least two slots in each.
LEMMA WheelLength ==
  /\ WHEEL_LEN \in Nat \ {0} /\ WHEEL_LEN >= 2
  /\ WHEEL_NUM \in Nat /\ WHEEL_NUM >= 2 /\ 0 \in Wheels /\ 0 \in Slots
  /\ \A w \in Wheels : w \in Nat
<1>1. Shift[1] <= Shift[WHEEL_BIT]
  BY WheelAssumption, ShiftMonotone
<1>2. Shift[1] = 2 * Shift[0] /\ Shift[0] = 1
  BY ShiftDef
<1>3. Shift[WHEEL_BIT] \in Nat \ {0}
  BY WheelAssumption, ShiftType
<1>4. WHEEL_LEN \in Nat \ {0} /\ WHEEL_LEN >= 2
  BY <1>1, <1>2, <1>3 DEF WHEEL_LEN
<1>5. WHEEL_NUM \in Nat /\ WHEEL_NUM >= 2
  BY WheelAssumption
<1> QED BY <1>4, <1>5 DEF Wheels, Slots

\* A slot stands for a positive time, for one tick in wheel 0.
LEMMA UnitType ==
  /\ \A w \in Nat : Unit(w) \in Nat \ {0}
  /\ Unit(0) = 1
<1>1. ASSUME NEW w \in Nat PROVE Unit(w) \in Nat \ {0}
  <2>1. w * WHEEL_BIT \in Nat
    BY WheelAssumption
  <2> QED BY <2>1, ShiftType DEF Unit
<1>2. Unit(0) = 1
  <2>1. 0 * WHEEL_BIT = 0
    BY WheelAssumption
  <2>2. Shift[0] = 1
    BY ShiftDef
  <2> QED BY <2>1, <2>2 DEF Unit
<1> QED BY <1>1, <1>2

\* A slot of a higher wheel stands for a number of turns of the wheels below.
LEMMA UnitTurns ==
  ASSUME NEW v \in Nat, NEW w \in Nat, v < w
  PROVE  \E k \in Nat : Unit(w) = Unit(v) * (WHEEL_LEN * k)
<1>1. PICK m \in Nat, n \in Nat, j \in Nat :
         m = v * WHEEL_BIT /\ n = (w - v - 1) * WHEEL_BIT /\ j = WHEEL_BIT
  <2>1. w - v - 1 \in Nat
    OBVIOUS
  <2> QED BY <2>1, WheelAssumption
<1>2. w * WHEEL_BIT = m + (j + n)
  BY <1>1
<1>3. Shift[m + (j + n)] = Shift[m] * Shift[j + n] /\ Shift[j + n] = Shift[j] * Shift[n]
  BY ShiftSum
<1>4. Unit(w) = Shift[w * WHEEL_BIT] /\ Unit(v) = Shift[m] /\ WHEEL_LEN = Shift[j]
  BY <1>1 DEF Unit, WHEEL_LEN
<1>5. Shift[n] \in Nat
  BY ShiftType
<1>6. Unit(w) = Unit(v) * (WHEEL_LEN * Shift[n])
  BY ONLY <1>2, <1>3, <1>4
<1> QED BY ONLY <1>5, <1>6

\* The wheel a timeout is put in exists, and one of its slots is not longer than
\* the time that remains; in the lowest wheel that time is less than a turn.
LEMMA WheelFits ==
  ASSUME NEW rem \in Nat \ {0}
  PROVE  /\ timeout_wheel(rem) \in Wheels
         /\ Unit(timeout_wheel(rem)) <= rem
         /\ timeout_wheel(rem) = 0 => rem < WHEEL_LEN
<1>1. PICK B \in Nat \ {0} : B = WHEEL_BIT
  BY WheelAssumption
<1>2. PICK N \in Nat : N = WHEEL_NUM /\ N >= 2
  BY WheelLength
<1>3. PICK M \in Nat : M = B * N
  BY <1>1, <1>2
<1>4. TIMEOUT_MAX = Shift[M] - 1 /\ Shift[M] \in Nat /\ Shift[M] > M /\ M >= 2
  <2>1. TIMEOUT_MAX = Shift[M] - 1
    BY <1>1, <1>2, <1>3 DEF TIMEOUT_MAX
  <2>2. Shift[M] \in Nat
    BY ShiftType
  <2>3. Shift[M] > M
    BY <2>2, ShiftAbove
  <2>4. B * N >= N
    <3>1. (B - 1) * N >= 0
      BY <1>1, <1>2
    <3>2. (B - 1) * N = B * N - N
      BY <1>1, <1>2
    <3> QED BY <1>2, <1>3, <3>1, <3>2
  <2> QED BY <1>2, <1>3, <2>1, <2>2, <2>3, <2>4
<1>5. PICK r \in Nat \ {0} : /\ r = IF rem < TIMEOUT_MAX THEN rem ELSE TIMEOUT_MAX
                             /\ r <= rem /\ r < Shift[M] /\ (r # rem => r = TIMEOUT_MAX)
  BY <1>4
<1>6. PICK k \in Nat : k = fls(r) - 1
  BY FlsHolds
<1>7. Shift[k] <= r /\ r < Shift[k + 1]
  <2>1. fls(r) \in Nat /\ k + 1 = fls(r)
    BY <1>6, FlsHolds
  <2>2. Shift[fls(r) - 1] <= r /\ r < Shift[fls(r)]
    BY FlsHolds
  <2> QED BY <1>6, <2>1, <2>2
<1>8. k < M
  <2> SUFFICES ASSUME M <= k PROVE FALSE
    OBVIOUS
  <2>1. Shift[M] <= Shift[k]
    BY ShiftMonotone
  <2>2. Shift[k] \in Nat
    BY ShiftType
  <2> QED BY <1>4, <1>5, <1>7, <2>1, <2>2
<1>9. PICK w \in Int, s \in 0 .. (B - 1) : w = k \div B /\ k = B * w + s
  BY Division
<1>10. w \in Nat
  BY <1>9, DivType
<1>11. timeout_wheel(rem) = w
  BY <1>1, <1>5, <1>6, <1>9 DEF timeout_wheel
<1>12. w < N
  <2> SUFFICES ASSUME N <= w PROVE FALSE
    BY <1>2
  <2>1. B * N <= k
    <3>1. B * (w - N) >= 0
      BY <1>1, <1>2
    <3>2. B * (w - N) = B * w - B * N
      BY <1>1, <1>2, <1>9
    <3>3. PICK x \in Int, y \in Int : x = B * w /\ y = B * N
      BY <1>1, <1>2, <1>9
    <3> QED BY <1>9, <3>1, <3>2, <3>3
  <2> QED BY <1>3, <1>8, <2>1
<1>13. w \in Wheels
  BY <1>2, <1>10, <1>12 DEF Wheels
<1>14. Unit(w) <= rem
  <2>1. PICK m \in Nat : m = B * w /\ m <= k
    BY <1>9, <1>10
  <2>2. Shift[m] <= Shift[k] /\ Shift[m] \in Nat /\ Shift[k] \in Nat
    BY <2>1, ShiftMonotone, ShiftType
  <2>3. w * WHEEL_BIT = m
    BY <1>1, <1>10, <2>1
  <2>4. Unit(w) = Shift[m]
    BY <2>3 DEF Unit
  <2> QED BY <1>5, <1>7, <2>2, <2>4
<1>15. ASSUME w = 0 PROVE rem < WHEEL_LEN
  <2>1. k < B /\ k + 1 <= B
    BY <1>9, <1>15
  <2>2. Shift[k + 1] <= Shift[B] /\ Shift[k + 1] \in Nat /\ Shift[B] \in Nat /\ WHEEL_LEN = Shift[B]
    BY <1>1, <2>1, ShiftMonotone, ShiftType DEF WHEEL_LEN
  <2>3. r < WHEEL_LEN
    BY <1>5, <1>7, <2>2
  <2>4. r = rem
    <3> SUFFICES ASSUME r = TIMEOUT_MAX PROVE FALSE
      BY <1>5
    <3>1. B + 1 <= M
      <4>1. B * (N - 2) >= 0
        BY <1>1, <1>2
      <4>2. B * (N - 2) = B * N - 2 * B
        BY <1>1, <1>2
      <4> QED BY <1>1, <1>3, <4>1, <4>2
    <3>2. Shift[B + 1] <= Shift[M] /\ Shift[B + 1] = 2 * Shift[B]
      BY <3>1, ShiftMonotone, ShiftDef
    <3>3. Shift[B] \in Nat \ {0}
      BY ShiftType
    <3> QED BY <1>4, <2>2, <2>3, <3>2, <3>3
  <2> QED BY <2>3, <2>4
<1> QED BY <1>11, <1>13, <1>14, <1>15

\* timeout_slot finds a slot of the wheel.
LEMMA SlotFits ==
  ASSUME NEW w \in Wheels, NEW e \in Nat
  PROVE  timeout_slot(w, e) \in Slots
<1>1. PICK x \in Int : x = (e \div Unit(w)) - (IF w = 0 THEN 0 ELSE 1)
  BY WheelLength, UnitType, DivType
<1>2. x % WHEEL_LEN \in 0 .. (WHEEL_LEN - 1)
  BY WheelLength, Division
<1> QED BY <1>1, <1>2 DEF timeout_slot, Slots

\* The place that timeouts_sched finds.
LEMMA SchedPlaces ==
  ASSUME NEW e \in Nat, NEW c \in Nat, e > c
  PROVE  LET w == timeout_wheel(e - c)
         IN  w \in Wheels /\ timeout_slot(w, e) \in Slots /\ Placed(w, timeout_slot(w, e), e, c)
<1>1. PICK rem \in Nat \ {0} : rem = e - c
  OBVIOUS
<1>2. PICK w \in Wheels : w = timeout_wheel(rem)
  BY WheelFits
<1>3. Unit(w) <= rem /\ (w = 0 => rem < WHEEL_LEN)
  BY <1>2, WheelFits
<1>4. timeout_slot(w, e) \in Slots
  BY SlotFits
<1>5. e \div Unit(w) >= (c \div Unit(w)) + 1
  <2>1. PICK u \in Nat \ {0} : u = Unit(w)
    BY WheelLength, UnitType
  <2>2. e - c >= u
    BY <1>1, <1>3, <2>1
  <2>3. e \div u >= (c \div u) + 1
    BY ONLY <2>2, DivLater, e \in Nat, c \in Nat, u \in Nat \ {0}
  <2> QED BY <2>1, <2>3
<1>6. Placed(w, timeout_slot(w, e), e, c)
  BY <1>1, <1>3, <1>5 DEF Placed
<1> QED BY <1>1, <1>2, <1>4, <1>6

\* timeouts_update looks at every position the clock came to, ...
LEMMA PassesNew ==
  ASSUME NEW w \in Wheels, NEW old \in Nat, NEW new \in Nat,
         NEW elapsed \in Nat, elapsed >= new - old,
         NEW x \in Int, old \div Unit(w) < x, x <= new \div Unit(w)
  PROVE  x % WHEEL_LEN \in Passed(w, elapsed, old, new)
<1>1. PICK u \in Nat \ {0} : u = Unit(w)
  BY WheelLength, UnitType
<1>2. PICK L \in Nat \ {0} : L = WHEEL_LEN
  BY WheelLength
<1>3. PICK n \in Nat : n = elapsed \div u
  BY DivType
<1>4. PICK p \in Nat, q \in Nat : p = old \div u /\ q = new \div u
  BY DivType
<1>5. q - p - 1 <= n
  BY ONLY <1>3, <1>4, DivElapsed, old \in Nat, new \in Nat, elapsed \in Nat, u \in Nat \ {0},
          elapsed >= new - old
<1>6. p < x /\ x <= q
  BY ONLY <1>1, <1>4, old \div Unit(w) < x, x <= new \div Unit(w)
<1>7. CASE n > WHEEL_LEN - 1
  <2>1. x % L \in 0 .. (L - 1)
    BY Division
  <2> QED BY <1>1, <1>2, <1>3, <1>7, <2>1 DEF Passed, Slots
<1>8. CASE ~(n > WHEEL_LEN - 1)
  <2>1. PICK i \in 0 .. n : x = q - i
    <3>1. q - x \in 0 .. n /\ x = q - (q - x)
      BY <1>5, <1>6
    <3> QED BY <3>1
  <2>2. ((q % L) - i) % L = (q - i) % L
    <3>1. q \in Int /\ i \in Int
      OBVIOUS
    <3> QED BY ONLY <3>1, ModSum, L \in Nat \ {0}, Zenon
  <2>3. SlotAt(w, new) = q % L
    BY <1>1, <1>2, <1>4 DEF SlotAt
  <2>4. x % WHEEL_LEN \in {(SlotAt(w, new) - j) % WHEEL_LEN : j \in 0 .. n}
    BY <1>2, <2>1, <2>2, <2>3
  <2> QED BY <1>1, <1>3, <1>8, <2>4 DEF Passed
<1> QED BY <1>7, <1>8

\* ... and, if the wheel ticked, at the one it left.
LEMMA PassesOld ==
  ASSUME NEW w \in Wheels, NEW old \in Nat, NEW new \in Nat,
         NEW elapsed \in Nat, elapsed >= Unit(w)
  PROVE  (old \div Unit(w)) % WHEEL_LEN \in Passed(w, elapsed, old, new)
<1>1. PICK u \in Nat \ {0} : u = Unit(w)
  BY WheelLength, UnitType
<1>2. PICK L \in Nat \ {0} : L = WHEEL_LEN
  BY WheelLength
<1>3. PICK n \in Nat : n = elapsed \div u
  BY DivType
<1>4. PICK p \in Nat : p = old \div u
  BY DivType
<1>5. n >= 1
  <2>1. u * 1 <= elapsed
    BY <1>1
  <2> QED BY ONLY <1>3, <2>1, Floor, elapsed \in Nat, u \in Nat \ {0}, 1 \in Int
<1>7. CASE n > WHEEL_LEN - 1
  <2>1. p % L \in 0 .. (L - 1)
    BY Division
  <2> QED BY <1>1, <1>2, <1>3, <1>4, <1>7, <2>1 DEF Passed, Slots
<1>8. CASE ~(n > WHEEL_LEN - 1)
  <2>1. ((p % L) + 0) % L = p % L
    <3>1. p \in Int /\ 0 \in Int /\ p + 0 = p
      OBVIOUS
    <3>2. ((p % L) + 0) % L = (p + 0) % L
      BY ONLY <3>1, ModSum, L \in Nat \ {0}, Zenon
    <3> QED BY ONLY <3>1, <3>2
  <2>2. SlotAt(w, old) = p % L
    BY <1>1, <1>2, <1>4 DEF SlotAt
  <2>3. 0 \in 0 .. (n - 1)
    BY <1>5
  <2>4. p % WHEEL_LEN \in {(SlotAt(w, old) + j) % WHEEL_LEN : j \in 0 .. (n - 1)}
    BY ONLY <1>2, <2>1, <2>2, <2>3, Zenon
  <2> QED BY <1>1, <1>3, <1>4, <1>8, <2>4 DEF Passed
<1> QED BY <1>7, <1>8

\* If a wheel ticks, the ones below turn past their ends.
LEMMA TicksBelow ==
  ASSUME NEW v \in Wheels, NEW w \in Wheels, v < w, NEW old \in Nat, NEW new \in Nat,
         NEW elapsed \in Nat, elapsed >= new - old,
         old \div Unit(w) < new \div Unit(w)
  PROVE  0 \in Passed(v, elapsed, old, new)
<1>1. PICK u \in Nat \ {0}, a \in Nat \ {0} : u = Unit(w) /\ a = Unit(v)
  BY WheelLength, UnitType
<1>2. PICK L \in Nat \ {0} : L = WHEEL_LEN
  BY WheelLength
<1>3. PICK k \in Nat : u = a * (L * k)
  <2>1. v \in Nat /\ w \in Nat
    BY WheelLength
  <2>2. \E k \in Nat : Unit(w) = Unit(v) * (WHEEL_LEN * k)
    BY ONLY <2>1, UnitTurns, v < w
  <2> QED BY ONLY <1>1, <1>2, <2>2, Zenon
<1>4. PICK p \in Nat, q \in Nat : p = old \div u /\ q = new \div u
  BY DivType
<1>5. PICK x \in Int : x = L * (k * q)
  BY <1>3, <1>4
<1>6. a * x = u * q
  <2>1. a * (L * (k * q)) = (a * (L * k)) * q
    BY <1>3, <1>4
  <2> QED BY ONLY <1>3, <1>5, <2>1
<1>7. old < u * q /\ u * q <= new
  <2>1. (u * q <= new) <=> q <= new \div u
    BY ONLY Floor, u \in Nat \ {0}, q \in Nat, new \in Nat
  <2>2. (u * q <= old) <=> q <= old \div u
    BY ONLY Floor, u \in Nat \ {0}, q \in Nat, old \in Nat
  <2>3. p < q
    BY ONLY <1>1, <1>4, old \div Unit(w) < new \div Unit(w)
  <2>4. PICK m \in Int : m = u * q
    BY <1>4
  <2>5. m <= new /\ ~(m <= old)
    BY ONLY <1>4, <2>1, <2>2, <2>3, <2>4, p \in Nat, q \in Nat
  <2> QED BY ONLY <2>4, <2>5, old \in Nat
<1>8. old \div a < x /\ x <= new \div a
  BY ONLY <1>5, <1>6, <1>7, DivBetween, a \in Nat \ {0}, x \in Int, old \in Nat, new \in Nat
<1>9. x % L \in Passed(v, elapsed, old, new)
  BY <1>1, <1>2, <1>8, PassesNew
<1>10. x % L = 0
  <2>1. PICK j \in Int : j = k * q
    BY <1>3, <1>4
  <2>2. x = 0 + L * j
    BY <1>5, <2>1
  <2>3. Congruent(x, 0, L)
    BY <2>2 DEF Congruent
  <2>4. x % L = 0 % L
    BY ONLY <2>3, ModPeriod, x \in Int, 0 \in Int, L \in Nat \ {0}
  <2>5. 0 % L = 0
    <3>1. 0 % L <= 0 /\ 0 % L \in 0 .. (L - 1)
      BY ModBound, Division
    <3> QED BY <3>1
  <2> QED BY <2>4, <2>5
<1> QED BY <1>9, <1>10

\* No timeout is missed: one whose slot the clock did not come to stays placed.
LEMMA NotTicked ==
  ASSUME NEW S, S.curtime \in Nat, NEW new \in Nat, S.curtime <= new,
         NEW w \in Wheels, NEW slot \in Slots, NEW e \in Nat,
         Placed(w, slot, e, S.curtime), <<w, slot>> \notin Ticked(S, new)
  PROVE  Placed(w, slot, e, new)
<1> DEFINE elapsed(v) == IF v = 0 \/ new - S.curtime > Unit(v) THEN new - S.curtime ELSE Unit(v)
           passed(v) == Passed(v, elapsed(v), S.curtime, new)
<1>1. PICK c \in Nat : c = S.curtime
  OBVIOUS
<1>2. PICK L \in Nat \ {0} : L = WHEEL_LEN
  BY WheelLength
<1>3. PICK u \in Nat \ {0} : u = Unit(w)
  BY WheelLength, UnitType
<1>4. \A v \in Wheels : elapsed(v) \in Nat /\ elapsed(v) >= new - c /\ (v # 0 => elapsed(v) >= Unit(v))
  BY <1>1, WheelLength, UnitType
<1>5. \/ \E v \in 0 .. (w - 1) : 0 \notin passed(v)
      \/ slot \notin passed(w)
  BY DEF Ticked
<1> HIDE DEF elapsed
<1>6. slot = timeout_slot(w, e)
  BY DEF Placed
<1>7. CASE w = 0
  <2>1. e > c /\ e - c < WHEEL_LEN
    BY <1>1, <1>7 DEF Placed
  <2>2. slot \notin passed(0)
    BY <1>5, <1>7
  <2>3. Unit(0) = 1
    BY UnitType
  <2>4. e \div 1 = e /\ c \div 1 = c /\ new \div 1 = new /\ e - 0 = e
    BY DivOne
  <2>5. slot = e % WHEEL_LEN
    BY <1>6, <1>7, <2>3, <2>4 DEF timeout_slot
  <2>6. ~(e <= new)
    <3> SUFFICES ASSUME e <= new PROVE FALSE
      OBVIOUS
    <3>1. e % WHEEL_LEN \in Passed(0, elapsed(0), c, new)
      BY <1>4, <2>1, <2>3, <2>4, WheelLength, PassesNew
    <3> QED BY <1>1, <2>2, <2>5, <3>1
  <2> QED BY <1>1, <1>2, <1>6, <1>7, <2>1, <2>6 DEF Placed
<1>8. CASE w # 0
  <2>1. PICK p \in Nat, q \in Nat, x \in Nat : p = c \div u /\ q = new \div u /\ x = e \div u
    BY DivType
  <2>2. x >= p + 1
    BY <1>1, <1>3, <1>8, <2>1 DEF Placed
  <2>3. slot = (x - 1) % WHEEL_LEN
    BY <1>3, <1>6, <1>8, <2>1 DEF timeout_slot
  <2>4. ~(x <= q)
    <3> SUFFICES ASSUME x <= q PROVE FALSE
      OBVIOUS
    <3>1. c \div Unit(w) < new \div Unit(w)
      BY <1>3, <2>1, <2>2
    <3>2. ASSUME NEW v \in 0 .. (w - 1) PROVE 0 \in passed(v)
      <4>1. v \in Wheels /\ v < w
        BY WheelLength DEF Wheels
      <4>2. elapsed(v) \in Nat /\ elapsed(v) >= new - c
        BY <1>4, <4>1
      <4> QED BY ONLY <1>1, <3>1, <4>1, <4>2, TicksBelow, w \in Wheels, new \in Nat
    <3>3. slot \in passed(w)
      <4>1. elapsed(w) \in Nat /\ elapsed(w) >= new - c /\ elapsed(w) >= Unit(w)
        BY <1>4, <1>8
      <4>2. CASE x = p + 1
        <5>1. (c \div Unit(w)) % WHEEL_LEN \in Passed(w, elapsed(w), c, new)
          BY <4>1, PassesOld
        <5>2. x - 1 = p
          BY <4>2
        <5> QED BY <1>1, <1>3, <2>1, <2>3, <5>1, <5>2
      <4>3. CASE x # p + 1
        <5>1. PICK y \in Int : y = x - 1 /\ p < y /\ y <= q
          BY <2>2, <4>3
        <5>2. c \div Unit(w) < y /\ y <= new \div Unit(w)
          BY <1>3, <2>1, <5>1
        <5>3. y % WHEEL_LEN \in Passed(w, elapsed(w), c, new)
          BY <4>1, <5>2, PassesNew
        <5> QED BY <1>1, <2>3, <5>1, <5>3
      <4> QED BY <4>2, <4>3
    <3> QED BY <1>5, <3>2, <3>3
  <2>5. x >= q + 1
    BY <2>4
  <2> QED BY <1>3, <1>6, <1>8, <2>1, <2>5 DEF Placed
<1> QED BY <1>7, <1>8

--------------------------------------------------------------------------------
(* Lists. *)

\* Taking an element out of a list.
LEMMA Erase ==
  ASSUME NEW S, NEW q \in Seq(S), NEW i \in DOMAIN q
  PROVE  LET r == RemoveAt(q, i) IN
         /\ r \in Seq(S) /\ Len(q) = Len(r) + 1 /\ q[i] \in S
         /\ Distinct(q) =>
              Distinct(r) /\ \A x : In(x, r) <=> In(x, q) /\ x # q[i]
<1>0. PICK n \in Nat : n = Len(q)
  OBVIOUS
<1>d. i \in 1..n /\ DOMAIN q = 1..n
  BY <1>0
<1>1. \A j \in 1..n : q[j] \in S
  BY <1>0
<1>n. i \in Int /\ n \in Int /\ 1 <= i /\ i <= n
  BY ONLY <1>0, <1>d
<1>2. PICK a : a = SubSeq(q, 1, i - 1) /\ a \in Seq(S) /\ Len(a) = i - 1
               /\ \A j \in 1..(i - 1) : a[j] = q[j]
  <2>1. PICK m \in Int : m = i - 1
    BY ONLY <1>n
  <2>2. \A j \in 1..m : q[j] \in S
    BY ONLY <1>1, <1>n, <2>1
  <2>3. PICK a : a = SubSeq(q, 1, m)
    OBVIOUS
  <2>4. /\ a \in Seq(S) /\ Len(a) = IF 1 <= m THEN m - 1 + 1 ELSE 0
        /\ \A j \in 1..(m - 1 + 1) : a[j] = q[1 + j - 1]
    BY ONLY <2>1, <2>2, <2>3, 1 \in Int, SubSeqProperties
  <2>5. Len(a) = m /\ \A j \in 1..m : j \in 1..(m - 1 + 1) /\ 1 + j - 1 = j
    BY ONLY <1>n, <2>1, <2>4
  <2>6. \A j \in 1..m : a[j] = q[j]
    BY ONLY <2>4, <2>5, Zenon
  <2> QED BY ONLY <2>1, <2>3, <2>4, <2>5, <2>6
<1>3. PICK b : b = SubSeq(q, i + 1, n) /\ b \in Seq(S) /\ Len(b) = n - i
               /\ \A j \in 1..(n - i) : b[j] = q[j + i]
  <2>1. PICK m \in Int : m = i + 1
    BY ONLY <1>n
  <2>2. \A j \in m..n : q[j] \in S
    BY ONLY <1>1, <1>n, <2>1
  <2>3. PICK b : b = SubSeq(q, m, n)
    OBVIOUS
  <2>4. /\ b \in Seq(S) /\ Len(b) = IF m <= n THEN n - m + 1 ELSE 0
        /\ \A j \in 1..(n - m + 1) : b[j] = q[m + j - 1]
    BY ONLY <1>n, <2>1, <2>2, <2>3, SubSeqProperties
  <2>a. PICK l : l = Len(b)
    OBVIOUS
  <2>b. l = IF m <= n THEN n - m + 1 ELSE 0
    BY ONLY <2>4, <2>a
  <2>c. l = n - i
    BY ONLY <1>n, <2>1, <2>b
  <2>d. n - m + 1 = n - i /\ n - i \in Int
    BY ONLY <1>n, <2>1
  <2>e. \A j \in Int : m + j - 1 = j + i
    BY ONLY <1>n, <2>1
  <2>f. \A j \in 1..(n - i) : j \in Int
    BY ONLY <2>d
  <2>5. \A j \in 1..(n - i) : j \in 1..(n - m + 1) /\ m + j - 1 = j + i
    BY ONLY <2>d, <2>e, <2>f, Zenon
  <2>6. \A j \in 1..(n - i) : b[j] = q[j + i]
    BY ONLY <2>4, <2>5, Zenon
  <2> QED BY ONLY <2>1, <2>3, <2>4, <2>a, <2>c, <2>6
<1>r. PICK r : r = a \o b
  OBVIOUS
<1>c. /\ r \in Seq(S) /\ Len(r) = Len(a) + Len(b)
      /\ \A j \in 1..(Len(a) + Len(b)) :
            r[j] = IF j <= Len(a) THEN a[j] ELSE b[j - Len(a)]
  <2>1. a \in Seq(S) /\ b \in Seq(S)
    BY ONLY <1>2, <1>3, Zenon
  <2>2. /\ a \o b \in Seq(S) /\ Len(a \o b) = Len(a) + Len(b)
        /\ \A j \in 1..(Len(a) + Len(b)) :
              (a \o b)[j] = IF j <= Len(a) THEN a[j] ELSE b[j - Len(a)]
    BY ONLY <2>1, ConcatProperties, Zenon
  <2> QED BY ONLY <1>r, <2>2, Zenon
<1>l. /\ r \in Seq(S) /\ Len(r) = (i - 1) + (n - i)
      /\ \A j \in 1..((i - 1) + (n - i)) :
            r[j] = IF j <= i - 1 THEN a[j] ELSE b[j - (i - 1)]
  BY ONLY <1>2, <1>3, <1>c, Zenon
<1>m. (i - 1) + (n - i) = n - 1 /\ n - 1 \in Nat /\ n = (n - 1) + 1
  BY ONLY <1>n
<1>4. r \in Seq(S) /\ Len(r) = n - 1 /\ DOMAIN r = 1..(n - 1)
  <2>1. r \in Seq(S) /\ Len(r) = n - 1
    BY ONLY <1>l, <1>m
  <2> QED BY ONLY <2>1, LenProperties, Zenon
<1>5. \A j \in 1..(n - 1) : r[j] = q[IF j < i THEN j ELSE j + 1]
  <2> SUFFICES ASSUME NEW j \in 1..(n - 1) PROVE r[j] = q[IF j < i THEN j ELSE j + 1]
    OBVIOUS
  <2>1. CASE j < i
    <3>1. j \in 1..((i - 1) + (n - i)) /\ j <= i - 1 /\ j \in 1..(i - 1)
      BY ONLY <1>n, <2>1, j \in 1..(n - 1)
    <3>2. r[j] = a[j] /\ a[j] = q[j]
      BY ONLY <1>2, <1>l, <3>1, Zenon
    <3> QED BY ONLY <2>1, <3>2
  <2>2. CASE ~(j < i)
    <3>1. PICK m \in Int : m = j - (i - 1)
      BY ONLY <1>n, j \in 1..(n - 1)
    <3>2. j \in 1..((i - 1) + (n - i)) /\ ~(j <= i - 1) /\ m \in 1..(n - i) /\ m + i = j + 1
      BY ONLY <1>n, <2>2, <3>1, j \in 1..(n - 1)
    <3>3. r[j] = b[m]
      BY ONLY <1>l, <3>1, <3>2, Zenon
    <3>4. b[m] = q[j + 1]
      BY ONLY <1>3, <3>2, Zenon
    <3> QED BY ONLY <2>2, <3>3, <3>4
  <2> QED BY ONLY <2>1, <2>2
<1>6. \A x : In(x, r) => In(x, q)
  <2>1. \A j \in 1..(n - 1) : (IF j < i THEN j ELSE j + 1) \in 1..n
    BY ONLY <1>n
  <2>2. \A j \in DOMAIN r : \E k \in DOMAIN q : r[j] = q[k]
    BY ONLY <1>d, <1>4, <1>5, <2>1, Zenon
  <2> QED BY ONLY <2>2, Zenon DEF In
<1>7. Distinct(q) => Distinct(r) /\ ~In(q[i], r)
  <2> DEFINE f(j) == IF j < i THEN j ELSE j + 1
  <2>a. \A j \in 1..(n - 1) : f(j) \in 1..n /\ f(j) # i
    BY ONLY <1>n
  <2>b. \A j, k \in 1..(n - 1) : f(j) = f(k) => j = k
    BY ONLY <1>n
  <2>c. \A j \in 1..(n - 1) : r[j] = q[f(j)]
    BY ONLY <1>5
  <2> HIDE DEF f
  <2>1. \A j \in DOMAIN r : f(j) \in DOMAIN q /\ f(j) # i /\ r[j] = q[f(j)]
    BY ONLY <1>d, <1>4, <2>a, <2>c, Zenon
  <2>2. \A j, k \in DOMAIN r : f(j) = f(k) => j = k
    BY ONLY <1>4, <2>b, Zenon
  <2>3. Distinct(q) => Distinct(r)
    BY ONLY <2>1, <2>2 DEF Distinct
  <2>4. Distinct(q) => ~In(q[i], r)
    BY <2>1 DEF Distinct, In
  <2> QED BY <2>3, <2>4
<1>8. RemoveAt(q, i) = r
  BY ONLY <1>0, <1>2, <1>3, <1>r DEF RemoveAt
<1>9. Len(q) = Len(r) + 1 /\ q[i] \in S
  BY ONLY <1>0, <1>d, <1>1, <1>4, <1>m
<1>10. \A x : In(x, q) /\ x # q[i] => In(x, r)
  <2> SUFFICES ASSUME NEW k \in DOMAIN q, k # i PROVE \E j \in DOMAIN r : r[j] = q[k]
    BY DEF In
  <2>1. k \in 1..n
    BY ONLY <1>d, k \in DOMAIN q
  <2>2. CASE k < i
    <3>1. k \in 1..(n - 1)
      BY ONLY <1>n, <2>1, <2>2
    <3> QED BY ONLY <1>4, <1>5, <2>2, <3>1
  <2>3. CASE ~(k < i)
    <3>1. PICK j \in 1..(n - 1) : j + 1 = k /\ ~(j < i)
      <4>1. k - 1 \in 1..(n - 1) /\ (k - 1) + 1 = k /\ ~(k - 1 < i)
        BY ONLY <1>n, <2>1, <2>3, k # i
      <4> QED BY ONLY <4>1
    <3> QED BY ONLY <1>4, <1>5, <3>1
  <2> QED BY <2>2, <2>3
<1>11. Distinct(q) => \A x : In(x, r) <=> In(x, q) /\ x # q[i]
  BY ONLY <1>6, <1>7, <1>10
<1> QED BY ONLY <1>4, <1>7, <1>8, <1>9, <1>11

\* TAILQ_REMOVE
LEMMA TakeOut ==
  ASSUME NEW S, NEW q \in Seq(S), NEW t, In(t, q)
  PROVE  LET r == TAILQ_REMOVE(q, t) IN
         /\ r \in Seq(S) /\ t \in S
         /\ Distinct(q) => Distinct(r) /\ \A x : In(x, r) <=> In(x, q) /\ x # t
<1>1. Position(q, t) \in DOMAIN q /\ q[Position(q, t)] = t
  BY DEF Position, In
<1>2. PICK i \in DOMAIN q : i = Position(q, t) /\ q[i] = t
  BY <1>1
<1>3. /\ RemoveAt(q, i) \in Seq(S) /\ q[i] \in S
      /\ Distinct(q) => /\ Distinct(RemoveAt(q, i))
                        /\ \A x : In(x, RemoveAt(q, i)) <=> In(x, q) /\ x # q[i]
  BY Erase
<1>4. PICK r : r = RemoveAt(q, i)
  OBVIOUS
<1>5. TAILQ_REMOVE(q, t) = r
  BY ONLY <1>2, <1>4 DEF TAILQ_REMOVE
<1>6. /\ r \in Seq(S) /\ t \in S
      /\ Distinct(q) => Distinct(r) /\ \A x : In(x, r) <=> In(x, q) /\ x # t
  BY ONLY <1>2, <1>3, <1>4
<1> QED BY ONLY <1>5, <1>6

\* TAILQ_INSERT_TAIL
LEMMA PushBack ==
  ASSUME NEW S, NEW q \in Seq(S), NEW t \in S
  PROVE  LET r == Append(q, t) IN
         /\ r \in Seq(S) /\ r # <<>>
         /\ \A x : In(x, r) <=> (x = t \/ In(x, q))
         /\ Distinct(q) /\ ~In(t, q) => Distinct(r)
<1> DEFINE r == Append(q, t)
<1>1. /\ r \in Seq(S) /\ Len(r) = Len(q) + 1 /\ DOMAIN r = 1 .. (Len(q) + 1)
      /\ DOMAIN q = 1 .. Len(q) /\ Len(q) \in Nat
  OBVIOUS
<1>2. r[Len(q) + 1] = t /\ \A i \in DOMAIN q : r[i] = q[i]
  OBVIOUS
<1>e. r # <<>>
  BY <1>1
<1> HIDE DEF r
<1>3. \A x : In(x, r) <=> (x = t \/ In(x, q))
  BY <1>1, <1>2 DEF In
<1>4. Distinct(q) /\ ~In(t, q) => Distinct(r)
  BY <1>1, <1>2 DEF In, Distinct
<1> QED BY <1>1, <1>e, <1>3, <1>4 DEF r

\* TAILQ_FIRST and its removal
LEMMA PopFront ==
  ASSUME NEW S, NEW q \in Seq(S), q # <<>>, Distinct(q)
  PROVE  /\ Head(q) \in S /\ Tail(q) \in Seq(S) /\ In(Head(q), q) /\ Distinct(Tail(q))
         /\ \A x : In(x, Tail(q)) <=> In(x, q) /\ x # Head(q)
<1> DEFINE r == Tail(q)
<1>1. /\ Head(q) = q[1] /\ 1 \in DOMAIN q /\ Head(q) \in S
      /\ r \in Seq(S) /\ Len(q) = Len(r) + 1 /\ Len(r) \in Nat
      /\ DOMAIN r = 1 .. Len(r) /\ DOMAIN q = 1 .. (Len(r) + 1)
  OBVIOUS
<1>2. \A i \in DOMAIN r : r[i] = q[i + 1] /\ i + 1 \in DOMAIN q
  OBVIOUS
<1> HIDE DEF r
<1>3. In(Head(q), q)
  BY <1>1 DEF In
<1>4. Distinct(r) /\ ~In(Head(q), r)
  BY <1>1, <1>2 DEF In, Distinct
<1>5. \A x : In(x, r) => In(x, q)
  BY <1>1, <1>2 DEF In
<1>6. ASSUME NEW j \in DOMAIN q, j # 1 PROVE \E i \in DOMAIN r : r[i] = q[j]
  <2>1. j - 1 \in DOMAIN r /\ (j - 1) + 1 = j
    BY <1>1, <1>6
  <2> QED BY <1>2, <2>1
<1>7. \A x : In(x, q) /\ x # Head(q) => In(x, r)
  BY <1>1, <1>6 DEF In
<1>8. Head(q) \in S /\ r \in Seq(S)
  BY <1>1
<1> QED BY ONLY <1>3, <1>4, <1>5, <1>7, <1>8 DEF r

\* Nothing is in an empty list, and something in any other.
LEMMA EmptyList ==
  ASSUME NEW S, NEW q \in Seq(S)
  PROVE  q = <<>> <=> \A x \in S : ~In(x, q)
<1>1. CASE q = <<>>
  BY <1>1 DEF In
<1>2. CASE q # <<>>
  <2>1. 1 \in DOMAIN q /\ q[1] \in S
    BY <1>2
  <2> QED BY <1>2, <2>1 DEF In
<1> QED BY <1>1, <1>2

\* R is a strict total order on A.
StrictOrder(A, R) ==
    /\ \A x \in A : <<x, x>> \notin R
    /\ \A x, y \in A : x # y => <<x, y>> \in R \/ <<y, x>> \in R
    /\ \A x, y, z \in A : <<x, y>> \in R /\ <<y, z>> \in R => <<x, z>> \in R

\* In a strict order on a finite set, the number of predecessors is a different
\* one for every element, so that each number below the size of the set occurs.
LEMMA Ranks ==
  ASSUME NEW A, IsFiniteSet(A), NEW R, StrictOrder(A, R),
         NEW rank, rank = [t \in A |-> Cardinality({u \in A : <<u, t>> \in R})]
  PROVE  /\ Cardinality(A) \in Nat
         /\ \A t \in A : rank[t] \in 0 .. (Cardinality(A) - 1)
         /\ \A k \in 0 .. (Cardinality(A) - 1) : \E t \in A : rank[t] = k
         /\ \A t, u \in A : rank[t] = rank[u] => t = u
<1> DEFINE below(t) == {u \in A : <<u, t>> \in R}
<1>0. PICK n \in Nat : n = Cardinality(A)
  BY FS_CardinalityType
<1>1. ASSUME NEW t \in A
      PROVE  IsFiniteSet(below(t)) /\ rank[t] = Cardinality(below(t)) /\ rank[t] \in 0 .. (n - 1)
  <2>1. below(t) \in SUBSET A /\ below(t) # A
    BY DEF StrictOrder
  <2>2. PICK b : b = below(t)
    OBVIOUS
  <2>3. IsFiniteSet(b) /\ Cardinality(b) <= Cardinality(A) /\ (Cardinality(A) = Cardinality(b) => A = b)
    BY ONLY <2>1, <2>2, FS_Subset, IsFiniteSet(A)
  <2>4. Cardinality(b) \in Nat
    BY ONLY <2>3, FS_CardinalityType
  <2>5. rank[t] = Cardinality(b)
    BY <2>2
  <2>6. Cardinality(b) # n
    BY <1>0, <2>1, <2>2, <2>3
  <2>7. PICK m \in Nat : m = Cardinality(b)
    BY <2>4
  <2>8. m <= n /\ m # n
    BY ONLY <1>0, <2>3, <2>6, <2>7
  <2>9. m \in 0 .. (n - 1)
    BY ONLY <2>8, m \in Nat, n \in Nat
  <2> QED BY ONLY <2>2, <2>3, <2>5, <2>7, <2>9
<1>2. ASSUME NEW t \in A, NEW u \in A, <<t, u>> \in R PROVE rank[t] # rank[u]
  <2>1. below(t) \in SUBSET below(u) /\ t \in below(u) /\ t \notin below(t)
    BY <1>2 DEF StrictOrder
  <2>2. below(t) # below(u)
    BY ONLY <2>1
  <2>3. PICK a, b : a = below(t) /\ b = below(u)
    OBVIOUS
  <2>4. IsFiniteSet(b) /\ rank[t] = Cardinality(a) /\ rank[u] = Cardinality(b)
    BY ONLY <1>1, <2>3, t \in A, u \in A
  <2>5. a \in SUBSET b /\ a # b
    BY ONLY <2>1, <2>2, <2>3
  <2>6. Cardinality(b) # Cardinality(a)
    BY ONLY <2>4, <2>5, FS_Subset
  <2> QED BY ONLY <2>4, <2>6
<1>3. \A t, u \in A : rank[t] = rank[u] => t = u
  BY ONLY <1>2, StrictOrder(A, R) DEF StrictOrder
<1>4. \A t \in A : rank[t] \in 0 .. (n - 1)
  BY <1>1
<1>5. PICK K : K = 0 .. (n - 1)
  OBVIOUS
<1>6. IsFiniteSet(K) /\ Cardinality(K) = n
  <2>1. 0 \in Int /\ n - 1 \in Int
    OBVIOUS
  <2>2. IsFiniteSet(K) /\ Cardinality(K) = IF 0 > n - 1 THEN 0 ELSE (n - 1) - 0 + 1
    BY ONLY <1>5, <2>1, FS_Interval
  <2>3. (IF 0 > n - 1 THEN 0 ELSE (n - 1) - 0 + 1) = n
    OBVIOUS
  <2> QED BY ONLY <2>2, <2>3
<1>7. rank \in Injection(A, K)
  <2>1. rank \in [A -> K]
    BY <1>4, <1>5
  <2> QED BY <1>3, <2>1 DEF Injection, IsInjective
<1>8. rank \in Surjection(A, K)
  BY ONLY <1>0, <1>6, <1>7, FS_Injection
<1>9. \A k \in K : \E t \in A : rank[t] = k
  BY ONLY <1>8 DEF Surjection
<1> QED BY ONLY <1>0, <1>3, <1>4, <1>5, <1>9

--------------------------------------------------------------------------------
(* The order in which timeouts_update takes the timeouts. *)

\* A timeout on a wheel is where its field says.
LEMMA Found ==
  ASSUME NEW S, S \in WheelStates, Listed(S), NEW t \in Timers,
         NEW l \in Lists, S.at[t] = l
  PROVE  /\ Position(S.list[l], t) \in Nat
         /\ S.list[l][Position(S.list[l], t)] = t
<1>1. PICK q \in Seq(Timers) : q = S.list[l]
  BY DEF WheelStates
<1>2. In(t, q)
  BY <1>1 DEF Listed
<1>3. Position(q, t) \in DOMAIN q /\ q[Position(q, t)] = t
  BY <1>2 DEF Position, In
<1>4. Position(q, t) \in Nat
  BY <1>3
<1> QED BY <1>1, <1>3, <1>4

\* Precedes compares three numbers of the timeouts, one after the other.
Keys(S, A, w, s, p) ==
    /\ w \in [A -> Nat] /\ s \in [A -> Nat] /\ p \in [A -> Nat]
    /\ \A t, u \in A : w[t] = w[u] /\ s[t] = s[u] /\ p[t] = p[u] => t = u
    /\ \A t, u \in A : Precedes(S, t, u) <=>
          \/ w[t] < w[u]
          \/ w[t] = w[u] /\ s[t] < s[u]
          \/ w[t] = w[u] /\ s[t] = s[u] /\ p[t] < p[u]

\* Precedes compares wheels, then slots, then positions.
LEMMA Lexicographic ==
  ASSUME NEW S, S \in WheelStates, Listed(S), NEW A \in SUBSET Timers,
         \A t \in A : S.at[t] \in Wheels \X Slots
  PROVE  \E w, s, p : Keys(S, A, w, s, p)
<1> DEFINE w == [t \in A |-> S.at[t][1]]
           s == [t \in A |-> S.at[t][2]]
           p == [t \in A |-> Position(S.list[S.at[t]], t)]
<1>1. ASSUME NEW t \in A
      PROVE  /\ w[t] \in Nat /\ s[t] \in Nat /\ S.at[t] = <<w[t], s[t]>>
             /\ S.at[t] \in Lists /\ t \in Timers
  <2>1. Wheels \subseteq Nat /\ Slots \subseteq Nat
    BY DEF Wheels, Slots
  <2>2. PICK l \in Wheels \X Slots : l = S.at[t]
    OBVIOUS
  <2>3. l[1] \in Nat /\ l[2] \in Nat /\ l = <<l[1], l[2]>>
    <3>1. PICK a \in Wheels, b \in Slots : l = <<a, b>>
      BY ONLY l \in Wheels \X Slots
    <3>2. l[1] = a /\ l[2] = b
      BY ONLY <3>1
    <3> QED BY ONLY <2>1, <3>1, <3>2
  <2>4. w[t] = l[1] /\ s[t] = l[2] /\ t \in Timers
    BY <2>2
  <2>5. l \in Lists
    BY DEF Lists
  <2> QED BY ONLY <2>2, <2>3, <2>4, <2>5
<1>2. ASSUME NEW t \in A
      PROVE  p[t] \in Nat /\ S.list[S.at[t]][p[t]] = t
  BY <1>1, Found
<1>3. w \in [A -> Nat] /\ s \in [A -> Nat] /\ p \in [A -> Nat]
  BY <1>1, <1>2
<1>4. ASSUME NEW t \in A, NEW u \in A
      PROVE  /\ S.at[t] = S.at[u] <=> w[t] = w[u] /\ s[t] = s[u]
             /\ w[t] = w[u] /\ s[t] = s[u] /\ p[t] = p[u] => t = u
  <2>1. S.at[t] = S.at[u] <=> w[t] = w[u] /\ s[t] = s[u]
    BY <1>1
  <2> QED BY ONLY <1>2, <2>1, t \in A, u \in A
<1>5. ASSUME NEW t \in A, NEW u \in A
      PROVE  Precedes(S, t, u) <=>
                  \/ w[t] < w[u]
                  \/ w[t] = w[u] /\ s[t] < s[u]
                  \/ w[t] = w[u] /\ s[t] = s[u] /\ p[t] < p[u]
  <2>1. S.at[t] = S.at[u] <=> w[t] = w[u] /\ s[t] = s[u]
    BY ONLY <1>4, t \in A, u \in A
  <2>2. /\ S.at[t][1] = w[t] /\ S.at[t][2] = s[t] /\ S.at[u][1] = w[u] /\ S.at[u][2] = s[u]
        /\ Position(S.list[S.at[t]], t) = p[t] /\ Position(S.list[S.at[u]], u) = p[u]
    OBVIOUS
  <2> HIDE DEF w, s, p
  <2>3. Precedes(S, t, u) <=>
             \/ w[t] < w[u]
             \/ w[t] = w[u] /\ s[t] < s[u]
             \/ S.at[t] = S.at[u] /\ p[t] < p[u]
    BY ONLY <2>2 DEF Precedes
  <2> QED BY ONLY <2>1, <2>3
<1> HIDE DEF w, s, p
<1>6. Keys(S, A, w, s, p)
  BY ONLY <1>3, <1>4, <1>5 DEF Keys
<1> QED BY <1>6

\* InTurn lists a set of timeouts that are in the wheels.
LEMMA Enumerated ==
  ASSUME NEW S, S \in WheelStates, Listed(S), NEW A \in SUBSET Timers,
         \A t \in A : S.at[t] \in Wheels \X Slots
  PROVE  LET q == InTurn(S, A)
         IN  q \in Seq(A) /\ \A t \in A : In(t, q)
<1>1. IsFiniteSet(A)
  BY WheelAssumption, FS_Subset
<1>2. PICK w, s, p : Keys(S, A, w, s, p)
  BY Lexicographic
<1> DEFINE before(t, u) ==
                  \/ w[t] < w[u]
                  \/ w[t] = w[u] /\ s[t] < s[u]
                  \/ w[t] = w[u] /\ s[t] = s[u] /\ p[t] < p[u]
           R == {x \in A \X A : before(x[1], x[2])}
<1>n. \A t \in A : w[t] \in Nat /\ s[t] \in Nat /\ p[t] \in Nat
  BY <1>2 DEF Keys
<1>3. \A t, u \in A : <<t, u>> \in R <=> before(t, u)
  BY Zenon
<1>4. \A t \in A : ~before(t, t)
  BY ONLY <1>n
<1>5. \A t, u \in A : t # u => before(t, u) \/ before(u, t)
  BY ONLY <1>2, <1>n DEF Keys
<1>6. \A t, u, v \in A : before(t, u) /\ before(u, v) => before(t, v)
  BY ONLY <1>n
<1>7. \A t, u \in A : Precedes(S, t, u) <=> before(t, u)
  BY ONLY <1>2 DEF Keys
<1> HIDE DEF before, R
<1>9. StrictOrder(A, R)
  BY ONLY <1>3, <1>4, <1>5, <1>6, Zenon DEF StrictOrder
<1>10. PICK r : r = [t \in A |-> Cardinality({u \in A : <<u, t>> \in R})]
  OBVIOUS
<1>11. PICK n : n = Cardinality(A)
  OBVIOUS
<1>12. /\ n \in Nat
       /\ \A t \in A : r[t] \in 0 .. (n - 1)
       /\ \A k \in 0 .. (n - 1) : \E t \in A : r[t] = k
       /\ \A t, u \in A : r[t] = r[u] => t = u
  BY ONLY <1>1, <1>9, <1>10, <1>11, Ranks
<1>13. ASSUME NEW t \in A
       PROVE  r[t] = Cardinality({u \in A : Precedes(S, u, t)})
  <2>1. {u \in A : Precedes(S, u, t)} = {u \in A : <<u, t>> \in R}
    BY ONLY <1>3, <1>7, t \in A
  <2> QED BY <1>10, <2>1
<1>14. PICK q : q = InTurn(S, A)
  OBVIOUS
<1>15. q = [i \in 1 .. n |-> CHOOSE t \in A : Cardinality({u \in A : Precedes(S, u, t)}) = i - 1]
  BY <1>11, <1>14 DEF InTurn
<1>16. ASSUME NEW i \in 1 .. n PROVE q[i] \in A /\ r[q[i]] = i - 1
  <2>1. i - 1 \in 0 .. (n - 1)
    BY <1>12
  <2>2. PICK t \in A : r[t] = i - 1
    BY <1>12, <2>1
  <2>3. Cardinality({u \in A : Precedes(S, u, t)}) = i - 1
    BY <1>13, <2>2
  <2>4. q[i] \in A /\ Cardinality({u \in A : Precedes(S, u, q[i])}) = i - 1
    BY <1>15, <2>3
  <2> QED BY <1>13, <2>4
<1>17. DOMAIN q = 1 .. n
  BY <1>15
<1>18. q \in Seq(A)
  <2>1. q \in [1 .. n -> A]
    BY <1>15, <1>16
  <2> QED BY <1>12, <2>1, SeqDef
<1>19. ASSUME NEW t \in A PROVE \E i \in 1 .. n : q[i] = t
  <2>1. PICK k \in Nat : k = r[t] + 1 /\ k \in 1 .. n /\ k - 1 = r[t]
    <3>1. r[t] + 1 \in Nat /\ r[t] + 1 \in 1 .. n /\ (r[t] + 1) - 1 = r[t]
      BY <1>12
    <3> QED BY <3>1
  <2>2. q[k] \in A /\ r[q[k]] = r[t]
    BY <1>16, <2>1
  <2> QED BY <1>12, <2>1, <2>2
<1> QED BY <1>14, <1>17, <1>18, <1>19 DEF In

--------------------------------------------------------------------------------
(* The operations on the state of the wheel. *)

\* What the operations keep, but for the times.
Sound(S) == S \in WheelStates /\ Listed(S) /\ Marked(S)

\* The list of a slot, and the sets of the fields.
LEMMA Fields ==
  ASSUME NEW S, S \in WheelStates
  PROVE  /\ S.list \in [Lists -> Seq(Timers)] /\ S.pending \in SUBSET (Wheels \X Slots)
         /\ S.curtime \in 0 .. MaxTime /\ S.curtime \in Nat
         /\ S.expires \in [Timers -> 0 .. 2 * MaxTime] /\ S.interval \in [Timers -> 0 .. MaxTime]
         /\ S.at \in [Timers -> Lists \cup {Null}]
         /\ S = [list |-> S.list, pending |-> S.pending, curtime |-> S.curtime,
                 expires |-> S.expires, interval |-> S.interval, at |-> S.at]
  BY WheelAssumption DEF WheelStates

\* timeouts_del takes the timeout off its list and leaves the rest alone.
LEMMA Deleted ==
  ASSUME NEW S, Sound(S), NEW t \in Timers
  PROVE  LET D == timeouts_del(S, t) IN
         /\ Sound(D)
         /\ D.curtime = S.curtime /\ D.expires = S.expires /\ D.interval = S.interval
         /\ D.at = [S.at EXCEPT ![t] = Null]
<1> DEFINE D == timeouts_del(S, t)
<1>1. CASE S.at[t] = Null
  <2>1. D = S
    BY <1>1 DEF timeouts_del
  <2>2. S.at = [S.at EXCEPT ![t] = Null]
    BY <1>1, Fields DEF Sound
  <2> QED BY <2>1, <2>2
<1>2. CASE S.at[t] # Null
  <2>1. PICK l \in Lists : l = S.at[t]
    BY <1>2, Fields DEF Sound
  <2>2. PICK q \in Seq(Timers) : q = S.list[l] /\ Distinct(q) /\ In(t, q)
    BY <2>1, Fields DEF Sound, Listed
  <2>3. PICK r \in Seq(Timers) : /\ r = TAILQ_REMOVE(q, t) /\ Distinct(r)
                                 /\ \A x : In(x, r) <=> In(x, q) /\ x # t
    BY <2>2, TakeOut
  <2>4. PICK p : p = IF l # Expired /\ r = <<>> THEN S.pending \ {l} ELSE S.pending
    OBVIOUS
  <2>5. D = [list |-> [S.list EXCEPT ![l] = r], pending |-> p, curtime |-> S.curtime,
             expires |-> S.expires, interval |-> S.interval, at |-> [S.at EXCEPT ![t] = Null]]
    <3>1. D = [S EXCEPT !.list[l] = r, !.pending = p, !.at[t] = Null]
      BY ONLY <1>2, <2>1, <2>2, <2>3, <2>4 DEF timeouts_del
    <3> HIDE DEF D
    <3> QED BY ONLY <3>1, Sound(S) DEF Sound, WheelStates
  <2> HIDE DEF D
  <2>6. /\ D.list = [S.list EXCEPT ![l] = r] /\ D.pending = p
        /\ D.curtime = S.curtime /\ D.expires = S.expires /\ D.interval = S.interval
        /\ D.at = [S.at EXCEPT ![t] = Null]
    BY ONLY <2>5
  <2>7. D \in WheelStates
    <3>1. p \in SUBSET (Wheels \X Slots) /\ [S.list EXCEPT ![l] = r] \in [Lists -> Seq(Timers)]
      BY <2>4, Fields DEF Sound
    <3>2. [S.at EXCEPT ![t] = Null] \in [Timers -> Lists \cup {Null}]
      BY Fields DEF Sound
    <3> QED BY ONLY <2>5, <3>1, <3>2, Fields, Sound(S) DEF Sound, WheelStates
  <2>8. Listed(D)
    <3> SUFFICES ASSUME NEW k \in Lists
                 PROVE  /\ Distinct(D.list[k])
                        /\ \A u \in Timers : In(u, D.list[k]) <=> D.at[u] = k
      BY DEF Listed
    <3>1. Distinct(S.list[k]) /\ \A u \in Timers : In(u, S.list[k]) <=> S.at[u] = k
      BY DEF Sound, Listed
    <3>2. /\ \A u \in Timers : D.at[u] = IF u = t THEN Null ELSE S.at[u]
          /\ D.list[k] = IF k = l THEN r ELSE S.list[k]
      BY <2>6, Fields DEF Sound
    <3>3. Null # k
      BY NullAssumption
    <3>4. CASE k = l
      BY ONLY <2>1, <2>2, <2>3, <3>1, <3>2, <3>3, <3>4
    <3>5. CASE k # l
      BY ONLY <2>1, <3>1, <3>2, <3>3, <3>5, t \in Timers
    <3> QED BY <3>4, <3>5
  <2>9. Marked(D)
    <3>1. \A k \in Lists : D.list[k] = IF k = l THEN r ELSE S.list[k]
      BY <2>6, Fields DEF Sound
    <3>2. \A k \in Wheels \X Slots : k # Expired /\ k \in Lists
      BY NullAssumption DEF Lists
    <3>3. q # <<>>
      BY ONLY <2>2 DEF In
    <3>4. \A k : k \in S.pending <=> k \in Wheels \X Slots /\ S.list[k] # <<>>
      BY DEF Sound, Marked
    <3>5. \A k : k \in p <=> k \in S.pending /\ ~(k = l /\ l # Expired /\ r = <<>>)
      BY ONLY <2>4
    <3>6. \A k : k \in p <=> k \in Wheels \X Slots /\ D.list[k] # <<>>
      BY ONLY <2>2, <3>1, <3>2, <3>3, <3>4, <3>5
    <3> QED BY ONLY <2>6, <3>6 DEF Marked
  <2> QED BY ONLY <2>6, <2>7, <2>8, <2>9 DEF Sound, D
<1> QED BY <1>1, <1>2

\* timeouts_sched puts the timeout on a list that fits its time.
LEMMA Scheduled ==
  ASSUME NEW S, Sound(S), NEW t \in Timers, NEW time \in 0 .. (2 * MaxTime)
  PROVE  LET D == timeouts_sched(S, t, time) IN
         /\ Sound(D)
         /\ D.curtime = S.curtime /\ D.interval = S.interval
         /\ D.expires = [S.expires EXCEPT ![t] = time]
         /\ \E l \in Lists : D.at = [S.at EXCEPT ![t] = l] /\ OnTime(l, time, S.curtime)
<1> DEFINE D == timeouts_sched(S, t, time)
<1>1. PICK E : E = timeouts_del(S, t)
  OBVIOUS
<1>2. /\ Sound(E)
      /\ E.curtime = S.curtime /\ E.expires = S.expires /\ E.interval = S.interval
      /\ E.at = [S.at EXCEPT ![t] = Null]
  BY ONLY <1>1, Deleted, Sound(S), t \in Timers
<1>3. PICK w : w = timeout_wheel(time - S.curtime)
  OBVIOUS
<1>4. PICK l : l = IF time > S.curtime THEN <<w, timeout_slot(w, time)>> ELSE Expired
  OBVIOUS
<1>5. l \in Lists /\ OnTime(l, time, S.curtime)
  <2>0. PICK c \in Nat : c = S.curtime
    BY Fields DEF Sound
  <2>n. time \in Nat
    BY WheelAssumption
  <2>1. CASE time > c
    <3>1. w \in Wheels /\ timeout_slot(w, time) \in Slots /\ Placed(w, timeout_slot(w, time), time, c)
      BY ONLY <1>3, <2>0, <2>n, <2>1, SchedPlaces
    <3>2. l = <<w, timeout_slot(w, time)>>
      BY ONLY <1>4, <2>0, <2>1
    <3>3. l \in Wheels \X Slots
      BY ONLY <3>1, <3>2
    <3>4. l \in Lists /\ l # Expired
      BY <3>3, NullAssumption DEF Lists
    <3>5. \A v \in Wheels, s \in Slots : l = <<v, s>> => v = w /\ s = timeout_slot(w, time)
      BY ONLY <3>2
    <3> QED BY ONLY <2>0, <3>1, <3>4, <3>5 DEF OnTime
  <2>2. CASE ~(time > c)
    <3>1. l = Expired
      BY ONLY <1>4, <2>0, <2>2
    <3>2. time <= c
      BY ONLY <2>n, <2>2, c \in Nat
    <3>3. \A v \in Wheels, s \in Slots : l # <<v, s>>
      BY <3>1, NullAssumption
    <3>4. l \in Lists
      BY <3>1 DEF Lists
    <3> QED BY ONLY <2>0, <3>2, <3>3, <3>4 DEF OnTime
  <2> QED BY <2>1, <2>2
<1>6. PICK q \in Seq(Timers) : q = E.list[l] /\ Distinct(q) /\ ~In(t, q)
  <2>1. E.at[t] = Null /\ Null # l
    BY <1>2, <1>5, Fields, NullAssumption DEF Sound
  <2> QED BY <1>2, <1>5, <2>1, Fields DEF Sound, Listed
<1>7. PICK r \in Seq(Timers) : /\ r = Append(q, t) /\ r # <<>> /\ Distinct(r)
                               /\ \A x : In(x, r) <=> (x = t \/ In(x, q))
  <2>1. PICK r : r = Append(q, t)
    OBVIOUS
  <2>2. /\ r \in Seq(Timers) /\ r # <<>>
        /\ \A x : In(x, r) <=> (x = t \/ In(x, q))
        /\ Distinct(q) /\ ~In(t, q) => Distinct(r)
    BY ONLY <2>1, PushBack, q \in Seq(Timers), t \in Timers
  <2> QED BY ONLY <1>6, <2>1, <2>2
<1>8. PICK p : p = IF l = Expired THEN E.pending ELSE E.pending \cup {l}
  OBVIOUS
<1>9. D = [list |-> [E.list EXCEPT ![l] = r], pending |-> p, curtime |-> E.curtime,
           expires |-> [E.expires EXCEPT ![t] = time], interval |-> E.interval,
           at |-> [E.at EXCEPT ![t] = l]]
  <2>1. D = [E EXCEPT !.expires[t] = time, !.list[l] = r, !.pending = p, !.at[t] = l]
    BY ONLY <1>1, <1>3, <1>4, <1>6, <1>7, <1>8 DEF timeouts_sched
  <2> HIDE DEF D
  <2> QED BY ONLY <1>2, <2>1 DEF Sound, WheelStates
<1> HIDE DEF D
<1>10. /\ D.list = [E.list EXCEPT ![l] = r] /\ D.pending = p /\ D.curtime = E.curtime
       /\ D.expires = [E.expires EXCEPT ![t] = time] /\ D.interval = E.interval
       /\ D.at = [E.at EXCEPT ![t] = l]
  BY ONLY <1>9
<1>11. D.at = [S.at EXCEPT ![t] = l]
  BY ONLY <1>2, <1>10, Fields, Sound(S), t \in Timers DEF Sound
<1>12. D \in WheelStates
  <2>1. l # Expired => l \in Wheels \X Slots
    BY <1>5 DEF Lists
  <2>2. p \in SUBSET (Wheels \X Slots) /\ [E.list EXCEPT ![l] = r] \in [Lists -> Seq(Timers)]
    BY <1>2, <1>8, <2>1, Fields DEF Sound
  <2>3. /\ [E.expires EXCEPT ![t] = time] \in [Timers -> 0 .. 2 * MaxTime]
        /\ [E.at EXCEPT ![t] = l] \in [Timers -> Lists \cup {Null}]
    BY <1>2, <1>5, Fields DEF Sound
  <2> QED BY ONLY <1>2, <1>9, <2>2, <2>3, Fields DEF Sound, WheelStates
<1>13. Listed(D)
  <2> SUFFICES ASSUME NEW k \in Lists
               PROVE  /\ Distinct(D.list[k])
                      /\ \A u \in Timers : In(u, D.list[k]) <=> D.at[u] = k
    BY DEF Listed
  <2>1. Distinct(E.list[k]) /\ \A u \in Timers : In(u, E.list[k]) <=> E.at[u] = k
    BY <1>2 DEF Sound, Listed
  <2>2. /\ \A u \in Timers : D.at[u] = IF u = t THEN l ELSE E.at[u]
        /\ D.list[k] = IF k = l THEN r ELSE E.list[k]
    BY <1>2, <1>10, Fields DEF Sound
  <2>3. E.at[t] = Null /\ Null # k
    BY <1>2, Fields, NullAssumption DEF Sound
  <2>4. CASE k = l
    BY ONLY <1>6, <1>7, <2>1, <2>2, <2>4
  <2>5. CASE k # l
    BY ONLY <2>1, <2>2, <2>3, <2>5, t \in Timers
  <2> QED BY <2>4, <2>5
<1>14. Marked(D)
  <2>1. \A k \in Lists : D.list[k] = IF k = l THEN r ELSE E.list[k]
    BY <1>2, <1>10, Fields DEF Sound
  <2>2. \A k \in Wheels \X Slots : k # Expired /\ k \in Lists
    BY NullAssumption DEF Lists
  <2>3. \A k : k \in E.pending <=> k \in Wheels \X Slots /\ E.list[k] # <<>>
    BY <1>2 DEF Sound, Marked
  <2>4. \A k : k \in p <=> (k \in E.pending \/ (k = l /\ l # Expired))
    BY ONLY <1>8
  <2>5. l # Expired => l \in Wheels \X Slots
    BY <1>5 DEF Lists
  <2>6. \A k : k \in p <=> k \in Wheels \X Slots /\ D.list[k] # <<>>
    BY ONLY <1>7, <2>1, <2>2, <2>3, <2>4, <2>5
  <2> QED BY ONLY <1>10, <2>6 DEF Marked
<1> QED BY ONLY <1>2, <1>5, <1>10, <1>11, <1>12, <1>13, <1>14 DEF Sound, D

\* The invariant after a timeout with an interval is scheduled.
LEMMA Rescheduled ==
  ASSUME NEW S, Sound(S), NEW t \in Timers, NEW time \in 0 .. (2 * MaxTime),
         \A u \in Timers \ {t} : OnTime(S.at[u], S.expires[u], S.curtime),
         \A u \in INT \ {t} : S.at[u] # Null => S.interval[u] > 0,
         t \in INT => S.interval[t] > 0
  PROVE  WInv(timeouts_sched(S, t, time))
<1>1. PICK D : D = timeouts_sched(S, t, time)
  OBVIOUS
<1>2. PICK l \in Lists :
         /\ Sound(D)
         /\ D.curtime = S.curtime /\ D.interval = S.interval
         /\ D.expires = [S.expires EXCEPT ![t] = time]
         /\ D.at = [S.at EXCEPT ![t] = l] /\ OnTime(l, time, S.curtime)
  BY ONLY <1>1, Scheduled, Sound(S), t \in Timers, time \in 0 .. (2 * MaxTime)
<1>3. \A u \in Timers : /\ D.at[u] = IF u = t THEN l ELSE S.at[u]
                        /\ D.expires[u] = IF u = t THEN time ELSE S.expires[u]
  BY ONLY <1>2, Fields, Sound(S) DEF Sound
<1>4. Timely(D)
  BY <1>2, <1>3 DEF Timely
<1>5. Repeats(D)
  BY <1>2, <1>3, WheelAssumption DEF Repeats
<1> QED BY ONLY <1>1, <1>2, <1>4, <1>5 DEF WInv, Sound

--------------------------------------------------------------------------------
(* Reschedule is a loop. *)

\* The states after each of the first m rounds.
Rounds(S, todo, m, f) ==
    f = [i \in 0 .. m |->
            IF i = 0
            THEN S
            ELSE timeouts_sched(f[i - 1], todo[i], f[i - 1].expires[todo[i]])]

\* The recursive definition in Reschedule defines a function.
LEMMA RoundsExist ==
  ASSUME NEW S, NEW todo, NEW n \in Nat
  PROVE  \E f : Rounds(S, todo, n, f)
<1> DEFINE step(s, i) == timeouts_sched(s, todo[i], s.expires[todo[i]])
           has == {m \in Nat : \E f : Rounds(S, todo, m, f)}
<1>1. 0 \in has
  <2> DEFINE f == [i \in 0 .. 0 |-> S]
  <2>1. Rounds(S, todo, 0, f)
    <3>1. \A i \in 0 .. 0 : i = 0
      OBVIOUS
    <3> QED BY <3>1 DEF Rounds
  <2> QED BY <2>1
<1>2. ASSUME NEW m \in has PROVE m + 1 \in has
  <2>1. PICK f : Rounds(S, todo, m, f)
    BY <1>2
  <2>2. m \in Nat
    BY <1>2
  <2>3. f = [i \in 0 .. m |-> IF i = 0 THEN S ELSE step(f[i - 1], i)]
    BY <2>1 DEF Rounds
  <2> HIDE DEF step
  <2>4. /\ f[0] = S /\ \A i \in 1 .. m : f[i] = step(f[i - 1], i)
    <3>1. 0 \in 0 .. m /\ \A i \in 1 .. m : i \in 0 .. m /\ i # 0
      BY <2>2
    <3> QED BY <2>3, <3>1
  <2> DEFINE g == [i \in 0 .. (m + 1) |-> IF i = m + 1 THEN step(f[m], m + 1) ELSE f[i]]
  <2>5. \A i \in 0 .. (m + 1) : g[i] = IF i = 0 THEN S ELSE step(g[i - 1], i)
    <3> SUFFICES ASSUME NEW i \in 0 .. (m + 1)
                 PROVE  g[i] = IF i = 0 THEN S ELSE step(g[i - 1], i)
      OBVIOUS
    <3>1. CASE i = 0
      <4>1. 0 # m + 1 /\ 0 \in 0 .. (m + 1)
        BY <2>2
      <4> QED BY <2>4, <3>1, <4>1
    <3>2. CASE i = m + 1
      <4>1. i # 0 /\ i - 1 = m /\ m \in 0 .. (m + 1) /\ m # m + 1 /\ i \in 0 .. (m + 1)
        BY <2>2, <3>2
      <4>2. g[i] = step(f[m], m + 1) /\ g[m] = f[m]
        BY <3>2, <4>1
      <4> HIDE DEF g
      <4> QED BY ONLY <3>2, <4>1, <4>2
    <3>3. CASE i # 0 /\ i # m + 1
      <4>1. i \in 1 .. m /\ i - 1 \in 0 .. (m + 1) /\ i - 1 # m + 1
        BY <2>2, <3>3
      <4>2. g[i] = f[i] /\ g[i - 1] = f[i - 1]
        BY <3>3, <4>1
      <4> HIDE DEF g
      <4> QED BY ONLY <2>4, <3>3, <4>1, <4>2
    <3> QED BY <3>1, <3>2, <3>3
  <2>6. g = [i \in 0 .. (m + 1) |-> IF i = 0 THEN S ELSE step(g[i - 1], i)]
    BY <2>5
  <2> HIDE DEF g
  <2>7. Rounds(S, todo, m + 1, g)
    BY ONLY <2>6 DEF Rounds, step
  <2> QED BY <2>2, <2>7
<1> HIDE DEF has
<1>3. has \in SUBSET Nat
  BY DEF has
<1>4. has = Nat
  BY ONLY <1>1, <1>2, <1>3, Induction
<1> QED BY <1>4 DEF has

\* Reschedule is the state after the last round.
LEMMA RescheduleRounds ==
  ASSUME NEW S, NEW A, NEW todo \in Seq(A)
  PROVE  \E f : /\ f[0] = S /\ Reschedule(S, todo) = f[Len(todo)]
                /\ \A i \in 1 .. Len(todo) :
                      f[i] = timeouts_sched(f[i - 1], todo[i], f[i - 1].expires[todo[i]])
<1>1. PICK n \in Nat : n = Len(todo)
  OBVIOUS
<1>2. \E f : Rounds(S, todo, n, f)
  BY RoundsExist
<1>3. PICK f : f = CHOOSE g : Rounds(S, todo, n, g)
  OBVIOUS
<1>4. Rounds(S, todo, n, f)
  BY <1>2, <1>3
<1>5. Reschedule(S, todo) = f[n]
  BY <1>1, <1>3 DEF Reschedule, Rounds
<1>6. f[0] = S /\ \A i \in 1 .. n : f[i] = timeouts_sched(f[i - 1], todo[i], f[i - 1].expires[todo[i]])
  <2>1. 0 \in 0 .. n /\ \A i \in 1 .. n : i \in 0 .. n /\ i # 0
    BY <1>1
  <2> QED BY <1>4, <2>1 DEF Rounds
<1> QED BY <1>1, <1>5, <1>6

\* What timeouts_update leaves behind before it schedules anything again.
Collected(S, new) ==
    LET ticked == Ticked(S, new) \cap S.pending
        todo == {t \in Timers : S.at[t] \in ticked}
    IN  [S EXCEPT !.list = [l \in Lists |-> IF l \in ticked THEN <<>> ELSE @[l]],
                  !.pending = @ \ ticked,
                  !.curtime = new,
                  !.at = [t \in Timers |-> IF t \in todo THEN Null ELSE @[t]]]

\* The invariant holds with the collected timeouts on no list, and the clock set.
LEMMA CollectedKeeps ==
  ASSUME NEW S, WInv(S), NEW new \in S.curtime .. MaxTime,
         NEW ticked, ticked = Ticked(S, new) \cap S.pending,
         NEW todo, todo = {t \in Timers : S.at[t] \in ticked}
  PROVE  LET C == Collected(S, new) IN
         /\ WInv(C)
         /\ C.curtime = new /\ C.expires = S.expires /\ C.interval = S.interval
         /\ \A t \in Timers : C.at[t] = IF t \in todo THEN Null ELSE S.at[t]
<1> DEFINE C == Collected(S, new)
<1>0. /\ S.list \in [Lists -> Seq(Timers)] /\ S.pending \in SUBSET (Wheels \X Slots)
      /\ S.curtime \in 0 .. MaxTime /\ S.curtime \in Nat
      /\ S.expires \in [Timers -> 0 .. 2 * MaxTime] /\ S.interval \in [Timers -> 0 .. MaxTime]
      /\ S.at \in [Timers -> Lists \cup {Null}]
  BY Fields DEF WInv
<1>1. PICK list, at : /\ list = [l \in Lists |-> IF l \in ticked THEN <<>> ELSE S.list[l]]
                      /\ at = [t \in Timers |-> IF t \in todo THEN Null ELSE S.at[t]]
  OBVIOUS
<1>2. C = [list |-> list, pending |-> S.pending \ ticked, curtime |-> new,
           expires |-> S.expires, interval |-> S.interval, at |-> at]
  <2>1. C = [S EXCEPT !.list = list, !.pending = S.pending \ ticked, !.curtime = new, !.at = at]
    BY <1>1 DEF Collected
  <2> HIDE DEF C
  <2>2. S \in WheelStates
    BY DEF WInv
  <2> QED BY ONLY <2>1, <2>2 DEF WheelStates
<1> HIDE DEF C
<1>3. /\ C.list = list /\ C.pending = S.pending \ ticked /\ C.curtime = new
      /\ C.expires = S.expires /\ C.interval = S.interval /\ C.at = at
  BY ONLY <1>2
<1>4. \A t \in Timers : C.at[t] = IF t \in todo THEN Null ELSE S.at[t]
  BY ONLY <1>1, <1>3
<1>5. \A l \in Lists : C.list[l] = IF l \in ticked THEN <<>> ELSE S.list[l]
  BY ONLY <1>1, <1>3
<1>6. new \in Nat /\ S.curtime <= new /\ new \in 0 .. MaxTime
  BY <1>0, WheelAssumption
<1>7. C \in WheelStates
  <2>1. list \in [Lists -> Seq(Timers)]
    <3>1. \A l \in Lists : S.list[l] \in Seq(Timers) /\ <<>> \in Seq(Timers)
      BY <1>0
    <3> QED BY ONLY <1>1, <3>1
  <2>2. at \in [Timers -> Lists \cup {Null}]
    BY ONLY <1>0, <1>1
  <2>3. S.pending \ ticked \in SUBSET (Wheels \X Slots)
    BY ONLY <1>0
  <2> QED BY ONLY <1>0, <1>2, <1>6, <2>1, <2>2, <2>3 DEF WheelStates
<1>8. Listed(C)
  <2> SUFFICES ASSUME NEW k \in Lists
               PROVE  /\ Distinct(C.list[k])
                      /\ \A u \in Timers : In(u, C.list[k]) <=> C.at[u] = k
    BY DEF Listed
  <2>1. Distinct(S.list[k]) /\ \A u \in Timers : In(u, S.list[k]) <=> S.at[u] = k
    BY DEF WInv, Listed
  <2>2. Null # k
    BY NullAssumption
  <2>3. CASE k \in ticked
    <3>1. C.list[k] = <<>>
      BY <1>5, <2>3
    <3>2. Distinct(<<>>) /\ \A u : ~In(u, <<>>)
      BY ONLY TRUE DEF Distinct, In
    <3>3. \A u \in Timers : C.at[u] # k
      BY ONLY <1>4, <2>2, <2>3, todo = {t \in Timers : S.at[t] \in ticked}
    <3> QED BY ONLY <3>1, <3>2, <3>3
  <2>4. CASE k \notin ticked
    <3>1. C.list[k] = S.list[k]
      BY <1>5, <2>4
    <3>2. \A u \in Timers : C.at[u] = k <=> S.at[u] = k
      BY ONLY <1>4, <2>2, <2>4, todo = {t \in Timers : S.at[t] \in ticked}
    <3> QED BY ONLY <2>1, <3>1, <3>2
  <2> QED BY <2>3, <2>4
<1>9. Marked(C)
  <2>1. \A k : k \in S.pending <=> k \in Wheels \X Slots /\ S.list[k] # <<>>
    BY DEF WInv, Marked
  <2>2. \A k \in Wheels \X Slots : k \in Lists
    BY DEF Lists
  <2>3. \A k : k \in S.pending \ ticked <=> k \in Wheels \X Slots /\ C.list[k] # <<>>
    BY ONLY <1>5, <2>1, <2>2
  <2> QED BY ONLY <1>3, <2>3 DEF Marked
<1>10. Timely(C)
  <2> SUFFICES ASSUME NEW t \in Timers PROVE OnTime(C.at[t], S.expires[t], new)
    BY <1>3 DEF Timely
  <2>1. OnTime(S.at[t], S.expires[t], S.curtime)
    BY DEF WInv, Timely
  <2>2. S.expires[t] \in Nat
    BY <1>0, WheelAssumption
  <2>3. CASE t \in todo
    <3>1. C.at[t] = Null
      BY <1>4, <2>3
    <3>2. Null # Expired /\ \A w \in Wheels, slot \in Slots : Null # <<w, slot>>
      <4>1. \A w \in Wheels, slot \in Slots : <<w, slot>> \in Lists
        BY DEF Lists
      <4>2. Expired \in Lists
        BY DEF Lists
      <4> QED BY <4>1, <4>2, NullAssumption
    <3> QED BY ONLY <3>1, <3>2 DEF OnTime
  <2>4. CASE t \notin todo
    <3>1. C.at[t] = S.at[t]
      BY <1>4, <2>4
    <3>2. S.at[t] = Expired => S.expires[t] <= new
      BY ONLY <1>0, <1>6, <2>1, <2>2 DEF OnTime
    <3>3. ASSUME NEW w \in Wheels, NEW slot \in Slots, S.at[t] = <<w, slot>>
          PROVE  Placed(w, slot, S.expires[t], new)
      <4>a. <<w, slot>> \in Wheels \X Slots
        BY ONLY w \in Wheels, slot \in Slots
      <4>1. PICK l \in Wheels \X Slots : l = <<w, slot>> /\ l \in Lists
        BY <4>a, Zenon DEF Lists
      <4>2. In(t, S.list[l])
        BY <3>3, <4>1 DEF WInv, Listed
      <4>3. S.list[l] # <<>>
        BY ONLY <4>2 DEF In
      <4>4. l \in S.pending
        BY <4>1, <4>3 DEF WInv, Marked
      <4>5. l \notin ticked
        BY <2>4, <3>3, <4>1
      <4>6. <<w, slot>> \notin Ticked(S, new)
        BY <4>1, <4>4, <4>5
      <4>7. Placed(w, slot, S.expires[t], S.curtime)
        BY <2>1, <3>3 DEF OnTime
      <4>8. PICK e \in Nat : e = S.expires[t]
        BY <2>2
      <4> QED BY ONLY <1>0, <1>6, <4>6, <4>7, <4>8, NotTicked, w \in Wheels, slot \in Slots
    <3> QED BY ONLY <3>1, <3>2, <3>3 DEF OnTime
  <2> QED BY <2>3, <2>4
<1>11. Repeats(C)
  <2>1. Repeats(S)
    BY DEF WInv
  <2>2. INT \subseteq Timers
    BY WheelAssumption
  <2> QED BY ONLY <1>3, <1>4, <2>1, <2>2 DEF Repeats
<1> QED BY ONLY <1>3, <1>4, <1>7, <1>8, <1>9, <1>10, <1>11 DEF WInv, C

\* timeouts_update sets the clock and keeps the times; what was armed still is.
LEMMA Updated ==
  ASSUME NEW S, WInv(S), NEW new \in S.curtime .. MaxTime
  PROVE  LET D == timeouts_update(S, new) IN
         /\ WInv(D)
         /\ D.curtime = new /\ D.expires = S.expires /\ D.interval = S.interval
         /\ \A t \in Timers : D.at[t] = Null <=> S.at[t] = Null
<1>1. PICK ticked : ticked = Ticked(S, new) \cap S.pending
  OBVIOUS
<1>2. PICK todo : todo = {t \in Timers : S.at[t] \in ticked}
  OBVIOUS
<1>3. PICK C : C = Collected(S, new)
  OBVIOUS
<1>4. /\ WInv(C)
      /\ C.curtime = new /\ C.expires = S.expires /\ C.interval = S.interval
      /\ \A t \in Timers : C.at[t] = IF t \in todo THEN Null ELSE S.at[t]
  BY ONLY <1>1, <1>2, <1>3, CollectedKeeps, WInv(S), new \in S.curtime .. MaxTime
<1>5. S \in WheelStates /\ Listed(S) /\ Repeats(S)
  BY DEF WInv
<1>6. todo \in SUBSET Timers /\ \A t \in todo : S.at[t] \in Wheels \X Slots
  BY <1>1, <1>2, <1>5, Fields
<1>7. PICK q : q = InTurn(S, todo)
  OBVIOUS
<1>8. q \in Seq(todo) /\ \A t \in todo : In(t, q)
  BY ONLY <1>5, <1>6, <1>7, Enumerated
<1>9. timeouts_update(S, new) = Reschedule(C, q)
  BY ONLY <1>1, <1>2, <1>3, <1>7 DEF timeouts_update, Collected
<1>10. PICK n \in Nat : n = Len(q) /\ DOMAIN q = 1 .. n
  BY ONLY <1>8
<1>11. PICK f : /\ f[0] = C /\ Reschedule(C, q) = f[n]
                /\ \A i \in 1 .. n :
                      f[i] = timeouts_sched(f[i - 1], q[i], f[i - 1].expires[q[i]])
  BY ONLY <1>8, <1>10, RescheduleRounds
<1> DEFINE done(D, i) ==
               /\ WInv(D) /\ D.curtime = new /\ D.expires = S.expires /\ D.interval = S.interval
               /\ \A t \in Timers : D.at[t] = Null <=> (C.at[t] = Null /\ \A j \in 1 .. i : q[j] # t)
           good == {i \in Nat : i <= n => done(f[i], i)}
<1>12. 0 \in good
  <2>1. \A j \in 1 .. 0 : FALSE
    OBVIOUS
  <2>2. done(C, 0)
    BY ONLY <1>4, <2>1
  <2> HIDE DEF done
  <2> QED BY <1>11, <2>2
<1>13. ASSUME NEW i \in good PROVE i + 1 \in good
  <2>1. SUFFICES ASSUME i + 1 <= n PROVE done(f[i + 1], i + 1)
    BY <1>13
  <2>2. i \in Nat /\ i <= n /\ i + 1 \in 1 .. n /\ (i + 1) - 1 = i
    BY <1>13, <2>1
  <2>3. PICK D, E, t : D = f[i] /\ E = f[i + 1] /\ t = q[i + 1]
    OBVIOUS
  <2>4. done(D, i)
    BY <1>13, <2>2, <2>3
  <2>5. E = timeouts_sched(D, t, D.expires[t])
    BY ONLY <1>11, <2>2, <2>3
  <2>6. t \in todo /\ t \in Timers
    BY ONLY <1>6, <1>8, <1>10, <2>2, <2>3
  <2>7. PICK e \in 0 .. (2 * MaxTime) : e = D.expires[t] /\ e = S.expires[t]
    BY <1>5, <2>4, <2>6, Fields
  <2>8. WInv(D) /\ Sound(D) /\ Timely(D) /\ Repeats(D)
    BY <2>4 DEF WInv, Sound
  <2>9. t \in INT => D.interval[t] > 0
    <3>1. S.at[t] # Null
      <4>1. S.at[t] \in Wheels \X Slots
        BY <1>6, <2>6
      <4> QED BY <4>1, NullAssumption DEF Lists
    <3> QED BY <1>5, <2>4, <3>1 DEF Repeats
  <2>10. WInv(E)
    <3>1. \A u \in Timers \ {t} : OnTime(D.at[u], D.expires[u], D.curtime)
      BY ONLY <2>8 DEF Timely
    <3>2. \A u \in INT \ {t} : D.at[u] # Null => D.interval[u] > 0
      BY ONLY <2>8 DEF Repeats
    <3>3. WInv(timeouts_sched(D, t, e))
      BY ONLY <2>6, <2>8, <2>9, <3>1, <3>2, Rescheduled, e \in 0 .. (2 * MaxTime)
    <3> QED BY ONLY <2>5, <2>7, <3>3
  <2>11. PICK l \in Lists :
         /\ E.curtime = D.curtime /\ E.interval = D.interval
         /\ E.expires = [D.expires EXCEPT ![t] = e]
         /\ E.at = [D.at EXCEPT ![t] = l]
    BY ONLY <2>5, <2>6, <2>7, <2>8, Scheduled, e \in 0 .. (2 * MaxTime)
  <2>12. E.expires = S.expires
    BY ONLY <1>5, <2>4, <2>6, <2>7, <2>11, Fields
  <2>13. \A u \in Timers : E.at[u] = IF u = t THEN l ELSE D.at[u]
    BY ONLY <2>8, <2>11, Fields DEF Sound
  <2>14. l # Null
    BY NullAssumption
  <2>15. \A u : (\A j \in 1 .. (i + 1) : q[j] # u) <=> ((\A j \in 1 .. i : q[j] # u) /\ u # t)
    <3>1. \A j : j \in 1 .. (i + 1) <=> (j \in 1 .. i \/ j = i + 1)
      BY ONLY i \in Nat, <2>2
    <3> QED BY ONLY <2>3, <3>1
  <2>16. \A u \in Timers : E.at[u] = Null <=> (C.at[u] = Null /\ \A j \in 1 .. (i + 1) : q[j] # u)
    <3>1. \A u \in Timers : D.at[u] = Null <=> (C.at[u] = Null /\ \A j \in 1 .. i : q[j] # u)
      BY ONLY <2>4
    <3> SUFFICES ASSUME NEW u \in Timers
                 PROVE  E.at[u] = Null <=> (C.at[u] = Null /\ \A j \in 1 .. (i + 1) : q[j] # u)
      OBVIOUS
    <3>2. CASE u = t
      BY ONLY <2>13, <2>14, <2>15, <3>2, u \in Timers
    <3>3. CASE u # t
      BY ONLY <2>13, <2>15, <3>1, <3>3, u \in Timers
    <3> QED BY ONLY <3>2, <3>3
  <2>17. done(E, i + 1)
    BY ONLY <2>4, <2>10, <2>11, <2>12, <2>16
  <2> HIDE DEF done
  <2> QED BY ONLY <2>3, <2>17
<1> HIDE DEF good
<1>14. good = Nat
  <2>1. good \in SUBSET Nat
    BY DEF good
  <2> QED BY ONLY <1>12, <1>13, <2>1, Induction
<1>15. done(f[n], n)
  BY <1>14 DEF good
<1>16. \A t \in Timers : (C.at[t] = Null /\ \A j \in 1 .. n : q[j] # t) <=> S.at[t] = Null
  <2>1. \A t \in todo : \E j \in 1 .. n : q[j] = t
    BY ONLY <1>8, <1>10 DEF In
  <2>2. \A j \in 1 .. n : q[j] \in todo
    BY ONLY <1>8, <1>10
  <2>3. \A t \in todo : S.at[t] # Null
    <3>1. Null \notin Wheels \X Slots
      BY NullAssumption DEF Lists
    <3> QED BY ONLY <1>6, <3>1
  <2> QED BY ONLY <1>4, <2>1, <2>2, <2>3
<1>17. PICK D : D = timeouts_update(S, new)
  OBVIOUS
<1>18. D = f[n]
  BY ONLY <1>9, <1>11, <1>17
<1>19. done(D, n)
  BY ONLY <1>15, <1>18
<1> QED BY ONLY <1>16, <1>17, <1>19

\* An empty wheel, whatever the fields of its timeouts still say.
EmptyWheel(e, i) ==
    [list |-> [l \in Lists |-> <<>>], pending |-> {}, curtime |-> 0,
     expires |-> e, interval |-> i, at |-> [t \in Timers |-> Null]]

\* The invariant holds in an empty wheel.
LEMMA Emptied ==
  ASSUME NEW e \in [Timers -> 0 .. 2 * MaxTime], NEW i \in [Timers -> 0 .. MaxTime],
         NEW S, S = EmptyWheel(e, i)
  PROVE  /\ WInv(S)
         /\ S.curtime = 0 /\ S.expires = e /\ S.interval = i
         /\ S.at = [t \in Timers |-> Null]
<1>1. S = [list |-> [l \in Lists |-> <<>>], pending |-> {}, curtime |-> 0,
           expires |-> e, interval |-> i, at |-> [t \in Timers |-> Null]]
  BY DEF EmptyWheel
<1>2. /\ S.list = [l \in Lists |-> <<>>] /\ S.pending = {} /\ S.curtime = 0
      /\ S.expires = e /\ S.interval = i /\ S.at = [t \in Timers |-> Null]
  BY ONLY <1>1
<1>3. S \in WheelStates
  <2>1. [l \in Lists |-> <<>>] \in [Lists -> Seq(Timers)] /\ 0 \in 0 .. MaxTime
    BY WheelAssumption
  <2>2. [t \in Timers |-> Null] \in [Timers -> Lists \cup {Null}]
    OBVIOUS
  <2>3. {} \in SUBSET (Wheels \X Slots)
    OBVIOUS
  <2> QED BY ONLY <1>1, <2>1, <2>2, <2>3, e \in [Timers -> 0 .. 2 * MaxTime],
                  i \in [Timers -> 0 .. MaxTime] DEF WheelStates
<1>4. Expired \in Lists /\ \A w \in Wheels, slot \in Slots : <<w, slot>> \in Lists
  BY DEF Lists
<1>5. \A l \in Lists : Null # l
  BY NullAssumption
<1>6. Listed(S)
  <2>1. Distinct(<<>>) /\ \A u : ~In(u, <<>>)
    BY ONLY TRUE DEF Distinct, In
  <2> QED BY ONLY <1>2, <1>5, <2>1 DEF Listed
<1>7. Marked(S)
  BY <1>2 DEF Marked, Lists
<1>8. Timely(S)
  <2>1. \A t \in Timers : S.at[t] = Null
    BY ONLY <1>2
  <2> QED BY ONLY <1>4, <1>5, <2>1 DEF Timely, OnTime
<1>9. Repeats(S)
  BY <1>2, WheelAssumption DEF Repeats
<1> QED BY ONLY <1>2, <1>3, <1>6, <1>7, <1>8, <1>9 DEF WInv

\* The invariant after a timeout is taken off.
LEMMA Cancelled ==
  ASSUME NEW S, WInv(S), NEW t \in Timers
  PROVE  LET D == timeouts_del(S, t) IN
         /\ WInv(D)
         /\ D.curtime = S.curtime /\ D.expires = S.expires /\ D.interval = S.interval
         /\ D.at = [S.at EXCEPT ![t] = Null]
<1>1. PICK D : D = timeouts_del(S, t)
  OBVIOUS
<1>2. Sound(S) /\ Timely(S) /\ Repeats(S)
  BY DEF WInv, Sound
<1>3. /\ Sound(D)
      /\ D.curtime = S.curtime /\ D.expires = S.expires /\ D.interval = S.interval
      /\ D.at = [S.at EXCEPT ![t] = Null]
  BY ONLY <1>1, <1>2, Deleted, t \in Timers
<1>4. \A u \in Timers : D.at[u] = IF u = t THEN Null ELSE S.at[u]
  BY ONLY <1>2, <1>3, Fields DEF Sound
<1>5. /\ \A l \in Lists : Null # l
      /\ Expired \in Lists /\ \A w \in Wheels, slot \in Slots : <<w, slot>> \in Lists
  BY NullAssumption DEF Lists
<1>6. Timely(D)
  BY ONLY <1>2, <1>3, <1>4, <1>5 DEF Timely, OnTime
<1>7. Repeats(D)
  BY ONLY <1>2, <1>3, <1>4, WheelAssumption DEF Repeats
<1> QED BY ONLY <1>1, <1>3, <1>6, <1>7 DEF WInv, Sound

\* Timeout t is armed for some time, with some interval.
Armed(S, D, t) ==
    /\ D.curtime = S.curtime
    /\ \E e \in 0 .. (2 * MaxTime) : D.expires = [S.expires EXCEPT ![t] = e]
    /\ \E i \in 0 .. MaxTime : D.interval = [S.interval EXCEPT ![t] = i]
    /\ \E l \in Lists : D.at = [S.at EXCEPT ![t] = l]

\* timeouts_add arms the timeout; a repeating one gets an interval.
LEMMA Added ==
  ASSUME NEW S, WInv(S), NEW t \in Timers, NEW timeout \in Times
  PROVE  LET D == timeouts_add(S, t, timeout) IN WInv(D) /\ Armed(S, D, t)
<1>1. PICK i : i = IF t \in INT THEN (IF timeout > 1 THEN timeout ELSE 1) ELSE S.interval[t]
  OBVIOUS
<1>2. PICK I : I = IF t \in INT
             THEN [S EXCEPT !.interval[t] = IF timeout > 1 THEN timeout ELSE 1]
             ELSE S
  OBVIOUS
<1>3. PICK e : e = IF t \in ABS THEN timeout ELSE S.curtime + timeout
  OBVIOUS
<1>4. timeouts_add(S, t, timeout) = timeouts_sched(I, t, e)
  BY ONLY <1>2, <1>3 DEF timeouts_add
<1>5. Sound(S) /\ Timely(S) /\ Repeats(S)
  BY DEF WInv, Sound
<1>6. timeout \in 0 .. MaxTime /\ MaxTime \in Nat /\ MaxTime >= 1
  BY WheelAssumption
<1>7. i \in 0 .. MaxTime /\ (t \in INT => i > 0)
  BY ONLY <1>1, <1>5, <1>6, Fields, t \in Timers DEF Sound
<1>8. e \in 0 .. (2 * MaxTime)
  <2>1. S.curtime \in 0 .. MaxTime
    BY <1>5, Fields DEF Sound
  <2> QED BY ONLY <1>3, <1>6, <2>1
<1>9. I = [list |-> S.list, pending |-> S.pending, curtime |-> S.curtime, expires |-> S.expires,
           interval |-> [S.interval EXCEPT ![t] = i], at |-> S.at]
  <2>1. CASE t \in INT
    BY ONLY <1>1, <1>2, <1>5, <2>1 DEF Sound, WheelStates
  <2>2. CASE t \notin INT
    <3>1. [S.interval EXCEPT ![t] = i] = S.interval
      BY ONLY <1>1, <1>5, <2>2, Fields DEF Sound
    <3>2. I = S
      BY ONLY <1>2, <2>2
    <3> QED BY ONLY <1>5, <3>1, <3>2, Fields DEF Sound
  <2> QED BY <2>1, <2>2
<1>10. /\ I.list = S.list /\ I.pending = S.pending /\ I.curtime = S.curtime
       /\ I.expires = S.expires /\ I.interval = [S.interval EXCEPT ![t] = i] /\ I.at = S.at
  BY ONLY <1>9
<1>11. Sound(I)
  <2>1. [S.interval EXCEPT ![t] = i] \in [Timers -> 0 .. MaxTime]
    BY ONLY <1>5, <1>7, Fields DEF Sound
  <2>2. I \in WheelStates
    BY ONLY <1>5, <1>9, <2>1 DEF Sound, WheelStates
  <2>3. Listed(I) /\ Marked(I)
    BY ONLY <1>5, <1>10 DEF Sound, Listed, Marked
  <2> QED BY ONLY <2>2, <2>3 DEF Sound
<1>12. \A u \in Timers : I.interval[u] = IF u = t THEN i ELSE S.interval[u]
  BY ONLY <1>5, <1>10, Fields DEF Sound
<1>13. PICK D : D = timeouts_sched(I, t, e)
  OBVIOUS
<1>14. WInv(D)
  <2>1. \A u \in Timers \ {t} : OnTime(I.at[u], I.expires[u], I.curtime)
    BY ONLY <1>5, <1>10 DEF Timely
  <2>2. INT \subseteq Timers
    BY WheelAssumption
  <2>3. \A u \in INT \ {t} : I.at[u] # Null => I.interval[u] > 0
    BY ONLY <1>5, <1>10, <1>12, <2>2 DEF Repeats
  <2>4. t \in INT => I.interval[t] > 0
    BY ONLY <1>7, <1>12, t \in Timers
  <2> QED BY ONLY <1>8, <1>11, <1>13, <2>1, <2>3, <2>4, Rescheduled, t \in Timers
<1>15. PICK l \in Lists :
         /\ D.curtime = I.curtime /\ D.interval = I.interval
         /\ D.expires = [I.expires EXCEPT ![t] = e]
         /\ D.at = [I.at EXCEPT ![t] = l] /\ OnTime(l, e, I.curtime)
  BY ONLY <1>8, <1>11, <1>13, Scheduled, t \in Timers
<1>16. D = timeouts_add(S, t, timeout)
  BY ONLY <1>4, <1>13
<1>17. /\ D.curtime = S.curtime /\ D.expires = [S.expires EXCEPT ![t] = e]
       /\ D.interval = [S.interval EXCEPT ![t] = i] /\ D.at = [S.at EXCEPT ![t] = l]
  BY ONLY <1>10, <1>15
<1>18. Armed(S, D, t)
  BY ONLY <1>7, <1>8, <1>17, l \in Lists DEF Armed
<1> QED BY ONLY <1>14, <1>16, <1>18

\* The next time of a repeating timeout is the first multiple of its interval
\* after the last that is still to come.
LEMMA NextTimeFits ==
  ASSUME NEW S, NEW t, S.curtime \in Nat, S.expires[t] \in Nat, S.interval[t] \in Nat \ {0},
         S.expires[t] <= S.curtime
  PROVE  /\ NextTime(S, t) \in (S.curtime + 1) .. (S.curtime + S.interval[t])
         /\ (NextTime(S, t) - S.expires[t]) % S.interval[t] = 0
<1>1. PICK c \in Nat, e \in Nat, i \in Nat \ {0} :
         c = S.curtime /\ e = S.expires[t] /\ i = S.interval[t] /\ e <= c
  OBVIOUS
<1>2. PICK n : n = NextTime(S, t)
  OBVIOUS
<1>3. n = IF e + i <= c THEN c + (i - ((c - (e + i)) % i)) ELSE e + i
  BY ONLY <1>1, <1>2 DEF NextTime
<1>4. \A k \in Int : (i * k) % i = 0
  <2> SUFFICES ASSUME NEW k \in Int PROVE (i * k) % i = 0
    OBVIOUS
  <2>1. PICK x \in Int : x = i * k
    OBVIOUS
  <2>2. Congruent(x, 0, i)
    BY <2>1 DEF Congruent
  <2>3. x % i = 0 % i
    BY ONLY <2>2, ModPeriod, x \in Int, 0 \in Int, i \in Nat \ {0}
  <2>4. 0 % i = 0
    <3>1. 0 % i <= 0 /\ 0 % i \in 0 .. (i - 1)
      BY ModBound, Division
    <3> QED BY <3>1
  <2> QED BY ONLY <2>1, <2>3, <2>4
<1>5. CASE e + i <= c
  <2>1. PICK a \in Int : a = c - (e + i)
    OBVIOUS
  <2>2. PICK k \in Int, m \in 0 .. (i - 1) : m = a % i /\ a = i * k + m
    BY Division
  <2>3. n = c + (i - m)
    BY ONLY <1>3, <1>5, <2>1, <2>2
  <2>4. n \in (c + 1) .. (c + i)
    BY ONLY <2>3, c \in Nat, i \in Nat \ {0}, m \in 0 .. (i - 1)
  <2>5. n - e = i * (k + 2)
    <3>1. PICK x \in Int : x = i * k
      OBVIOUS
    <3>2. i * (k + 2) = i * k + 2 * i
      OBVIOUS
    <3>3. n - e = x + 2 * i
      BY ONLY <2>1, <2>2, <2>3, <3>1, c \in Nat, e \in Nat, i \in Nat, m \in 0 .. (i - 1), x \in Int
    <3> QED BY ONLY <3>1, <3>2, <3>3
  <2>6. k + 2 \in Int
    OBVIOUS
  <2>7. (n - e) % i = 0
    BY ONLY <1>4, <2>5, <2>6
  <2> QED BY ONLY <1>1, <1>2, <2>4, <2>7
<1>6. CASE ~(e + i <= c)
  <2>1. n = e + i
    BY ONLY <1>3, <1>6
  <2>2. n \in (c + 1) .. (c + i) /\ n - e = i * 1 /\ 1 \in Int
    BY ONLY <1>1, <1>6, <2>1, c \in Nat, e \in Nat, i \in Nat
  <2>3. (n - e) % i = 0
    BY ONLY <1>4, <2>2
  <2> QED BY ONLY <1>1, <1>2, <2>2, <2>3
<1> QED BY ONLY <1>5, <1>6

\* Timeout t is taken from the expired, and armed again if it repeats.
Taken(S, D, t) ==
    /\ t \in Timers /\ S.at[t] = Expired
    /\ D.curtime = S.curtime /\ D.interval = S.interval
    /\ IF t \in INT
       THEN /\ \E l \in Lists : D.at = [S.at EXCEPT ![t] = l]
            /\ NextTime(S, t) \in 0 .. (2 * MaxTime)
            /\ D.expires = [S.expires EXCEPT ![t] = NextTime(S, t)]
       ELSE D.at = [S.at EXCEPT ![t] = Null] /\ D.expires = S.expires

\* timeouts_get takes the first of the expired; a repeating one is armed again.
LEMMA Gotten ==
  ASSUME NEW S, WInv(S), S.list[Expired] # <<>>, NEW t, t = Head(S.list[Expired])
  PROVE  LET D == timeouts_get(S) IN
         WInv(D) /\ Taken(S, D, t)
<1>1. Sound(S) /\ Timely(S) /\ Repeats(S)
  BY DEF WInv, Sound
<1>2. /\ S.list \in [Lists -> Seq(Timers)] /\ S.curtime \in 0 .. MaxTime /\ S.curtime \in Nat
      /\ S.expires \in [Timers -> 0 .. 2 * MaxTime] /\ S.interval \in [Timers -> 0 .. MaxTime]
      /\ S.at \in [Timers -> Lists \cup {Null}] /\ S.pending \in SUBSET (Wheels \X Slots)
  BY ONLY <1>1, Fields DEF Sound
<1>3. Expired \in Lists /\ \A l \in Lists : Null # l
  BY NullAssumption DEF Lists
<1>4. PICK q \in Seq(Timers) : q = S.list[Expired] /\ q # <<>> /\ Distinct(q)
  BY <1>1, <1>2, <1>3 DEF Sound, Listed
<1>5. PICK r : r = Tail(q)
  OBVIOUS
<1>6. /\ t \in Timers /\ r \in Seq(Timers) /\ In(t, q) /\ Distinct(r)
      /\ \A x : In(x, r) <=> In(x, q) /\ x # t
  <2>1. t = Head(q)
    BY <1>4
  <2> QED BY ONLY <1>4, <1>5, <2>1, PopFront, q \in Seq(Timers)
<1>7. S.at[t] = Expired
  BY <1>1, <1>3, <1>4, <1>6 DEF Sound, Listed
<1>8. PICK G : G = [S EXCEPT !.list[Expired] = r, !.at[t] = Null]
  OBVIOUS
<1>9. G = [list |-> [S.list EXCEPT ![Expired] = r], pending |-> S.pending, curtime |-> S.curtime,
           expires |-> S.expires, interval |-> S.interval, at |-> [S.at EXCEPT ![t] = Null]]
  BY ONLY <1>1, <1>8 DEF Sound, WheelStates
<1>10. /\ G.list = [S.list EXCEPT ![Expired] = r] /\ G.pending = S.pending
       /\ G.curtime = S.curtime /\ G.expires = S.expires /\ G.interval = S.interval
       /\ G.at = [S.at EXCEPT ![t] = Null]
  BY ONLY <1>9
<1>11. /\ \A u \in Timers : G.at[u] = IF u = t THEN Null ELSE S.at[u]
       /\ \A k \in Lists : G.list[k] = IF k = Expired THEN r ELSE S.list[k]
  BY ONLY <1>2, <1>10
<1>12. G \in WheelStates
  <2>1. /\ [S.list EXCEPT ![Expired] = r] \in [Lists -> Seq(Timers)]
        /\ [S.at EXCEPT ![t] = Null] \in [Timers -> Lists \cup {Null}]
    BY ONLY <1>2, <1>6
  <2> QED BY ONLY <1>2, <1>9, <2>1 DEF WheelStates
<1>13. Listed(G)
  <2> SUFFICES ASSUME NEW k \in Lists
               PROVE  /\ Distinct(G.list[k])
                      /\ \A u \in Timers : In(u, G.list[k]) <=> G.at[u] = k
    BY DEF Listed
  <2>1. Distinct(S.list[k]) /\ \A u \in Timers : In(u, S.list[k]) <=> S.at[u] = k
    BY <1>1 DEF Sound, Listed
  <2>2. CASE k = Expired
    BY ONLY <1>3, <1>4, <1>6, <1>7, <1>11, <2>1, <2>2
  <2>3. CASE k # Expired
    BY ONLY <1>3, <1>6, <1>7, <1>11, <2>1, <2>3, k \in Lists
  <2> QED BY <2>2, <2>3
<1>14. Marked(G)
  <2>1. \A k : k \in S.pending <=> k \in Wheels \X Slots /\ S.list[k] # <<>>
    BY <1>1 DEF Sound, Marked
  <2>2. \A k \in Wheels \X Slots : k \in Lists /\ k # Expired
    BY NullAssumption DEF Lists
  <2>3. \A k : k \in G.pending <=> k \in Wheels \X Slots /\ G.list[k] # <<>>
    BY ONLY <1>10, <1>11, <2>1, <2>2
  <2> QED BY ONLY <2>3 DEF Marked
<1>15. Sound(G)
  BY ONLY <1>12, <1>13, <1>14 DEF Sound
<1>16. \A u \in Timers \ {t} : OnTime(G.at[u], G.expires[u], G.curtime)
  BY ONLY <1>1, <1>10, <1>11 DEF Timely
<1>17. \A u \in INT \ {t} : G.at[u] # Null => G.interval[u] > 0
  <2>1. INT \subseteq Timers
    BY WheelAssumption
  <2> QED BY ONLY <1>1, <1>10, <1>11, <2>1 DEF Repeats
<1>18. PICK D : D = timeouts_get(S)
  OBVIOUS
<1>19. D = IF t \in INT /\ S.interval[t] > 0 THEN timeouts_readd(G, t) ELSE G
  BY ONLY <1>4, <1>5, <1>8, <1>18, t = Head(S.list[Expired]) DEF timeouts_get
<1>20. t \in INT => S.interval[t] > 0
  BY ONLY <1>1, <1>3, <1>7 DEF Repeats
<1>21. CASE t \in INT
  <2>1. PICK n : n = NextTime(S, t)
    OBVIOUS
  <2>2. D = timeouts_sched(G, t, n)
    BY ONLY <1>10, <1>19, <1>20, <1>21, <2>1 DEF timeouts_readd, NextTime
  <2>3. n \in 0 .. (2 * MaxTime)
    <3>1. S.expires[t] <= S.curtime
      BY ONLY <1>1, <1>6, <1>7 DEF Timely, OnTime
    <3>2. S.expires[t] \in Nat /\ S.interval[t] \in Nat \ {0} /\ S.interval[t] <= MaxTime
      BY ONLY <1>2, <1>6, <1>20, <1>21, WheelAssumption
    <3>3. n \in (S.curtime + 1) .. (S.curtime + S.interval[t])
      BY ONLY <1>2, <2>1, <3>1, <3>2, NextTimeFits
    <3> QED BY ONLY <1>2, <3>2, <3>3, WheelAssumption
  <2>4. WInv(D)
    <3>1. t \in INT => G.interval[t] > 0
      BY ONLY <1>10, <1>20
    <3> QED BY ONLY <1>6, <1>15, <1>16, <1>17, <2>2, <2>3, <3>1, Rescheduled
  <2>5. PICK l \in Lists :
          /\ D.curtime = G.curtime /\ D.interval = G.interval
          /\ D.expires = [G.expires EXCEPT ![t] = n]
          /\ D.at = [G.at EXCEPT ![t] = l] /\ OnTime(l, n, G.curtime)
    BY ONLY <1>6, <1>15, <2>2, <2>3, Scheduled
  <2>6. D.at = [S.at EXCEPT ![t] = l]
    BY ONLY <1>2, <1>6, <1>10, <2>5
  <2>7. /\ D.curtime = S.curtime /\ D.interval = S.interval
        /\ D.expires = [S.expires EXCEPT ![t] = n]
    BY ONLY <1>10, <2>5
  <2>8. \E k \in Lists : D.at = [S.at EXCEPT ![t] = k]
    BY ONLY <2>6, l \in Lists
  <2>9. Taken(S, D, t)
    BY ONLY <1>6, <1>7, <1>21, <2>1, <2>3, <2>7, <2>8 DEF Taken
  <2> QED BY ONLY <1>18, <2>4, <2>9
<1>22. CASE t \notin INT
  <2>1. D = G
    BY ONLY <1>19, <1>22
  <2>2. Null # Expired /\ \A w \in Wheels, slot \in Slots : Null # <<w, slot>>
    BY ONLY <1>3 DEF Lists
  <2>3. Timely(G)
    <3>1. OnTime(G.at[t], G.expires[t], G.curtime)
      BY ONLY <1>6, <1>11, <2>2 DEF OnTime
    <3> QED BY ONLY <1>16, <3>1 DEF Timely
  <2>4. Repeats(G)
    BY ONLY <1>17, <1>22 DEF Repeats
  <2>5. WInv(D)
    BY ONLY <1>15, <2>1, <2>3, <2>4 DEF WInv, Sound
  <2>6. /\ D.curtime = S.curtime /\ D.interval = S.interval
        /\ D.at = [S.at EXCEPT ![t] = Null] /\ D.expires = S.expires
    BY ONLY <1>10, <2>1
  <2>7. Taken(S, D, t)
    BY ONLY <1>6, <1>7, <1>22, <2>6 DEF Taken
  <2> QED BY ONLY <1>18, <2>5, <2>7
<1> QED BY ONLY <1>21, <1>22

--------------------------------------------------------------------------------
(* The theorems. *)

\* An empty wheel is the initial state.
LEMMA InitHolds == WheelInit => WInv(T)
<1> SUFFICES ASSUME WheelInit PROVE WInv(T)
  OBVIOUS
<1>1. PICK e, i : e = [t \in Timers |-> 0] /\ i = [t \in Timers |-> 0]
  OBVIOUS
<1>2. e \in [Timers -> 0 .. 2 * MaxTime] /\ i \in [Timers -> 0 .. MaxTime]
  BY <1>1, WheelAssumption
<1>3. T = EmptyWheel(e, i)
  BY <1>1, Zenon DEF WheelInit, timeouts_init, EmptyWheel
<1> QED BY ONLY <1>2, <1>3, Emptied

\* Every operation keeps the invariant.
LEMMA NextKeeps == WInv(T) /\ [WheelNext]_wheelVars => WInv(T')
<1> SUFFICES ASSUME WInv(T), [WheelNext]_wheelVars PROVE WInv(T')
  OBVIOUS
<1>1. CASE \E t \in Timers : AddTimeout(t)
  <2>1. PICK t \in Timers, timeout \in Times : T' = timeouts_add(T, t, timeout)
    BY <1>1 DEF AddTimeout
  <2> QED BY ONLY <2>1, Added, WInv(T)
<1>2. CASE \E t \in Timers : Cancel(t)
  <2>1. PICK t \in Timers : T' = timeouts_del(T, t)
    BY <1>2 DEF Cancel
  <2> QED BY ONLY <2>1, Cancelled, WInv(T)
<1>3. CASE Update
  <2>1. PICK now \in T.curtime .. MaxTime : T' = timeouts_update(T, now)
    BY <1>3 DEF Update
  <2> QED BY ONLY <2>1, Updated, WInv(T)
<1>4. CASE Get
  <2>1. CASE T.list[Expired] # <<>>
    <3>1. T' = timeouts_get(T)
      BY <1>4, <2>1 DEF Get
    <3> QED BY ONLY <2>1, <3>1, Gotten, WInv(T)
  <2>2. CASE T.list[Expired] = <<>>
    <3>1. T' = T
      BY <1>4, <2>2 DEF Get
    <3> QED BY ONLY <3>1, WInv(T)
  <2> QED BY <2>1, <2>2
<1>5. CASE CloseTimer
  <2>1. T' = [timeouts_init EXCEPT !.expires = T.expires, !.interval = T.interval]
    BY <1>5 DEF CloseTimer
  <2>2. T.expires \in [Timers -> 0 .. 2 * MaxTime] /\ T.interval \in [Timers -> 0 .. MaxTime]
    BY Fields DEF WInv
  <2>3. T' = EmptyWheel(T.expires, T.interval)
    BY ONLY <2>1 DEF timeouts_init, EmptyWheel
  <2> QED BY ONLY <2>2, <2>3, Emptied
<1>6. CASE UNCHANGED wheelVars
  <2>1. T' = T
    BY <1>6 DEF wheelVars
  <2> QED BY ONLY <2>1, WInv(T)
<1> QED BY <1>1, <1>2, <1>3, <1>4, <1>5, <1>6 DEF WheelNext

\* Every state of the wheel meets the inductive invariant: lists, fields and bits
\* agree, and each timeout is in the slot the clock comes to in time.
THEOREM WheelInvariant == WheelSpec => []WInv(T)
<1>1. WheelInit => WInv(T)
  BY InitHolds
<1>2. WInv(T) /\ [WheelNext]_wheelVars => WInv(T)'
  <2>1. WInv(T)' <=> WInv(T')
    OBVIOUS
  <2> QED BY <2>1, NextKeeps
<1> QED BY <1>1, <1>2, PTL DEF WheelSpec

\* A list holds a timeout once, and the bits say which lists hold any.
LEMMA BitsHold == WInv(T) => BitsMatchLists
<1> SUFFICES ASSUME WInv(T) PROVE BitsMatchLists
  OBVIOUS
<1>1. ASSUME NEW t \in Timers, NEW l \in DOMAIN T.list
      PROVE  Cardinality({i \in DOMAIN T.list[l] : T.list[l][i] = t}) = (IF T.at[t] = l THEN 1 ELSE 0)
  <2>1. l \in Lists
    BY Fields DEF WInv
  <2>2. PICK q : q = T.list[l]
    OBVIOUS
  <2>3. Distinct(q) /\ (In(t, q) <=> T.at[t] = l)
    BY <2>1, <2>2 DEF WInv, Listed
  <2>4. CASE T.at[t] = l
    <3>1. PICK i \in DOMAIN q : q[i] = t
      BY <2>3, <2>4 DEF In
    <3>2. {j \in DOMAIN q : q[j] = t} = {i}
      BY ONLY <2>3, <3>1 DEF Distinct
    <3>3. Cardinality({i}) = 1
      BY FS_Singleton
    <3> QED BY ONLY <2>2, <2>4, <3>2, <3>3
  <2>5. CASE T.at[t] # l
    <3>1. {j \in DOMAIN q : q[j] = t} = {}
      BY ONLY <2>3, <2>5 DEF In
    <3>2. Cardinality({}) = 0
      BY FS_EmptySet
    <3> QED BY ONLY <2>2, <2>5, <3>1, <3>2
  <2> QED BY <2>4, <2>5
<1>2. T.pending = {l \in Wheels \X Slots : T.list[l] # <<>>}
  BY DEF WInv, Marked
<1> QED BY <1>1, <1>2 DEF BitsMatchLists

\* After every operation a timeout is on the list its field says, once and on no
\* other, and a bit is set exactly when its slot holds a timeout.
THEOREM BitsMatchListsAlways == WheelSpec => []BitsMatchLists
  BY WheelInvariant, BitsHold, PTL

\* How far ahead of the clock the slot of a timeout is: never so far that the
\* caller would be told to wait past the time of the timeout.
LEMMA AheadOf ==
  ASSUME NEW w \in Wheels, NEW slot \in Slots, NEW e \in Nat, NEW c \in Nat,
         Placed(w, slot, e, c),
         NEW d, d = (IF w = 0 THEN 0 ELSE 1),
         NEW a, a = (slot - SlotAt(w, c)) % WHEEL_LEN
  PROVE  /\ e > c /\ a \in Nat /\ (w = 0 => a >= 1)
         /\ \A k \in 0 .. a : ((k + d) * Unit(w)) - (c % Unit(w)) <= e - c
<1>1. PICK L \in Nat \ {0} : L = WHEEL_LEN
  BY WheelLength
<1>2. PICK u \in Nat \ {0} : u = Unit(w) /\ (w = 0 => u = 1)
  BY WheelLength, UnitType
<1>3. PICK x \in Nat, r \in 0 .. (u - 1) : x = e \div u /\ e = u * x + r
  BY ONLY Divided, e \in Nat, u \in Nat \ {0}
<1>4. PICK p \in Nat, s \in 0 .. (u - 1) : p = c \div u /\ s = c % u /\ c = u * p + s
  BY ONLY Divided, c \in Nat, u \in Nat \ {0}
<1>5. d \in {0, 1}
  OBVIOUS
<1>6. slot = (x - d) % L /\ x - d >= p /\ (w = 0 => e > c /\ e - c < L)
  <2>1. CASE w = 0
    <3>1. x = e /\ p = c
      <4>1. u = 1
        BY ONLY <1>2, <2>1
      <4>2. e \div 1 = e /\ c \div 1 = c
        BY DivOne
      <4> QED BY ONLY <1>3, <1>4, <4>1, <4>2
    <3>2. e > c /\ e - c < L /\ slot = timeout_slot(w, e)
      BY <1>1, <2>1 DEF Placed
    <3>3. slot = (x - 0) % L
      BY ONLY <1>1, <1>2, <1>3, <2>1, <3>2 DEF timeout_slot
    <3>4. d = 0
      BY <2>1
    <3> QED BY ONLY <3>1, <3>2, <3>3, <3>4, e \in Nat, c \in Nat
  <2>2. CASE w # 0
    <3>1. e \div Unit(w) >= (c \div Unit(w)) + 1 /\ slot = timeout_slot(w, e)
      BY <2>2 DEF Placed
    <3>2. x >= p + 1
      BY ONLY <1>2, <1>3, <1>4, <3>1
    <3>3. slot = (x - 1) % L
      BY ONLY <1>1, <1>2, <1>3, <2>2, <3>1 DEF timeout_slot
    <3>4. d = 1
      BY <2>2
    <3> QED BY ONLY <2>2, <3>2, <3>3, <3>4, x \in Nat, p \in Nat
  <2> QED BY ONLY <2>1, <2>2
<1>7. PICK y \in Nat : y = (x - d) - p
  BY ONLY <1>5, <1>6, x \in Nat, p \in Nat
<1>8. a = y % L
  <2>1. PICK z \in Int : z = x - d
    BY ONLY <1>5, x \in Nat
  <2>2. ((z % L) - (p % L)) % L = (z - p) % L
    BY ONLY ModDifference, z \in Int, p \in Nat, p \in Int, L \in Nat \ {0}, Zenon
  <2>3. SlotAt(w, c) = p % L
    BY ONLY <1>1, <1>2, <1>4 DEF SlotAt
  <2>4. slot = z % L /\ y = z - p
    BY ONLY <1>6, <1>7, <2>1
  <2>5. a = (slot - SlotAt(w, c)) % L
    BY <1>1
  <2> QED BY ONLY <2>2, <2>3, <2>4, <2>5
<1>9. a <= y /\ a \in Nat
  <2>1. PICK m \in 0 .. (L - 1) : m = y % L /\ m <= y
    BY ONLY Divided, y \in Nat, L \in Nat \ {0}
  <2> QED BY ONLY <1>8, <2>1, L \in Nat
<1>10. w = 0 => a >= 1
  <2> SUFFICES ASSUME w = 0 PROVE a >= 1
    OBVIOUS
  <2>1. u = 1 /\ d = 0 /\ e > c /\ e - c < L
    BY <1>2, <1>6
  <2>2. e \div 1 = e /\ c \div 1 = c
    BY DivOne
  <2>3. x = e /\ p = c
    BY ONLY <1>3, <1>4, <2>1, <2>2
  <2>4. y >= 1 /\ y \in 0 .. (L - 1)
    BY ONLY <1>7, <2>1, <2>3, e \in Nat, c \in Nat, L \in Nat
  <2>5. y % L = y
    <3>0. \E q \in Nat, m \in 0 .. (L - 1) : q = y \div L /\ m = y % L /\ y = L * q + m /\ m <= y
      BY ONLY Divided, y \in Nat, L \in Nat \ {0}, Zenon
    <3>1. PICK q \in Nat, m \in 0 .. (L - 1) : m = y % L /\ y = L * q + m
      BY ONLY <3>0, Zenon
    <3>2. L * q + m = L * 0 + y /\ 0 \in Int
      BY ONLY <3>1, y \in Nat, L \in Nat
    <3>3. m = y
      BY ONLY <2>4, <3>1, <3>2, DivUnique, L \in Nat \ {0}, q \in Nat, q \in Int, m \in 0 .. (L - 1)
    <3> QED BY ONLY <3>1, <3>3
  <2> QED BY ONLY <1>8, <2>4, <2>5
<1>11. ASSUME NEW k \in 0 .. a PROVE ((k + d) * u) - s <= e - c
  <2>1. k + d <= x - p /\ k + d \in Nat /\ x - p \in Nat
    BY ONLY <1>5, <1>7, <1>9, k \in 0 .. a, x \in Nat, p \in Nat, y \in Nat
  <2>2. PICK g \in Nat, h \in Nat : g = k + d /\ h = (x - p) - g
    BY ONLY <2>1
  <2>3. g * u >= 0 /\ h * u >= 0 /\ u * x = u * p + (g * u + h * u)
    <3>1. x = p + (g + h)
      BY ONLY <2>1, <2>2, x \in Nat, p \in Nat
    <3>2. u * (p + (g + h)) = u * p + (g * u + h * u)
      OBVIOUS
    <3>3. g * u >= 0 /\ h * u >= 0
      OBVIOUS
    <3> QED BY ONLY <3>1, <3>2, <3>3
  <2>4. PICK A \in Int, B \in Int, C \in Int, D \in Int : A = g * u /\ B = h * u /\ C = u * x /\ D = u * p
    OBVIOUS
  <2>5. A - s <= e - c
    BY ONLY <1>3, <1>4, <2>3, <2>4, e \in Nat, c \in Nat, r \in 0 .. (u - 1), s \in 0 .. (u - 1), u \in Nat,
            A \in Int, B \in Int, C \in Int, D \in Int
  <2> QED BY ONLY <2>2, <2>4, <2>5
<1>12. e > c
  <2>1. CASE w = 0
    BY ONLY <1>6, <2>1
  <2>2. CASE w # 0
    <3>1. 0 \in 0 .. a
      BY ONLY <1>9
    <3>2. ((0 + d) * u) - s <= e - c
      BY ONLY <1>11, <3>1
    <3>3. d = 1
      BY <2>2
    <3> QED BY ONLY <3>2, <3>3, e \in Nat, c \in Nat, u \in Nat \ {0}, s \in 0 .. (u - 1)
  <2> QED BY ONLY <2>1, <2>2
<1> QED BY ONLY <1>2, <1>4, <1>9, <1>10, <1>11, <1>12

\* A timeout in a wheel is where its time says, and the bit of its slot is set.
LEMMA InWheel ==
  ASSUME NEW S, WInv(S), NEW t \in Timers, S.at[t] # Null, S.at[t] # Expired
  PROVE  \E w \in Wheels, slot \in Slots :
            /\ S.at[t] = <<w, slot>> /\ S.at[t] \in S.pending
            /\ Placed(w, slot, S.expires[t], S.curtime)
<1>1. S.at[t] \in Wheels \X Slots
  BY Fields DEF WInv, Lists
<1>2. PICK w \in Wheels, slot \in Slots : S.at[t] = <<w, slot>>
  BY <1>1
<1>3. Placed(w, slot, S.expires[t], S.curtime)
  BY <1>2 DEF WInv, Timely, OnTime
<1>4. PICK l \in Wheels \X Slots : l = S.at[t]
  BY <1>1
<1>5. In(t, S.list[l])
  BY <1>4 DEF WInv, Listed, Lists
<1>6. S.list[l] # <<>>
  BY ONLY <1>5 DEF In
<1>7. l \in S.pending
  BY <1>6 DEF WInv, Marked
<1> QED BY ONLY <1>2, <1>3, <1>4, <1>7

\* A slot whose bit is set holds a timeout.
LEMMA Occupied ==
  ASSUME NEW S, WInv(S), NEW l \in S.pending
  PROVE  l \in Wheels \X Slots /\ \E t \in Timers : S.at[t] = l
<1>1. l \in Wheels \X Slots /\ S.list[l] # <<>>
  BY DEF WInv, Marked
<1>2. l \in Lists
  BY <1>1 DEF Lists
<1>3. PICK q \in Seq(Timers) : q = S.list[l] /\ \A t \in Timers : In(t, q) <=> S.at[t] = l
  BY <1>2, Fields DEF WInv, Listed
<1>4. q # <<>>
  BY ONLY <1>1, <1>3
<1>5. \E t \in Timers : In(t, q)
  BY ONLY <1>4, EmptyList, q \in Seq(Timers)
<1> QED BY ONLY <1>1, <1>3, <1>5

\* The time timeouts_int finds for a wheel with a timeout in it: it is positive,
\* and no timeout of the wheel is due before it has passed.
LEMMA UntilFits ==
  ASSUME NEW S, WInv(S), NEW w \in Wheels, NEW l \in S.pending, l[1] = w
  PROVE  /\ Until(S, w) \in 1 .. (2 * MaxTime)
         /\ \A t \in Timers, slot \in Slots :
               S.at[t] = <<w, slot>> => Until(S, w) <= S.expires[t] - S.curtime
<1> DEFINE far(s) == (s - SlotAt(w, S.curtime)) % WHEEL_LEN
           ahead == {far(k[2]) : k \in {m \in S.pending : m[1] = w}}
           first == CHOOSE i \in ahead : \A j \in ahead : i <= j
           d == IF w = 0 THEN 0 ELSE 1
<1>1. PICK c \in 0 .. MaxTime : c = S.curtime /\ c \in Nat
  BY Fields DEF WInv
<1>2. \A t \in Timers : S.expires[t] \in 0 .. (2 * MaxTime) /\ S.expires[t] \in Nat
  BY Fields, WheelAssumption DEF WInv
<1>3. PICK u \in Nat \ {0} : u = Unit(w) /\ (w = 0 => u = 1)
  BY WheelLength, UnitType
<1>4. d \in {0, 1}
  OBVIOUS
<1>5. Until(S, w) = ((first + d) * u) - (c % u)
  BY ONLY <1>1, <1>3 DEF Until
<1>a. first = CHOOSE i \in ahead : \A j \in ahead : i <= j
  OBVIOUS
<1>b. \A k \in S.pending : k[1] = w => far(k[2]) \in ahead
  OBVIOUS
<1>c. \A a \in ahead : \E k \in S.pending : k[1] = w /\ a = far(k[2])
  OBVIOUS
<1>d. \A s : far(s) = (s - SlotAt(w, S.curtime)) % WHEEL_LEN
  OBVIOUS
<1>e. d = (IF w = 0 THEN 0 ELSE 1)
  OBVIOUS
<1> HIDE DEF first, ahead, far, d
<1>6. ASSUME NEW t \in Timers, NEW slot \in Slots, S.at[t] = <<w, slot>>
      PROVE  /\ far(slot) \in ahead /\ far(slot) \in Nat /\ (w = 0 => far(slot) >= 1)
             /\ \A k \in 0 .. far(slot) : ((k + d) * u) - (c % u) <= S.expires[t] - c
  <2>1. S.at[t] # Null /\ S.at[t] # Expired
    <3>1. S.at[t] \in Wheels \X Slots
      BY <1>6
    <3> QED BY <3>1, NullAssumption DEF Lists
  <2>2. S.at[t] \in S.pending
    BY <2>1, InWheel
  <2>3. S.at[t][1] = w /\ S.at[t][2] = slot
    BY <1>6
  <2>4. far(slot) \in ahead
    BY ONLY <1>b, <2>2, <2>3
  <2>5. Placed(w, slot, S.expires[t], c)
    BY <1>1, <1>6 DEF WInv, Timely, OnTime
  <2>6. PICK e \in Nat : e = S.expires[t]
    BY <1>2
  <2>7. PICK a : a = far(slot)
    OBVIOUS
  <2>8. a = (slot - SlotAt(w, c)) % WHEEL_LEN
    BY ONLY <1>1, <1>d, <2>7
  <2>9. /\ e > c /\ a \in Nat /\ (w = 0 => a >= 1)
        /\ \A k \in 0 .. a : ((k + d) * Unit(w)) - (c % Unit(w)) <= e - c
    BY ONLY <1>1, <1>e, <2>5, <2>6, <2>8, AheadOf, w \in Wheels, slot \in Slots
  <2> QED BY ONLY <1>3, <2>4, <2>6, <2>7, <2>9
<1>7. ASSUME NEW a \in ahead
      PROVE  \E t \in Timers, slot \in Slots : S.at[t] = <<w, slot>> /\ a = far(slot)
  <2>1. PICK k \in S.pending : k[1] = w /\ a = far(k[2])
    BY <1>c
  <2>2. k \in Wheels \X Slots
    BY Occupied
  <2>3. PICK t \in Timers : S.at[t] = k
    BY Occupied
  <2>4. PICK v \in Wheels, slot \in Slots : k = <<v, slot>>
    BY <2>2
  <2>5. v = w /\ a = far(slot)
    <3>1. k[1] = v /\ k[2] = slot
      BY ONLY <2>4
    <3> QED BY ONLY <2>1, <3>1
  <2> QED BY ONLY <2>3, <2>4, <2>5
<1>8. ahead \in SUBSET Nat
  BY ONLY <1>6, <1>7
<1>9. ahead # {}
  BY ONLY <1>b, l \in S.pending, l[1] = w
<1>10. first \in ahead /\ \A j \in ahead : first <= j
  <2>1. \E i \in ahead : \A j \in ahead : i <= j
    BY ONLY <1>8, <1>9, Least
  <2> QED BY ONLY <1>a, <2>1
<1>11. PICK t \in Timers, slot \in Slots : S.at[t] = <<w, slot>> /\ first = far(slot)
  BY ONLY <1>7, <1>10
<1>12. first \in Nat /\ (w = 0 => first >= 1)
  BY ONLY <1>6, <1>11
<1>13. PICK m \in Int : m = Until(S, w)
  <2>1. PICK r \in 0 .. (u - 1) : r = c % u
    BY ONLY <1>1, Divided, u \in Nat \ {0}
  <2>2. ((first + d) * u) - r \in Int
    BY ONLY <1>4, <1>12, u \in Nat, r \in 0 .. (u - 1)
  <2> QED BY ONLY <1>5, <2>1, <2>2
<1>14. \A v \in Timers, s \in Slots : S.at[v] = <<w, s>> => m <= S.expires[v] - c
  <2> SUFFICES ASSUME NEW v \in Timers, NEW s \in Slots, S.at[v] = <<w, s>>
               PROVE  m <= S.expires[v] - c
    OBVIOUS
  <2>1. first \in 0 .. far(s)
    <3>1. first <= far(s) /\ far(s) \in Nat
      BY ONLY <1>6, <1>10, v \in Timers, s \in Slots, S.at[v] = <<w, s>>
    <3> QED BY ONLY <1>12, <3>1
  <2> QED BY ONLY <1>5, <1>6, <1>13, <2>1, v \in Timers, s \in Slots, S.at[v] = <<w, s>>
<1>15. m >= 1
  <2>1. PICK r \in 0 .. (u - 1) : r = c % u
    BY ONLY <1>1, Divided, u \in Nat \ {0}
  <2>2. m = ((first + d) * u) - r
    BY ONLY <1>5, <1>13, <2>1
  <2>3. first + d \in Nat /\ first + d >= 1
    BY ONLY <1>4, <1>12, <1>e
  <2>4. (first + d) * u >= u
    <3>1. PICK g \in Nat : g = (first + d) - 1
      BY ONLY <2>3
    <3>2. first + d = g + 1
      BY ONLY <2>3, <3>1
    <3>3. (g + 1) * u = g * u + u /\ g * u >= 0 /\ g * u \in Int
      BY ONLY g \in Nat, u \in Nat
    <3>4. (g + 1) * u >= u
      BY ONLY <3>3, u \in Nat
    <3> QED BY ONLY <3>2, <3>4
  <2>5. PICK A \in Int : A = (first + d) * u
    BY ONLY <2>3, u \in Nat
  <2> QED BY ONLY <2>2, <2>4, <2>5, u \in Nat, r \in 0 .. (u - 1), A \in Int
<1>16. m <= 2 * MaxTime
  <2>1. m <= S.expires[t] - c
    BY ONLY <1>11, <1>14
  <2> QED BY ONLY <1>1, <1>2, <2>1, WheelAssumption, m \in Int, t \in Timers
<1>17. m \in 1 .. (2 * MaxTime)
  BY ONLY <1>15, <1>16, m \in Int, WheelAssumption
<1> QED BY ONLY <1>1, <1>13, <1>14, <1>17

\* A timeout in a wheel is due later.
LEMMA InWheelLater ==
  ASSUME NEW S, WInv(S), NEW t \in Timers, S.at[t] # Null, S.at[t] # Expired
  PROVE  S.expires[t] > S.curtime
<1>1. PICK w \in Wheels, slot \in Slots :
         S.at[t] = <<w, slot>> /\ Placed(w, slot, S.expires[t], S.curtime)
  BY InWheel
<1>2. PICK e \in Nat, c \in Nat : e = S.expires[t] /\ c = S.curtime
  BY Fields, WheelAssumption DEF WInv
<1>3. Placed(w, slot, e, c)
  BY ONLY <1>1, <1>2
<1>4. e > c
  BY ONLY <1>3, AheadOf, w \in Wheels, slot \in Slots, e \in Nat, c \in Nat
<1> QED BY ONLY <1>2, <1>4

\* ~TIMEOUT_C(0) is above every interval timeouts_int finds.
LEMMA ForeverIsLong == Forever \in Nat /\ Forever > 2 * MaxTime
<1>1. PICK n \in Nat \ {0} : n = Shift[WHEEL_BIT * WHEEL_NUM]
  <2>1. WHEEL_BIT * WHEEL_NUM \in Nat
    BY WheelAssumption
  <2> QED BY <2>1, ShiftType
<1>2. Forever = 4 * MaxTime + (n - 1)
  BY <1>1 DEF Forever, TIMEOUT_MAX
<1> QED BY ONLY <1>2, n \in Nat \ {0}, WheelAssumption

\* timeouts_int is the least of the times of the wheels.
LEMMA IntLeast ==
  ASSUME NEW S, WInv(S)
  PROVE  /\ timeouts_int(S) \in Nat \ {0}
         /\ \A l \in S.pending : timeouts_int(S) <= Until(S, l[1]) /\ timeouts_int(S) < Forever
         /\ S.pending = {} => timeouts_int(S) = Forever
<1> DEFINE until == {Until(S, w) : w \in {l[1] : l \in S.pending}} \cup {Forever}
<1>1. ASSUME NEW l \in S.pending PROVE Until(S, l[1]) \in 1 .. (2 * MaxTime)
  <2>1. l \in Wheels \X Slots
    BY Occupied
  <2>2. PICK w \in Wheels : w = l[1]
    BY ONLY <2>1
  <2>3. Until(S, w) \in 1 .. (2 * MaxTime)
    BY ONLY <2>2, UntilFits, WInv(S), l \in S.pending
  <2> QED BY ONLY <2>2, <2>3
<1>2. \A i \in until : i = Forever \/ \E l \in S.pending : i = Until(S, l[1])
  OBVIOUS
<1>3. Forever \in until /\ \A l \in S.pending : Until(S, l[1]) \in until
  OBVIOUS
<1>4. PICK m : m = timeouts_int(S)
  OBVIOUS
<1>5. m = CHOOSE i \in until : \A j \in until : i <= j
  BY ONLY <1>4 DEF timeouts_int
<1> HIDE DEF until
<1>6. \A i \in until : i \in Nat /\ i >= 1
  BY ONLY <1>1, <1>2, ForeverIsLong, WheelAssumption
<1>7. m \in until /\ \A j \in until : m <= j
  <2>1. until \in SUBSET Nat /\ until # {}
    BY ONLY <1>3, <1>6
  <2>2. \E i \in until : \A j \in until : i <= j
    BY ONLY <2>1, Least
  <2> QED BY ONLY <1>5, <2>2
<1>8. m \in Nat \ {0}
  BY ONLY <1>6, <1>7
<1>9. ASSUME NEW l \in S.pending PROVE m <= Until(S, l[1]) /\ m < Forever
  <2>1. m <= Until(S, l[1])
    BY ONLY <1>3, <1>7, l \in S.pending
  <2>2. PICK x \in 1 .. (2 * MaxTime) : x = Until(S, l[1])
    BY ONLY <1>1, l \in S.pending
  <2> QED BY ONLY <1>8, <2>1, <2>2, ForeverIsLong, WheelAssumption
<1>10. S.pending = {} => m = Forever
  BY ONLY <1>2, <1>7
<1> QED BY ONLY <1>4, <1>8, <1>9, <1>10

\* What timeouts_check finds.
LEMMA CheckHolds == WInv(T) => TimeoutsCheck
<1> SUFFICES ASSUME WInv(T) PROVE TimeoutsCheck
  OBVIOUS
<1>1. NoMissedTimeout
  <2>1. \A t \in Timers : T.at[t] \notin {Null, Expired} => T.expires[t] > T.curtime
    BY InWheelLater
  <2>2. \A t \in Timers : T.at[t] = Expired => T.expires[t] <= T.curtime
    BY DEF WInv, Timely, OnTime
  <2> QED BY ONLY <2>1, <2>2 DEF NoMissedTimeout
<1>2. PICK i \in Nat \ {0} :
         /\ i = timeouts_int(T)
         /\ \A l \in T.pending : i <= Until(T, l[1]) /\ i < Forever
         /\ T.pending = {} => i = Forever
  BY IntLeast
<1>3. ASSUME NEW t \in Timers, T.at[t] # Null, T.at[t] # Expired
      PROVE  i <= T.expires[t] - T.curtime /\ T.pending # {}
  <2>1. PICK w \in Wheels, slot \in Slots : T.at[t] = <<w, slot>> /\ T.at[t] \in T.pending
    BY <1>3, InWheel
  <2>2. PICK l \in T.pending : l = T.at[t] /\ l[1] = w
    BY ONLY <2>1
  <2>3. /\ Until(T, w) \in 1 .. (2 * MaxTime)
        /\ Until(T, w) <= T.expires[t] - T.curtime
    BY ONLY <2>1, <2>2, UntilFits, WInv(T), w \in Wheels, slot \in Slots, t \in Timers
  <2>4. i <= Until(T, w)
    BY ONLY <1>2, <2>2
  <2>5. PICK x \in Int : x = T.expires[t] - T.curtime
    <3>1. T.expires[t] \in Int /\ T.curtime \in Int
      BY Fields, WheelAssumption DEF WInv
    <3> QED BY ONLY <3>1
  <2>6. PICK y \in 1 .. (2 * MaxTime) : y = Until(T, w)
    BY ONLY <2>3
  <2>7. i <= x
    BY ONLY <2>3, <2>4, <2>5, <2>6, i \in Nat, x \in Int, WheelAssumption
  <2> QED BY ONLY <2>2, <2>5, <2>7
<1>4. T.list[Expired] # <<>> <=> \E t \in Timers : T.at[t] = Expired
  <2>1. Expired \in Lists
    BY DEF Lists
  <2>2. PICK q \in Seq(Timers) : q = T.list[Expired] /\ \A t \in Timers : In(t, q) <=> T.at[t] = Expired
    BY <2>1, Fields DEF WInv, Listed
  <2>3. q = <<>> <=> \A t \in Timers : ~In(t, q)
    BY ONLY EmptyList, q \in Seq(Timers)
  <2> QED BY ONLY <2>2, <2>3
<1>5. T.pending # {} => \E t \in Timers : T.at[t] # Null
  <2> SUFFICES ASSUME NEW l \in T.pending PROVE \E t \in Timers : T.at[t] # Null
    OBVIOUS
  <2>1. l \in Wheels \X Slots /\ \E t \in Timers : T.at[t] = l
    BY Occupied
  <2>2. l # Null
    BY <2>1, NullAssumption DEF Lists
  <2> QED BY ONLY <2>1, <2>2
<1>6. Forever # 0 /\ Null # Expired
  BY ForeverIsLong, WheelAssumption, NullAssumption DEF Lists
<1>7. timeouts_timeout(T) = IF T.list[Expired] # <<>> THEN 0 ELSE i
  BY ONLY <1>2 DEF timeouts_timeout
<1>8. timeouts_timeout(T) = 0 <=> \E t \in Timers : T.at[t] = Expired
  BY ONLY <1>4, <1>7, i \in Nat \ {0}
<1>9. timeouts_timeout(T) = Forever <=> \A t \in Timers : T.at[t] = Null
  <2>1. CASE T.list[Expired] # <<>>
    BY ONLY <1>4, <1>6, <1>7, <2>1
  <2>2. CASE T.list[Expired] = <<>> /\ T.pending = {}
    BY ONLY <1>2, <1>3, <1>4, <1>7, <2>2
  <2>3. CASE T.list[Expired] = <<>> /\ T.pending # {}
    <3>1. i < Forever
      BY ONLY <1>2, <2>3
    <3>2. i # Forever
      BY ONLY <3>1, ForeverIsLong, i \in Nat
    <3> QED BY ONLY <1>5, <1>7, <2>3, <3>2
  <2> QED BY ONLY <2>1, <2>2, <2>3
<1>10. SoftTimeout
  BY ONLY <1>2, <1>3, <1>8, <1>9 DEF SoftTimeout, timeout_expired
<1> QED BY <1>1, <1>10 DEF TimeoutsCheck

\* The self-test of the code holds after every operation, for any wheels: no
\* timeout is missed, and the interval a caller is told to wait is not empty,
\* ends no later than the first timeout, and is unlimited only if none is armed.
THEOREM TimeoutsCheckAlways == WheelSpec => []TimeoutsCheck
  BY WheelInvariant, CheckHolds, PTL

--------------------------------------------------------------------------------
(* The wheel implements the collection of timers of TimerSet. *)

\* Deadlines, of any state of the wheel.
DeadlinesOf(S) == [t \in Timers |-> IF S.at[t] = Null THEN Null ELSE S.expires[t]]

\* The timers that are due are those on the list of the expired.
LEMMA DueExpired ==
  ASSUME NEW S, WInv(S), NEW t \in Timers
  PROVE  /\ DeadlinesOf(S)[t] # Null /\ DeadlinesOf(S)[t] <= S.curtime <=> S.at[t] = Expired
         /\ S.at[t] = Expired => DeadlinesOf(S)[t] = S.expires[t]
<1>1. PICK e \in Nat, c \in Nat : e = S.expires[t] /\ c = S.curtime
  BY Fields, WheelAssumption DEF WInv
<1>2. e # Null /\ Null # Expired
  BY NullAssumption DEF Lists
<1>3. S.at[t] = Expired => e <= c
  BY <1>1 DEF WInv, Timely, OnTime
<1>4. S.at[t] # Null /\ S.at[t] # Expired => e > c
  BY <1>1, InWheelLater
<1>5. DeadlinesOf(S)[t] = IF S.at[t] = Null THEN Null ELSE e
  BY <1>1 DEF DeadlinesOf
<1> QED BY ONLY <1>1, <1>2, <1>3, <1>4, <1>5, e \in Nat, c \in Nat

\* Timeout t is moved to l, with time e, and nothing else is.
Moved(S, D, t, l, e) ==
    /\ S.at \in [Timers -> Lists \cup {Null}] /\ S.expires \in [Timers -> 0 .. 2 * MaxTime]
    /\ D.at = [S.at EXCEPT ![t] = l] /\ D.expires = [S.expires EXCEPT ![t] = e]

\* The deadline of t becomes v, and no other changes.
Redated(S, D, t, v) == DeadlinesOf(D) = [DeadlinesOf(S) EXCEPT ![t] = v]

\* Moving one timeout changes its deadline and no other.
LEMMA OneDeadline ==
  ASSUME NEW S, NEW D, NEW t \in Timers, NEW l, NEW e, Moved(S, D, t, l, e)
  PROVE  (l # Null => Redated(S, D, t, e)) /\ (l = Null => Redated(S, D, t, Null))
<1>1. \A u \in Timers : /\ D.at[u] = IF u = t THEN l ELSE S.at[u]
                        /\ D.expires[u] = IF u = t THEN e ELSE S.expires[u]
  BY DEF Moved
<1>2. \A u \in Timers : /\ DeadlinesOf(D)[u] = IF D.at[u] = Null THEN Null ELSE D.expires[u]
                        /\ DeadlinesOf(S)[u] = IF S.at[u] = Null THEN Null ELSE S.expires[u]
  BY DEF DeadlinesOf
<1>3. /\ \A u \in Timers \ {t} : DeadlinesOf(D)[u] = DeadlinesOf(S)[u]
      /\ l # Null => DeadlinesOf(D)[t] = e
      /\ l = Null => DeadlinesOf(D)[t] = Null
  BY ONLY <1>1, <1>2, t \in Timers
<1>4. /\ DeadlinesOf(D) = [u \in Timers |-> DeadlinesOf(D)[u]]
      /\ DeadlinesOf(S) = [u \in Timers |-> DeadlinesOf(S)[u]]
  BY DEF DeadlinesOf
<1>5. \A v : DeadlinesOf(D)[t] = v => DeadlinesOf(D) = [DeadlinesOf(S) EXCEPT ![t] = v]
  BY ONLY <1>3, <1>4
<1> QED BY ONLY <1>3, <1>5 DEF Redated

\* Every operation of the wheel is one of the collection, or changes nothing.
LEMMA StepsMap == WInv(T) /\ [WheelNext]_wheelVars => [Abstract!Next]_(Abstract!vars)
<1> SUFFICES ASSUME WInv(T), [WheelNext]_wheelVars PROVE [Abstract!Next]_(Abstract!vars)
  OBVIOUS
<1>0. /\ T.curtime \in 0 .. MaxTime /\ T.expires \in [Timers -> 0 .. 2 * MaxTime]
      /\ T.interval \in [Timers -> 0 .. MaxTime] /\ T.at \in [Timers -> Lists \cup {Null}]
  BY Fields DEF WInv
<1>d. Deadlines = DeadlinesOf(T) /\ Deadlines' = DeadlinesOf(T')
  BY DEF Deadlines, DeadlinesOf
<1>n. \A l \in Lists : l # Null
  BY NullAssumption
<1>1. ASSUME NEW t \in Timers, AddTimeout(t) PROVE Abstract!Arm(t)
  <2>1. PICK timeout \in Times : T' = timeouts_add(T, t, timeout)
    BY <1>1 DEF AddTimeout
  <2>2. PICK D : D = T'
    OBVIOUS
  <2>3. /\ D.curtime = T.curtime
        /\ \E e \in 0 .. (2 * MaxTime) : D.expires = [T.expires EXCEPT ![t] = e]
        /\ \E i \in 0 .. MaxTime : D.interval = [T.interval EXCEPT ![t] = i]
        /\ \E l \in Lists : D.at = [T.at EXCEPT ![t] = l]
    <3>1. Armed(T, D, t)
      BY ONLY <2>1, <2>2, Added, WInv(T), t \in Timers
    <3> QED BY ONLY <3>1 DEF Armed
  <2>4. PICK e \in 0 .. (2 * MaxTime), l \in Lists :
           D.expires = [T.expires EXCEPT ![t] = e] /\ D.at = [T.at EXCEPT ![t] = l]
    BY ONLY <2>3
  <2>5. Redated(T, D, t, e)
    <3>1. Moved(T, D, t, l, e)
      BY ONLY <1>0, <2>4 DEF Moved
    <3>2. l # Null
      BY ONLY <1>n, l \in Lists
    <3> QED BY ONLY <3>1, <3>2, OneDeadline, t \in Timers
  <2>6. Deadlines' = [Deadlines EXCEPT ![t] = e]
    BY ONLY <1>d, <2>2, <2>5 DEF Redated
  <2>7. got' = Idle
    BY <1>1 DEF AddTimeout
  <2>8. T'.curtime = T.curtime /\ \E i \in 0 .. MaxTime : T'.interval = [T.interval EXCEPT ![t] = i]
    BY ONLY <2>2, <2>3
  <2> QED BY ONLY <2>6, <2>7, <2>8, e \in 0 .. (2 * MaxTime) DEF Abstract!Arm
<1>2. ASSUME NEW t \in Timers, Cancel(t) PROVE Abstract!Cancel(t)
  <2>1. T' = timeouts_del(T, t) /\ got' = Idle /\ T.at[t] # Expired
    BY <1>2 DEF Cancel, timeout_expired
  <2>2. PICK D : D = T'
    OBVIOUS
  <2>3. /\ D.curtime = T.curtime /\ D.expires = T.expires /\ D.interval = T.interval
        /\ D.at = [T.at EXCEPT ![t] = Null]
    BY ONLY <2>1, <2>2, Cancelled, WInv(T), t \in Timers
  <2>4. PICK e : e = T.expires[t]
    OBVIOUS
  <2>5. D.expires = [T.expires EXCEPT ![t] = e]
    BY ONLY <1>0, <2>3, <2>4, t \in Timers
  <2>6. Redated(T, D, t, Null)
    <3>1. Moved(T, D, t, Null, e)
      BY ONLY <1>0, <2>3, <2>5 DEF Moved
    <3> QED BY ONLY <3>1, OneDeadline, t \in Timers
  <2>7. Deadlines' = [Deadlines EXCEPT ![t] = Null]
    BY ONLY <1>d, <2>2, <2>6 DEF Redated
  <2>8. ~(DeadlinesOf(T)[t] # Null /\ DeadlinesOf(T)[t] <= T.curtime)
    BY ONLY <2>1, DueExpired, WInv(T), t \in Timers
  <2>9. t \notin Abstract!Due
    BY ONLY <1>d, <2>8 DEF Abstract!Due
  <2> QED BY ONLY <2>1, <2>2, <2>3, <2>7, <2>9 DEF Abstract!Cancel
<1>3. ASSUME Update PROVE Abstract!Advance
  <2>1. PICK now \in T.curtime .. MaxTime : T' = timeouts_update(T, now) /\ got' = Idle
    BY <1>3 DEF Update
  <2>2. PICK D : D = T'
    OBVIOUS
  <2>3. /\ D.curtime = now /\ D.expires = T.expires /\ D.interval = T.interval
        /\ \A t \in Timers : D.at[t] = Null <=> T.at[t] = Null
    BY ONLY <2>1, <2>2, Updated, WInv(T)
  <2>4. DeadlinesOf(D) = DeadlinesOf(T)
    BY ONLY <2>3 DEF DeadlinesOf
  <2>5. Deadlines' = Deadlines
    BY ONLY <1>d, <2>2, <2>4
  <2> QED BY ONLY <2>1, <2>2, <2>3, <2>5 DEF Abstract!Advance
<1>4. ASSUME Get PROVE Abstract!Get
  <2>e. /\ Expired \in Lists
        /\ T.list[Expired] # <<>> <=> \E t \in Timers : T.at[t] = Expired
    <3>1. Expired \in Lists
      BY DEF Lists
    <3>2. PICK q \in Seq(Timers) : q = T.list[Expired] /\ \A t \in Timers : In(t, q) <=> T.at[t] = Expired
      BY <3>1, Fields DEF WInv, Listed
    <3>3. q = <<>> <=> \A t \in Timers : ~In(t, q)
      BY ONLY EmptyList, q \in Seq(Timers)
    <3> QED BY ONLY <3>1, <3>2, <3>3
  <2>u. \A t \in Timers : t \in Abstract!Due <=> T.at[t] = Expired
    <3>1. \A t \in Timers : DeadlinesOf(T)[t] # Null /\ DeadlinesOf(T)[t] <= T.curtime <=> T.at[t] = Expired
      BY ONLY DueExpired, WInv(T)
    <3> QED BY ONLY <1>d, <3>1 DEF Abstract!Due
  <2>1. CASE T.list[Expired] = <<>>
    <3>1. T' = T /\ got' = Null
      BY <1>4, <2>1 DEF Get
    <3>2. Abstract!Due = {}
      <4>1. \A t \in Abstract!Due : t \in Timers
        BY DEF Abstract!Due
      <4> QED BY ONLY <2>e, <2>u, <2>1, <4>1
    <3>3. Deadlines' = Deadlines
      BY ONLY <1>d, <3>1
    <3> QED BY ONLY <3>1, <3>2, <3>3 DEF Abstract!Get
  <2>2. CASE T.list[Expired] # <<>>
    <3>1. PICK t : t = Head(T.list[Expired]) /\ got' = t /\ T' = timeouts_get(T)
      BY <1>4, <2>2 DEF Get
    <3>2. PICK D : D = T'
      OBVIOUS
    <3>3. /\ t \in Timers /\ T.at[t] = Expired
          /\ D.curtime = T.curtime /\ D.interval = T.interval
          /\ IF t \in INT
             THEN /\ \E l \in Lists : D.at = [T.at EXCEPT ![t] = l]
                  /\ NextTime(T, t) \in 0 .. (2 * MaxTime)
                  /\ D.expires = [T.expires EXCEPT ![t] = NextTime(T, t)]
             ELSE D.at = [T.at EXCEPT ![t] = Null] /\ D.expires = T.expires
      <4>1. Taken(T, D, t)
        BY ONLY <2>2, <3>1, <3>2, Gotten, WInv(T)
      <4> QED BY ONLY <4>1 DEF Taken
    <3>t. t \in Timers
      BY ONLY <3>3
    <3>4. t \in Abstract!Due
      BY ONLY <2>u, <3>3
    <3>5. \E e \in (0 .. 2 * MaxTime) \cup {Null} :
             /\ Abstract!NextDeadline(t, e)
             /\ Deadlines' = [Deadlines EXCEPT ![t] = e]
      <4>1. CASE t \in INT
        <5>1. PICK n \in 0 .. (2 * MaxTime) : n = NextTime(T, t)
          BY ONLY <3>3, <4>1
        <5>2. PICK l \in Lists : D.at = [T.at EXCEPT ![t] = l] /\ D.expires = [T.expires EXCEPT ![t] = n]
          BY ONLY <3>3, <4>1, <5>1
        <5>3. Redated(T, D, t, n)
          <6>1. Moved(T, D, t, l, n)
            BY ONLY <1>0, <5>2 DEF Moved
          <6>2. l # Null
            BY ONLY <1>n, l \in Lists
          <6> QED BY ONLY <3>t, <6>1, <6>2, OneDeadline
        <5>4. Deadlines' = [Deadlines EXCEPT ![t] = n]
          BY ONLY <1>d, <3>2, <5>3 DEF Redated
        <5>5. DeadlinesOf(T)[t] = T.expires[t]
          BY ONLY <3>3, DueExpired, WInv(T)
        <5>6. n \in (T.curtime + 1) .. (T.curtime + T.interval[t]) /\ (n - T.expires[t]) % T.interval[t] = 0
          <6>1. T.interval[t] > 0
            BY <1>n, <2>e, <3>3, <4>1 DEF WInv, Repeats
          <6>2. T.curtime \in Nat /\ T.expires[t] \in Nat /\ T.interval[t] \in Nat \ {0}
            BY ONLY <1>0, <3>3, <6>1, WheelAssumption
          <6>3. T.expires[t] <= T.curtime
            BY <3>3 DEF WInv, Timely, OnTime
          <6> QED BY ONLY <5>1, <6>2, <6>3, NextTimeFits
        <5>7. Abstract!NextDeadline(t, n)
          BY ONLY <1>d, <4>1, <5>5, <5>6 DEF Abstract!NextDeadline
        <5> QED BY ONLY <5>4, <5>7, n \in 0 .. (2 * MaxTime)
      <4>2. CASE t \notin INT
        <5>1. PICK e : e = T.expires[t]
          OBVIOUS
        <5>2. D.at = [T.at EXCEPT ![t] = Null] /\ D.expires = [T.expires EXCEPT ![t] = e]
          BY ONLY <1>0, <3>3, <4>2, <5>1
        <5>3. Redated(T, D, t, Null)
          <6>1. Moved(T, D, t, Null, e)
            BY ONLY <1>0, <5>2 DEF Moved
          <6> QED BY ONLY <3>t, <6>1, OneDeadline
        <5>4. Deadlines' = [Deadlines EXCEPT ![t] = Null]
          BY ONLY <1>d, <3>2, <5>3 DEF Redated
        <5>5. Abstract!NextDeadline(t, Null)
          BY ONLY <4>2 DEF Abstract!NextDeadline
        <5> QED BY ONLY <5>4, <5>5
      <4> QED BY ONLY <4>1, <4>2
    <3>6. T'.curtime = T.curtime /\ T'.interval = T.interval /\ got' = t
      BY ONLY <3>1, <3>2, <3>3
    <3> QED BY ONLY <3>4, <3>5, <3>6 DEF Abstract!Get
  <2> QED BY <2>1, <2>2
<1>5. ASSUME CloseTimer PROVE Abstract!Reopen
  <2>1. T' = [timeouts_init EXCEPT !.expires = T.expires, !.interval = T.interval] /\ got' = Idle
    BY <1>5 DEF CloseTimer
  <2>2. T' = EmptyWheel(T.expires, T.interval)
    BY ONLY <2>1 DEF timeouts_init, EmptyWheel
  <2>3. PICK D : D = T'
    OBVIOUS
  <2>4. D.curtime = 0 /\ D.interval = T.interval /\ D.at = [t \in Timers |-> Null]
    BY ONLY <1>0, <2>2, <2>3, Emptied
  <2>5. DeadlinesOf(D) = [t \in Timers |-> Null]
    BY ONLY <2>4 DEF DeadlinesOf
  <2>6. Deadlines' = [t \in Timers |-> Null]
    BY ONLY <1>d, <2>3, <2>5
  <2> QED BY ONLY <2>1, <2>3, <2>4, <2>6 DEF Abstract!Reopen
<1>6. ASSUME UNCHANGED wheelVars PROVE UNCHANGED Abstract!vars
  <2>1. T' = T /\ got' = got
    BY <1>6 DEF wheelVars
  <2>2. Deadlines' = Deadlines
    BY ONLY <1>d, <2>1
  <2> QED BY ONLY <2>1, <2>2 DEF Abstract!vars
<1>7. WheelNext \/ UNCHANGED wheelVars
  OBVIOUS
<1> QED BY ONLY <1>1, <1>2, <1>3, <1>4, <1>5, <1>6, <1>7 DEF WheelNext, Abstract!Next

\* The new wheel is an empty collection.
LEMMA InitMaps == WheelInit => Abstract!Init
<1> SUFFICES ASSUME WheelInit PROVE Abstract!Init
  OBVIOUS
<1>1. T = timeouts_init /\ got = Idle
  BY DEF WheelInit
<1>2. /\ T.curtime = 0 /\ T.interval = [t \in Timers |-> 0] /\ T.at = [t \in Timers |-> Null]
  BY ONLY <1>1 DEF timeouts_init
<1>3. Deadlines = [t \in Timers |-> Null]
  BY ONLY <1>2 DEF Deadlines
<1> QED BY ONLY <1>1, <1>2, <1>3 DEF Abstract!Init

\* The wheel implements TimerSet: timeouts_get hands out a timeout when it is due
\* and not before, once per deadline, a repeating one at multiples of its
\* interval, and answers that there is none only when none is due.
THEOREM WheelImplementsTimerSet == WheelSpec => ImplementsTimerSet
<1>1. WheelInit => Abstract!Init
  BY InitMaps
<1>2. WInv(T) /\ [WheelNext]_wheelVars => [Abstract!Next]_(Abstract!vars)
  BY StepsMap
<1> QED BY <1>1, <1>2, WheelInvariant, PTL DEF WheelSpec, ImplementsTimerSet, Abstract!Spec
=============================================================================
