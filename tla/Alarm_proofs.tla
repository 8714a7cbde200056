----------------------------- MODULE Alarm_proofs -----------------------------
(***************************************************************************)
(* Proofs about the alarms, for any number of threads and alarms, where    *)
(* Thread::locked() can be relied on: _request is worked on under the lock *)
(* only; what the offsets of Relative_List stand for; the bound on how late*)
(* an alarm is; and that the queue of offsets implements AlarmClock.       *)
(***************************************************************************)
EXTENDS Alarm, SequenceTheorems, FiniteSetTheorems, WellFoundedInduction, TLAPS

(* A thread with the lock is in an operation: there is no thread that      *)
(* Thread::locked() could mislead about itself.                            *)
HolderIsIn == \A f \in Flow : lock = f => at[f] # Idling

(* Where a thread is: outside, or in one of the four operations.           *)
Place == {Idling} \cup [op : {"construct"}, a : Alarms, t : Periods, n : Times]
                  \cup [op : {"destroy"}, a : Alarms]
                  \cup [op : {"reset"}, a : Alarms, step : {"lock", "work"}]
                  \cup [op : {"period"}, a : Alarms, t : Periods, step : {"lock", "work"}]

PlacesOK == at \in [Flow -> Place]

(* QueueLocked needs the other two: it is by HolderIsIn that a thread that *)
(* finds the lock taken, on a single processor, has taken it itself.       *)
IInv == QueueLocked /\ HolderIsIn /\ PlacesOK

(* Thread::locked() is about the caller on a single processor; on several, *)
(* only the operations that do not ask are safe.                           *)
LockedIsOwn == SMP => Calls \cap {"reset", "period"} = {}

(* Nobody works on the queue at the start.                                 *)
LEMMA InitIInv == ASSUME Null \notin Flow, Init PROVE IInv
  BY DEF Init, IInv, QueueLocked, Working, HolderIsIn, PlacesOK, Place, Idling

(* Every step of a thread and of the timer keeps it.                       *)
LEMMA NextIInv ==
  ASSUME LockedIsOwn, Null \notin Flow, IInv, [Next]_vars
  PROVE  IInv'
<1> USE DEF IInv, QueueLocked, Working, HolderIsIn, PlacesOK, Idling
<1>1. CASE UNCHANGED vars
  BY <1>1 DEF vars
<1>2. ASSUME NEW f \in Flow, NEW a \in Alarms, NEW t \in Periods, NEW n \in Times,
             Enter(f, [op |-> "construct", a |-> a, t |-> t, n |-> n])
      PROVE  IInv'
  BY <1>2 DEF Enter, Place
<1>3. ASSUME NEW f \in Flow, NEW a \in Alarms, Enter(f, [op |-> "destroy", a |-> a])
      PROVE  IInv'
  BY <1>3 DEF Enter, Place
<1>4. ASSUME NEW f \in Flow, NEW a \in Alarms,
             Ask(f, [op |-> "reset", a |-> a, step |-> "ask"])
      PROVE  IInv'
  BY <1>4 DEF Ask, Restartable, Runs, LockedIsOwn, Place
<1>5. ASSUME NEW f \in Flow, NEW a \in Alarms, NEW t \in Periods,
             Ask(f, [op |-> "period", a |-> a, t |-> t, step |-> "ask"])
      PROVE  IInv'
  BY <1>5 DEF Ask, Restartable, Runs, LockedIsOwn, Place
<1>6. ASSUME NEW f \in Flow, Construct(f) \/ Destroy(f)
      PROVE  IInv'
  BY <1>6 DEF Construct, Destroy, Place
<1>7. ASSUME NEW f \in Flow, Acquire(f)
      PROVE  IInv'
  BY <1>7 DEF Acquire, Place
<1>8. ASSUME NEW f \in Flow, Reset(f) \/ Period(f)
      PROVE  IInv'
  BY <1>8 DEF Reset, Period, Finish, Place
<1>9. CASE Handler \/ Call
  BY <1>9 DEF Handler, Call, vars
<1>10. QED
  BY <1>1, <1>2, <1>3, <1>4, <1>5, <1>6, <1>7, <1>8, <1>9 DEF Next

(* Whoever works on the request queue has Thread::_lock, if the build is   *)
(* for a single processor, or if reset() and period() are not used: the    *)
(* counterexample on two CPUs comes from asking Thread::locked() alone.    *)
THEOREM QueueIsLocked ==
  ASSUME LockedIsOwn, Null \notin Flow
  PROVE  Spec => []QueueLocked
<1>1. IInv => QueueLocked
  BY DEF IInv
<1>2. Init => IInv
  BY InitIInv
<1>3. IInv /\ [Next]_vars => IInv'
  BY NextIInv
<1>4. QED
  BY <1>1, <1>2, <1>3, PTL DEF Spec
-----------------------------------------------------------------------------
(* Induction over the natural numbers, for a set of them.                  *)
LEMMA Induction ==
  ASSUME NEW S, 0 \in S, \A n \in Nat : n \in S => n + 1 \in S
  PROVE  \A n \in Nat : n \in S
<1> DEFINE R == OpToRel(<, Nat)
           T == Nat \ S
<1>1. IsWellFoundedOn(R, Nat)
  BY NatLessThanWellFounded, Zenon
<1>2. \A x, y \in Nat : x < y => <<x, y>> \in R
  BY DEF OpToRel
<1> SUFFICES ASSUME T # {} PROVE FALSE
  OBVIOUS
<1>3. T \subseteq Nat
  OBVIOUS
<1>t. T # {}
  OBVIOUS
<1>u. \A x \in Nat : x \in T <=> x \notin S
  OBVIOUS
<1> HIDE DEF R, T
<1>4. PICK x \in T : \A y \in T : <<y, x>> \notin R
  BY <1>1, <1>3, <1>t, WFMin
<1>5. x \in Nat /\ x # 0
  BY <1>3, <1>u, <1>4
<1>6. x - 1 \in Nat /\ (x - 1) + 1 = x /\ x - 1 < x
  BY <1>5
<1>7. x - 1 \in T
  BY <1>4, <1>5, <1>6, <1>u
<1>8. QED
  BY <1>2, <1>4, <1>5, <1>6, <1>7

(* The ticks until each of the requests, as a function: what Due computes. *)
IsDue(q, r, d) == /\ d \in [0 .. Len(q) -> Int]
                  /\ d[0] = 0
                  /\ \A i \in 1 .. Len(q) : d[i] = d[i - 1] + r[q[i]]

(* There is such a function.                                               *)
LEMMA DueExists ==
  ASSUME NEW T, NEW q \in Seq(T), NEW r \in [T -> Int]
  PROVE  \E d : IsDue(q, r, d)
<1>1. Len(q) \in Nat /\ \A i \in 1 .. Len(q) : q[i] \in T
  BY LenProperties, ElementOfSeq
<1> DEFINE Upto(n) == \E d \in [0 .. n -> Int] : d[0] = 0 /\ \A i \in 1 .. n : d[i] = d[i - 1] + r[q[i]]
           S == {n \in Nat : n <= Len(q) => Upto(n)}
<1>2. Upto(0)
  <2> DEFINE d == [i \in 0 .. 0 |-> 0]
  <2>1. d \in [0 .. 0 -> Int] /\ d[0] = 0
    OBVIOUS
  <2>2. \A i \in 1 .. 0 : d[i] = d[i - 1] + r[q[i]]
    OBVIOUS
  <2> HIDE DEF d
  <2>3. QED
    BY <2>1, <2>2
<1>3. ASSUME NEW n \in Nat, Upto(n), n + 1 <= Len(q) PROVE Upto(n + 1)
  <2>1. PICK d \in [0 .. n -> Int] : d[0] = 0 /\ \A i \in 1 .. n : d[i] = d[i - 1] + r[q[i]]
    BY <1>3
  <2>0. n + 1 \in 1 .. Len(q) /\ r[q[n + 1]] \in Int
    BY <1>1, <1>3
  <2> DEFINE e == [i \in 0 .. n + 1 |-> IF i <= n THEN d[i] ELSE d[n] + r[q[n + 1]]]
  <2>2. e \in [0 .. n + 1 -> Int]
    BY <2>0
  <2>3. e[0] = 0
    BY <2>1
  <2>4. ASSUME NEW i \in 1 .. n + 1 PROVE e[i] = e[i - 1] + r[q[i]]
    <3>1. i - 1 \in 0 .. n /\ e[i - 1] = d[i - 1]
      OBVIOUS
    <3>2. CASE i <= n
      BY <3>1, <3>2, <2>1
    <3>3. CASE i = n + 1
      BY <3>1, <3>3
    <3>4. QED
      BY <3>2, <3>3
  <2> HIDE DEF e
  <2>5. QED
    BY <2>2, <2>3, <2>4
<1> HIDE DEF Upto
<1>4. 0 \in S
  BY <1>2
<1>5. ASSUME NEW n \in Nat, n \in S PROVE n + 1 \in S
  BY <1>1, <1>3, <1>5
<1>6. Len(q) \in S
  <2> HIDE DEF S
  <2>1. \A n \in Nat : n \in S
    BY <1>4, <1>5, Induction, Zenon
  <2>2. QED
    BY <1>1, <2>1
<1>7. Upto(Len(q))
  BY <1>1, <1>6
<1>8. QED
  BY <1>7 DEF IsDue, Upto

(* And Due computes it.                                                    *)
LEMMA DueIs ==
  ASSUME NEW T, NEW q \in Seq(T), NEW r \in [T -> Int], NEW d, IsDue(q, r, d)
  PROVE  \A i \in 0 .. Len(q) : Due(q, r, i) = d[i]
<1>1. Len(q) \in Nat /\ \A i \in 1 .. Len(q) : q[i] \in T
  BY LenProperties, ElementOfSeq
<1> DEFINE sum == CHOOSE f : f = [n \in 0 .. Len(q) |-> IF n = 0 THEN 0 ELSE f[n - 1] + r[q[n]]]
<1>2. d = [n \in 0 .. Len(q) |-> IF n = 0 THEN 0 ELSE d[n - 1] + r[q[n]]]
  BY <1>1 DEF IsDue
<1>3. sum = [n \in 0 .. Len(q) |-> IF n = 0 THEN 0 ELSE sum[n - 1] + r[q[n]]]
  BY <1>2
<1>4. \A i \in 0 .. Len(q) : Due(q, r, i) = sum[i]
  BY DEF Due
<1> HIDE DEF sum
<1> DEFINE S == {n \in Nat : n <= Len(q) => sum[n] = d[n]}
<1>5. 0 \in S
  BY <1>1, <1>3 DEF IsDue
<1>6. ASSUME NEW n \in Nat, n \in S PROVE n + 1 \in S
  <2> SUFFICES ASSUME n + 1 <= Len(q) PROVE sum[n + 1] = d[n + 1]
    OBVIOUS
  <2>1. n + 1 \in 1 .. Len(q) /\ n + 1 # 0 /\ (n + 1) - 1 = n /\ sum[n] = d[n] /\ n + 1 \in 0 .. Len(q)
    BY <1>1, <1>6
  <2>2. sum[n + 1] = sum[n] + r[q[n + 1]]
    BY <1>3, <2>1
  <2>3. d[n + 1] = d[n] + r[q[n + 1]]
    BY <2>1 DEF IsDue
  <2>4. QED
    BY <2>1, <2>2, <2>3
<1> HIDE DEF S
<1>7. \A n \in Nat : n \in S
  BY <1>5, <1>6, Induction, Zenon
<1>8. QED
  BY <1>1, <1>4, <1>7 DEF S

(* A non-empty set of numbers has a least one.                             *)
LEMMA Least ==
  ASSUME NEW S \in SUBSET Nat, S # {}
  PROVE  Min(S) \in S /\ \A y \in S : Min(S) <= y
<1> DEFINE R == OpToRel(<, Nat)
<1>1. IsWellFoundedOn(R, Nat)
  BY NatLessThanWellFounded, Zenon
<1>2. \A x, y \in Nat : x < y => <<x, y>> \in R
  BY DEF OpToRel
<1> HIDE DEF R
<1>3. PICK x \in S : \A y \in S : <<y, x>> \notin R
  BY <1>1, WFMin
<1>4. ASSUME NEW y \in S PROVE x <= y
  <2>1. x \in Nat /\ y \in Nat
    OBVIOUS
  <2>2. ~(y < x)
    BY <1>2, <1>3, <2>1
  <2>3. QED
    BY <2>1, <2>2
<1>5. \E z \in S : \A y \in S : z <= y
  BY <1>4
<1>6. QED
  BY <1>5, Zenon DEF Min

(* The elements of a concatenation.                                        *)
IsConcat(y, l, u) == /\ Len(y) = Len(l) + Len(u)
                     /\ \A i \in 1 .. Len(l) : y[i] = l[i]
                     /\ \A i \in 1 .. Len(u) : y[Len(l) + i] = u[i]

LEMMA Concatenated ==
  ASSUME NEW T, NEW l \in Seq(T), NEW u \in Seq(T),
         NEW y, y = l \o u
  PROVE  y \in Seq(T) /\ IsConcat(y, l, u)
<1>1. Len(l) \in Nat /\ Len(u) \in Nat
  BY LenProperties
<1>2. /\ y \in Seq(T) /\ Len(y) = Len(l) + Len(u)
      /\ \A i \in 1 .. Len(l) + Len(u) : y[i] = IF i <= Len(l) THEN l[i] ELSE u[i - Len(l)]
  <2>1. y \in Seq(T) /\ Len(y) = Len(l) + Len(u)
    BY ConcatProperties
  <2>2. \A i \in 1 .. Len(l) + Len(u) : y[i] = IF i <= Len(l) THEN l[i] ELSE u[i - Len(l)]
    BY ConcatProperties
  <2>3. QED
    BY <2>1, <2>2
<1>3. ASSUME NEW i \in 1 .. Len(l) PROVE y[i] = l[i]
  BY <1>1, <1>2
<1>4. ASSUME NEW i \in 1 .. Len(u) PROVE y[Len(l) + i] = u[i]
  <2>1. Len(l) + i \in 1 .. Len(l) + Len(u) /\ ~(Len(l) + i <= Len(l)) /\ Len(l) + i - Len(l) = i
    BY <1>1
  <2>2. QED
    BY <1>2, <2>1
<1>5. QED
  BY <1>2, <1>3, <1>4 DEF IsConcat

(* Two parts of a sequence, joined.                                        *)
IsJoin(x, q, m, n, u) == /\ Len(x) = m + Len(u) + (Len(q) - n + 1)
                         /\ \A i \in 1 .. m : x[i] = q[i]
                         /\ \A i \in 1 .. Len(u) : x[m + i] = u[i]
                         /\ \A i \in n .. Len(q) : x[m + Len(u) + (i - n + 1)] = q[i]

LEMMA Joined ==
  ASSUME NEW T, NEW q \in Seq(T), NEW m \in 0 .. Len(q), NEW n \in 1 .. Len(q) + 1,
         NEW u \in Seq(T), NEW x, x = SubSeq(q, 1, m) \o u \o SubSeq(q, n, Len(q))
  PROVE  x \in Seq(T) /\ IsJoin(x, q, m, n, u)
<1>1. Len(q) \in Nat /\ \A i \in 1 .. Len(q) : q[i] \in T
  BY LenProperties, ElementOfSeq
<1>2. PICK l, r : l = SubSeq(q, 1, m) /\ r = SubSeq(q, n, Len(q))
  OBVIOUS
<1>3. l \in Seq(T) /\ Len(l) = m /\ \A i \in 1 .. m : l[i] = q[i]
  <2>1. \A i \in 1 .. m : q[i] \in T
    BY <1>1
  <2>2. /\ l \in Seq(T) /\ Len(l) = IF 1 <= m THEN m - 1 + 1 ELSE 0
        /\ \A i \in 1 .. m - 1 + 1 : l[i] = q[1 + i - 1]
    BY <1>1, <1>2, <2>1, SubSeqProperties
  <2>3. QED
    BY <1>1, <2>2
<1>4. r \in Seq(T) /\ Len(r) = Len(q) - n + 1 /\ \A i \in 1 .. Len(q) - n + 1 : r[i] = q[n + i - 1]
  <2>1. \A i \in n .. Len(q) : q[i] \in T
    BY <1>1
  <2>2. /\ r \in Seq(T) /\ Len(r) = IF n <= Len(q) THEN Len(q) - n + 1 ELSE 0
        /\ \A i \in 1 .. Len(q) - n + 1 : r[i] = q[n + i - 1]
    BY <1>1, <1>2, <2>1, SubSeqProperties
  <2>3. Len(r) = Len(q) - n + 1
    <3>1. Len(q) \in Nat /\ n \in Int /\ n <= Len(q) + 1
      BY <1>1
    <3>2. QED
      BY <2>2, <3>1
  <2>4. QED
    BY <2>2, <2>3
<1>5. Len(u) \in Nat
  BY LenProperties
<1>8. PICK y : y = l \o u
  OBVIOUS
<1>6. /\ y \in Seq(T) /\ Len(y) = Len(l) + Len(u)
      /\ \A i \in 1 .. Len(l) : y[i] = l[i]
      /\ \A i \in 1 .. Len(u) : y[Len(l) + i] = u[i]
  <2>1. y \in Seq(T) /\ IsConcat(y, l, u)
    <3>1. l \in Seq(T)
      BY <1>3
    <3> QED
      BY <1>8, <3>1, Concatenated, Zenon
  <2>2. QED
    BY <2>1 DEF IsConcat
<1>7. /\ x \in Seq(T) /\ Len(x) = Len(y) + Len(r)
      /\ \A i \in 1 .. Len(y) : x[i] = y[i]
      /\ \A i \in 1 .. Len(r) : x[Len(y) + i] = r[i]
  <2>1. x \in Seq(T) /\ IsConcat(x, y, r)
    <3>1. x = y \o r
      BY <1>2, <1>8, Zenon
    <3>2. r \in Seq(T) /\ y \in Seq(T)
      BY <1>4, <1>6
    <3> QED
      BY <3>1, <3>2, Concatenated, Zenon
  <2>2. QED
    BY <2>1 DEF IsConcat
<1>10. ASSUME NEW i \in n .. Len(q) PROVE x[m + Len(u) + (i - n + 1)] = q[i]
  <2>1. i - n + 1 \in 1 .. Len(q) - n + 1 /\ n + (i - n + 1) - 1 = i
    BY <1>1
  <2>2. QED
    <3>1. i - n + 1 \in 1 .. Len(r) /\ Len(y) = m + Len(u)
      BY <1>3, <1>4, <1>6, <2>1
    <3>2. x[Len(y) + (i - n + 1)] = r[i - n + 1]
      BY <1>7, <3>1
    <3>3. QED
      BY <1>4, <2>1, <3>1, <3>2
<1>11. Len(x) = m + Len(u) + (Len(q) - n + 1)
  BY <1>3, <1>4, <1>6, <1>7
<1>12. ASSUME NEW i \in 1 .. m PROVE x[i] = q[i]
  <2>1. i \in 1 .. Len(l) /\ i \in 1 .. Len(y)
    BY <1>1, <1>3, <1>5, <1>6, <1>7
  <2>2. QED
    BY <1>3, <1>6, <1>7, <2>1
<1>13. ASSUME NEW i \in 1 .. Len(u) PROVE x[m + i] = u[i]
  <2>1. m + i \in 1 .. Len(y)
    BY <1>3, <1>5, <1>6, <1>7
  <2>2. QED
    BY <1>3, <1>6, <1>7, <2>1
<1>14. QED
  BY <1>7, <1>10, <1>11, <1>12, <1>13 DEF IsJoin

(* Each alarm is in the queue once.                                        *)
Distinct(q) == \A i, j \in 1 .. Len(q) : q[i] = q[j] => i = j

LEMMA InsertAtPositions ==
  ASSUME NEW q \in Seq(Alarms), NEW p \in 1 .. Len(q) + 1, NEW a \in Alarms
  PROVE  /\ InsertAt(q, p, a) \in Seq(Alarms) /\ Len(InsertAt(q, p, a)) = Len(q) + 1
         /\ \A i \in 1 .. p - 1 : InsertAt(q, p, a)[i] = q[i]
         /\ InsertAt(q, p, a)[p] = a
         /\ \A i \in p .. Len(q) : InsertAt(q, p, a)[i + 1] = q[i]
<1>1. Len(q) \in Nat
  BY LenProperties
<1>2. PICK u : u = <<a>>
  OBVIOUS
<1>3. u \in Seq(Alarms) /\ Len(u) = 1 /\ u[1] = a
  BY <1>2
<1>5. PICK m : m = p - 1 /\ m \in 0 .. Len(q)
  BY <1>1
<1>4. PICK x : x = InsertAt(q, p, a)
  OBVIOUS
<1>6. /\ x \in Seq(Alarms) /\ Len(x) = m + Len(u) + (Len(q) - p + 1)
      /\ \A i \in 1 .. m : x[i] = q[i]
      /\ \A i \in 1 .. Len(u) : x[m + i] = u[i]
      /\ \A i \in p .. Len(q) : x[m + Len(u) + (i - p + 1)] = q[i]
  <2>1. x \in Seq(Alarms) /\ IsJoin(x, q, m, p, u)
    <3>1. x = SubSeq(q, 1, m) \o u \o SubSeq(q, p, Len(q))
      BY <1>2, <1>4, <1>5, Zenon DEF InsertAt
    <3>2. u \in Seq(Alarms) /\ m \in 0 .. Len(q)
      BY <1>3, <1>5
    <3> QED
      BY <3>1, <3>2, Joined, Zenon
  <2>2. QED
    BY <2>1 DEF IsJoin
<1>7. Len(x) = Len(q) + 1
  BY <1>1, <1>3, <1>5, <1>6
<1>8. x[p] = a
  <2>1. 1 \in 1 .. Len(u) /\ m + 1 = p
    BY <1>1, <1>3, <1>5
  <2>2. QED
    BY <1>3, <1>6, <2>1
<1>9. ASSUME NEW i \in p .. Len(q) PROVE x[i + 1] = q[i]
  <2>1. m + Len(u) + (i - p + 1) = i + 1
    BY <1>1, <1>3, <1>5
  <2>2. QED
    BY <1>6, <2>1
<1>10. QED
  BY <1>4, <1>5, <1>6, <1>7, <1>8, <1>9

LEMMA RemoveAtPositions ==
  ASSUME NEW q \in Seq(Alarms), NEW p \in 1 .. Len(q)
  PROVE  /\ RemoveAt(q, p) \in Seq(Alarms) /\ Len(RemoveAt(q, p)) = Len(q) - 1
         /\ \A i \in 1 .. p - 1 : RemoveAt(q, p)[i] = q[i]
         /\ \A i \in p .. Len(q) - 1 : RemoveAt(q, p)[i] = q[i + 1]
<1>1. Len(q) \in Nat
  BY LenProperties
<1>2. PICK u : u = <<>>
  OBVIOUS
<1>3. u \in Seq(Alarms) /\ Len(u) = 0
  BY <1>2
<1>4. PICK l : l = SubSeq(q, 1, p - 1)
  OBVIOUS
<1>5. PICK m, n : m = p - 1 /\ n = p + 1 /\ m \in 0 .. Len(q) /\ n \in 1 .. Len(q) + 1
  BY <1>1
<1>6. l \in Seq(Alarms)
  <2>1. \A i \in 1 .. p - 1 : q[i] \in Alarms
    BY <1>1, ElementOfSeq
  <2>2. QED
    BY <1>4, <1>5, <2>1, SubSeqProperties
<1>7. l \o u = l
  BY <1>2, <1>6
<1>8. PICK x : x = RemoveAt(q, p)
  OBVIOUS
<1>9. /\ x \in Seq(Alarms) /\ Len(x) = m + Len(u) + (Len(q) - n + 1)
      /\ \A i \in 1 .. m : x[i] = q[i]
      /\ \A i \in n .. Len(q) : x[m + Len(u) + (i - n + 1)] = q[i]
  <2>1. x \in Seq(Alarms) /\ IsJoin(x, q, m, n, u)
    <3>1. x = SubSeq(q, 1, m) \o u \o SubSeq(q, n, Len(q))
      BY <1>4, <1>5, <1>7, <1>8, Zenon DEF RemoveAt
    <3>2. u \in Seq(Alarms) /\ m \in 0 .. Len(q) /\ n \in 1 .. Len(q) + 1
      BY <1>3, <1>5
    <3> QED
      BY <3>1, <3>2, Joined, Zenon
  <2>2. QED
    BY <2>1 DEF IsJoin
<1>10. Len(x) = Len(q) - 1
  BY <1>1, <1>3, <1>5, <1>9
<1>11. ASSUME NEW i \in p .. Len(q) - 1 PROVE x[i] = q[i + 1]
  <2>1. i + 1 \in n .. Len(q) /\ m + Len(u) + ((i + 1) - n + 1) = i
    BY <1>1, <1>3, <1>5
  <2>2. QED
    BY <1>9, <2>1
<1>12. QED
  BY <1>5, <1>8, <1>9, <1>10, <1>11

-----------------------------------------------------------------------------
(* What Due does from one request to the next.                             *)
LEMMA DueSteps ==
  ASSUME NEW q \in Seq(Alarms), NEW r \in [Alarms -> Int]
  PROVE  /\ Due(q, r, 0) = 0
         /\ \A i \in 0 .. Len(q) : Due(q, r, i) \in Int
         /\ \A i \in 1 .. Len(q) : Due(q, r, i) = Due(q, r, i - 1) + r[q[i]]
<1>0. Len(q) \in Nat
  BY LenProperties
<1>1. PICK d : IsDue(q, r, d)
  BY DueExists
<1>2. \A i \in 0 .. Len(q) : Due(q, r, i) = d[i]
  BY <1>1, DueIs
<1>3. /\ d[0] = 0 /\ \A i \in 0 .. Len(q) : d[i] \in Int
      /\ \A i \in 1 .. Len(q) : d[i] = d[i - 1] + r[q[i]]
  BY <1>1 DEF IsDue
<1>4. ASSUME NEW i \in 1 .. Len(q) PROVE Due(q, r, i) = Due(q, r, i - 1) + r[q[i]]
  <2>1. i \in 0 .. Len(q) /\ i - 1 \in 0 .. Len(q)
    BY <1>0
  <2>2. Due(q, r, i) = d[i] /\ Due(q, r, i - 1) = d[i - 1] /\ d[i] = d[i - 1] + r[q[i]]
    BY <1>2, <1>3, <2>1
  <2>3. QED
    BY <2>2
<1>5. ASSUME NEW i \in 0 .. Len(q) PROVE Due(q, r, i) \in Int
  <2>1. Due(q, r, i) = d[i] /\ d[i] \in Int
    BY <1>2, <1>3
  <2>2. QED
    BY <2>1
<1>6. Due(q, r, 0) = 0
  <2>1. 0 \in 0 .. Len(q)
    BY <1>0
  <2>2. Due(q, r, 0) = d[0] /\ d[0] = 0
    BY <1>2, <1>3, <2>1
  <2>3. QED
    BY <2>2
<1>7. QED
  BY <1>4, <1>5, <1>6

(* A function that takes the same steps is Due.                            *)
LEMMA DueUnique ==
  ASSUME NEW q \in Seq(Alarms), NEW r \in [Alarms -> Int], NEW d, IsDue(q, r, d)
  PROVE  \A i \in 1 .. Len(q) : Due(q, r, i) = d[i]
<1>0. Len(q) \in Nat
  BY LenProperties
<1>2. \A i \in 0 .. Len(q) : Due(q, r, i) = d[i]
  BY DueIs
<1>3. QED
  BY <1>0, <1>2

(* The offsets of alarms that are not in the queue do not matter.          *)
LEMMA DueSame ==
  ASSUME NEW q \in Seq(Alarms), NEW r \in [Alarms -> Int], NEW s \in [Alarms -> Int],
         \A i \in 1 .. Len(q) : s[q[i]] = r[q[i]]
  PROVE  \A i \in 1 .. Len(q) : Due(q, s, i) = Due(q, r, i)
<1>1. PICK d : IsDue(q, r, d)
  BY DueExists
<1>2. IsDue(q, s, d)
  BY <1>1 DEF IsDue
<1>3. \A i \in 1 .. Len(q) : Due(q, s, i) = d[i]
  BY <1>2, DueUnique, SMTT(30)
<1>4. \A i \in 1 .. Len(q) : Due(q, r, i) = d[i]
  BY <1>1, DueUnique, SMTT(30)
<1>5. QED
  BY <1>3, <1>4, Zenon

(* The queue is sorted by the ticks left, each alarm in it once.           *)
Sorted(q, r) == \A i, j \in 1 .. Len(q) : i <= j => Due(q, r, i) <= Due(q, r, j)
QueueOK(q, r) == q \in Seq(Alarms) /\ r \in [Alarms -> Int] /\ Distinct(q) /\ Sorted(q, r)

(* m is q with a, which has t ticks left, at place p.                      *)
InsertedHere(q, r, m, s, a, t, p) ==
  /\ p \in 1 .. Len(q) + 1 /\ m \in Seq(Alarms) /\ Len(m) = Len(q) + 1 /\ s \in [Alarms -> Int]
  /\ m[p] = a /\ Due(m, s, p) = t
  /\ \A i \in 1 .. p - 1 : m[i] = q[i] /\ Due(m, s, i) = Due(q, r, i) /\ Due(q, r, i) <= t
  /\ \A i \in p .. Len(q) : m[i + 1] = q[i] /\ Due(m, s, i + 1) = Due(q, r, i) /\ Due(q, r, i) > t

LEMMA InsertedIs ==
  ASSUME NEW q, NEW r, QueueOK(q, r), NEW a \in Alarms, a \notin ToSet(q), NEW n,
         n = Inserted([q |-> q, r |-> r], a)
  PROVE  \E p : InsertedHere(q, r, n.q, n.r, a, r[a], p)
<1>1. /\ q \in Seq(Alarms) /\ r \in [Alarms -> Int] /\ Distinct(q) /\ Len(q) \in Nat
      /\ Sorted(q, r) /\ r[a] \in Int
      /\ \A i \in 1 .. Len(q) : q[i] \in Alarms /\ q[i] # a
  BY LenProperties, ElementOfSeq DEF QueueOK, ToSet
<1> DEFINE S == {i \in 1 .. Len(q) + 1 : i <= Len(q) => Due(q, r, i) > r[a]}
           p == Min(S)
           D(i) == Due(q, r, i)
           own == r[a] - D(p - 1)
           s == IF p > Len(q) THEN [r EXCEPT ![a] = own] ELSE [r EXCEPT ![a] = own, ![q[p]] = @ - own]
           m == InsertAt(q, p, a)
<1>2. n = [q |-> m, r |-> s]
  BY DEF Inserted
<1>3. p \in S /\ \A y \in S : p <= y
  <2>1. Len(q) + 1 \in S /\ S \in SUBSET Nat
    BY <1>1
  <2> HIDE DEF S
  <2>2. QED
    BY <2>1, Least
<1>4. p \in 1 .. Len(q) + 1 /\ (p <= Len(q) => D(p) > r[a])
  BY <1>3
<1>5. \A i \in 1 .. p - 1 : D(i) <= r[a]
  <2> SUFFICES ASSUME NEW i \in 1 .. p - 1 PROVE D(i) <= r[a]
    OBVIOUS
  <2>1. i \in 1 .. Len(q) /\ i \notin S
    BY <1>1, <1>3, <1>4
  <2>2. D(i) \in Int
    BY <1>1, <2>1, DueSteps
  <2>3. QED
    BY <1>1, <2>1, <2>2
<1> HIDE DEF p, S
<1>6. /\ m \in Seq(Alarms) /\ Len(m) = Len(q) + 1 /\ m[p] = a
      /\ \A i \in 1 .. p - 1 : m[i] = q[i]
      /\ \A i \in p .. Len(q) : m[i + 1] = q[i]
  <2>1. q \in Seq(Alarms) /\ p \in 1 .. Len(q) + 1 /\ a \in Alarms
    BY <1>1, <1>4
  <2>2. /\ InsertAt(q, p, a) \in Seq(Alarms) /\ Len(InsertAt(q, p, a)) = Len(q) + 1
        /\ \A i \in 1 .. p - 1 : InsertAt(q, p, a)[i] = q[i]
        /\ InsertAt(q, p, a)[p] = a
        /\ \A i \in p .. Len(q) : InsertAt(q, p, a)[i + 1] = q[i]
    BY <2>1, InsertAtPositions, SMTT(30)
  <2>3. QED
    BY <2>2, Zenon
<1> HIDE DEF m
<1>7. D(0) = 0 /\ (\A i \in 0 .. Len(q) : D(i) \in Int)
      /\ \A i \in 1 .. Len(q) : D(i) = D(i - 1) + r[q[i]]
  BY <1>1, DueSteps
<1>8. p - 1 \in 0 .. Len(q) /\ own \in Int
  BY <1>1, <1>4, <1>7
<1>9. s \in [Alarms -> Int]
  <2> HIDE DEF own, D
  <2>1. CASE p > Len(q)
    BY <1>1, <1>8, <2>1
  <2>2. CASE ~(p > Len(q))
    <3>1. r[q[p]] \in Int
      BY <1>1, <1>4, <2>2
    <3>2. r[q[p]] - own \in Int
      BY <1>8, <3>1
    <3>3. QED
      BY <1>1, <1>8, <2>2, <3>2
  <2>3. QED
    BY <2>1, <2>2
<1>10. s[a] = own
  <2> HIDE DEF own, D
  <2>1. p <= Len(q) => q[p] # a
    BY <1>1, <1>4
  <2>2. QED
    BY <1>1, <1>4, <2>1
<1>11. ASSUME NEW i \in 1 .. Len(q), i # p PROVE s[q[i]] = r[q[i]]
  <2>1. q[i] \in Alarms /\ q[i] # a
    BY <1>1
  <2>2. p <= Len(q) => q[p] # q[i]
    BY <1>1, <1>4, <1>11 DEF Distinct
  <2>0. p <= Len(q) => q[p] \in Alarms
    BY <1>1, <1>4
  <2>p. p \in Int
    BY <1>4
  <2> HIDE DEF own, D
  <2>3. CASE p > Len(q)
    BY <1>1, <2>1, <2>3
  <2>4. CASE p <= Len(q)
    BY <1>1, <2>0, <2>1, <2>2, <2>4, <2>p
  <2>5. QED
    BY <1>1, <2>3, <2>4, <2>p
<1>12. ASSUME p <= Len(q) PROVE s[q[p]] = r[q[p]] - own
  <2>1. q[p] \in Alarms /\ q[p] # a
    BY <1>1, <1>4, <1>12
  <2> HIDE DEF own, D
  <2>3. QED
    BY <1>1, <1>4, <1>12, <2>1
<1> HIDE DEF s
<1> DEFINE d == [i \in 0 .. Len(m) |-> IF i < p THEN D(i) ELSE IF i = p THEN r[a] ELSE D(i - 1)]
<1>13. d \in [0 .. Len(m) -> Int] /\ d[0] = 0
  <2> HIDE DEF D
  <2>1. d[0] = 0
    BY <1>1, <1>4, <1>6, <1>7
  <2>2. ASSUME NEW i \in 0 .. Len(m) PROVE d[i] \in Int
    BY <1>1, <1>4, <1>6, <1>7
  <2>3. QED
    BY <2>1, <2>2
<1>14. ASSUME NEW i \in 1 .. Len(m) PROVE d[i] = d[i - 1] + s[m[i]]
  <2>0. own = r[a] - D(p - 1)
    OBVIOUS
  <2> HIDE DEF D, own
  <2>i. i \in Int /\ i - 1 \in 0 .. Len(m) /\ i \in 0 .. Len(m) /\ p \in Int
    BY <1>1, <1>4, <1>6
  <2>1. CASE i < p
    <3>1. i \in 1 .. Len(q) /\ i \in 1 .. p - 1 /\ i - 1 < p
      BY <2>1, <2>i, <1>1, <1>4, <1>6
    <3>2. d[i] = D(i) /\ d[i - 1] = D(i - 1)
      BY <2>1, <2>i, <3>1
    <3>3. s[m[i]] = r[q[i]]
      BY <2>1, <2>i, <3>1, <1>6, <1>11
    <3>4. QED
      BY <1>7, <3>1, <3>2, <3>3
  <2>2. CASE i = p
    <3>1. d[i] = r[a] /\ d[i - 1] = D(p - 1)
      BY <2>2, <2>i
    <3>2. s[m[i]] = own
      BY <2>2, <1>6, <1>10
    <3>3. QED
      BY <1>1, <1>7, <1>8, <2>0, <3>1, <3>2
  <2>3. CASE i = p + 1
    <3>1. p \in 1 .. Len(q) /\ p <= Len(q) /\ i - 1 = p /\ p \in p .. Len(q)
      BY <2>3, <1>1, <1>4, <1>6
    <3>2. d[i] = D(p) /\ d[i - 1] = r[a]
      BY <2>3, <2>i, <3>1
    <3>3. s[m[i]] = r[q[p]] - own
      BY <2>3, <3>1, <1>6, <1>12
    <3>4. D(p) = D(p - 1) + r[q[p]] /\ r[q[p]] \in Int
      BY <1>1, <1>7, <3>1
    <3>5. D(p - 1) \in Int
      BY <1>7, <1>8
    <3> HIDE DEF d
    <3>6. QED
      BY <1>1, <2>0, <3>2, <3>3, <3>4, <3>5
  <2>4. CASE i > p + 1
    <3>1. i - 1 \in 1 .. Len(q) /\ i - 1 \in p .. Len(q)
      BY <2>4, <2>i, <1>1, <1>4, <1>6
    <3>0. i - 1 # p /\ (i - 1) + 1 = i /\ ~(i < p) /\ ~(i - 1 < p) /\ i # p
      BY <2>4, <2>i
    <3>2. d[i] = D(i - 1) /\ d[i - 1] = D(i - 1 - 1)
      BY <2>i, <3>0
    <3>3. s[m[i]] = r[q[i - 1]]
      <4>1. m[i] = q[i - 1]
        BY <3>0, <3>1, <1>6
      <4>2. QED
        BY <4>1, <3>0, <3>1, <1>11
    <3>4. D(i - 1) = D(i - 1 - 1) + r[q[i - 1]]
      BY <1>7, <3>1
    <3> HIDE DEF d
    <3>5. QED
      BY <3>2, <3>3, <3>4
  <2>5. QED
    BY <2>i, <2>1, <2>2, <2>3, <2>4
<1>15. IsDue(m, s, d)
  BY <1>13, <1>14 DEF IsDue
<1>16. \A i \in 1 .. Len(m) : Due(m, s, i) = d[i]
  BY <1>6, <1>9, <1>15, DueUnique, SMTT(30)
<1>17. Due(m, s, p) = r[a]
  <2>1. p \in 1 .. Len(m) /\ p \in 0 .. Len(m)
    BY <1>1, <1>4, <1>6
  <2> HIDE DEF D
  <2>2. d[p] = r[a]
    BY <2>1
  <2> HIDE DEF d
  <2>3. QED
    BY <1>16, <2>1, <2>2
<1>18. ASSUME NEW i \in 1 .. p - 1 PROVE m[i] = q[i] /\ Due(m, s, i) = Due(q, r, i) /\ Due(q, r, i) <= r[a]
  <2> HIDE DEF d
  <2>1. i \in 1 .. Len(m)
    BY <1>1, <1>4, <1>6
  <2>2. d[i] = D(i)
    BY <1>4, <2>1 DEF d
  <2>3. QED
    BY <1>5, <1>6, <1>16, <2>1, <2>2
<1>19. ASSUME NEW i \in p .. Len(q) PROVE m[i + 1] = q[i] /\ Due(m, s, i + 1) = Due(q, r, i) /\ Due(q, r, i) > r[a]
  <2>1. i + 1 \in 1 .. Len(m) /\ i \in 1 .. Len(q) /\ p \in 1 .. Len(q) /\ p <= Len(q) /\ p <= i
    BY <1>1, <1>4, <1>6
  <2>2. d[i + 1] = D(i)
    <3>1. ~(i + 1 < p) /\ i + 1 # p /\ i + 1 - 1 = i
      BY <2>1
    <3> HIDE DEF D
    <3>2. QED
      BY <1>4, <2>1, <3>1
  <2> HIDE DEF d
  <2>3. D(p) <= D(i) /\ D(p) > r[a] /\ D(p) \in Int /\ D(i) \in Int
    BY <1>1, <1>4, <1>7, <2>1 DEF Sorted
  <2>4. m[i + 1] = q[i]
    BY <1>6
  <2>5. Due(m, s, i + 1) = D(i)
    BY <1>16, <2>1, <2>2
  <2>6. D(i) > r[a]
    BY <1>1, <2>3
  <2>7. QED
    BY <2>4, <2>5, <2>6
<1> HIDE DEF d
<1>20. InsertedHere(q, r, m, s, a, r[a], p)
  BY <1>4, <1>6, <1>9, <1>17, <1>18, <1>19 DEF InsertedHere
<1>21. QED
  BY <1>2, <1>20

(* m is q without the alarm a, which was at place p.                       *)
RemovedHere(q, r, m, s, a, p) ==
  /\ p \in 1 .. Len(q) /\ q[p] = a
  /\ m \in Seq(Alarms) /\ Len(m) = Len(q) - 1 /\ s \in [Alarms -> Int] /\ s[a] = r[a]
  /\ \A i \in 1 .. p - 1 : m[i] = q[i] /\ Due(m, s, i) = Due(q, r, i)
  /\ \A i \in p .. Len(q) - 1 : m[i] = q[i + 1] /\ Due(m, s, i) = Due(q, r, i + 1)

LEMMA RemovedIs ==
  ASSUME NEW q, NEW r, QueueOK(q, r), NEW a \in Alarms, a \in ToSet(q), NEW n,
         n = Removed([q |-> q, r |-> r], a)
  PROVE  \E p : RemovedHere(q, r, n.q, n.r, a, p)
<1>1. /\ q \in Seq(Alarms) /\ r \in [Alarms -> Int] /\ Distinct(q) /\ Len(q) \in Nat
      /\ r[a] \in Int /\ DOMAIN q = 1 .. Len(q)
      /\ \A i \in 1 .. Len(q) : q[i] \in Alarms
  BY LenProperties, ElementOfSeq DEF QueueOK
<1> DEFINE D(i) == Due(q, r, i)
           p == CHOOSE i \in DOMAIN q : q[i] = a
           s == IF p = Len(q) THEN r ELSE [r EXCEPT ![q[p + 1]] = @ + r[a]]
           m == RemoveAt(q, p)
<1>2. n = [q |-> m, r |-> s]
  BY DEF Removed
<1>3. p \in 1 .. Len(q) /\ q[p] = a
  BY <1>1 DEF ToSet
<1> HIDE DEF p
<1>p. Len(q) \in Nat
  BY <1>1
<1>b. p \in Int /\ 1 <= p /\ p <= Len(q)
  BY <1>3, <1>p
<1>4. /\ m \in Seq(Alarms) /\ Len(m) = Len(q) - 1
      /\ \A i \in 1 .. p - 1 : m[i] = q[i]
      /\ \A i \in p .. Len(q) - 1 : m[i] = q[i + 1]
  BY <1>1, <1>3, RemoveAtPositions
<1> HIDE DEF m
<1>5. D(0) = 0 /\ (\A i \in 0 .. Len(q) : D(i) \in Int)
      /\ \A i \in 1 .. Len(q) : D(i) = D(i - 1) + r[q[i]]
  BY <1>1, DueSteps
<1>6. p # Len(q) => /\ p + 1 \in 1 .. Len(q) /\ q[p + 1] \in Alarms /\ q[p + 1] # a
                    /\ r[q[p + 1]] + r[a] \in Int
  <2> SUFFICES ASSUME p # Len(q) PROVE /\ p + 1 \in 1 .. Len(q) /\ q[p + 1] \in Alarms /\ q[p + 1] # a
                    /\ r[q[p + 1]] + r[a] \in Int
    OBVIOUS
  <2>0. p \in Int /\ p < Len(q) /\ p >= 1
    BY <1>b, <1>p
  <2>1. p + 1 \in 1 .. Len(q) /\ p + 1 # p
    BY <1>p, <2>0
  <2>2. q[p + 1] \in Alarms /\ q[p + 1] # a
    BY <1>1, <1>3, <2>1 DEF Distinct
  <2>3. QED
    BY <1>1, <2>1, <2>2
<1>9. s \in [Alarms -> Int] /\ s[a] = r[a]
  <2>1. CASE p = Len(q)
    BY <1>1, <2>1
  <2>2. CASE p # Len(q)
    BY <1>1, <1>6, <2>2
  <2>3. QED
    BY <2>1, <2>2
<1>11. ASSUME NEW i \in 1 .. Len(q), i # p + 1 PROVE s[q[i]] = r[q[i]]
  <2>1. q[i] \in Alarms
    BY <1>1
  <2>2. p # Len(q) => q[p + 1] # q[i]
    BY <1>1, <1>6, <1>11 DEF Distinct
  <2>3. QED
    BY <1>1, <1>6, <2>1, <2>2
<1>12. ASSUME p # Len(q) PROVE s[q[p + 1]] = r[q[p + 1]] + r[a]
  BY <1>1, <1>6, <1>12
<1> HIDE DEF s
<1> DEFINE d == [i \in 0 .. Len(m) |-> IF i < p THEN D(i) ELSE D(i + 1)]
<1>13. d \in [0 .. Len(m) -> Int] /\ d[0] = 0
  <2> HIDE DEF D
  <2>1. d[0] = 0
    BY <1>1, <1>3, <1>4, <1>5
  <2>2. ASSUME NEW i \in 0 .. Len(m) PROVE d[i] \in Int
    <3>1. i \in 0 .. Len(q) /\ i + 1 \in 0 .. Len(q)
      BY <1>1, <1>3, <1>4
    <3>2. D(i) \in Int /\ D(i + 1) \in Int
      BY <1>5, <3>1
    <3>3. QED
      BY <3>2
  <2>3. QED
    BY <2>1, <2>2
<1>14. ASSUME NEW i \in 1 .. Len(m) PROVE d[i] = d[i - 1] + s[m[i]]
  <2> HIDE DEF D
  <2>i. i \in Int /\ i - 1 \in 0 .. Len(m) /\ i \in 0 .. Len(m) /\ p \in Int
    BY <1>1, <1>3, <1>4
  <2>1. CASE i < p
    <3>1. i \in 1 .. Len(q) /\ i \in 1 .. p - 1 /\ i - 1 < p
      BY <2>1, <2>i, <1>1, <1>3, <1>4
    <3>0. i # p + 1
      BY <2>1, <2>i
    <3>2. d[i] = D(i) /\ d[i - 1] = D(i - 1)
      BY <2>1, <2>i, <3>1
    <3>3. s[m[i]] = r[q[i]]
      BY <2>1, <2>i, <3>0, <3>1, <1>4, <1>11
    <3>4. QED
      BY <1>5, <3>1, <3>2, <3>3
  <2>2. CASE i = p
    <3>1. p # Len(q) /\ p \in p .. Len(q) - 1
      BY <2>2, <1>1, <1>3, <1>4
    <3>2. d[i] = D(p + 1) /\ d[i - 1] = D(p - 1)
      BY <2>2, <2>i
    <3>3. s[m[i]] = r[q[p + 1]] + r[a]
      BY <2>2, <3>1, <1>4, <1>12
    <3>4. D(p) = D(p - 1) + r[a] /\ D(p + 1) = D(p) + r[q[p + 1]]
      <4>1. p + 1 - 1 = p
        BY <2>i
      <4>2. QED
        BY <1>3, <1>5, <1>6, <3>1, <4>1
    <3>5. D(p - 1) \in Int /\ r[q[p + 1]] \in Int
      <4>1. p - 1 \in 0 .. Len(q)
        BY <1>1, <1>3
      <4>2. D(p - 1) \in Int
        BY <1>5, <4>1
      <4>3. QED
        BY <1>1, <1>6, <3>1, <4>2
    <3> HIDE DEF d
    <3>6. QED
      BY <1>1, <3>2, <3>3, <3>4, <3>5
  <2>4. CASE i > p
    <3>1. i + 1 \in 1 .. Len(q) /\ i \in p .. Len(q) - 1
      BY <2>4, <2>i, <1>1, <1>3, <1>4
    <3>0. i + 1 # p + 1 /\ (i - 1) + 1 = i /\ ~(i < p) /\ ~(i - 1 < p) /\ (i + 1) - 1 = i
      BY <2>4, <2>i
    <3>2. d[i] = D(i + 1) /\ d[i - 1] = D(i)
      BY <2>i, <3>0
    <3>3. s[m[i]] = r[q[i + 1]]
      BY <3>0, <3>1, <1>4, <1>11
    <3>4. D(i + 1) = D(i) + r[q[i + 1]]
      BY <1>5, <3>0, <3>1
    <3> HIDE DEF d
    <3>5. QED
      BY <3>2, <3>3, <3>4
  <2>5. QED
    BY <2>i, <2>1, <2>2, <2>4
<1>15. IsDue(m, s, d)
  BY <1>13, <1>14 DEF IsDue
<1>16. \A i \in 1 .. Len(m) : Due(m, s, i) = d[i]
  BY <1>4, <1>9, <1>15, DueUnique, SMTT(30)
<1>18. ASSUME NEW i \in 1 .. p - 1 PROVE m[i] = q[i] /\ Due(m, s, i) = Due(q, r, i)
  <2> HIDE DEF d
  <2>1. i \in 1 .. Len(m)
    BY <1>1, <1>3, <1>4
  <2>2. d[i] = D(i)
    BY <1>3, <2>1 DEF d
  <2>3. QED
    BY <1>4, <1>16, <2>1, <2>2
<1>19. ASSUME NEW i \in p .. Len(q) - 1 PROVE m[i] = q[i + 1] /\ Due(m, s, i) = Due(q, r, i + 1)
  <2>1. i \in 1 .. Len(m) /\ ~(i < p)
    BY <1>1, <1>3, <1>4
  <2>2. d[i] = D(i + 1)
    <3> HIDE DEF D
    <3>2. QED
      BY <2>1
  <2> HIDE DEF d
  <2>3. m[i] = q[i + 1]
    BY <1>4
  <2>4. Due(m, s, i) = D(i + 1)
    BY <1>16, <2>1, <2>2
  <2>5. QED
    BY <2>3, <2>4
<1> HIDE DEF d
<1>20. RemovedHere(q, r, m, s, a, p)
  BY <1>3, <1>4, <1>9, <1>18, <1>19 DEF RemovedHere
<1>21. QED
  BY <1>2, <1>20

(* A tick: the head's offset is one less, and everything is due one tick   *)
(* earlier.                                                                *)
LEMMA TickedIs ==
  ASSUME NEW q, NEW r, QueueOK(q, r), q # <<>>, NEW s, s = [r EXCEPT ![Head(q)] = @ - 1]
  PROVE  QueueOK(q, s) /\ \A i \in 1 .. Len(q) : Due(q, s, i) = Due(q, r, i) - 1
<1>1. /\ q \in Seq(Alarms) /\ r \in [Alarms -> Int] /\ Distinct(q) /\ Len(q) \in Nat /\ Sorted(q, r)
      /\ \A i \in 1 .. Len(q) : q[i] \in Alarms
  BY LenProperties, ElementOfSeq DEF QueueOK
<1>2. 1 \in 1 .. Len(q) /\ q[1] \in Alarms /\ s = [r EXCEPT ![q[1]] = @ - 1]
  BY <1>1
<1>3. s \in [Alarms -> Int] /\ s[q[1]] = r[q[1]] - 1
  BY <1>1, <1>2
<1>4. ASSUME NEW i \in 1 .. Len(q), i # 1 PROVE s[q[i]] = r[q[i]]
  <2>1. q[i] # q[1]
    BY <1>1, <1>2, <1>4 DEF Distinct
  <2>2. QED
    BY <1>1, <1>2, <2>1
<1>5. Due(q, r, 0) = 0 /\ (\A i \in 0 .. Len(q) : Due(q, r, i) \in Int)
      /\ \A i \in 1 .. Len(q) : Due(q, r, i) = Due(q, r, i - 1) + r[q[i]]
  BY <1>1, DueSteps
<1> DEFINE D(i) == Due(q, r, i)
           d == [i \in 0 .. Len(q) |-> IF i = 0 THEN 0 ELSE D(i) - 1]
<1>6. d \in [0 .. Len(q) -> Int] /\ d[0] = 0
  <2>1. \A i \in 0 .. Len(q) : D(i) \in Int
    BY <1>5
  <2> HIDE DEF D
  <2>2. QED
    BY <1>1, <2>1
<1>7. ASSUME NEW i \in 1 .. Len(q) PROVE d[i] = d[i - 1] + s[q[i]]
  <2>1. D(i) = D(i - 1) + r[q[i]] /\ D(0) = 0 /\ i \in Int /\ i - 1 \in 0 .. Len(q) /\ D(i - 1) \in Int /\ i \in 0 .. Len(q)
    BY <1>1, <1>5
  <2>2. r[q[i]] \in Int
    BY <1>1
  <2> HIDE DEF D
  <2>3. CASE i = 1
    BY <1>3, <2>1, <2>2, <2>3
  <2>4. CASE i # 1
    <3>1. i - 1 # 0 /\ i # 0
      BY <2>1, <2>4
    <3>2. d[i] = D(i) - 1 /\ d[i - 1] = D(i - 1) - 1
      BY <2>1, <3>1
    <3> HIDE DEF d
    <3>3. QED
      BY <1>4, <2>1, <2>2, <2>4, <3>2
  <2>5. QED
    BY <2>3, <2>4
<1>8. IsDue(q, s, d)
  BY <1>6, <1>7 DEF IsDue
<1>9. \A i \in 1 .. Len(q) : Due(q, s, i) = d[i]
  BY <1>1, <1>3, <1>8, DueUnique, SMTT(30)
<1>10. \A i \in 1 .. Len(q) : Due(q, s, i) = Due(q, r, i) - 1
  <2> SUFFICES ASSUME NEW i \in 1 .. Len(q) PROVE Due(q, s, i) = Due(q, r, i) - 1
    OBVIOUS
  <2>1. d[i] = D(i) - 1
    <3> HIDE DEF D
    <3>1. QED
      BY <1>1
  <2> HIDE DEF d
  <2>2. QED
    BY <1>9, <2>1
<1>11. Sorted(q, s)
  <2> SUFFICES ASSUME NEW i \in 1 .. Len(q), NEW j \in 1 .. Len(q), i <= j
               PROVE  Due(q, s, i) <= Due(q, s, j)
    BY DEF Sorted
  <2>1. Due(q, r, i) <= Due(q, r, j) /\ Due(q, r, i) \in Int /\ Due(q, r, j) \in Int
    BY <1>1, <1>5 DEF Sorted
  <2>2. Due(q, s, i) = Due(q, r, i) - 1 /\ Due(q, s, j) = Due(q, r, j) - 1
    BY <1>10
  <2>3. QED
    BY <2>1, <2>2
<1>12. QED
  BY <1>1, <1>3, <1>10, <1>11 DEF QueueOK

(* A queue of distinct alarms is no longer than there are alarms.          *)
LEMMA QueueBounded ==
  ASSUME IsFiniteSet(Alarms), NEW q \in Seq(Alarms), Distinct(q)
  PROVE  Cardinality(Alarms) \in Nat /\ Len(q) <= Cardinality(Alarms)
<1>1. Cardinality(Alarms) \in Nat
  BY FS_CardinalityType
<1>2. Len(q) \in Nat /\ \A i \in 1 .. Len(q) : q[i] \in Alarms
  BY LenProperties, ElementOfSeq
<1>3. IsFiniteSet(1 .. Len(q)) /\ Cardinality(1 .. Len(q)) = Len(q)
  <2>1. Cardinality(1 .. Len(q)) = IF 1 > Len(q) THEN 0 ELSE Len(q) - 1 + 1
    BY <1>2, FS_Interval
  <2>2. QED
    BY <1>2, <2>1, FS_Interval
<1>4. CASE Len(q) > Cardinality(Alarms)
  <2> DEFINE f == [i \in 1 .. Len(q) |-> q[i]]
  <2>1. f \in [1 .. Len(q) -> Alarms]
    BY <1>2
  <2>2. \A i \in 1 .. Len(q) : f[i] = q[i]
    OBVIOUS
  <2> HIDE DEF f
  <2>3. \E i, j \in 1 .. Len(q) : i # j /\ f[i] = f[j]
    BY <1>3, <1>4, <2>1, FS_PigeonHole
  <2>4. QED
    BY <2>2, <2>3 DEF Distinct
<1>5. QED
  BY <1>1, <1>2, <1>4

(* How long each alarm has left.                                           *)
LeftOf(q, r) == [a \in Alarms |-> IF a \in ToSet(q)
                                  THEN Due(q, r, CHOOSE i \in DOMAIN q : q[i] = a)
                                  ELSE Off]

LEMMA LeftIs ==
  ASSUME NEW q, NEW r, QueueOK(q, r)
  PROVE  /\ \A i \in 1 .. Len(q) : q[i] \in Alarms /\ LeftOf(q, r)[q[i]] = Due(q, r, i)
         /\ \A a \in Alarms : a \notin ToSet(q) => LeftOf(q, r)[a] = Off
         /\ \A a : a \in ToSet(q) <=> \E i \in 1 .. Len(q) : q[i] = a
<1>1. q \in Seq(Alarms) /\ Distinct(q) /\ DOMAIN q = 1 .. Len(q) /\ \A i \in 1 .. Len(q) : q[i] \in Alarms
  BY LenProperties, ElementOfSeq DEF QueueOK
<1>2. \A a : a \in ToSet(q) <=> \E i \in 1 .. Len(q) : q[i] = a
  BY <1>1 DEF ToSet
<1>3. ASSUME NEW i \in 1 .. Len(q) PROVE LeftOf(q, r)[q[i]] = Due(q, r, i)
  <2>1. (CHOOSE j \in DOMAIN q : q[j] = q[i]) = i
    BY <1>1 DEF Distinct
  <2>2. q[i] \in ToSet(q) /\ q[i] \in Alarms
    BY <1>1, <1>2
  <2>3. QED
    BY <2>1, <2>2 DEF LeftOf
<1>4. ASSUME NEW a \in Alarms, a \notin ToSet(q) PROVE LeftOf(q, r)[a] = Off
  BY <1>4 DEF LeftOf
<1>5. QED
  BY <1>1, <1>2, <1>3, <1>4

(* Inserting arms one alarm and disturbs no other.                         *)
LEMMA InsertedArms ==
  ASSUME NEW q, NEW r, QueueOK(q, r), NEW a \in Alarms, a \notin ToSet(q), NEW t \in Int,
         NEW m, NEW s, NEW p, InsertedHere(q, r, m, s, a, t, p)
  PROVE  /\ QueueOK(m, s) /\ ToSet(m) = ToSet(q) \cup {a}
         /\ LeftOf(m, s) = [LeftOf(q, r) EXCEPT ![a] = t]
<1>1. /\ q \in Seq(Alarms) /\ Len(q) \in Nat /\ r \in [Alarms -> Int] /\ Distinct(q) /\ Sorted(q, r)
      /\ \A i \in 1 .. Len(q) : q[i] \in Alarms /\ q[i] # a
  BY LeftIs, LenProperties DEF QueueOK
<1>2. /\ p \in 1 .. Len(q) + 1 /\ m \in Seq(Alarms) /\ Len(m) = Len(q) + 1 /\ s \in [Alarms -> Int]
      /\ m[p] = a /\ Due(m, s, p) = t
      /\ \A i \in 1 .. p - 1 : m[i] = q[i] /\ Due(m, s, i) = Due(q, r, i) /\ Due(q, r, i) <= t
      /\ \A i \in p .. Len(q) : m[i + 1] = q[i] /\ Due(m, s, i + 1) = Due(q, r, i) /\ Due(q, r, i) > t
  BY DEF InsertedHere
<1>3. \A i \in 0 .. Len(q) : Due(q, r, i) \in Int
  BY <1>1, DueSteps
<1>4. ASSUME NEW j \in 1 .. Len(m)
      PROVE  \/ j \in 1 .. p - 1 /\ j \in 1 .. Len(q)
             \/ j = p
             \/ j - 1 \in p .. Len(q) /\ j - 1 \in 1 .. Len(q) /\ (j - 1) + 1 = j
  BY <1>1, <1>2
<1>5. ASSUME NEW i \in 1 .. p - 1
      PROVE  i \in 1 .. Len(q) /\ i \in 1 .. Len(m) /\ i \in 0 .. Len(q)
  <2>1. Len(q) \in Nat /\ Len(m) = Len(q) + 1 /\ p \in Int /\ p <= Len(q) + 1
    BY <1>1, <1>2
  <2>2. QED
    BY <2>1
<1>6. ASSUME NEW i \in p .. Len(q)
      PROVE  i \in 1 .. Len(q) /\ i + 1 \in 1 .. Len(m) /\ i \in 0 .. Len(q)
  <2>1. Len(q) \in Nat /\ Len(m) = Len(q) + 1 /\ p \in Int /\ p >= 1
    BY <1>1, <1>2
  <2>2. QED
    BY <2>1
<1>7. ASSUME NEW i \in 1 .. Len(q) PROVE i \in 1 .. p - 1 \/ i \in p .. Len(q)
  BY <1>1, <1>2
<1>8. Distinct(m)
  <2> SUFFICES ASSUME NEW i \in 1 .. Len(m), NEW j \in 1 .. Len(m), m[i] = m[j] PROVE i = j
    BY DEF Distinct
  <2>1. CASE i \in 1 .. p - 1 /\ i \in 1 .. Len(q)
    <3>1. m[i] = q[i] /\ q[i] # a
      BY <1>1, <1>2, <2>1
    <3>2. CASE j \in 1 .. p - 1 /\ j \in 1 .. Len(q)
      BY <1>1, <1>2, <2>1, <3>1, <3>2 DEF Distinct
    <3>3. CASE j = p
      BY <1>2, <3>1, <3>3
    <3>4. CASE j - 1 \in p .. Len(q) /\ j - 1 \in 1 .. Len(q) /\ (j - 1) + 1 = j
      <4>1. m[j] = q[j - 1]
        BY <1>2, <3>4
      <4>2. i = j - 1
        BY <1>1, <2>1, <3>1, <3>4, <4>1 DEF Distinct
      <4>3. QED
        BY <1>2, <2>1, <3>4, <4>2
    <3>5. QED
      BY <1>4, <3>2, <3>3, <3>4
  <2>2. CASE i = p
    <3>2. CASE j \in 1 .. p - 1 /\ j \in 1 .. Len(q)
      BY <1>1, <1>2, <2>2, <3>2
    <3>3. CASE j = p
      BY <2>2, <3>3
    <3>4. CASE j - 1 \in p .. Len(q) /\ j - 1 \in 1 .. Len(q) /\ (j - 1) + 1 = j
      <4>1. m[j] = q[j - 1]
        BY <1>2, <3>4
      <4>3. QED
        BY <1>1, <1>2, <2>2, <3>4, <4>1
    <3>5. QED
      BY <1>4, <3>2, <3>3, <3>4
  <2>3. CASE i - 1 \in p .. Len(q) /\ i - 1 \in 1 .. Len(q) /\ (i - 1) + 1 = i
    <3>1. m[i] = q[i - 1] /\ q[i - 1] # a
      BY <1>1, <1>2, <2>3
    <3>2. CASE j \in 1 .. p - 1 /\ j \in 1 .. Len(q)
      <4>1. m[j] = q[j]
        BY <1>2, <3>2
      <4>2. j = i - 1
        BY <1>1, <2>3, <3>1, <3>2, <4>1 DEF Distinct
      <4>3. QED
        BY <1>2, <2>3, <3>2, <4>2
    <3>3. CASE j = p
      BY <1>2, <3>1, <3>3
    <3>4. CASE j - 1 \in p .. Len(q) /\ j - 1 \in 1 .. Len(q) /\ (j - 1) + 1 = j
      <4>1. m[j] = q[j - 1]
        BY <1>2, <3>4
      <4>2. i - 1 = j - 1
        BY <1>1, <2>3, <3>1, <3>4, <4>1 DEF Distinct
      <4>3. QED
        BY <2>3, <3>4, <4>2
    <3>5. QED
      BY <1>4, <3>2, <3>3, <3>4
  <2>4. QED
    BY <1>4, <2>1, <2>2, <2>3
<1>9. Sorted(m, s)
  <2> SUFFICES ASSUME NEW i \in 1 .. Len(m), NEW j \in 1 .. Len(m), i <= j
               PROVE  Due(m, s, i) <= Due(m, s, j)
    BY DEF Sorted
  <2>0. t \in Int /\ p \in Int /\ i \in Int /\ j \in Int
    BY <1>2
  <2>1. CASE j \in 1 .. p - 1 /\ j \in 1 .. Len(q)
    <3>1. i \in 1 .. p - 1
      BY <2>0, <2>1
    <3>2. Due(m, s, i) = Due(q, r, i) /\ Due(m, s, j) = Due(q, r, j)
      BY <1>2, <2>1, <3>1
    <3>3. QED
      BY <1>1, <1>5, <2>1, <3>1, <3>2 DEF Sorted
  <2>2. CASE j = p
    <3>1. CASE i = p
      BY <1>2, <2>0, <2>2, <3>1
    <3>2. CASE i # p
      <4>1. i \in 1 .. p - 1
        BY <2>0, <2>2, <3>2
      <4>2. QED
        BY <1>2, <2>2, <4>1
    <3>3. QED
      BY <3>1, <3>2
  <2>3. CASE j - 1 \in p .. Len(q) /\ j - 1 \in 1 .. Len(q) /\ (j - 1) + 1 = j
    <3>0. Due(m, s, j) = Due(q, r, j - 1) /\ Due(q, r, j - 1) > t
      BY <1>2, <2>3
    <3>z. Due(q, r, j - 1) \in Int
      BY <1>3, <1>6, <2>3
    <3>1. CASE i \in 1 .. p - 1 /\ i \in 1 .. Len(q)
      <4>1. Due(m, s, i) = Due(q, r, i) /\ i <= j - 1
        BY <1>2, <2>0, <2>3, <3>1
      <4>2. Due(q, r, i) <= Due(q, r, j - 1)
        BY <1>1, <2>3, <3>1, <4>1 DEF Sorted
      <4>3. QED
        BY <3>0, <4>1, <4>2
    <3>2. CASE i = p
      <4>1. Due(m, s, i) = t
        BY <1>2, <3>2
      <4>2. t <= Due(q, r, j - 1)
        BY <2>0, <3>0, <3>z
      <4>3. QED
        BY <3>0, <4>1, <4>2
    <3>3. CASE i - 1 \in p .. Len(q) /\ i - 1 \in 1 .. Len(q) /\ (i - 1) + 1 = i
      <4>1. Due(m, s, i) = Due(q, r, i - 1) /\ i - 1 <= j - 1
        BY <1>2, <2>0, <3>3
      <4>2. Due(q, r, i - 1) <= Due(q, r, j - 1)
        BY <1>1, <2>3, <3>3, <4>1 DEF Sorted
      <4>3. QED
        BY <3>0, <4>1, <4>2
    <3>4. QED
      BY <1>4, <3>1, <3>2, <3>3
  <2>4. QED
    BY <1>4, <2>1, <2>2, <2>3
<1>10. QueueOK(m, s)
  BY <1>2, <1>8, <1>9 DEF QueueOK
<1>11. ASSUME NEW b PROVE b \in ToSet(m) <=> b \in ToSet(q) \cup {a}
  <2>1. ASSUME b \in ToSet(m) PROVE b \in ToSet(q) \cup {a}
    <3>1. PICK j \in 1 .. Len(m) : m[j] = b
      BY <1>10, <2>1, LeftIs
    <3>2. b = a \/ \E i \in 1 .. Len(q) : q[i] = b
      BY <1>2, <1>4, <3>1
    <3>3. QED
      BY <3>2, LeftIs
  <2>2. ASSUME b \in ToSet(q) PROVE b \in ToSet(m)
    <3>1. PICK i \in 1 .. Len(q) : q[i] = b
      BY <2>2, LeftIs
    <3>2. \E j \in 1 .. Len(m) : m[j] = b
      BY <1>2, <1>5, <1>6, <1>7, <3>1
    <3>3. QED
      BY <1>10, <3>2, LeftIs
  <2>3. a \in ToSet(m)
    <3>1. \E j \in 1 .. Len(m) : m[j] = a
      BY <1>1, <1>2
    <3>2. QED
      BY <1>10, <3>1, LeftIs
  <2>4. QED
    BY <2>1, <2>2, <2>3
<1>12. ASSUME NEW b \in Alarms
       PROVE  LeftOf(m, s)[b] = IF b = a THEN t ELSE LeftOf(q, r)[b]
  <2>1. CASE b = a
    <3>1. p \in 1 .. Len(m)
      BY <1>1, <1>2
    <3>2. LeftOf(m, s)[m[p]] = Due(m, s, p)
      BY <1>10, <3>1, LeftIs
    <3>3. QED
      BY <1>2, <2>1, <3>2
  <2>2. CASE b # a /\ b \in ToSet(q)
    <3>1. PICK i \in 1 .. Len(q) : q[i] = b
      BY <2>2, LeftIs
    <3>2. LeftOf(q, r)[b] = Due(q, r, i)
      BY <3>1, LeftIs
    <3>3. \E j \in 1 .. Len(m) : m[j] = b /\ Due(m, s, j) = Due(q, r, i)
      BY <1>2, <1>5, <1>6, <1>7, <3>1
    <3>4. PICK j \in 1 .. Len(m) : m[j] = b /\ Due(m, s, j) = Due(q, r, i)
      BY <3>3
    <3>5. LeftOf(m, s)[m[j]] = Due(m, s, j)
      BY <1>10, LeftIs
    <3>6. QED
      BY <2>2, <3>2, <3>4, <3>5
  <2>3. CASE b # a /\ b \notin ToSet(q)
    <3>1. LeftOf(q, r)[b] = Off
      BY <2>3, LeftIs
    <3>2. b \notin ToSet(m)
      BY <1>11, <2>3
    <3>3. LeftOf(m, s)[b] = Off
      BY <1>10, <3>2, LeftIs
    <3>4. QED
      BY <2>3, <3>1, <3>3
  <2>4. QED
    BY <2>1, <2>2, <2>3
<1>13. LeftOf(m, s) = [LeftOf(q, r) EXCEPT ![a] = t]
  <2>1. PICK K, L : K = LeftOf(m, s) /\ L = LeftOf(q, r)
    OBVIOUS
  <2>2. K = [b \in Alarms |-> K[b]] /\ L = [b \in Alarms |-> L[b]]
    BY <2>1 DEF LeftOf
  <2>3. \A b \in Alarms : K[b] = IF b = a THEN t ELSE L[b]
    BY <1>12, <2>1
  <2>4. K = [L EXCEPT ![a] = t]
    BY <2>2, <2>3
  <2>5. QED
    BY <2>1, <2>4
<1>14. QED
  BY <1>10, <1>11, <1>13

(* Removing disarms one alarm and disturbs no other.                       *)
LEMMA RemovedDisarms ==
  ASSUME NEW q, NEW r, QueueOK(q, r), NEW a \in Alarms,
         NEW m, NEW s, NEW p, RemovedHere(q, r, m, s, a, p)
  PROVE  /\ QueueOK(m, s) /\ ToSet(m) = ToSet(q) \ {a}
         /\ LeftOf(m, s) = [LeftOf(q, r) EXCEPT ![a] = Off]
<1>1. /\ q \in Seq(Alarms) /\ Len(q) \in Nat /\ r \in [Alarms -> Int] /\ Distinct(q) /\ Sorted(q, r)
      /\ \A i \in 1 .. Len(q) : q[i] \in Alarms
  BY LeftIs, LenProperties DEF QueueOK
<1>2. /\ p \in 1 .. Len(q) /\ q[p] = a
      /\ m \in Seq(Alarms) /\ Len(m) = Len(q) - 1 /\ s \in [Alarms -> Int]
      /\ \A i \in 1 .. p - 1 : m[i] = q[i] /\ Due(m, s, i) = Due(q, r, i)
      /\ \A i \in p .. Len(q) - 1 : m[i] = q[i + 1] /\ Due(m, s, i) = Due(q, r, i + 1)
  BY DEF RemovedHere
<1>b. p \in Int /\ 1 <= p /\ p <= Len(q) /\ Len(m) = Len(q) - 1
  BY <1>1, <1>2
<1>n. Len(q) \in Nat
  BY <1>1
<1>4. ASSUME NEW j \in 1 .. Len(m)
      PROVE  \/ j \in 1 .. p - 1 /\ j \in 1 .. Len(q)
             \/ j \in p .. Len(q) - 1 /\ j + 1 \in 1 .. Len(q)
  BY <1>b, <1>n
<1>7. ASSUME NEW i \in 1 .. Len(q)
      PROVE  \/ i \in 1 .. p - 1 /\ i \in 1 .. Len(m)
             \/ i = p
             \/ i - 1 \in p .. Len(q) - 1 /\ i - 1 \in 1 .. Len(m) /\ (i - 1) + 1 = i
  BY <1>b, <1>n
<1>6. ASSUME NEW j \in 1 .. Len(m)
      PROVE  \E i \in 1 .. Len(q) : /\ i \in {j, j + 1} /\ (i = j + 1 <=> j >= p) /\ i # p
                                    /\ m[j] = q[i] /\ Due(m, s, j) = Due(q, r, i)
  <2>1. CASE j \in 1 .. p - 1 /\ j \in 1 .. Len(q)
    <3>1. m[j] = q[j] /\ Due(m, s, j) = Due(q, r, j) /\ ~(j >= p) /\ j # p /\ j # j + 1
      BY <1>2, <1>b, <2>1
    <3>2. QED
      BY <2>1, <3>1
  <2>2. CASE j \in p .. Len(q) - 1 /\ j + 1 \in 1 .. Len(q)
    <3>1. m[j] = q[j + 1] /\ Due(m, s, j) = Due(q, r, j + 1) /\ j >= p /\ j + 1 # p
      BY <1>2, <1>b, <2>2
    <3>2. QED
      BY <2>2, <3>1
  <2>3. QED
    BY <1>4, <2>1, <2>2
<1>8. Distinct(m)
  <2> SUFFICES ASSUME NEW i \in 1 .. Len(m), NEW j \in 1 .. Len(m), m[i] = m[j] PROVE i = j
    BY DEF Distinct
  <2>1. PICK x \in 1 .. Len(q) : x \in {i, i + 1} /\ (x = i + 1 <=> i >= p) /\ m[i] = q[x]
    BY <1>6
  <2>2. PICK y \in 1 .. Len(q) : y \in {j, j + 1} /\ (y = j + 1 <=> j >= p) /\ m[j] = q[y]
    BY <1>6
  <2>3. x = y
    BY <1>1, <2>1, <2>2 DEF Distinct
  <2>4. QED
    BY <1>b, <2>1, <2>2, <2>3
<1>9. Sorted(m, s)
  <2> SUFFICES ASSUME NEW i \in 1 .. Len(m), NEW j \in 1 .. Len(m), i <= j
               PROVE  Due(m, s, i) <= Due(m, s, j)
    BY DEF Sorted
  <2>1. PICK x \in 1 .. Len(q) : x \in {i, i + 1} /\ (x = i + 1 <=> i >= p) /\ Due(m, s, i) = Due(q, r, x)
    BY <1>6
  <2>2. PICK y \in 1 .. Len(q) : y \in {j, j + 1} /\ (y = j + 1 <=> j >= p) /\ Due(m, s, j) = Due(q, r, y)
    BY <1>6
  <2>3. x <= y
    BY <1>b, <2>1, <2>2
  <2>4. QED
    BY <1>1, <2>1, <2>2, <2>3 DEF Sorted
<1>10. QueueOK(m, s)
  BY <1>2, <1>8, <1>9 DEF QueueOK
<1>c. ASSUME NEW b \in ToSet(q), b # a
      PROVE  \E i \in 1 .. Len(q), j \in 1 .. Len(m) : q[i] = b /\ m[j] = b /\ Due(m, s, j) = Due(q, r, i)
  <2>1. PICK i \in 1 .. Len(q) : q[i] = b
    BY LeftIs
  <2>2. CASE i \in 1 .. p - 1 /\ i \in 1 .. Len(m)
    BY <1>2, <2>1, <2>2
  <2>3. CASE i = p
    BY <1>2, <1>c, <2>1, <2>3
  <2>4. CASE i - 1 \in p .. Len(q) - 1 /\ i - 1 \in 1 .. Len(m) /\ (i - 1) + 1 = i
    <3>1. m[i - 1] = q[i] /\ Due(m, s, i - 1) = Due(q, r, i)
      BY <1>2, <2>4
    <3>2. QED
      BY <2>1, <2>4, <3>1
  <2>5. QED
    BY <1>7, <2>2, <2>3, <2>4
<1>11. ASSUME NEW b PROVE b \in ToSet(m) <=> b \in ToSet(q) /\ b # a
  <2>1. ASSUME b \in ToSet(m) PROVE b \in ToSet(q) /\ b # a
    <3>1. PICK j \in 1 .. Len(m) : m[j] = b
      BY <1>10, <2>1, LeftIs
    <3>2. PICK i \in 1 .. Len(q) : i # p /\ m[j] = q[i]
      BY <1>6
    <3>3. q[i] # a
      BY <1>1, <1>2, <3>2 DEF Distinct
    <3>4. QED
      BY <3>1, <3>2, <3>3, LeftIs
  <2>2. ASSUME b \in ToSet(q), b # a PROVE b \in ToSet(m)
    <3>1. \E j \in 1 .. Len(m) : m[j] = b
      BY <1>c, <2>2
    <3>2. QED
      BY <1>10, <3>1, LeftIs
  <2>3. QED
    BY <2>1, <2>2
<1>12. ASSUME NEW b \in Alarms
       PROVE  LeftOf(m, s)[b] = IF b = a THEN Off ELSE LeftOf(q, r)[b]
  <2>1. CASE b = a
    BY <1>10, <1>11, <2>1, LeftIs
  <2>2. CASE b # a /\ b \in ToSet(q)
    <3>1. PICK i \in 1 .. Len(q), j \in 1 .. Len(m) : q[i] = b /\ m[j] = b /\ Due(m, s, j) = Due(q, r, i)
      BY <1>c, <2>2
    <3>2. LeftOf(q, r)[q[i]] = Due(q, r, i)
      BY LeftIs
    <3>3. LeftOf(m, s)[m[j]] = Due(m, s, j)
      BY <1>10, LeftIs
    <3>6. QED
      BY <2>2, <3>1, <3>2, <3>3
  <2>3. CASE b # a /\ b \notin ToSet(q)
    <3>1. LeftOf(q, r)[b] = Off
      BY <2>3, LeftIs
    <3>2. b \notin ToSet(m)
      BY <1>11, <2>3
    <3>3. LeftOf(m, s)[b] = Off
      BY <1>10, <3>2, LeftIs
    <3>4. QED
      BY <2>3, <3>1, <3>3
  <2>4. QED
    BY <2>1, <2>2, <2>3
<1>13. LeftOf(m, s) = [LeftOf(q, r) EXCEPT ![a] = Off]
  <2>1. PICK K, L : K = LeftOf(m, s) /\ L = LeftOf(q, r)
    OBVIOUS
  <2>2. K = [b \in Alarms |-> K[b]] /\ L = [b \in Alarms |-> L[b]]
    BY <2>1 DEF LeftOf
  <2>3. \A b \in Alarms : K[b] = IF b = a THEN Off ELSE L[b]
    BY <1>12, <2>1
  <2>4. K = [L EXCEPT ![a] = Off]
    BY <2>2, <2>3
  <2>5. QED
    BY <2>1, <2>4
<1>14. QED
  BY <1>10, <1>11, <1>13

(* No alarm is late by more ticks than there are others behind it could    *)
(* account for: k is one but in the middle of a tick.                      *)
Slack(q, r, k) == \A i \in 1 .. Len(q) : Due(q, r, i) + Cardinality(Alarms) >= i + k

LEMMA SlackRemoved ==
  ASSUME NEW q, NEW r, QueueOK(q, r), Cardinality(Alarms) \in Nat, NEW a \in Alarms,
         NEW m, NEW s, NEW p, RemovedHere(q, r, m, s, a, p), NEW k \in Int, Slack(q, r, k)
  PROVE  /\ Slack(m, s, k)
         /\ p = 1 => Slack(m, s, k + 1)
<1>1. /\ q \in Seq(Alarms) /\ Len(q) \in Nat /\ r \in [Alarms -> Int]
  BY LenProperties DEF QueueOK
<1>2. /\ p \in 1 .. Len(q) /\ Len(m) = Len(q) - 1
      /\ \A i \in 1 .. p - 1 : Due(m, s, i) = Due(q, r, i)
      /\ \A i \in p .. Len(q) - 1 : Due(m, s, i) = Due(q, r, i + 1)
  BY DEF RemovedHere
<1>3. \A i \in 0 .. Len(q) : Due(q, r, i) \in Int
  BY <1>1, DueSteps
<1>b. p \in Int /\ 1 <= p /\ p <= Len(q) /\ Len(m) = Len(q) - 1 /\ Len(q) \in Nat
  BY <1>1, <1>2
<1>4. ASSUME NEW i \in 1 .. Len(m)
      PROVE  /\ Due(m, s, i) + Cardinality(Alarms) >= i + k
             /\ p = 1 => Due(m, s, i) + Cardinality(Alarms) >= i + (k + 1)
  <2>1. CASE i < p
    <3>1. i \in 1 .. p - 1 /\ i \in 1 .. Len(q) /\ i \in 0 .. Len(q) /\ p # 1
      BY <1>b, <2>1
    <3>2. QED
      BY <1>2, <1>3, <3>1 DEF Slack
  <2>2. CASE i >= p
    <3>1. i \in p .. Len(q) - 1 /\ i + 1 \in 1 .. Len(q) /\ i + 1 \in 0 .. Len(q)
      BY <1>b, <2>2
    <3>2. Due(m, s, i) = Due(q, r, i + 1) /\ Due(q, r, i + 1) \in Int
      BY <1>2, <1>3, <3>1
    <3>3. Due(q, r, i + 1) + Cardinality(Alarms) >= (i + 1) + k
      BY <3>1 DEF Slack
    <3>4. QED
      BY <3>2, <3>3
  <2>3. QED
    BY <1>b, <2>1, <2>2
<1>5. QED
  BY <1>4 DEF Slack

LEMMA SlackInserted ==
  ASSUME NEW q, NEW r, QueueOK(q, r), Cardinality(Alarms) \in Nat, NEW a \in Alarms,
         NEW t \in Int, t >= 1, NEW m, NEW s, NEW p, InsertedHere(q, r, m, s, a, t, p),
         Slack(q, r, 1), Len(m) <= Cardinality(Alarms)
  PROVE  Slack(m, s, 1)
<1>1. /\ q \in Seq(Alarms) /\ Len(q) \in Nat /\ r \in [Alarms -> Int]
  BY LenProperties DEF QueueOK
<1>2. /\ p \in 1 .. Len(q) + 1 /\ Len(m) = Len(q) + 1
      /\ Due(m, s, p) = t
      /\ \A i \in 1 .. p - 1 : Due(m, s, i) = Due(q, r, i)
      /\ \A i \in p .. Len(q) : Due(m, s, i + 1) = Due(q, r, i) /\ Due(q, r, i) > t
  BY DEF InsertedHere
<1>3. \A i \in 0 .. Len(q) : Due(q, r, i) \in Int
  BY <1>1, DueSteps
<1>b. p \in Int /\ 1 <= p /\ p <= Len(q) + 1 /\ Len(m) = Len(q) + 1 /\ Len(q) \in Nat
  BY <1>1, <1>2
<1>4. ASSUME NEW i \in 1 .. Len(m) PROVE Due(m, s, i) + Cardinality(Alarms) >= i + 1
  <2>1. CASE i < p
    <3>1. i \in 1 .. p - 1 /\ i \in 1 .. Len(q)
      BY <1>b, <2>1
    <3>2. QED
      BY <1>2, <3>1 DEF Slack
  <2>2. CASE i = p
    BY <1>2, <1>b, <2>2
  <2>3. CASE i > p
    <3>1. i - 1 \in p .. Len(q) /\ (i - 1) + 1 = i /\ i - 1 \in 0 .. Len(q)
      BY <1>b, <2>3
    <3>2. Due(m, s, i) = Due(q, r, i - 1) /\ Due(q, r, i - 1) > t /\ Due(q, r, i - 1) \in Int
      BY <1>2, <1>3, <3>1
    <3>3. QED
      BY <1>b, <3>2
  <2>4. QED
    BY <1>b, <2>1, <2>2, <2>3
<1>5. QED
  BY <1>4 DEF Slack

(* An alarm taken out and put back with the offset it had: period().       *)
LEMMA SlackMoved ==
  ASSUME NEW q, NEW r, QueueOK(q, r), Cardinality(Alarms) \in Nat, Len(q) <= Cardinality(Alarms),
         NEW a \in Alarms, Slack(q, r, 1),
         NEW m, NEW s, NEW p, RemovedHere(q, r, m, s, a, p), QueueOK(m, s),
         NEW u, NEW v, NEW w, InsertedHere(m, s, u, v, a, r[a], w)
  PROVE  Slack(u, v, 1)
<1>1. /\ q \in Seq(Alarms) /\ Len(q) \in Nat /\ r \in [Alarms -> Int] /\ r[a] \in Int /\ Sorted(q, r)
  BY LenProperties DEF QueueOK
<1>2. /\ p \in 1 .. Len(q) /\ Len(m) = Len(q) - 1 /\ q[p] = a
      /\ \A i \in 1 .. p - 1 : Due(m, s, i) = Due(q, r, i)
      /\ \A i \in p .. Len(q) - 1 : Due(m, s, i) = Due(q, r, i + 1)
  BY DEF RemovedHere
<1>3. /\ w \in 1 .. Len(m) + 1 /\ Len(u) = Len(m) + 1
      /\ Due(u, v, w) = r[a]
      /\ \A i \in 1 .. w - 1 : Due(u, v, i) = Due(m, s, i) /\ Due(m, s, i) <= r[a]
      /\ \A i \in w .. Len(m) : Due(u, v, i + 1) = Due(m, s, i) /\ Due(m, s, i) > r[a]
  BY DEF InsertedHere
<1>4. /\ Due(q, r, 0) = 0
      /\ \A i \in 0 .. Len(q) : Due(q, r, i) \in Int
      /\ \A i \in 1 .. Len(q) : Due(q, r, i) = Due(q, r, i - 1) + r[q[i]]
  BY <1>1, DueSteps
<1>b. /\ p \in Int /\ 1 <= p /\ p <= Len(q) /\ Len(m) = Len(q) - 1 /\ Len(q) \in Nat
      /\ w \in Int /\ 1 <= w /\ w <= Len(q) /\ Len(u) = Len(q)
  BY <1>1, <1>2, <1>3
<1>5. Slack(m, s, 1)
  BY SlackRemoved
<1>6. \A i \in 1 .. Len(q) : Due(q, r, i) + Cardinality(Alarms) >= i + 1
  BY DEF Slack
<1>7. ASSUME NEW i \in 1 .. Len(m) PROVE Due(m, s, i) \in Int
  <2>1. CASE i < p
    <3>1. i \in 1 .. p - 1 /\ i \in 0 .. Len(q)
      BY <1>b, <2>1
    <3>2. QED
      BY <1>2, <1>4, <3>1
  <2>2. CASE i >= p
    <3>1. i \in p .. Len(q) - 1 /\ i + 1 \in 0 .. Len(q)
      BY <1>b, <2>2
    <3>2. QED
      BY <1>2, <1>4, <3>1
  <2>3. QED
    BY <1>b, <2>1, <2>2
<1>8. CASE p = 1
  <2>1. r[a] = Due(q, r, 1)
    <3>1. 1 \in 1 .. Len(q) /\ 1 - 1 = 0
      BY <1>b
    <3>2. QED
      BY <1>1, <1>2, <1>4, <1>8, <3>1
  <2>2. r[a] + Cardinality(Alarms) >= w + 1
    <3>1. CASE w = 1
      BY <1>6, <1>b, <2>1, <3>1
    <3>2. CASE w > 1
      <4>1. w - 1 \in 1 .. w - 1 /\ w - 1 \in p .. Len(q) - 1 /\ (w - 1) + 1 = w /\ w \in 1 .. Len(q) /\ w \in 0 .. Len(q)
        BY <1>8, <1>b, <3>2
      <4>2. Due(m, s, w - 1) <= r[a] /\ Due(m, s, w - 1) = Due(q, r, w) /\ Due(q, r, w) \in Int
        BY <1>2, <1>3, <1>4, <4>1
      <4>3. Due(q, r, w) + Cardinality(Alarms) >= w + 1
        BY <1>6, <4>1
      <4>4. QED
        BY <1>1, <1>b, <4>2, <4>3
    <3>3. QED
      BY <1>b, <3>1, <3>2
  <2>3. ASSUME NEW j \in 1 .. Len(u) PROVE Due(u, v, j) + Cardinality(Alarms) >= j + 1
    <3>1. CASE j < w
      <4>1. j \in 1 .. w - 1 /\ j \in 1 .. Len(m)
        BY <1>b, <3>1
      <4>2. QED
        BY <1>3, <1>5, <4>1 DEF Slack
    <3>2. CASE j = w
      BY <1>3, <2>2, <3>2
    <3>3. CASE j > w
      <4>1. j - 1 \in w .. Len(m) /\ (j - 1) + 1 = j /\ j - 1 \in p .. Len(q) - 1 /\ j \in 1 .. Len(q)
        BY <1>8, <1>b, <3>3
      <4>2. Due(u, v, j) = Due(m, s, j - 1) /\ Due(m, s, j - 1) = Due(q, r, j)
        BY <1>2, <1>3, <4>1
      <4>3. QED
        BY <1>6, <4>1, <4>2
    <3>4. QED
      BY <1>b, <3>1, <3>2, <3>3
  <2>4. QED
    BY <2>3 DEF Slack
<1>9. CASE p # 1
  <2>1. r[a] >= 0 /\ Due(q, r, p) = Due(q, r, p - 1) + r[a] /\ Due(q, r, p - 1) \in Int
    <3>1. p - 1 \in 1 .. Len(q) /\ p \in 1 .. Len(q) /\ p - 1 <= p /\ p - 1 \in 0 .. Len(q) /\ p \in 0 .. Len(q)
      BY <1>9, <1>b
    <3>2. Due(q, r, p) = Due(q, r, p - 1) + r[a]
      BY <1>2, <1>4, <3>1
    <3>3. Due(q, r, p - 1) <= Due(q, r, p) /\ Due(q, r, p) \in Int /\ Due(q, r, p - 1) \in Int
      BY <1>1, <1>4, <3>1 DEF Sorted
    <3>4. QED
      BY <1>1, <3>2, <3>3
  <2>2. r[a] + Cardinality(Alarms) >= w + 1
    <3>1. CASE r[a] >= 1 \/ w < Cardinality(Alarms)
      BY <1>1, <1>b, <2>1, <3>1
    <3>2. CASE r[a] = 0 /\ w = Cardinality(Alarms)
      <4>1. w = Len(q) /\ Len(q) \in 1 .. Len(q) /\ Len(q) - 1 \in 1 .. w - 1
        BY <1>9, <1>b, <3>2
      <4>2. Due(m, s, Len(q) - 1) <= 0
        BY <1>3, <3>2, <4>1
      <4>3. Due(q, r, Len(q)) >= 1
        <5>1. Due(q, r, Len(q)) + Cardinality(Alarms) >= Len(q) + 1 /\ Due(q, r, Len(q)) \in Int
          <6>1. Len(q) \in 0 .. Len(q)
            BY <1>b
          <6>2. QED
            BY <1>4, <1>6, <4>1, <6>1
        <5>2. QED
          BY <1>b, <3>2, <4>1, <5>1
      <4>4. Due(m, s, Len(q) - 1) = Due(q, r, Len(q))
        <5>1. CASE p = Len(q)
          <6>1. Len(q) - 1 \in 1 .. p - 1
            BY <4>1, <5>1
          <6>2. QED
            BY <1>2, <2>1, <3>2, <5>1, <6>1
        <5>2. CASE p # Len(q)
          <6>1. Len(q) - 1 \in p .. Len(q) - 1 /\ (Len(q) - 1) + 1 = Len(q)
            BY <1>b, <5>2
          <6>2. QED
            BY <1>2, <6>1
        <5>3. QED
          BY <5>1, <5>2
      <4>5. Due(q, r, Len(q)) \in Int
        <5>1. Len(q) \in 0 .. Len(q)
          BY <1>b
        <5>2. QED
          BY <1>4, <5>1
      <4>6. QED
        BY <4>2, <4>3, <4>4, <4>5
    <3>3. QED
      BY <1>1, <1>b, <2>1, <3>1, <3>2
  <2>3. ASSUME NEW j \in 1 .. Len(u) PROVE Due(u, v, j) + Cardinality(Alarms) >= j + 1
    <3>1. CASE j < w
      <4>1. j \in 1 .. w - 1 /\ j \in 1 .. Len(m)
        BY <1>b, <3>1
      <4>2. QED
        BY <1>3, <1>5, <4>1 DEF Slack
    <3>2. CASE j = w
      BY <1>3, <2>2, <3>2
    <3>3. CASE j > w
      <4>1. j - 1 \in w .. Len(m) /\ (j - 1) + 1 = j /\ j - 1 \in 1 .. Len(m) /\ j <= Len(q)
        BY <1>b, <3>3
      <4>2. Due(u, v, j) = Due(m, s, j - 1) /\ Due(m, s, j - 1) > r[a] /\ Due(m, s, j - 1) \in Int
        BY <1>3, <1>7, <4>1
      <4>3. QED
        BY <1>1, <1>b, <2>1, <4>1, <4>2
    <3>4. QED
      BY <1>b, <3>1, <3>2, <3>3
  <2>4. QED
    BY <2>3 DEF Slack
<1>10. QED
  BY <1>8, <1>9

(* A new offset for an alarm that is not in the queue.                     *)
Offset(r, a, x) == [r EXCEPT ![a] = x]
Given(s, a, x) == [s EXCEPT !.r[a] = x]
SameTimes(q, r, s) == /\ QueueOK(q, s) /\ LeftOf(q, s) = LeftOf(q, r)
                      /\ \A k : Slack(q, r, k) => Slack(q, s, k)

LEMMA OutsideRank ==
  ASSUME NEW q, NEW r, QueueOK(q, r), NEW a \in Alarms, a \notin ToSet(q), NEW x \in Int,
         NEW s, s = Offset(r, a, x)
  PROVE  SameTimes(q, r, s) /\ s[a] = x
<1>1. /\ q \in Seq(Alarms) /\ Len(q) \in Nat /\ r \in [Alarms -> Int] /\ Distinct(q) /\ Sorted(q, r)
      /\ \A i \in 1 .. Len(q) : q[i] \in Alarms /\ q[i] # a
  BY LeftIs, LenProperties DEF QueueOK
<1>2. s \in [Alarms -> Int] /\ s[a] = x /\ \A i \in 1 .. Len(q) : s[q[i]] = r[q[i]]
  BY <1>1 DEF Offset
<1>3. \A i \in 1 .. Len(q) : Due(q, s, i) = Due(q, r, i)
  BY <1>1, <1>2, DueSame
<1>4. QueueOK(q, s)
  BY <1>1, <1>2, <1>3 DEF QueueOK, Sorted
<1>5. \A k : Slack(q, r, k) => Slack(q, s, k)
  BY <1>3 DEF Slack
<1>6. ASSUME NEW b \in Alarms PROVE LeftOf(q, s)[b] = LeftOf(q, r)[b]
  <2>1. CASE b \in ToSet(q)
    <3>1. PICK i \in 1 .. Len(q) : q[i] = b
      BY <2>1, LeftIs
    <3>2. LeftOf(q, r)[b] = Due(q, r, i)
      BY <3>1, LeftIs
    <3>3. LeftOf(q, s)[b] = Due(q, s, i)
      BY <1>4, <3>1, LeftIs
    <3>4. QED
      BY <1>3, <3>2, <3>3
  <2>2. CASE b \notin ToSet(q)
    BY <1>4, <2>2, LeftIs
  <2>3. QED
    BY <2>1, <2>2
<1>7. LeftOf(q, s) = LeftOf(q, r)
  <2>1. PICK K, L : K = LeftOf(q, s) /\ L = LeftOf(q, r)
    OBVIOUS
  <2>2. K = [b \in Alarms |-> K[b]] /\ L = [b \in Alarms |-> L[b]]
    BY <2>1 DEF LeftOf
  <2>3. \A b \in Alarms : K[b] = L[b]
    BY <1>6, <2>1
  <2>4. K = L
    BY <2>2, <2>3
  <2>5. QED
    BY <2>1, <2>4
<1>8. QED
  BY <1>2, <1>4, <1>5, <1>7 DEF SameTimes

(* From (q, r) to (m, s), only a is armed again, with x ticks left.        *)
Rearmed(q, r, m, s, a, x) == /\ QueueOK(m, s) /\ ToSet(m) = ToSet(q) \cup {a}
                             /\ LeftOf(m, s) = [LeftOf(q, r) EXCEPT ![a] = x]
Disarmed(q, r, m, s, a) == /\ QueueOK(m, s) /\ ToSet(m) = ToSet(q) \ {a}
                           /\ LeftOf(m, s) = [LeftOf(q, r) EXCEPT ![a] = Off]
                           /\ IsFiniteSet(Alarms) /\ Slack(q, r, 1) => Slack(m, s, 1)
                           /\ IsFiniteSet(Alarms) /\ Slack(q, r, 0) /\ q # <<>> /\ a = Head(q)
                                => Slack(m, s, 1)

(* Inserted, with the offset it has or, as here, a new one.                *)
LEMMA InsertedStep ==
  ASSUME NEW q, NEW r, QueueOK(q, r), NEW a \in Alarms, a \notin ToSet(q), NEW n,
         n = Inserted([q |-> q, r |-> r], a)
  PROVE  /\ Rearmed(q, r, n.q, n.r, a, r[a])
         /\ IsFiniteSet(Alarms) /\ r[a] >= 1 /\ Slack(q, r, 1) => Slack(n.q, n.r, 1)
<1>1. PICK p : InsertedHere(q, r, n.q, n.r, a, r[a], p)
  BY InsertedIs
<1>2. PICK m, s, t : m = n.q /\ s = n.r /\ t = r[a]
  OBVIOUS
<1>3. InsertedHere(q, r, m, s, a, t, p) /\ t \in Int
  BY <1>1, <1>2 DEF QueueOK
<1>4. /\ QueueOK(m, s) /\ ToSet(m) = ToSet(q) \cup {a}
      /\ LeftOf(m, s) = [LeftOf(q, r) EXCEPT ![a] = t]
  BY <1>3, InsertedArms
<1>5. ASSUME IsFiniteSet(Alarms), t >= 1, Slack(q, r, 1) PROVE Slack(m, s, 1)
  <2>1. Cardinality(Alarms) \in Nat /\ Len(m) <= Cardinality(Alarms)
    BY <1>4, <1>5, QueueBounded DEF QueueOK
  <2>2. QED
    BY <1>3, <1>5, <2>1, SlackInserted
<1>6. QED
  BY <1>2, <1>4, <1>5 DEF Rearmed

(* Removed, if it was there, and given an offset.                          *)
LEMMA RemovedStep ==
  ASSUME NEW q, NEW r, QueueOK(q, r), NEW a \in Alarms, NEW n,
         n = Removed([q |-> q, r |-> r], a)
  PROVE  Disarmed(q, r, n.q, n.r, a) /\ n.r[a] = r[a] /\ n = [q |-> n.q, r |-> n.r]
<1>1. CASE a \notin ToSet(q)
  <2>1. n.q = q /\ n.r = r /\ n = [q |-> q, r |-> r]
    BY <1>1 DEF Removed
  <2>2. LeftOf(q, r) = [LeftOf(q, r) EXCEPT ![a] = Off]
    <3>1. PICK L : L = LeftOf(q, r)
      OBVIOUS
    <3>2. L = [b \in Alarms |-> L[b]]
      BY <3>1 DEF LeftOf
    <3>3. L[a] = Off
      BY <1>1, <3>1, LeftIs
    <3>4. L = [L EXCEPT ![a] = Off]
      BY <3>2, <3>3
    <3>5. QED
      BY <3>1, <3>4
  <2>3. q # <<>> => a # Head(q)
    <3>1. q # <<>> => Head(q) = q[1] /\ 1 \in 1 .. Len(q)
      BY LenProperties DEF QueueOK
    <3>2. QED
      BY <1>1, <3>1, LeftIs
  <2>4. QED
    BY <1>1, <2>1, <2>2, <2>3 DEF Disarmed
<1>2. CASE a \in ToSet(q)
  <2>1. PICK p : RemovedHere(q, r, n.q, n.r, a, p)
    BY <1>2, RemovedIs
  <2>2. PICK m, s : m = n.q /\ s = n.r
    OBVIOUS
  <2>3. RemovedHere(q, r, m, s, a, p)
    BY <2>1, <2>2
  <2>4. /\ QueueOK(m, s) /\ ToSet(m) = ToSet(q) \ {a}
        /\ LeftOf(m, s) = [LeftOf(q, r) EXCEPT ![a] = Off]
    BY <2>3, RemovedDisarms
  <2>5. s[a] = r[a]
    BY <2>3 DEF RemovedHere
  <2>6. n = [q |-> n.q, r |-> n.r]
    BY <1>2 DEF Removed
  <2>7. ASSUME IsFiniteSet(Alarms), NEW k \in Int, Slack(q, r, k)
        PROVE  Slack(m, s, k) /\ (p = 1 => Slack(m, s, k + 1))
    <3>1. Cardinality(Alarms) \in Nat
      BY <2>7, FS_CardinalityType
    <3>2. QED
      BY <2>3, <2>7, <3>1, SlackRemoved
  <2>8. q # <<>> /\ a = Head(q) => p = 1
    <3>1. q # <<>> => Head(q) = q[1] /\ 1 \in 1 .. Len(q)
      BY LenProperties DEF QueueOK
    <3>2. p \in 1 .. Len(q) /\ q[p] = a
      BY <2>3 DEF RemovedHere
    <3>3. QED
      BY <3>1, <3>2 DEF QueueOK, Distinct
  <2>9. IsFiniteSet(Alarms) /\ Slack(q, r, 1) => Slack(m, s, 1)
    BY <2>7
  <2>10. IsFiniteSet(Alarms) /\ Slack(q, r, 0) /\ p = 1 => Slack(m, s, 1)
    <3>1. 0 \in Int /\ 0 + 1 = 1
      OBVIOUS
    <3>2. QED
      BY <2>7, <3>1
  <2>11. QED
    BY <2>2, <2>4, <2>5, <2>6, <2>8, <2>9, <2>10 DEF Disarmed
<1>3. QED
  BY <1>1, <1>2

(* Construction: a new alarm, with an offset of its period.                *)
LEMMA ConstructStep ==
  ASSUME NEW q, NEW r, QueueOK(q, r), NEW a \in Alarms, a \notin ToSet(q), NEW t \in Int, NEW n,
         n = Inserted(Given([q |-> q, r |-> r], a, t), a)
  PROVE  /\ Rearmed(q, r, n.q, n.r, a, t)
         /\ IsFiniteSet(Alarms) /\ t >= 1 /\ Slack(q, r, 1) => Slack(n.q, n.r, 1)
<1>1. PICK s : s = Offset(r, a, t)
  OBVIOUS
<1>2. Given([q |-> q, r |-> r], a, t) = [q |-> q, r |-> s]
  BY <1>1 DEF Offset, Given
<1>3. n = Inserted([q |-> q, r |-> s], a)
  BY <1>2
<1>4. /\ QueueOK(q, s) /\ s[a] = t /\ LeftOf(q, s) = LeftOf(q, r)
      /\ \A k : Slack(q, r, k) => Slack(q, s, k)
  <2>1. SameTimes(q, r, s) /\ s[a] = t
    BY <1>1, OutsideRank
  <2>2. QED
    BY <2>1 DEF SameTimes
<1>5. /\ Rearmed(q, s, n.q, n.r, a, s[a])
      /\ IsFiniteSet(Alarms) /\ s[a] >= 1 /\ Slack(q, s, 1) => Slack(n.q, n.r, 1)
  BY <1>3, <1>4, InsertedStep
<1>6. QED
  BY <1>4, <1>5 DEF Rearmed

(* Destruction.                                                            *)
LEMMA DestroyStep ==
  ASSUME NEW q, NEW r, QueueOK(q, r), NEW a \in Alarms, NEW t \in Int, NEW n,
         n = Given(Removed([q |-> q, r |-> r], a), a, t)
  PROVE  /\ Disarmed(q, r, n.q, n.r, a)
         /\ n = [q |-> n.q, r |-> n.r] /\ n.r[a] = t
<1>1. PICK m : m = Removed([q |-> q, r |-> r], a)
  OBVIOUS
<1>2. Disarmed(q, r, m.q, m.r, a) /\ m = [q |-> m.q, r |-> m.r]
  BY <1>1, RemovedStep
<1>3. PICK u, v, w : u = m.q /\ v = m.r /\ w = Offset(v, a, t)
  OBVIOUS
<1>4. n = [q |-> u, r |-> w]
  <2>1. n = [m EXCEPT !.r[a] = t]
    BY <1>1 DEF Given
  <2>2. QED
    BY <1>2, <1>3, <2>1 DEF Offset
<1>5. QueueOK(u, v) /\ a \notin ToSet(u)
  BY <1>2, <1>3 DEF Disarmed
<1>6. /\ QueueOK(u, w) /\ w[a] = t /\ LeftOf(u, w) = LeftOf(u, v)
      /\ \A k : Slack(u, v, k) => Slack(u, w, k)
  <2>1. SameTimes(u, v, w) /\ w[a] = t
    BY <1>3, <1>5, OutsideRank
  <2>2. QED
    BY <2>1 DEF SameTimes
<1>7. n.q = u /\ n.r = w
  <2>1. [q |-> u, r |-> w].q = u /\ [q |-> u, r |-> w].r = w
    OBVIOUS
  <2>2. QED
    BY <1>4, <2>1, Zenon
<1>8. Disarmed(q, r, u, w, a)
  BY <1>2, <1>3, <1>6 DEF Disarmed
<1>9. QED
  BY <1>2, <1>3, <1>4, <1>6, <1>7, <1>8

(* A restart: out, and in again with the period for an offset.             *)
LEMMA RestartStep ==
  ASSUME NEW q, NEW r, QueueOK(q, r), NEW a \in Alarms, NEW t \in Int, NEW n,
         n = Inserted(Given(Removed([q |-> q, r |-> r], a), a, t), a)
  PROVE  /\ Rearmed(q, r, n.q, n.r, a, t)
         /\ IsFiniteSet(Alarms) /\ t >= 1 /\ Slack(q, r, 1) => Slack(n.q, n.r, 1)
         /\ IsFiniteSet(Alarms) /\ t >= 1 /\ Slack(q, r, 0) /\ q # <<>> /\ a = Head(q) => Slack(n.q, n.r, 1)
<1>1. PICK m : m = Given(Removed([q |-> q, r |-> r], a), a, t)
  OBVIOUS
<1>2. /\ Disarmed(q, r, m.q, m.r, a)
      /\ m = [q |-> m.q, r |-> m.r] /\ m.r[a] = t
  BY <1>1, DestroyStep
<1>3. PICK u, v : u = m.q /\ v = m.r
  OBVIOUS
<1>4. n = Inserted([q |-> u, r |-> v], a)
  BY <1>1, <1>2, <1>3
<1>5. QueueOK(u, v) /\ a \notin ToSet(u) /\ v[a] = t
  BY <1>2, <1>3 DEF Disarmed
<1>6. /\ Rearmed(u, v, n.q, n.r, a, v[a])
      /\ IsFiniteSet(Alarms) /\ v[a] >= 1 /\ Slack(u, v, 1) => Slack(n.q, n.r, 1)
  BY <1>4, <1>5, InsertedStep
<1>7. Rearmed(q, r, n.q, n.r, a, t)
  <2>1. LeftOf(u, v) = [LeftOf(q, r) EXCEPT ![a] = Off] /\ ToSet(u) = ToSet(q) \ {a}
    BY <1>2, <1>3 DEF Disarmed
  <2>2. LeftOf(n.q, n.r) = [LeftOf(u, v) EXCEPT ![a] = t] /\ QueueOK(n.q, n.r) /\ ToSet(n.q) = ToSet(u) \cup {a}
    BY <1>5, <1>6 DEF Rearmed
  <2>3. PICK K, L, M : K = LeftOf(n.q, n.r) /\ L = LeftOf(q, r) /\ M = LeftOf(u, v)
    OBVIOUS
  <2>4. L = [b \in Alarms |-> L[b]]
    BY <2>3 DEF LeftOf
  <2>5. K = [L EXCEPT ![a] = t]
    <3>1. M = [L EXCEPT ![a] = Off] /\ K = [M EXCEPT ![a] = t]
      BY <2>1, <2>2, <2>3
    <3>2. QED
      BY <2>4, <3>1
  <2>6. ToSet(n.q) = ToSet(q) \cup {a}
    BY <2>1, <2>2
  <2>7. QED
    BY <2>2, <2>3, <2>5, <2>6 DEF Rearmed
<1>8. QED
  BY <1>2, <1>3, <1>5, <1>6, <1>7 DEF Disarmed

(* A new period: out, and in again with the offset it had.                 *)
LEMMA MoveStep ==
  ASSUME NEW q, NEW r, QueueOK(q, r), NEW a \in Alarms, a \in ToSet(q), NEW n,
         n = Inserted(Removed([q |-> q, r |-> r], a), a)
  PROVE  /\ Rearmed(q, r, n.q, n.r, a, r[a])
         /\ IsFiniteSet(Alarms) /\ Slack(q, r, 1) => Slack(n.q, n.r, 1)
<1>1. PICK m : m = Removed([q |-> q, r |-> r], a)
  OBVIOUS
<1>2. Disarmed(q, r, m.q, m.r, a) /\ m.r[a] = r[a] /\ m = [q |-> m.q, r |-> m.r]
  BY <1>1, RemovedStep
<1>3. PICK u, v : u = m.q /\ v = m.r
  OBVIOUS
<1>4. n = Inserted([q |-> u, r |-> v], a)
  BY <1>1, <1>2, <1>3
<1>5. QueueOK(u, v) /\ a \notin ToSet(u) /\ v[a] = r[a]
  BY <1>2, <1>3 DEF Disarmed
<1>6. Rearmed(u, v, n.q, n.r, a, v[a])
  BY <1>4, <1>5, InsertedStep
<1>7. Rearmed(q, r, n.q, n.r, a, r[a])
  <2>1. LeftOf(u, v) = [LeftOf(q, r) EXCEPT ![a] = Off] /\ ToSet(u) = ToSet(q) \ {a}
    BY <1>2, <1>3 DEF Disarmed
  <2>2. LeftOf(n.q, n.r) = [LeftOf(u, v) EXCEPT ![a] = r[a]] /\ QueueOK(n.q, n.r) /\ ToSet(n.q) = ToSet(u) \cup {a}
    BY <1>5, <1>6 DEF Rearmed
  <2>3. PICK K, L, M, t : K = LeftOf(n.q, n.r) /\ L = LeftOf(q, r) /\ M = LeftOf(u, v) /\ t = r[a]
    OBVIOUS
  <2>4. L = [b \in Alarms |-> L[b]]
    BY <2>3 DEF LeftOf
  <2>5. K = [L EXCEPT ![a] = t]
    <3>1. M = [L EXCEPT ![a] = Off] /\ K = [M EXCEPT ![a] = t]
      BY <2>1, <2>2, <2>3
    <3>2. QED
      BY <2>4, <3>1
  <2>6. ToSet(n.q) = ToSet(q) \cup {a}
    BY <2>1, <2>2
  <2>7. QED
    BY <2>2, <2>3, <2>5, <2>6 DEF Rearmed
<1>8. ASSUME IsFiniteSet(Alarms), Slack(q, r, 1) PROVE Slack(n.q, n.r, 1)
  <2>1. Cardinality(Alarms) \in Nat /\ Len(q) <= Cardinality(Alarms)
    BY <1>8, QueueBounded DEF QueueOK
  <2>2. PICK p : RemovedHere(q, r, u, v, a, p)
    BY <1>1, <1>3, RemovedIs
  <2>3. PICK w : InsertedHere(u, v, n.q, n.r, a, v[a], w)
    BY <1>4, <1>5, InsertedIs
  <2>4. PICK x, y : x = n.q /\ y = n.r
    OBVIOUS
  <2>5. InsertedHere(u, v, x, y, a, r[a], w)
    BY <1>5, <2>3, <2>4
  <2>6. Slack(x, y, 1)
    BY <1>5, <1>8, <2>1, <2>2, <2>5, SlackMoved
  <2>7. QED
    BY <2>4, <2>6
<1>9. QED
  BY <1>7, <1>8

(* A tick, until the head of the queue goes off.                           *)
Ticked(q, r) == [r EXCEPT ![Head(q)] = @ - 1]

LEMMA TickStep ==
  ASSUME NEW q, NEW r, QueueOK(q, r), q # <<>>, NEW s, s = Ticked(q, r)
  PROVE  /\ QueueOK(q, s) /\ Head(q) \in Alarms /\ Head(q) \in ToSet(q)
         /\ s[Head(q)] \in Int /\ LeftOf(q, s)[Head(q)] = s[Head(q)]
         /\ \A b \in ToSet(q) : /\ LeftOf(q, s)[b] = LeftOf(q, r)[b] - 1
                                /\ s[Head(q)] <= LeftOf(q, s)[b]
         /\ IsFiniteSet(Alarms) /\ Slack(q, r, 1) => Slack(q, s, 0)
         /\ IsFiniteSet(Alarms) /\ s[Head(q)] > 0 => Slack(q, s, 1)
<1>1. QueueOK(q, s) /\ \A i \in 1 .. Len(q) : Due(q, s, i) = Due(q, r, i) - 1
  BY TickedIs DEF Ticked
<1>2. /\ q \in Seq(Alarms) /\ Len(q) \in Nat /\ r \in [Alarms -> Int] /\ s \in [Alarms -> Int] /\ Sorted(q, s)
      /\ \A i \in 1 .. Len(q) : q[i] \in Alarms
  BY <1>1, LeftIs, LenProperties DEF QueueOK
<1>3. 1 \in 1 .. Len(q) /\ Head(q) = q[1] /\ q[1] \in Alarms /\ q[1] \in ToSet(q)
  <2>1. 1 \in 1 .. Len(q) /\ Head(q) = q[1]
    BY <1>2
  <2>2. QED
    BY <1>2, <2>1, LeftIs
<1>4. \A i \in 1 .. Len(q) : Due(q, s, i) \in Int /\ Due(q, r, i) \in Int
  <2>1. \A i \in 0 .. Len(q) : Due(q, s, i) \in Int
    BY <1>2, DueSteps
  <2>2. \A i \in 0 .. Len(q) : Due(q, r, i) \in Int
    BY <1>2, DueSteps
  <2>3. \A i \in 1 .. Len(q) : i \in 0 .. Len(q)
    BY <1>2
  <2>4. QED
    BY <2>1, <2>2, <2>3
<1>5. Due(q, s, 1) = s[q[1]] /\ s[q[1]] \in Int
  <2>1. Due(q, s, 0) = 0 /\ \A i \in 1 .. Len(q) : Due(q, s, i) = Due(q, s, i - 1) + s[q[i]]
    BY <1>2, DueSteps
  <2>2. Due(q, s, 1) = Due(q, s, 0) + s[q[1]]
    <3>1. 1 - 1 = 0
      OBVIOUS
    <3>2. QED
      BY <1>3, <2>1, <3>1
  <2>3. QED
    BY <1>2, <1>3, <2>1, <2>2
<1>6. LeftOf(q, s)[q[1]] = s[q[1]]
  <2>1. LeftOf(q, s)[q[1]] = Due(q, s, 1)
    BY <1>1, <1>3, LeftIs
  <2>2. QED
    BY <1>5, <2>1
<1>7. ASSUME NEW b \in ToSet(q)
      PROVE  LeftOf(q, s)[b] = LeftOf(q, r)[b] - 1 /\ s[q[1]] <= LeftOf(q, s)[b]
  <2>1. PICK i \in 1 .. Len(q) : q[i] = b
    BY LeftIs
  <2>2. LeftOf(q, s)[b] = Due(q, s, i) /\ LeftOf(q, r)[b] = Due(q, r, i)
    BY <1>1, <2>1, LeftIs
  <2>3. Due(q, s, 1) <= Due(q, s, i)
    <3>1. i \in Nat /\ 1 <= i
      OBVIOUS
    <3>2. QED
      BY <1>2, <1>3, <3>1, Zenon DEF Sorted
  <2>4. QED
    BY <1>1, <1>5, <2>2, <2>3
<1>8. ASSUME IsFiniteSet(Alarms), Slack(q, r, 1) PROVE Slack(q, s, 0)
  <2>1. Cardinality(Alarms) \in Nat
    BY <1>8, FS_CardinalityType
  <2>2. ASSUME NEW i \in 1 .. Len(q) PROVE Due(q, s, i) + Cardinality(Alarms) >= i + 0
    <3>1. Due(q, r, i) + Cardinality(Alarms) >= i + 1
      BY <1>8 DEF Slack
    <3>2. Due(q, s, i) = Due(q, r, i) - 1 /\ Due(q, r, i) \in Int
      BY <1>1, <1>4
    <3>3. QED
      BY <2>1, <3>1, <3>2
  <2>3. QED
    BY <2>2 DEF Slack
<1>9. ASSUME IsFiniteSet(Alarms), s[q[1]] > 0 PROVE Slack(q, s, 1)
  <2>1. Cardinality(Alarms) \in Nat /\ Len(q) <= Cardinality(Alarms)
    BY <1>9, QueueBounded DEF QueueOK
  <2>2. ASSUME NEW i \in 1 .. Len(q) PROVE Due(q, s, i) + Cardinality(Alarms) >= i + 1
    <3>1. Due(q, s, 1) <= Due(q, s, i)
      <4>1. 1 <= i
        OBVIOUS
      <4>2. QED
        BY <1>2, <1>3, <4>1, Zenon DEF Sorted
    <3>2. i <= Len(q) /\ Len(q) \in Nat /\ Cardinality(Alarms) \in Nat /\ Len(q) <= Cardinality(Alarms)
      BY <1>2, <2>1
    <3>3. Due(q, s, i) \in Int /\ Due(q, s, 1) \in Int /\ Due(q, s, 1) > 0
      BY <1>3, <1>4, <1>5, <1>9
    <3>4. QED
      BY <3>1, <3>2, <3>3
  <2>3. QED
    BY <2>2 DEF Slack
<1>10. QED
  BY <1>1, <1>3, <1>5, <1>6, <1>7, <1>8, <1>9

-----------------------------------------------------------------------------
(* What is known of the alarms: those in the queue exist and have calls    *)
(* left, those that exist have a period, and one that never stops is in.   *)
AlarmsOK ==
    /\ ticks \in [Alarms -> Periods \cup {0}]
    /\ times \in [Alarms -> Nat \cup {INFINITE}]
    /\ exists \subseteq Alarms /\ ToSet(request) \subseteq exists
    /\ \A a \in exists : ticks[a] \in Periods /\ (times[a] = INFINITE => a \in ToSet(request))
    /\ \A a \in ToSet(request) : times[a] # 0

(* What is known of a thread in an operation.                              *)
Changing(f) == at[f].op \in {"reset", "period"}
DoingOK == \A f \in Flow :
    /\ at[f].op = "construct" => at[f].a \notin exists
    /\ Changing(f) => at[f].a \in exists /\ times[at[f].a] = INFINITE
    /\ at[f].op = "period" => at[f].t # ticks[at[f].a]

(* Two threads in operations on the same alarm only change it, and at most *)
(* one of them its period.                                                 *)
ApartOK == \A f, g \in Flow :
    f # g /\ at[f] # Idling /\ at[g] # Idling /\ at[f].a = at[g].a
      => Changing(f) /\ Changing(g) /\ ~(at[f].op = "period" /\ at[g].op = "period")

ClockInv == PlacesOK /\ QueueOK(request, rank) /\ AlarmsOK /\ DoingOK /\ ApartOK

(* A place has what its operation needs.                                   *)
LEMMA PlaceFacts ==
  ASSUME PlacesOK
  PROVE  \A f \in Flow :
           /\ at[f].op \in {"none", "construct", "destroy", "reset", "period"}
           /\ at[f].op = "none" <=> at[f] = Idling
           /\ at[f].op # "none" => at[f].a \in Alarms
           /\ at[f].op \in {"construct", "period"} => at[f].t \in Periods
           /\ at[f].op = "construct" => at[f].n \in Times
<1> SUFFICES ASSUME NEW f \in Flow
             PROVE  /\ at[f].op \in {"none", "construct", "destroy", "reset", "period"}
                    /\ at[f].op = "none" <=> at[f] = Idling
                    /\ at[f].op # "none" => at[f].a \in Alarms
                    /\ at[f].op \in {"construct", "period"} => at[f].t \in Periods
                    /\ at[f].op = "construct" => at[f].n \in Times
  OBVIOUS
<1>1. at[f] \in Place
  BY DEF PlacesOK
<1>2. CASE at[f] = Idling
  BY <1>2 DEF Idling
<1>3. CASE at[f] \in [op : {"construct"}, a : Alarms, t : Periods, n : Times]
  BY <1>3 DEF Idling
<1>4. CASE at[f] \in [op : {"destroy"}, a : Alarms]
  BY <1>4 DEF Idling
<1>5. CASE at[f] \in [op : {"reset"}, a : Alarms, step : {"lock", "work"}]
  BY <1>5 DEF Idling
<1>6. CASE at[f] \in [op : {"period"}, a : Alarms, t : Periods, step : {"lock", "work"}]
  BY <1>6 DEF Idling
<1>7. QED
  BY <1>1, <1>2, <1>3, <1>4, <1>5, <1>6 DEF Place

LEMMA InitClockInv == ASSUME Init PROVE ClockInv /\ Slack(request, rank, 1)
<1>1. PlacesOK /\ DoingOK /\ ApartOK
  BY DEF Init, PlacesOK, DoingOK, ApartOK, Place, Idling, Changing
<1>2. ToSet(request) = {} /\ Len(request) = 0 /\ request \in Seq(Alarms)
  BY DEF Init, ToSet
<1>3. QueueOK(request, rank) /\ Slack(request, rank, 1)
  BY <1>2 DEF Init, QueueOK, Distinct, Sorted, Slack
<1>4. AlarmsOK
  BY <1>2 DEF Init, AlarmsOK
<1>5. QED
  BY <1>1, <1>3, <1>4 DEF ClockInv

(* A thread comes into an operation or is at another step of it.           *)
LEMMA EnterKeeps ==
  ASSUME ClockInv, NEW f \in Flow, NEW p \in Place, at' = [at EXCEPT ![f] = p],
         UNCHANGED <<request, rank, ticks, times, exists>>,
         p # Idling,
         p.op = "construct" => p.a \notin exists,
         p.op \in {"reset", "period"} => p.a \in exists /\ times[p.a] = INFINITE,
         p.op = "period" => p.t # ticks[p.a],
         \A g \in Flow : g # f /\ at[g] # Idling /\ at[g].a = p.a
            => Changing(g) /\ p.op \in {"reset", "period"} /\ ~(p.op = "period" /\ at[g].op = "period")
  PROVE  ClockInv'
<1>1. at' \in [Flow -> Place] /\ at'[f] = p /\ \A g \in Flow : g # f => at'[g] = at[g]
  BY DEF ClockInv, PlacesOK
<1>2. PlacesOK'
  BY <1>1 DEF PlacesOK
<1>3. QueueOK(request, rank)' /\ AlarmsOK'
  BY DEF ClockInv, AlarmsOK
<1>4. DoingOK'
  <2> SUFFICES ASSUME NEW g \in Flow
               PROVE  /\ at'[g].op = "construct" => at'[g].a \notin exists'
                      /\ at'[g].op \in {"reset", "period"} => at'[g].a \in exists' /\ times'[at'[g].a] = INFINITE
                      /\ at'[g].op = "period" => at'[g].t # ticks'[at'[g].a]
    BY DEF DoingOK, Changing
  <2>1. CASE g = f
    BY <1>1, <2>1
  <2>2. CASE g # f
    BY <1>1, <2>2 DEF ClockInv, DoingOK, Changing
  <2>3. QED
    BY <2>1, <2>2
<1>5. ApartOK'
  <2> SUFFICES ASSUME NEW h \in Flow, NEW g \in Flow,
                      h # g, at'[h] # Idling, at'[g] # Idling, at'[h].a = at'[g].a
               PROVE  /\ at'[h].op \in {"reset", "period"} /\ at'[g].op \in {"reset", "period"}
                      /\ ~(at'[h].op = "period" /\ at'[g].op = "period")
    BY DEF ApartOK, Changing
  <2>1. CASE h = f
    BY <1>1, <2>1 DEF Changing
  <2>2. CASE g = f
    BY <1>1, <2>2 DEF Changing
  <2>3. CASE h # f /\ g # f
    BY <1>1, <2>3 DEF ClockInv, ApartOK, Changing
  <2>4. QED
    BY <2>1, <2>2, <2>3
<1>6. QED
  BY <1>2, <1>3, <1>4, <1>5 DEF ClockInv

(* A thread leaves its operation on a, which may have changed a and no     *)
(* other alarm.                                                            *)
LEMMA LeaveKeeps ==
  ASSUME ClockInv, NEW f \in Flow, at' = [at EXCEPT ![f] = Idling], at[f] # Idling,
         QueueOK(request, rank)', AlarmsOK',
         \A b \in Alarms : b # at[f].a => /\ b \in exists' <=> b \in exists
                                          /\ times'[b] = times[b] /\ ticks'[b] = ticks[b],
         Changing(f) => exists' = exists /\ times' = times,
         at[f].op = "reset" => ticks' = ticks
  PROVE  ClockInv'
<1>1. at' \in [Flow -> Place] /\ at'[f] = Idling /\ \A g \in Flow : g # f => at'[g] = at[g]
  BY DEF ClockInv, PlacesOK, Place
<1>2. PlacesOK'
  BY <1>1 DEF PlacesOK
<1>p. \A g \in Flow : /\ at[g].op = "none" <=> at[g] = Idling
                      /\ at[g].op # "none" => at[g].a \in Alarms
  BY PlaceFacts DEF ClockInv
<1>4. DoingOK'
  <2> SUFFICES ASSUME NEW g \in Flow
               PROVE  /\ at'[g].op = "construct" => at'[g].a \notin exists'
                      /\ at'[g].op \in {"reset", "period"} => at'[g].a \in exists' /\ times'[at'[g].a] = INFINITE
                      /\ at'[g].op = "period" => at'[g].t # ticks'[at'[g].a]
    BY DEF DoingOK, Changing
  <2>1. CASE g = f
    BY <1>1, <2>1 DEF Idling
  <2>2. CASE g # f /\ at[g] = Idling
    BY <1>1, <2>2 DEF Idling
  <2>3. CASE g # f /\ at[g] # Idling
    <3>1. /\ at'[g] = at[g] /\ at[g].a \in Alarms
          /\ at[g].op = "construct" => at[g].a \notin exists
          /\ at[g].op \in {"reset", "period"} => at[g].a \in exists /\ times[at[g].a] = INFINITE
          /\ at[g].op = "period" => at[g].t # ticks[at[g].a]
      BY <1>1, <1>p, <2>3 DEF ClockInv, DoingOK, Changing
    <3>2. CASE at[g].a # at[f].a
      BY <3>1, <3>2
    <3>3. CASE at[g].a = at[f].a
      <4>1. Changing(f) /\ Changing(g) /\ ~(at[f].op = "period" /\ at[g].op = "period")
        BY <2>3, <3>3 DEF ClockInv, ApartOK
      <4>2. exists' = exists /\ times' = times /\ at[g].op \in {"reset", "period"}
        BY <4>1 DEF Changing
      <4>3. at[g].op = "period" => ticks' = ticks
        BY <4>1 DEF Changing
      <4>4. QED
        BY <3>1, <4>2, <4>3
    <3>4. QED
      BY <3>2, <3>3
  <2>4. QED
    BY <2>1, <2>2, <2>3
<1>5. ApartOK'
  <2> SUFFICES ASSUME NEW h \in Flow, NEW g \in Flow,
                      h # g, at'[h] # Idling, at'[g] # Idling, at'[h].a = at'[g].a
               PROVE  /\ at'[h].op \in {"reset", "period"} /\ at'[g].op \in {"reset", "period"}
                      /\ ~(at'[h].op = "period" /\ at'[g].op = "period")
    BY DEF ApartOK, Changing
  <2>3. h # f /\ g # f
    BY <1>1
  <2>4. QED
    BY <1>1, <2>3 DEF ClockInv, ApartOK, Changing
<1>6. QED
  BY <1>2, <1>4, <1>5 DEF ClockInv

(* How the clock of the abstract specification sees the queue.             *)
LEMMA LeftIsLeftOf == Left = LeftOf(request, rank) /\ Left' = LeftOf(request, rank)'
  BY DEF Left, LeftOf

(* That a lateness bound is kept, and that the clock makes a step or none. *)
SlackKept == IsFiniteSet(Alarms) /\ Slack(request, rank, 1) => Slack(request, rank, 1)'
ClockMoves == Clock!Next \/ UNCHANGED <<Left, ticks, times>>

(* What the theorems rest on: -1U is not zero, and only alarms that never  *)
(* stop are reset or given another period.                                 *)
EndlessOnly == INFINITE # 0 /\ "restart_finite" \notin Calls

LEMMA ConstructMoves ==
  ASSUME ClockInv, EndlessOnly, NEW f \in Flow, Construct(f)
  PROVE  ClockInv' /\ SlackKept /\ ClockMoves
<1>1. PICK a, t, n, q, r : a = at[f].a /\ t = at[f].t /\ n = at[f].n /\ q = request /\ r = rank
  OBVIOUS
<1>2. PICK m : m = Inserted(Given(Queue, a, t), a)
  OBVIOUS
<1>3. /\ at[f].op = "construct" /\ ticks' = [ticks EXCEPT ![a] = t] /\ times' = [times EXCEPT ![a] = n]
      /\ exists' = exists \cup {a} /\ request' = m.q /\ rank' = m.r
      /\ at' = [at EXCEPT ![f] = Idling]
  BY <1>1, <1>2 DEF Construct, Becomes, Given
<1>4. a \in Alarms /\ t \in Periods /\ n \in Times /\ at[f] # Idling
  <2>1. /\ at[f].op = "none" <=> at[f] = Idling
        /\ at[f].op # "none" => at[f].a \in Alarms
        /\ at[f].op \in {"construct", "period"} => at[f].t \in Periods
        /\ at[f].op = "construct" => at[f].n \in Times
    BY PlaceFacts DEF ClockInv
  <2>2. QED
    BY <1>1, <1>3, <2>1
<1>5. t \in Int /\ t >= 1 /\ n # 0 /\ n \in Nat \cup {INFINITE}
  BY <1>4, AlarmAssumption DEF EndlessOnly
<1>6. a \notin exists /\ a \notin ToSet(request)
  BY <1>1, <1>3 DEF ClockInv, DoingOK, AlarmsOK
<1>7. QueueOK(q, r) /\ a \notin ToSet(q) /\ m = Inserted(Given([q |-> q, r |-> r], a, t), a)
  BY <1>1, <1>2, <1>6 DEF ClockInv, Queue
<1>8. /\ Rearmed(q, r, m.q, m.r, a, t)
      /\ IsFiniteSet(Alarms) /\ t >= 1 /\ Slack(q, r, 1) => Slack(m.q, m.r, 1)
  BY <1>4, <1>5, <1>7, ConstructStep
<1>9. /\ QueueOK(request, rank)' /\ ToSet(request') = ToSet(request) \cup {a}
      /\ Left' = [Left EXCEPT ![a] = t]
  BY <1>1, <1>3, <1>8, LeftIsLeftOf DEF Rearmed
<1>10. SlackKept
  BY <1>1, <1>3, <1>5, <1>8 DEF SlackKept
<1>11. AlarmsOK'
  <2>1. /\ ticks' \in [Alarms -> Periods \cup {0}]
        /\ times' \in [Alarms -> Nat \cup {INFINITE}]
    BY <1>3, <1>4, <1>5 DEF ClockInv, AlarmsOK
  <2>2. /\ ticks'[a] = t /\ times'[a] = n
        /\ \A b \in Alarms : b # a => ticks'[b] = ticks[b] /\ times'[b] = times[b]
    BY <1>3, <1>4 DEF ClockInv, AlarmsOK
  <2>3. exists' \subseteq Alarms /\ ToSet(request') \subseteq exists'
    BY <1>3, <1>4, <1>9 DEF ClockInv, AlarmsOK
  <2>4. ASSUME NEW b \in exists'
        PROVE  ticks'[b] \in Periods /\ (times'[b] = INFINITE => b \in ToSet(request'))
    BY <1>3, <1>4, <1>9, <2>2, <2>3 DEF ClockInv, AlarmsOK
  <2>5. ASSUME NEW b \in ToSet(request') PROVE times'[b] # 0
    BY <1>3, <1>4, <1>5, <1>9, <2>2, <2>3 DEF ClockInv, AlarmsOK
  <2>6. QED
    BY <2>1, <2>3, <2>4, <2>5 DEF AlarmsOK
<1>12. ClockInv'
  <2>1. \A b \in Alarms : b # at[f].a => /\ b \in exists' <=> b \in exists
                                         /\ times'[b] = times[b] /\ ticks'[b] = ticks[b]
    BY <1>1, <1>3 DEF ClockInv, AlarmsOK
  <2>2. ~Changing(f) /\ at[f].op # "reset"
    BY <1>3 DEF Changing
  <2>3. QED
    BY <1>3, <1>4, <1>9, <1>11, <2>1, <2>2, LeaveKeeps
<1>13. Clock!Arm(a, t, n)
  <2>1. Left[a] = Off
    BY <1>1, <1>4, <1>7, LeftIs, LeftIsLeftOf
  <2>2. QED
    BY <1>3, <1>9, <2>1 DEF Clock!Arm
<1>14. n \in (Times \ {INFINITE}) \cup {INFINITE}
  BY <1>4
<1>15. QED
  BY <1>4, <1>10, <1>12, <1>13, <1>14 DEF ClockMoves, Clock!Next

LEMMA DestroyMoves ==
  ASSUME ClockInv, EndlessOnly, NEW f \in Flow, Destroy(f)
  PROVE  ClockInv' /\ SlackKept /\ ClockMoves
<1>1. PICK a, q, r : a = at[f].a /\ q = request /\ r = rank
  OBVIOUS
<1>2. PICK m : m = Given(Removed(Queue, a), a, 0)
  OBVIOUS
<1>3. /\ at[f].op = "destroy" /\ ticks' = [ticks EXCEPT ![a] = 0] /\ times' = [times EXCEPT ![a] = 0]
      /\ exists' = exists \ {a} /\ request' = m.q /\ rank' = m.r
      /\ at' = [at EXCEPT ![f] = Idling]
  BY <1>1, <1>2 DEF Destroy, Becomes, Given
<1>4. a \in Alarms /\ at[f] # Idling
  <2>1. /\ at[f].op = "none" <=> at[f] = Idling
        /\ at[f].op # "none" => at[f].a \in Alarms
    BY PlaceFacts DEF ClockInv
  <2>2. QED
    BY <1>1, <1>3, <2>1
<1>7. QueueOK(q, r) /\ m = Given(Removed([q |-> q, r |-> r], a), a, 0)
  BY <1>1, <1>2 DEF ClockInv, Queue
<1>8. Disarmed(q, r, m.q, m.r, a)
  BY <1>4, <1>7, DestroyStep
<1>9. /\ QueueOK(request, rank)' /\ ToSet(request') = ToSet(request) \ {a}
      /\ Left' = [Left EXCEPT ![a] = Off]
  BY <1>1, <1>3, <1>8, LeftIsLeftOf DEF Disarmed
<1>10. SlackKept
  BY <1>1, <1>3, <1>8 DEF SlackKept, Disarmed
<1>11. AlarmsOK'
  <2>1. /\ ticks' \in [Alarms -> Periods \cup {0}]
        /\ times' \in [Alarms -> Nat \cup {INFINITE}]
    BY <1>3, <1>4 DEF ClockInv, AlarmsOK
  <2>2. \A b \in Alarms : b # a => ticks'[b] = ticks[b] /\ times'[b] = times[b]
    BY <1>3, <1>4 DEF ClockInv, AlarmsOK
  <2>3. exists' \subseteq Alarms /\ ToSet(request') \subseteq exists'
    BY <1>3, <1>4, <1>9 DEF ClockInv, AlarmsOK
  <2>4. ASSUME NEW b \in exists'
        PROVE  ticks'[b] \in Periods /\ (times'[b] = INFINITE => b \in ToSet(request'))
    BY <1>3, <1>4, <1>9, <2>2, <2>3 DEF ClockInv, AlarmsOK
  <2>5. ASSUME NEW b \in ToSet(request') PROVE times'[b] # 0
    BY <1>3, <1>4, <1>9, <2>2, <2>3 DEF ClockInv, AlarmsOK
  <2>6. QED
    BY <2>1, <2>3, <2>4, <2>5 DEF AlarmsOK
<1>12. ClockInv'
  <2>1. \A b \in Alarms : b # at[f].a => /\ b \in exists' <=> b \in exists
                                         /\ times'[b] = times[b] /\ ticks'[b] = ticks[b]
    BY <1>1, <1>3 DEF ClockInv, AlarmsOK
  <2>2. ~Changing(f) /\ at[f].op # "reset"
    BY <1>3 DEF Changing
  <2>3. QED
    BY <1>3, <1>4, <1>9, <1>11, <2>1, <2>2, LeaveKeeps
<1>13. Clock!Disarm(a)
  BY <1>3, <1>9 DEF Clock!Disarm
<1>15. QED
  BY <1>4, <1>10, <1>12, <1>13 DEF ClockMoves, Clock!Next

LEMMA ResetMoves ==
  ASSUME ClockInv, EndlessOnly, NEW f \in Flow, Reset(f)
  PROVE  ClockInv' /\ SlackKept /\ ClockMoves
<1>1. PICK a, t, q, r : a = at[f].a /\ t = ticks[a] /\ q = request /\ r = rank
  OBVIOUS
<1>2. PICK m : m = Inserted(Given(Removed(Queue, a), a, t), a)
  OBVIOUS
<1>3. /\ at[f].op = "reset" /\ request' = m.q /\ rank' = m.r
      /\ at' = [at EXCEPT ![f] = Idling] /\ UNCHANGED <<ticks, times, exists>>
  BY <1>1, <1>2 DEF Reset, Finish, Becomes, Given
<1>4. a \in Alarms /\ at[f] # Idling
  <2>1. /\ at[f].op = "none" <=> at[f] = Idling
        /\ at[f].op # "none" => at[f].a \in Alarms
    BY PlaceFacts DEF ClockInv
  <2>2. QED
    BY <1>1, <1>3, <2>1
<1>5. a \in exists /\ times[a] = INFINITE /\ a \in ToSet(request) /\ t \in Periods
  BY <1>1, <1>3 DEF ClockInv, DoingOK, AlarmsOK, Changing
<1>6. t \in Int /\ t >= 1
  BY <1>5, AlarmAssumption
<1>7. QueueOK(q, r) /\ m = Inserted(Given(Removed([q |-> q, r |-> r], a), a, t), a)
  BY <1>1, <1>2 DEF ClockInv, Queue
<1>8. /\ Rearmed(q, r, m.q, m.r, a, t)
      /\ IsFiniteSet(Alarms) /\ t >= 1 /\ Slack(q, r, 1) => Slack(m.q, m.r, 1)
  BY <1>4, <1>6, <1>7, RestartStep
<1>9. /\ QueueOK(request, rank)' /\ ToSet(request') = ToSet(request) \cup {a}
      /\ Left' = [Left EXCEPT ![a] = t]
  BY <1>1, <1>3, <1>8, LeftIsLeftOf DEF Rearmed
<1>10. SlackKept
  BY <1>1, <1>3, <1>6, <1>8 DEF SlackKept
<1>11. AlarmsOK'
  <2>1. ToSet(request') = ToSet(request)
    BY <1>5, <1>9
  <2>2. QED
    BY <1>3, <2>1 DEF ClockInv, AlarmsOK
<1>12. ClockInv'
  BY <1>3, <1>4, <1>9, <1>11, LeaveKeeps
<1>13. Clock!Restart(a)
  BY <1>1, <1>3, <1>9 DEF Clock!Restart
<1>15. QED
  BY <1>4, <1>10, <1>12, <1>13 DEF ClockMoves, Clock!Next

LEMMA PeriodMoves ==
  ASSUME ClockInv, EndlessOnly, NEW f \in Flow, Period(f)
  PROVE  ClockInv' /\ SlackKept /\ ClockMoves
<1>1. PICK a, t, q, r : a = at[f].a /\ t = at[f].t /\ q = request /\ r = rank
  OBVIOUS
<1>2. PICK m : m = Inserted(Removed(Queue, a), a)
  OBVIOUS
<1>3. /\ at[f].op = "period" /\ request' = m.q /\ rank' = m.r
      /\ ticks' = [ticks EXCEPT ![a] = t]
      /\ at' = [at EXCEPT ![f] = Idling] /\ UNCHANGED <<times, exists>>
  BY <1>1, <1>2 DEF Period, Finish, Becomes
<1>4. a \in Alarms /\ t \in Periods /\ at[f] # Idling
  <2>1. /\ at[f].op = "none" <=> at[f] = Idling
        /\ at[f].op # "none" => at[f].a \in Alarms
        /\ at[f].op \in {"construct", "period"} => at[f].t \in Periods
    BY PlaceFacts DEF ClockInv
  <2>2. QED
    BY <1>1, <1>3, <2>1
<1>5. a \in exists /\ times[a] = INFINITE /\ a \in ToSet(request) /\ t # ticks[a]
  BY <1>1, <1>3 DEF ClockInv, DoingOK, AlarmsOK, Changing
<1>7. QueueOK(q, r) /\ a \in ToSet(q) /\ m = Inserted(Removed([q |-> q, r |-> r], a), a)
  BY <1>1, <1>2, <1>5 DEF ClockInv, Queue
<1>8. /\ Rearmed(q, r, m.q, m.r, a, r[a])
      /\ IsFiniteSet(Alarms) /\ Slack(q, r, 1) => Slack(m.q, m.r, 1)
  BY <1>4, <1>7, MoveStep
<1>9. /\ QueueOK(request, rank)' /\ ToSet(request') = ToSet(request) \cup {a}
      /\ Left' = [Left EXCEPT ![a] = r[a]]
  BY <1>1, <1>3, <1>8, LeftIsLeftOf DEF Rearmed
<1>10. SlackKept
  BY <1>1, <1>3, <1>8 DEF SlackKept
<1>t. /\ ticks' \in [Alarms -> Periods \cup {0}] /\ ticks'[a] = t
      /\ \A b \in Alarms : b # a => ticks'[b] = ticks[b]
  BY <1>3, <1>4 DEF ClockInv, AlarmsOK
<1>11. AlarmsOK'
  <2>1. ToSet(request') = ToSet(request)
    BY <1>5, <1>9
  <2>2. ASSUME NEW b \in exists PROVE ticks'[b] \in Periods
    BY <1>4, <1>t DEF ClockInv, AlarmsOK
  <2>3. QED
    BY <1>3, <1>t, <2>1, <2>2 DEF ClockInv, AlarmsOK
<1>12. ClockInv'
  <2>1. \A b \in Alarms : b # at[f].a => /\ b \in exists' <=> b \in exists
                                         /\ times'[b] = times[b] /\ ticks'[b] = ticks[b]
    BY <1>1, <1>3, <1>t
  <2>2. at[f].op # "reset"
    BY <1>3
  <2>3. QED
    BY <1>3, <1>4, <1>9, <1>11, <2>1, <2>2, LeaveKeeps
<1>13. Clock!SetPeriod(a, t)
  <2>1. Left = [b \in Alarms |-> Left[b]]
    BY DEF Left
  <2>2. Left' = [Left EXCEPT ![a] = Left'[a]]
    BY <1>4, <1>9, <2>1
  <2>3. QED
    BY <1>3, <1>5, <2>2 DEF Clock!SetPeriod
<1>15. QED
  BY <1>4, <1>10, <1>12, <1>13 DEF ClockMoves, Clock!Next

(* A tick of the timer.                                                    *)
LEMMA HandlerMoves ==
  ASSUME ClockInv, EndlessOnly, Off \notin Int, Handler
  PROVE  ClockInv' /\ SlackKept /\ ClockMoves
<1>1. CASE request = <<>>
  <2>1. UNCHANGED vars
    BY <1>1 DEF Handler
  <2>2. UNCHANGED <<request, rank, ticks, times, exists, at>>
    BY <2>1 DEF vars
  <2>3. ClockInv'
    BY <2>2 DEF ClockInv, PlacesOK, AlarmsOK, DoingOK, ApartOK, Changing
  <2>4. SlackKept /\ UNCHANGED <<Left, ticks, times>>
    BY <2>2, LeftIsLeftOf DEF SlackKept
  <2>5. QED
    BY <2>3, <2>4 DEF ClockMoves
<1>2. CASE request # <<>>
  <2>1. PICK a, q, r, s, n : /\ q = request /\ r = rank /\ a = Head(q)
                             /\ s = Ticked(q, r) /\ n = Less(times[a])
    OBVIOUS
  <2>2. QueueOK(q, r) /\ q # <<>>
    BY <1>2, <2>1 DEF ClockInv
  <2>3. /\ QueueOK(q, s) /\ a \in Alarms /\ a \in ToSet(q)
        /\ s[a] \in Int /\ LeftOf(q, s)[a] = s[a]
        /\ \A b \in ToSet(q) : /\ LeftOf(q, s)[b] = LeftOf(q, r)[b] - 1
                               /\ s[a] <= LeftOf(q, s)[b]
        /\ IsFiniteSet(Alarms) /\ Slack(q, r, 1) => Slack(q, s, 0)
        /\ IsFiniteSet(Alarms) /\ s[a] > 0 => Slack(q, s, 1)
    <3>1. /\ QueueOK(q, s) /\ Head(q) \in Alarms /\ Head(q) \in ToSet(q)
          /\ s[Head(q)] \in Int /\ LeftOf(q, s)[Head(q)] = s[Head(q)]
          /\ \A b \in ToSet(q) : /\ LeftOf(q, s)[b] = LeftOf(q, r)[b] - 1
                                 /\ s[Head(q)] <= LeftOf(q, s)[b]
          /\ IsFiniteSet(Alarms) /\ Slack(q, r, 1) => Slack(q, s, 0)
          /\ IsFiniteSet(Alarms) /\ s[Head(q)] > 0 => Slack(q, s, 1)
      BY <2>1, <2>2, TickStep
    <3>2. QED
      BY <2>1, <3>1, Zenon
  <2>4. [Queue EXCEPT !.r[a] = @ - 1] = [q |-> q, r |-> s]
    BY <2>1 DEF Queue, Ticked
  <2>5. UNCHANGED <<ticks, exists, at>>
    BY <1>2 DEF Handler
  <2>6. \/ s[a] > 0 /\ request' = q /\ rank' = s /\ times' = times
        \/ /\ s[a] <= 0 /\ times' = [times EXCEPT ![a] = n]
           /\ LET m == IF n = 0 THEN Removed([q |-> q, r |-> s], a)
                       ELSE Inserted(Given(Removed([q |-> q, r |-> s], a), a, ticks[a]), a)
              IN  request' = m.q /\ rank' = m.r
    BY <1>2, <2>1, <2>4 DEF Handler, Becomes, Given
  <2> DEFINE armed == {b \in Alarms : Left[b] # Off}
             down  == [b \in Alarms |-> IF b \in armed THEN Left[b] - 1 ELSE Off]
             due   == {b \in armed : down[b] <= 0 /\ \A c \in armed : down[b] <= down[c]}
  <2>7. armed = ToSet(q)
    <3>1. ASSUME NEW b \in ToSet(q) PROVE b \in Alarms /\ Left[b] # Off
      <4>1. PICK i \in 1 .. Len(q) : q[i] = b
        BY <2>2, LeftIs
      <4>2. b \in Alarms /\ Left[b] = Due(q, r, i)
        BY <2>1, <2>2, <4>1, LeftIs, LeftIsLeftOf
      <4>3. Due(q, r, i) \in Int
        <5>1. i \in 0 .. Len(q)
          BY LenProperties, <2>2 DEF QueueOK
        <5>2. QED
          BY <2>2, <5>1, DueSteps DEF QueueOK
      <4>4. QED
        BY <4>2, <4>3
    <3>2. ASSUME NEW b \in Alarms, b \notin ToSet(q) PROVE Left[b] = Off
      BY <2>1, <2>2, <3>2, LeftIs, LeftIsLeftOf
    <3>3. QED
      BY <3>1, <3>2
  <2>8. down = LeftOf(q, s)
    <3>1. PICK K, L : K = LeftOf(q, s) /\ L = Left
      OBVIOUS
    <3>2. K = [b \in Alarms |-> K[b]]
      BY <3>1 DEF LeftOf
    <3>3. ASSUME NEW b \in Alarms PROVE K[b] = IF b \in armed THEN L[b] - 1 ELSE Off
      <4>1. CASE b \in ToSet(q)
        BY <2>1, <2>3, <2>7, <3>1, <4>1, LeftIsLeftOf
      <4>2. CASE b \notin ToSet(q)
        BY <2>3, <2>7, <3>1, <4>2, LeftIs
      <4>3. QED
        BY <4>1, <4>2
    <3> HIDE DEF armed
    <3>4. down = K
      BY <3>1, <3>2, <3>3
    <3>5. QED
      BY <3>1, <3>4
  <2>9. \A b \in armed : s[a] <= down[b]
    BY <2>3, <2>7, <2>8
  <2>10. a \in armed /\ down[a] = s[a]
    BY <2>3, <2>7, <2>8
  <2>11. /\ ticks[a] \in Periods /\ times[a] # 0 /\ a \in exists
         /\ times \in [Alarms -> Nat \cup {INFINITE}]
    BY <2>1, <2>3 DEF ClockInv, AlarmsOK
  <2>12. CASE s[a] > 0 /\ request' = q /\ rank' = s /\ times' = times
    <3>1. QueueOK(request, rank)' /\ ToSet(request') = ToSet(request)
      BY <2>1, <2>3, <2>12
    <3>2. ClockInv'
      BY <2>5, <2>12, <3>1 DEF ClockInv, PlacesOK, AlarmsOK, DoingOK, ApartOK, Changing
    <3>3. SlackKept
      BY <2>3, <2>12 DEF SlackKept
    <3>4. due = {}
      <4> HIDE DEF armed, down
      <4>1. \A b \in armed : ~(down[b] <= 0) \/ ~(\A c \in armed : down[b] <= down[c])
        <5> SUFFICES ASSUME NEW b \in armed, down[b] <= 0, \A c \in armed : down[b] <= down[c] PROVE FALSE
          OBVIOUS
        <5>1. s[a] <= down[b] /\ down[b] <= s[a]
          BY <2>9, <2>10
        <5>2. down[b] \in Int
          <6>1. down[b] = LeftOf(q, s)[b] /\ b \in ToSet(q)
            BY <2>7, <2>8
          <6>2. PICK i \in 1 .. Len(q) : q[i] = b
            BY <2>2, <6>1, LeftIs
          <6>3. LeftOf(q, s)[b] = Due(q, s, i)
            BY <2>3, <6>2, LeftIs
          <6>4. i \in 0 .. Len(q)
            BY LenProperties, <2>2 DEF QueueOK
          <6>5. QED
            BY <2>3, <6>1, <6>3, <6>4, DueSteps DEF QueueOK
        <5>3. QED
          BY <2>3, <2>12, <5>1, <5>2
      <4>2. QED
        BY <4>1
    <3>5. Left' = down
      BY <2>8, <2>12, LeftIsLeftOf
    <3>6. Clock!Tick
      BY <2>5, <2>12, <3>4, <3>5 DEF Clock!Tick
    <3>7. QED
      BY <3>2, <3>3, <3>6 DEF ClockMoves, Clock!Next
  <2>13. CASE /\ s[a] <= 0 /\ times' = [times EXCEPT ![a] = n]
              /\ LET m == IF n = 0 THEN Removed([q |-> q, r |-> s], a)
                          ELSE Inserted(Given(Removed([q |-> q, r |-> s], a), a, ticks[a]), a)
                 IN  request' = m.q /\ rank' = m.r
    <3>1. a \in due
      BY <2>9, <2>10, <2>13
    <3>2. n = IF times[a] = INFINITE THEN INFINITE ELSE times[a] - 1
      BY <2>1, <2>11 DEF Less
    <3>3. n \in Nat \cup {INFINITE} /\ (times[a] # INFINITE => n \in Nat)
      BY <2>3, <2>11, <3>2
    <3>t. times' \in [Alarms -> Nat \cup {INFINITE}] /\ times'[a] = n /\ \A b \in Alarms : b # a => times'[b] = times[b]
      BY <2>3, <2>11, <2>13, <3>3
    <3>p. ticks[a] \in Int /\ ticks[a] >= 1
      <4>1. Periods \subseteq Nat \ {0}
        BY AlarmAssumption
      <4>2. ticks[a] \in Periods
        BY <2>11
      <4>3. ticks[a] \in Nat /\ ticks[a] # 0
        BY <4>1, <4>2
      <4>4. QED
        BY <4>3
    <3>4. /\ QueueOK(request, rank)' /\ SlackKept
          /\ ToSet(request') = IF n = 0 THEN ToSet(request) \ {a} ELSE ToSet(request)
          /\ Left' = [down EXCEPT ![a] = IF n = 0 THEN Off ELSE ticks[a]]
      <4>1. CASE n = 0
        <5>1. PICK m : m = Removed([q |-> q, r |-> s], a)
          OBVIOUS
        <5>2. Disarmed(q, s, m.q, m.r, a)
          BY <2>3, <5>1, RemovedStep
        <5>3. request' = m.q /\ rank' = m.r
          BY <2>13, <4>1, <5>1
        <5>4. SlackKept
          BY <2>1, <2>2, <2>3, <5>2, <5>3 DEF SlackKept, Disarmed
        <5>5. /\ QueueOK(request, rank)' /\ ToSet(request') = ToSet(request) \ {a}
              /\ Left' = [down EXCEPT ![a] = Off]
          BY <2>1, <2>8, <5>2, <5>3, LeftIsLeftOf DEF Disarmed
        <5>6. QED
          BY <4>1, <5>4, <5>5
      <4>2. CASE n # 0
        <5>0. PICK t : t = ticks[a]
          OBVIOUS
        <5>1. PICK m : m = Inserted(Given(Removed([q |-> q, r |-> s], a), a, t), a)
          OBVIOUS
        <5>2. /\ Rearmed(q, s, m.q, m.r, a, t)
              /\ IsFiniteSet(Alarms) /\ t >= 1 /\ Slack(q, s, 0) /\ q # <<>> /\ a = Head(q) => Slack(m.q, m.r, 1)
          BY <2>3, <3>p, <5>0, <5>1, RestartStep
        <5>3. request' = m.q /\ rank' = m.r
          BY <2>13, <4>2, <5>0, <5>1
        <5>4. SlackKept
          BY <2>1, <2>2, <2>3, <3>p, <5>0, <5>2, <5>3 DEF SlackKept
        <5>5. /\ QueueOK(request, rank)' /\ ToSet(request') = ToSet(request) \cup {a}
              /\ Left' = [down EXCEPT ![a] = t]
          BY <2>1, <2>8, <5>2, <5>3, LeftIsLeftOf DEF Rearmed
        <5>6. ToSet(request') = ToSet(request)
          BY <2>1, <2>3, <5>5
        <5>7. QED
          BY <4>2, <5>0, <5>4, <5>5, <5>6
      <4>3. QED
        BY <4>1, <4>2
    <3>5. AlarmsOK'
      <4>1. exists' \subseteq Alarms /\ ToSet(request') \subseteq exists'
        BY <2>5, <3>4 DEF ClockInv, AlarmsOK
      <4>2. ASSUME NEW b \in exists'
            PROVE  ticks'[b] \in Periods /\ (times'[b] = INFINITE => b \in ToSet(request'))
        <5>1. CASE b = a
          BY <2>1, <2>3, <2>5, <2>11, <3>4, <3>t, <4>2, <5>1 DEF EndlessOnly
        <5>2. CASE b # a
          BY <2>5, <3>4, <3>t, <4>1, <4>2, <5>2 DEF ClockInv, AlarmsOK
        <5>3. QED
          BY <5>1, <5>2
      <4>3. ASSUME NEW b \in ToSet(request') PROVE times'[b] # 0
        <5>1. b \in ToSet(request) /\ b \in Alarms
          BY <2>5, <3>4, <4>1, <4>3
        <5>2. CASE b = a
          BY <3>4, <3>t, <4>3, <5>2
        <5>3. CASE b # a
          BY <3>t, <5>1, <5>3 DEF ClockInv, AlarmsOK
        <5>4. QED
          BY <5>2, <5>3
      <4>4. QED
        BY <2>5, <3>t, <4>1, <4>2, <4>3 DEF ClockInv, AlarmsOK
    <3>6. DoingOK'
      <4> SUFFICES ASSUME NEW g \in Flow
                   PROVE  /\ at[g].op = "construct" => at[g].a \notin exists
                          /\ at[g].op \in {"reset", "period"} => at[g].a \in exists /\ times'[at[g].a] = INFINITE
                          /\ at[g].op = "period" => at[g].t # ticks[at[g].a]
        BY <2>5 DEF DoingOK, Changing
      <4>1. /\ at[g].op = "construct" => at[g].a \notin exists
            /\ at[g].op \in {"reset", "period"} => at[g].a \in exists /\ times[at[g].a] = INFINITE
            /\ at[g].op = "period" => at[g].t # ticks[at[g].a]
        BY DEF ClockInv, DoingOK, Changing
      <4>2. times[a] = INFINITE => times'[a] = INFINITE
        BY <3>2, <3>t
      <4>3. \A b \in exists : b \in Alarms /\ (times[b] = INFINITE => times'[b] = INFINITE)
        BY <3>t, <4>2 DEF ClockInv, AlarmsOK
      <4>4. QED
        BY <4>1, <4>3
    <3>7. ClockInv'
      BY <2>5, <3>4, <3>5, <3>6 DEF ClockInv, PlacesOK, ApartOK, Changing
    <3>8. Clock!Tick
      <4>1. times' = [times EXCEPT ![a] = n]
        BY <2>13
      <4> HIDE DEF armed, down
      <4>2. /\ times' = [times EXCEPT ![a] = IF times[a] = INFINITE THEN INFINITE ELSE times[a] - 1]
            /\ Left' = [down EXCEPT ![a] = IF (IF times[a] = INFINITE THEN INFINITE ELSE times[a] - 1) = 0 THEN Off ELSE ticks[a]]
        BY <3>2, <3>4, <4>1
      <4> HIDE DEF due
      <4>3. \E b \in due :
              /\ times' = [times EXCEPT ![b] = IF times[b] = INFINITE THEN INFINITE ELSE times[b] - 1]
              /\ Left' = [down EXCEPT ![b] = IF (IF times[b] = INFINITE THEN INFINITE ELSE times[b] - 1) = 0 THEN Off ELSE ticks[b]]
        BY <3>1, <4>2, Zenon
      <4>4. QED
        BY <2>5, <4>3, Zenon DEF Clock!Tick, armed, down, due
    <3>9. QED
      BY <3>4, <3>7, <3>8 DEF ClockMoves, Clock!Next
  <2>14. QED
    BY <2>6, <2>12, <2>13
<1>3. QED
  BY <1>1, <1>2

(* Every step of a thread and of the timer.                                *)
LEMMA NextMoves ==
  ASSUME LockedIsOwn, Null \notin Flow, IInv, EndlessOnly, Off \notin Int, ClockInv, [Next]_vars
  PROVE  ClockInv' /\ SlackKept /\ ClockMoves
<1>u. ASSUME UNCHANGED <<request, rank, ticks, times, exists>> PROVE SlackKept /\ ClockMoves
  BY <1>u, LeftIsLeftOf DEF SlackKept, ClockMoves
<1>1. CASE UNCHANGED vars
  <2>1. UNCHANGED <<request, rank, ticks, times, exists, at>>
    BY <1>1 DEF vars
  <2>2. ClockInv'
    BY <2>1 DEF ClockInv, PlacesOK, AlarmsOK, DoingOK, ApartOK, Changing
  <2>3. QED
    BY <1>u, <2>1, <2>2
<1>2. ASSUME NEW f \in Flow, NEW a \in Alarms, NEW t \in Periods, NEW n \in Times,
             Enter(f, [op |-> "construct", a |-> a, t |-> t, n |-> n])
      PROVE  ClockInv' /\ SlackKept /\ ClockMoves
  <2>1. PICK p : p = [op |-> "construct", a |-> a, t |-> t, n |-> n]
    OBVIOUS
  <2>2. p \in Place /\ p # Idling /\ p.op = "construct" /\ p.a = a
    BY <2>1 DEF Place, Idling
  <2>3. /\ p.a \in exists <=> p.op = "destroy"
        /\ \A g \in Flow : at[g] # Idling => at[g].a # p.a
        /\ at' = [at EXCEPT ![f] = p] /\ UNCHANGED <<request, rank, ticks, times, exists>>
    BY <1>2, <2>1 DEF Enter
  <2>4. ClockInv'
    BY <2>2, <2>3, EnterKeeps
  <2>5. QED
    BY <1>u, <2>3, <2>4
<1>3. ASSUME NEW f \in Flow, NEW a \in Alarms, Enter(f, [op |-> "destroy", a |-> a])
      PROVE  ClockInv' /\ SlackKept /\ ClockMoves
  <2>1. PICK p : p = [op |-> "destroy", a |-> a]
    OBVIOUS
  <2>2. p \in Place /\ p # Idling /\ p.op = "destroy" /\ p.a = a
    BY <2>1 DEF Place, Idling
  <2>3. /\ p.a \in exists <=> p.op = "destroy"
        /\ \A g \in Flow : at[g] # Idling => at[g].a # p.a
        /\ at' = [at EXCEPT ![f] = p] /\ UNCHANGED <<request, rank, ticks, times, exists>>
    BY <1>3, <2>1 DEF Enter
  <2>4. ClockInv'
    BY <2>2, <2>3, EnterKeeps
  <2>5. QED
    BY <1>u, <2>3, <2>4
<1>4. ASSUME NEW f \in Flow, NEW a \in Alarms,
             Ask(f, [op |-> "reset", a |-> a, step |-> "ask"])
      PROVE  ClockInv' /\ SlackKept /\ ClockMoves
  <2>1. PICK p : p = [op |-> "reset", a |-> a, step |-> IF lock = Null THEN "lock" ELSE "work"]
    OBVIOUS
  <2>2. p \in Place /\ p # Idling /\ p.op = "reset" /\ p.a = a
    BY <2>1 DEF Place, Idling
  <2>3. /\ a \in exists /\ times[a] = INFINITE
        /\ at' = [at EXCEPT ![f] = p] /\ UNCHANGED <<request, rank, ticks, times, exists>>
    <3>1. PICK o : o = [op |-> "reset", a |-> a, step |-> "ask"]
      OBVIOUS
    <3>2. o.a = a /\ [o EXCEPT !.step = IF lock = Null THEN "lock" ELSE "work"] = p
      BY <2>1, <3>1
    <3>3. Ask(f, o)
      BY <1>4, <3>1
    <3>4. /\ o.a \in exists /\ times[o.a] = INFINITE
          /\ at' = [at EXCEPT ![f] = [o EXCEPT !.step = IF lock = Null THEN "lock" ELSE "work"]]
          /\ UNCHANGED <<request, rank, ticks, times, exists>>
      BY <3>3 DEF Ask, Restartable, EndlessOnly
    <3>5. QED
      BY <3>2, <3>4
  <2>4. \A g \in Flow : g # f /\ at[g] # Idling /\ at[g].a = a => Changing(g)
    <3> SUFFICES ASSUME NEW g \in Flow, at[g] # Idling, at[g].a = a PROVE Changing(g)
      OBVIOUS
    <3>1. at[g].op \in {"none", "construct", "destroy", "reset", "period"} /\ (at[g].op = "none" <=> at[g] = Idling)
      BY PlaceFacts DEF ClockInv
    <3>2. at[g].op # "construct"
      BY <2>3 DEF ClockInv, DoingOK
    <3>3. at[g].op # "destroy"
      <4>1. lock = Null
        BY <1>4 DEF Ask, Restartable, Runs, LockedIsOwn, IInv, HolderIsIn
      <4>2. QED
        BY <4>1 DEF IInv, QueueLocked, Working
    <3>4. QED
      BY <3>1, <3>2, <3>3 DEF Changing
  <2>5. ClockInv'
    BY <2>2, <2>3, <2>4, EnterKeeps
  <2>6. QED
    BY <1>u, <2>3, <2>5
<1>5. ASSUME NEW f \in Flow, NEW a \in Alarms, NEW t \in Periods,
             Ask(f, [op |-> "period", a |-> a, t |-> t, step |-> "ask"])
      PROVE  ClockInv' /\ SlackKept /\ ClockMoves
  <2>1. PICK p : p = [op |-> "period", a |-> a, t |-> t, step |-> IF lock = Null THEN "lock" ELSE "work"]
    OBVIOUS
  <2>2. p \in Place /\ p # Idling /\ p.op = "period" /\ p.a = a /\ p.t = t
    BY <2>1 DEF Place, Idling
  <2>3. /\ a \in exists /\ times[a] = INFINITE /\ t # ticks[a]
        /\ \A g \in Flow : at[g] # Idling => at[g].a # a
        /\ at' = [at EXCEPT ![f] = p] /\ UNCHANGED <<request, rank, ticks, times, exists>>
    <3>1. PICK o : o = [op |-> "period", a |-> a, t |-> t, step |-> "ask"]
      OBVIOUS
    <3>2. o.a = a /\ o.t = t /\ o.op = "period"
          /\ [o EXCEPT !.step = IF lock = Null THEN "lock" ELSE "work"] = p
      BY <2>1, <3>1
    <3>3. Ask(f, o)
      BY <1>5, <3>1
    <3>4. /\ o.a \in exists /\ times[o.a] = INFINITE
          /\ o.op = "period" => o.t # ticks[o.a] /\ \A g \in Flow : at[g] # Idling => at[g].a # o.a
          /\ at' = [at EXCEPT ![f] = [o EXCEPT !.step = IF lock = Null THEN "lock" ELSE "work"]]
          /\ UNCHANGED <<request, rank, ticks, times, exists>>
      BY <3>3 DEF Ask, Restartable, EndlessOnly
    <3>5. QED
      BY <3>2, <3>4
  <2>4. ClockInv'
    BY <2>2, <2>3, EnterKeeps
  <2>5. QED
    BY <1>u, <2>3, <2>4
<1>6. ASSUME NEW f \in Flow, Acquire(f)
      PROVE  ClockInv' /\ SlackKept /\ ClockMoves
  <2>1. PICK p : p = [at[f] EXCEPT !.step = "work"]
    OBVIOUS
  <2>2. at[f] \in Place /\ at[f].op \in {"reset", "period"}
    BY <1>6 DEF Acquire, ClockInv, PlacesOK
  <2>3. /\ p \in Place /\ p # Idling /\ at[f] # Idling /\ p.op = at[f].op /\ p.a = at[f].a
        /\ p.op = "period" => p.t = at[f].t
    BY <2>1, <2>2 DEF Place, Idling
  <2>4. at' = [at EXCEPT ![f] = p] /\ UNCHANGED <<request, rank, ticks, times, exists>>
    BY <1>6, <2>1 DEF Acquire
  <2>5. /\ p.op \in {"reset", "period"} => p.a \in exists /\ times[p.a] = INFINITE
        /\ p.op = "period" => p.t # ticks[p.a]
    BY <2>2, <2>3 DEF ClockInv, DoingOK, Changing
  <2>6. \A g \in Flow : g # f /\ at[g] # Idling /\ at[g].a = p.a
            => Changing(g) /\ p.op \in {"reset", "period"} /\ ~(p.op = "period" /\ at[g].op = "period")
    BY <2>2, <2>3 DEF ClockInv, ApartOK
  <2>7. ClockInv'
    BY <2>2, <2>3, <2>4, <2>5, <2>6, EnterKeeps
  <2>8. QED
    BY <1>u, <2>4, <2>7
<1>7. ASSUME Call PROVE ClockInv' /\ SlackKept /\ ClockMoves
  <2>1. UNCHANGED <<request, rank, ticks, times, exists, at>>
    BY <1>7 DEF Call
  <2>2. ClockInv'
    BY <2>1 DEF ClockInv, PlacesOK, AlarmsOK, DoingOK, ApartOK, Changing
  <2>3. QED
    BY <1>u, <2>1, <2>2
<1>8. QED
  BY <1>1, <1>2, <1>3, <1>4, <1>5, <1>6, <1>7, ConstructMoves, DestroyMoves, ResetMoves, PeriodMoves,
     HandlerMoves DEF Next

(* No alarm is late by more ticks than there are other alarms, for any     *)
(* number of threads and of alarms, where the lock can be relied on and    *)
(* only alarms that never stop are changed.                                *)
THEOREM AlarmsAreNotTooLate ==
  ASSUME LockedIsOwn, Null \notin Flow, EndlessOnly, Off \notin Int, IsFiniteSet(Alarms)
  PROVE  Spec => []LatenessBounded
<1> DEFINE I == IInv /\ ClockInv /\ Slack(request, rank, 1)
<1>1. I => LatenessBounded
  <2> SUFFICES ASSUME I, NEW i \in DOMAIN request PROVE Due(request, rank, i) + Cardinality(Alarms) >= 2
    BY DEF LatenessBounded
  <2>1. request \in Seq(Alarms) /\ rank \in [Alarms -> Int]
    BY DEF ClockInv, QueueOK
  <2>2. i \in 1 .. Len(request) /\ i \in 0 .. Len(request) /\ i \in Nat /\ i >= 1
    BY <2>1, LenProperties
  <2>3. Due(request, rank, i) \in Int
    BY <2>1, <2>2, DueSteps
  <2>4. Due(request, rank, i) + Cardinality(Alarms) >= i + 1
    BY <2>2 DEF Slack
  <2>5. Cardinality(Alarms) \in Nat
    BY FS_CardinalityType
  <2>6. QED
    BY <2>2, <2>3, <2>4, <2>5
<1>2. Init => I
  BY InitIInv, InitClockInv
<1>3. I /\ [Next]_vars => I'
  BY NextIInv, NextMoves DEF SlackKept
<1>4. QED
  BY <1>1, <1>2, <1>3, PTL DEF Spec

(* The offsets stand for absolute times: every step of the queue is a step *)
(* of AlarmClock or none of its business, for any threads, alarms, periods *)
(* and numbers of times.                                                   *)
THEOREM ClockIsImplemented ==
  ASSUME LockedIsOwn, Null \notin Flow, EndlessOnly, Off \notin Int
  PROVE  Spec => ImplementsClock
<1> DEFINE I == IInv /\ ClockInv
<1>1. Init => I /\ Clock!Init
  <2> SUFFICES ASSUME Init PROVE I /\ Clock!Init
    OBVIOUS
  <2>1. I
    BY InitIInv, InitClockInv
  <2>2. Left = [a \in Alarms |-> Off]
    BY DEF Init, Left, ToSet
  <2>3. ticks \in [Alarms -> Periods \cup {0}]
    BY DEF Init
  <2>4. times \in [Alarms -> (Times \ {INFINITE}) \cup {INFINITE, 0}]
    BY DEF Init
  <2>5. QED
    BY <2>1, <2>2, <2>3, <2>4 DEF Clock!Init
<1>2. I /\ [Next]_vars => I' /\ [Clock!Next]_(Clock!vars)
  BY NextIInv, NextMoves DEF ClockMoves, Clock!vars
<1>3. QED
  BY <1>1, <1>2, PTL DEF Spec, ImplementsClock, Clock!Spec
=============================================================================
