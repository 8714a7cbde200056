-------------------------- MODULE EnergyAware_proofs --------------------------
(***************************************************************************)
(* Proofs about EnergyAware, for any number of CPUs and threads, whatever  *)
(* the counters show and the neural network answers: the revocations are   *)
(* bounded by the pairs that are locked, and orders heed the locks.        *)
(*                                                                         *)
(* What the criterion measures (Sum, ActivityVariance) is never opened:    *)
(* the theorems hold for any score by which a move may be chosen.          *)
(***************************************************************************)
EXTENDS EnergyAware, FiniteSetTheorems, TLAPS

(* The manager's state, field by field                                     *)
Manager ==
    [level : 0 .. MAX, cooldown : BOOLEAN, initial : 0 .. COOLDOWN, decreased : BOOLEAN,
     balanced : BOOLEAN, revoke : BOOLEAN, missed : BOOLEAN, pre : 0 .. MAX, threshold : Nat,
     from : {0} \cup CPU, to : {0} \cup CPU,
     migrated : Threads \cup {Nobody}, swapped : Threads \cup {Nobody},
     locked : SUBSET (Threads \X CPU), queue : [Threads -> CPU],
     target : [Threads -> CPU \cup {NONE}], state : [Threads -> {"RUNNING", "READY", "WAITING"}]]

(* The last migration can be revoked: it went from one CPU to another that *)
(* its threads are not yet locked out of.                                  *)
MoveOK(m) ==
    m.migrated # Nobody =>
       /\ m.from \in CPU /\ m.to \in CPU /\ m.from # m.to /\ m.swapped # m.migrated
       /\ <<m.migrated, m.to>> \notin m.locked

(* Every lock was paid for with a step of the threshold.                   *)
LocksOK(m) == /\ IsFiniteSet(m.locked)
              /\ m.threshold <= FIRST + STEP * Cardinality(m.locked)

RInv(m) == m \in Manager /\ MoveOK(m) /\ LocksOK(m)

(* The fields that neither invariant depends on may change.                *)
SameMove(m, k) ==
    /\ k.from = m.from /\ k.to = m.to /\ k.migrated = m.migrated /\ k.swapped = m.swapped
    /\ k.locked = m.locked /\ k.threshold = m.threshold
SamePlaces(m, k) == k.queue = m.queue /\ k.target = m.target /\ k.state = m.state
-----------------------------------------------------------------------------
(* A step that leaves the last migration and the locks alone keeps the     *)
(* invariant.                                                              *)
LEMMA SameMoveKeeps ==
    ASSUME NEW m, NEW k \in Manager, RInv(m), SameMove(m, k)
    PROVE  RInv(k)
  BY DEF RInv, SameMove, MoveOK, LocksOK

(* collect_data() and handle_deadline_misses() change the clock and flags. *)
LEMMA SeenKeeps ==
    ASSUME NEW m \in Manager, NEW lates \in SUBSET Threads
    PROVE  /\ HandleDeadlineMisses(CollectData(m, lates)) \in Manager
           /\ SameMove(m, HandleDeadlineMisses(CollectData(m, lates)))
           /\ SamePlaces(m, HandleDeadlineMisses(CollectData(m, lates)))
  <1> DEFINE x == FALSE /\ \A t \in Threads : t \in lates
             k == [m EXCEPT !.missed = x]
             h == [k EXCEPT !.level = MAX, !.cooldown = TRUE, !.balanced = FALSE, !.revoke = TRUE]
  <1>1. x \in BOOLEAN /\ MAX \in 0 .. MAX
    BY EnergyAssumption
  <1>2. CollectData(m, lates) = k
    BY DEF CollectData
  <1> HIDE DEF x
  <1>3. k \in Manager /\ SameMove(m, k) /\ SamePlaces(m, k)
    BY <1>1 DEF Manager, SameMove, SamePlaces
  <1> HIDE DEF k
  <1>4. h \in Manager /\ SameMove(k, h) /\ SamePlaces(k, h)
    BY <1>1, <1>3 DEF Manager, SameMove, SamePlaces
  <1>5. HandleDeadlineMisses(k) = h \/ HandleDeadlineMisses(k) = k
    BY DEF HandleDeadlineMisses
  <1> HIDE DEF h
  <1> QED
    BY <1>2, <1>3, <1>4, <1>5 DEF SameMove, SamePlaces

(* The clock and the flags are no part of the last migration.              *)
LEMMA FlagsKeep ==
    ASSUME NEW m \in Manager, NEW level \in 0 .. MAX,
           NEW decreased \in BOOLEAN, NEW cooldown \in BOOLEAN, NEW balanced \in BOOLEAN
    PROVE  LET k == [m EXCEPT !.level = level, !.decreased = decreased,
                              !.cooldown = cooldown, !.balanced = balanced]
           IN  k \in Manager /\ SameMove(m, k) /\ SamePlaces(m, k)
  <1> DEFINE k == [m EXCEPT !.level = level, !.decreased = decreased,
                            !.cooldown = cooldown, !.balanced = balanced]
  <1>1. k \in Manager
    BY DEF Manager
  <1>2. SameMove(m, k) /\ SamePlaces(m, k)
    BY DEF Manager, SameMove, SamePlaces
  <1> QED
    BY <1>1, <1>2

(* predict() changes the clock and flags.                                  *)
LEMMA PredictKeeps ==
    ASSUME NEW m \in Manager, NEW use, NEW guess
    PROVE  /\ Predict(m, use, guess) \in Manager
           /\ SameMove(m, Predict(m, use, guess)) /\ SamePlaces(m, Predict(m, use, guess))
  <1> DEFINE level == IF m.level > 0 THEN m.level - 1 ELSE 0
             lower == level # m.level
             cool  == m.cooldown \/ lower
             bal   == m.balanced \/ level = 0
             high  == [m EXCEPT !.level = MAX, !.cooldown = TRUE, !.balanced = FALSE, !.decreased = FALSE]
             low   == [m EXCEPT !.level = level, !.decreased = lower, !.cooldown = cool, !.balanced = bal]
             stay  == [m EXCEPT !.decreased = FALSE]
  <1>1. level \in 0 .. MAX /\ MAX \in 0 .. MAX /\ lower \in BOOLEAN /\ cool \in BOOLEAN /\ bal \in BOOLEAN
    <2>1. level \in 0 .. MAX /\ MAX \in 0 .. MAX
      BY EnergyAssumption DEF Manager
    <2> HIDE DEF level
    <2> QED
      BY <2>1
  <1>2. Predict(m, use, guess) \in {high, low, stay}
    BY DEF Predict
  <1> HIDE DEF level, lower, cool, bal
  <1>3. /\ high \in Manager /\ SameMove(m, high) /\ SamePlaces(m, high)
        /\ stay \in Manager /\ SameMove(m, stay) /\ SamePlaces(m, stay)
    BY <1>1 DEF Manager, SameMove, SamePlaces
  <1>4. low \in Manager /\ SameMove(m, low) /\ SamePlaces(m, low)
    BY <1>1, FlagsKeep
  <1> HIDE DEF high, low, stay
  <1> QED
    BY <1>2, <1>3, <1>4

(* The cooldown changes its counter or flag.                               *)
LEMMA CoolDownKeeps ==
    ASSUME NEW m \in Manager
    PROVE  CoolDown(m) \in Manager /\ SameMove(m, CoolDown(m)) /\ SamePlaces(m, CoolDown(m))
  <1>1. CASE m.initial > 0
    <2> DEFINE i == m.initial - 1
    <2>1. i \in 0 .. COOLDOWN /\ CoolDown(m) = [m EXCEPT !.initial = i]
      BY <1>1, EnergyAssumption DEF CoolDown, Manager
    <2> HIDE DEF i
    <2> QED
      BY <2>1 DEF Manager, SameMove, SamePlaces
  <1>2. CASE ~(m.initial > 0)
    BY <1>2 DEF CoolDown, Manager, SameMove, SamePlaces
  <1> QED
    BY <1>1, <1>2

(* prepare_migration() makes the CPU the thread's, by an order or a move,  *)
(* and leaves the other threads where they are, unless an order is pending.*)
LEMMA PrepareKeeps ==
    ASSUME NEW m \in Manager, NEW t \in Threads, NEW c \in CPU
    PROVE  /\ PrepareMigration(m, t, c) \in Manager
           /\ SameMove(m, PrepareMigration(m, t, c))
           /\ PrepareMigration(m, t, c).level = m.level
           /\ m.target[t] = NONE => Bound(PrepareMigration(m, t, c), t) = c
           /\ \A u \in Threads \ {t} : Bound(PrepareMigration(m, t, c), u) = Bound(m, u)
           /\ \A u \in Threads \ {t} : PrepareMigration(m, t, c).target[u] = m.target[u]
  <1> DEFINE order == [m EXCEPT !.target[t] = c]
             move  == [m EXCEPT !.queue[t] = c]
  <1>1. c # NONE
    BY EnergyAssumption DEF CPU, NONE
  <1>2. order \in Manager /\ order.target = [m.target EXCEPT ![t] = c] /\ order.queue = m.queue
        /\ SameMove(m, order) /\ order.level = m.level
    BY DEF Manager, SameMove
  <1>3. move \in Manager /\ move.target = m.target /\ move.queue = [m.queue EXCEPT ![t] = c]
        /\ SameMove(m, move) /\ move.level = m.level
    BY DEF Manager, SameMove
  <1>4. PrepareMigration(m, t, c) \in {order, move}
    BY DEF PrepareMigration
  <1>5. m.target \in [Threads -> CPU \cup {NONE}] /\ m.queue \in [Threads -> CPU]
    BY DEF Manager
  <1> HIDE DEF order, move
  <1> QED
    BY <1>1, <1>2, <1>3, <1>4, <1>5 DEF Bound
(* What balance_load() considers is a move of one thread, or of two, to    *)
(* CPUs they are not locked out of.                                        *)
Move(m, v) ==
    /\ v.t \in Threads /\ v.u \in Threads \cup {Nobody} /\ v.from \in CPU /\ v.to \in CPU
    /\ v.from # v.to /\ v.from = m.queue[v.t] /\ v.u # v.t
    /\ <<v.t, v.to>> \notin m.locked
    /\ v.u # Nobody => v.to = m.queue[v.u] /\ <<v.u, v.from>> \notin m.locked

LEMMA MovesAreMoves ==
    ASSUME NEW m \in Manager, NEW v \in Singles(m) \cup Swaps(m)
    PROVE  Move(m, v)
  <1>1. CASE v \in Singles(m)
    BY <1>1, EnergyAssumption DEF Singles, Move
  <1>2. CASE v \in Swaps(m)
    BY <1>2, EnergyAssumption DEF Swaps, Move
  <1> QED
    BY <1>1, <1>2

(* A migration can be revoked, and its threads are bound for its CPUs.     *)
LEMMA MigrateKeeps ==
    ASSUME NEW m, RInv(m), NEW v, Move(m, v)
    PROVE  /\ RInv(Migrate(m, v))
           /\ Migrate(m, v).locked = m.locked
           /\ Migrate(m, v).from = v.from /\ Migrate(m, v).to = v.to
           /\ Migrate(m, v).migrated = v.t /\ Migrate(m, v).swapped = v.u
           /\ (\A t \in Threads : m.target[t] = NONE) =>
                \A t \in Threads :
                   Bound(Migrate(m, v), t) = IF t = v.t THEN v.to ELSE IF t = v.u THEN v.from ELSE Bound(m, t)
  <1> DEFINE first == PrepareMigration(m, v.t, v.to)
             moved == IF v.u = Nobody THEN first ELSE PrepareMigration(first, v.u, v.from)
             k == [moved EXCEPT !.from = v.from, !.to = v.to, !.migrated = v.t, !.swapped = v.u,
                                !.cooldown = TRUE, !.pre = m.level, !.level = MAX]
  <1>1. Migrate(m, v) = k
    BY DEF Migrate
  <1>2. /\ first \in Manager /\ SameMove(m, first)
        /\ m.target[v.t] = NONE => Bound(first, v.t) = v.to
        /\ \A u \in Threads \ {v.t} : Bound(first, u) = Bound(m, u) /\ first.target[u] = m.target[u]
    BY PrepareKeeps DEF RInv, Move
  <1> HIDE DEF first
  <1>3. /\ moved \in Manager /\ SameMove(m, moved)
        /\ (\A t \in Threads : m.target[t] = NONE) =>
             \A t \in Threads :
                Bound(moved, t) = IF t = v.t THEN v.to ELSE IF t = v.u THEN v.from ELSE Bound(m, t)
    <2>1. CASE v.u = Nobody
      BY <1>2, <2>1, EnergyAssumption
    <2>2. CASE v.u # Nobody
      <3>1. v.u \in Threads \ {v.t} /\ v.from \in CPU
        BY <2>2 DEF Move
      <3>2. /\ moved \in Manager /\ SameMove(first, moved)
            /\ first.target[v.u] = NONE => Bound(moved, v.u) = v.from
            /\ \A u \in Threads \ {v.u} : Bound(moved, u) = Bound(first, u)
        BY <1>2, <2>2, <3>1, PrepareKeeps
      <3> HIDE DEF moved
      <3> QED
        BY <1>2, <3>1, <3>2 DEF SameMove
    <2> QED
      BY <2>1, <2>2
  <1> HIDE DEF moved
  <1>4. m.level \in 0 .. MAX /\ MAX \in 0 .. MAX
    BY EnergyAssumption DEF RInv, Manager
  <1>5. /\ k \in Manager /\ k.from = v.from /\ k.to = v.to /\ k.migrated = v.t /\ k.swapped = v.u
        /\ k.locked = moved.locked /\ k.threshold = moved.threshold
        /\ k.queue = moved.queue /\ k.target = moved.target
    BY <1>3, <1>4 DEF Manager, Move
  <1> HIDE DEF k
  <1>6. MoveOK(k) /\ LocksOK(k)
    BY <1>3, <1>5 DEF RInv, Move, MoveOK, LocksOK, SameMove
  <1>7. \A t \in Threads : Bound(k, t) = Bound(moved, t)
    BY <1>5 DEF Bound
  <1> QED
    BY <1>1, <1>3, <1>5, <1>6, <1>7 DEF RInv, SameMove

(* A revocation adds one pair at least to the locked ones and raises the   *)
(* threshold once; the threads are bound back for the CPUs they came from. *)
LEMMA RevokeKeeps ==
    ASSUME NEW m, RInv(m)
    PROVE  /\ RInv(Revoke(m)) /\ Revoke(m).migrated = Nobody
           /\ Revoke(m).locked = IF m.migrated = Nobody THEN m.locked
                                 ELSE m.locked \cup {<<m.migrated, m.to>>} \cup
                                      (IF m.swapped = Nobody THEN {} ELSE {<<m.swapped, m.from>>})
           /\ (\A t \in Threads : m.target[t] = NONE) =>
                \A t \in Threads :
                   Bound(Revoke(m), t) = IF m.migrated = Nobody THEN Bound(m, t)
                                         ELSE IF t = m.migrated THEN m.from
                                         ELSE IF t = m.swapped THEN m.to ELSE Bound(m, t)
  <1>a. CASE m.migrated = Nobody
    <2> DEFINE k == [m EXCEPT !.revoke = FALSE]
    <2>1. Revoke(m) = k
      BY <1>a DEF Revoke
    <2>2. k \in Manager /\ SameMove(m, k) /\ SamePlaces(m, k)
      BY DEF RInv, Manager, SameMove, SamePlaces
    <2> HIDE DEF k
    <2>3. RInv(k)
      BY <2>2, SameMoveKeeps
    <2> QED
      BY <1>a, <2>1, <2>2, <2>3 DEF SameMove, SamePlaces, Bound
  <1>b. CASE m.migrated # Nobody
    <2> DEFINE first == PrepareMigration(m, m.migrated, m.from)
               moved == IF m.swapped = Nobody THEN first ELSE PrepareMigration(first, m.swapped, m.to)
               locks == m.locked \cup {<<m.migrated, m.to>>} \cup
                        (IF m.swapped = Nobody THEN {} ELSE {<<m.swapped, m.from>>})
               more  == m.threshold + STEP
               k == [moved EXCEPT !.locked = locks, !.threshold = more,
                                  !.from = 0, !.to = 0, !.migrated = Nobody, !.swapped = Nobody,
                                  !.cooldown = TRUE, !.level = MAX, !.revoke = FALSE]
    <2>1. /\ m.migrated \in Threads /\ m.from \in CPU /\ m.to \in CPU /\ m.from # m.to
          /\ m.swapped \in Threads \cup {Nobody} /\ m.swapped # m.migrated
          /\ <<m.migrated, m.to>> \notin m.locked /\ m.threshold \in Nat /\ m.locked \subseteq Threads \X CPU
      BY <1>b DEF RInv, MoveOK, Manager
    <2>2. /\ first \in Manager /\ SameMove(m, first)
          /\ m.target[m.migrated] = NONE => Bound(first, m.migrated) = m.from
          /\ \A u \in Threads \ {m.migrated} : Bound(first, u) = Bound(m, u) /\ first.target[u] = m.target[u]
      BY <2>1, PrepareKeeps DEF RInv
    <2> HIDE DEF first
    <2>3. /\ moved \in Manager /\ SameMove(m, moved)
          /\ (\A t \in Threads : m.target[t] = NONE) =>
               \A t \in Threads :
                  Bound(moved, t) = IF t = m.migrated THEN m.from ELSE IF t = m.swapped THEN m.to ELSE Bound(m, t)
      <3>1. CASE m.swapped = Nobody
        BY <2>2, <3>1, EnergyAssumption
      <3>2. CASE m.swapped # Nobody
        <4>1. /\ moved \in Manager /\ SameMove(first, moved)
              /\ first.target[m.swapped] = NONE => Bound(moved, m.swapped) = m.to
              /\ \A u \in Threads \ {m.swapped} : Bound(moved, u) = Bound(first, u)
          BY <2>1, <2>2, <3>2, PrepareKeeps
        <4> HIDE DEF moved
        <4> QED
          BY <2>1, <2>2, <3>2, <4>1 DEF SameMove
      <3> QED
        BY <3>1, <3>2
    <2>4. Revoke(m) = k
      <3>1. moved.locked = m.locked /\ moved.threshold = m.threshold
        BY <2>3 DEF SameMove
      <3>2. Revoke(m) = [moved EXCEPT !.locked = @ \cup {<<m.migrated, m.to>>} \cup
                                         (IF m.swapped = Nobody THEN {} ELSE {<<m.swapped, m.from>>}),
                              !.threshold = @ + STEP,
                              !.from = 0, !.to = 0, !.migrated = Nobody, !.swapped = Nobody,
                              !.cooldown = TRUE, !.level = MAX, !.revoke = FALSE]
        BY <1>b DEF Revoke, first
      <3> HIDE DEF moved
      <3> QED
        BY <3>1, <3>2
    <2> HIDE DEF moved
    <2>5. locks \subseteq Threads \X CPU /\ more \in Nat /\ MAX \in 0 .. MAX
      BY <2>1, EnergyAssumption
    <2>6. LocksOK(m) /\ IsFiniteSet(locks) /\ more <= FIRST + STEP * Cardinality(locks)
      <3> DEFINE one == m.locked \cup {<<m.migrated, m.to>>}
      <3>1. LocksOK(m) /\ IsFiniteSet(m.locked) /\ m.threshold <= FIRST + STEP * Cardinality(m.locked)
        BY DEF RInv, LocksOK
      <3>2. IsFiniteSet(one) /\ Cardinality(one) = Cardinality(m.locked) + 1
        BY <2>1, <3>1, FS_AddElement
      <3>3. IsFiniteSet(locks) /\ one \subseteq locks
        BY <3>2, FS_AddElement
      <3>4. Cardinality(locks) >= Cardinality(m.locked) + 1
        BY <3>2, <3>3, FS_Subset
      <3>5. Cardinality(locks) \in Nat /\ Cardinality(m.locked) \in Nat /\ STEP \in Nat /\ FIRST \in Nat
        BY <3>1, <3>3, FS_CardinalityType, EnergyAssumption
      <3> HIDE DEF locks
      <3>6. STEP * Cardinality(locks) >= STEP * Cardinality(m.locked) + STEP
        BY <3>4, <3>5
      <3> QED
        BY <2>1, <3>1, <3>3, <3>5, <3>6
    <2> HIDE DEF locks, more
    <2>7. /\ k \in Manager /\ k.migrated = Nobody /\ k.locked = locks /\ k.threshold = more
          /\ k.queue = moved.queue /\ k.target = moved.target
      BY <2>3, <2>5 DEF Manager
    <2> HIDE DEF k
    <2>8. RInv(k)
      BY <2>6, <2>7 DEF RInv, MoveOK, LocksOK
    <2>9. \A t \in Threads : Bound(k, t) = Bound(moved, t)
      BY <2>7 DEF Bound
    <2> QED
      BY <1>b, <2>3, <2>4, <2>7, <2>8, <2>9 DEF locks
  <1> QED
    BY <1>a, <1>b
-----------------------------------------------------------------------------
(* A hyperperiod does one of three things to the places of the threads:    *)
(* nothing, a revocation or a migration, from a state that differs from    *)
(* the last in the clock and the flags alone.                              *)
LEMMA HyperperiodSteps ==
    ASSUME RInv(s), Hyperperiod
    PROVE  \E m \in Manager :
              /\ SameMove(s, m) /\ SamePlaces(s, m)
              /\ s' = m \/ s' = Revoke(m) \/ \E v : Move(m, v) /\ s' = Migrate(m, v)
  <1> s \in Manager
    BY DEF RInv
  <1>1. PICK late \in SUBSET Threads :
          LET seen == HandleDeadlineMisses(CollectData(s, late))
          IN  \/ seen.cooldown /\ s' = CoolDown(seen)
              \/ \E use, guess \in [Threads -> Utilizations], activity \in Activities :
                    LET said == Predict(seen, use, guess)
                    IN  s' \in IF said.decreased THEN {said} ELSE BalanceLoad(said, activity)
    BY DEF Hyperperiod
  <1> DEFINE seen == HandleDeadlineMisses(CollectData(s, late))
  <1>2. seen \in Manager /\ SameMove(s, seen) /\ SamePlaces(s, seen)
    BY SeenKeeps
  <1> HIDE DEF seen
  <1>a. CASE s' = CoolDown(seen)
    BY <1>2, <1>a, CoolDownKeeps DEF SameMove, SamePlaces
  <1>b. ASSUME NEW use \in [Threads -> Utilizations], NEW guess \in [Threads -> Utilizations],
               NEW activity \in Activities,
               s' \in IF Predict(seen, use, guess).decreased THEN {Predict(seen, use, guess)}
                      ELSE BalanceLoad(Predict(seen, use, guess), activity)
        PROVE  \E m \in Manager :
                  /\ SameMove(s, m) /\ SamePlaces(s, m)
                  /\ s' = m \/ s' = Revoke(m) \/ \E v : Move(m, v) /\ s' = Migrate(m, v)
    <2> DEFINE said == Predict(seen, use, guess)
               quiet == [said EXCEPT !.balanced = TRUE]
    <2>1. said \in Manager /\ SameMove(s, said) /\ SamePlaces(s, said)
      BY <1>2, PredictKeeps DEF SameMove, SamePlaces
    <2>2. s' \in {said, Revoke(said), quiet} \/ \E v \in Singles(said) \cup Swaps(said) : s' = Migrate(said, v)
      <3>1. \A moves : Best(said, moves, activity) \subseteq moves
        BY DEF Best
      <3>2. \A moves : Good(said, moves, activity) \subseteq moves
        BY DEF Good
      <3> HIDE DEF said
      <3>3. s' \in {said} \/ s' \in BalanceLoad(said, activity)
        BY <1>b DEF said
      <3>4. CASE s' \in BalanceLoad(said, activity)
        BY <3>1, <3>2, <3>4 DEF BalanceLoad
      <3> QED
        BY <3>3, <3>4
    <2> HIDE DEF said
    <2>3. quiet \in Manager /\ SameMove(s, quiet) /\ SamePlaces(s, quiet)
      BY <2>1 DEF Manager, SameMove, SamePlaces
    <2> HIDE DEF quiet
    <2> QED
      BY <2>1, <2>2, <2>3, MovesAreMoves
  <1> QED
    BY <1>1, <1>a, <1>b DEF seen

(* The steps of the scheduler move a thread only where it was ordered to.  *)
LEMMA SchedulerSteps ==
    ASSUME RInv(s), NEW t \in Threads, Reschedule(t) \/ Dispatch(t) \/ Sleep(t) \/ Wakeup(t)
    PROVE  s' \in Manager /\ SameMove(s, s') /\ \A u \in Threads : Bound(s', u) = Bound(s, u)
  <1> s \in Manager
    BY DEF RInv
  <1>1. CASE Reschedule(t)
    <2> DEFINE b == Bound(s, t)
               k == [s EXCEPT !.queue[t] = b, !.target[t] = NONE, !.state[t] = "READY"]
    <2>1. b \in CPU /\ s' = k
      BY <1>1 DEF Reschedule, Bound, Manager
    <2> HIDE DEF b
    <2>2. /\ k \in Manager /\ SameMove(s, k)
          /\ k.queue = [s.queue EXCEPT ![t] = b] /\ k.target = [s.target EXCEPT ![t] = NONE]
      BY <2>1 DEF Manager, SameMove
    <2>3. s.queue \in [Threads -> CPU] /\ s.target \in [Threads -> CPU \cup {NONE}]
      BY DEF Manager
    <2> HIDE DEF k
    <2> QED
      BY <2>1, <2>2, <2>3 DEF Bound, b
  <1>2. CASE Dispatch(t) \/ Sleep(t) \/ Wakeup(t)
    <2>1. PICK x \in {"RUNNING", "READY", "WAITING"} : s' = [s EXCEPT !.state[t] = x]
      BY <1>2 DEF Dispatch, Sleep, Wakeup, Becomes
    <2>2. s' \in Manager /\ SameMove(s, s') /\ s'.queue = s.queue /\ s'.target = s.target
      BY <2>1 DEF Manager, SameMove
    <2> QED
      BY <2>2 DEF Bound
  <1> QED
    BY <1>1, <1>2

(* The first states                                                        *)
LEMMA RInit == Init => RInv(s)
  <1> SUFFICES ASSUME Init PROVE RInv(s)
    OBVIOUS
  <1>1. s \in Manager
    <2> DEFINE none  == [t \in Threads |-> NONE]
               ready == [t \in Threads |-> "READY"]
    <2>1. PICK q \in [Threads -> CPU] :
            s = [level |-> MAX, cooldown |-> TRUE, initial |-> COOLDOWN, decreased |-> FALSE,
                 balanced |-> FALSE, revoke |-> FALSE, missed |-> FALSE, pre |-> MAX, threshold |-> FIRST,
                 from |-> 0, to |-> 0, migrated |-> Nobody, swapped |-> Nobody,
                 locked |-> {}, queue |-> q, target |-> none, state |-> ready]
      BY DEF Init
    <2>2. /\ none \in [Threads -> CPU \cup {NONE}] /\ ready \in [Threads -> {"RUNNING", "READY", "WAITING"}]
          /\ MAX \in 0 .. MAX /\ COOLDOWN \in 0 .. COOLDOWN /\ FIRST \in Nat
      BY EnergyAssumption
    <2> HIDE DEF none, ready
    <2> QED
      BY <2>1, <2>2 DEF Manager
  <1>2. s.migrated = Nobody /\ s.locked = {} /\ s.threshold = FIRST
    BY DEF Init
  <1>3. IsFiniteSet(s.locked) /\ Cardinality(s.locked) = 0
    BY <1>2, FS_EmptySet
  <1> QED
    BY <1>1, <1>2, <1>3, EnergyAssumption DEF RInv, MoveOK, LocksOK

(* Every step                                                              *)
LEMMA RNext == RInv(s) /\ [Next]_vars => RInv(s)'
  <1> SUFFICES ASSUME RInv(s), [Next]_vars PROVE RInv(s')
    BY DEF RInv, Manager, MoveOK, LocksOK, Threads, CPU, NONE
  <1>1. CASE Hyperperiod
    <2>1. PICK m \in Manager :
            /\ SameMove(s, m) /\ SamePlaces(s, m)
            /\ s' = m \/ s' = Revoke(m) \/ \E v : Move(m, v) /\ s' = Migrate(m, v)
      BY <1>1, HyperperiodSteps
    <2>2. RInv(m)
      BY <2>1, SameMoveKeeps
    <2>3. RInv(Revoke(m))
      BY <2>2, RevokeKeeps
    <2>4. \A v : Move(m, v) => RInv(Migrate(m, v))
      BY <2>2, MigrateKeeps
    <2> QED
      BY <2>1, <2>2, <2>3, <2>4
  <1>2. ASSUME NEW t \in Threads, Reschedule(t) \/ Dispatch(t) \/ Sleep(t) \/ Wakeup(t)
        PROVE  RInv(s')
    BY <1>2, SchedulerSteps, SameMoveKeeps
  <1>3. CASE Enable \/ UNCHANGED vars
    BY <1>3 DEF Enable, vars
  <1> QED
    BY <1>1, <1>2, <1>3 DEF Next

(* RevocationsBounded: each revocation of balance_load() locks a pair that *)
(* was not locked, so that revocations come to an end.                     *)
THEOREM RevocationsEnd == Spec => []RevocationsBounded
  <1>1. RInv(s) => RevocationsBounded
    BY DEF RInv, LocksOK, RevocationsBounded
  <1> QED
    BY RInit, RNext, <1>1, PTL DEF Spec

(* Every field of the manager's state keeps its type.                      *)
THEOREM ManagerTypes == Spec => []TypeOK
  <1>1. Init => enabled \in BOOLEAN
    BY DEF Init
  <1>2. enabled \in BOOLEAN /\ [Next]_vars => (enabled \in BOOLEAN)'
    <2> SUFFICES ASSUME enabled \in BOOLEAN, [Next]_vars PROVE enabled' \in BOOLEAN
      OBVIOUS
    <2>1. CASE Enable
      BY <2>1 DEF Enable
    <2>2. CASE Hyperperiod
      BY <2>2 DEF Hyperperiod
    <2>3. ASSUME NEW t \in Threads, Reschedule(t) \/ Dispatch(t) \/ Sleep(t) \/ Wakeup(t)
          PROVE  enabled' = enabled
      BY <2>3 DEF Reschedule, Dispatch, Sleep, Wakeup, Becomes
    <2>4. CASE UNCHANGED vars
      BY <2>4 DEF vars
    <2> QED
      BY <2>1, <2>2, <2>3, <2>4 DEF Next
  <1>3. RInv(s) /\ enabled \in BOOLEAN => TypeOK
    <2> SUFFICES ASSUME s \in Manager, enabled \in BOOLEAN PROVE TypeOK
      BY DEF RInv
    <2>1. {s.cooldown, s.decreased, s.balanced, s.revoke, s.missed, enabled} \subseteq BOOLEAN
      BY DEF Manager
    <2>2. /\ s.level \in 0 .. MAX /\ s.pre \in 0 .. MAX /\ s.initial \in 0 .. COOLDOWN /\ s.threshold \in Nat
          /\ {s.from, s.to} \subseteq {0} \cup CPU /\ {s.migrated, s.swapped} \subseteq Threads \cup {Nobody}
      BY DEF Manager
    <2>3. /\ s.locked \subseteq Threads \X CPU
          /\ s.queue \in [Threads -> CPU] /\ s.target \in [Threads -> CPU \cup {NONE}]
          /\ s.state \in [Threads -> {"RUNNING", "READY", "WAITING"}]
      BY DEF Manager
    <2> QED
      BY <2>1, <2>2, <2>3 DEF TypeOK
  <1> QED
    BY RInit, RNext, <1>1, <1>2, <1>3, PTL DEF Spec
-----------------------------------------------------------------------------
(* No thread is bound for a CPU it is locked out of, and neither is one    *)
(* that a revocation would send back.                                      *)
Heeded(m) ==
    /\ \A t \in Threads : <<t, Bound(m, t)>> \notin m.locked
    /\ m.migrated # Nobody => /\ <<m.migrated, m.from>> \notin m.locked
                              /\ m.swapped # Nobody => <<m.swapped, m.to>> \notin m.locked

(* What OrdersRespectLocks says of two states                              *)
Respects(m, k) == \A t \in Threads : Bound(k, t) # Bound(m, t) => <<t, Bound(k, t)>> \notin m.locked

(* A migration heeds the locks, when no order is pending.                  *)
LEMMA MigrateHeeds ==
    ASSUME NEW m, RInv(m), Heeded(m), NEW v, Move(m, v), \A t \in Threads : m.target[t] = NONE
    PROVE  Heeded(Migrate(m, v)) /\ Respects(m, Migrate(m, v))
  <1> DEFINE k == Migrate(m, v)
  <1>1. /\ k.locked = m.locked /\ k.from = v.from /\ k.to = v.to /\ k.migrated = v.t /\ k.swapped = v.u
        /\ \A t \in Threads :
              Bound(k, t) = IF t = v.t THEN v.to ELSE IF t = v.u THEN v.from ELSE Bound(m, t)
    BY MigrateKeeps
  <1> HIDE DEF k
  <1>2. \A t \in Threads : Bound(m, t) = m.queue[t]
    BY DEF Bound
  <1>3. Respects(m, k)
    BY <1>1, EnergyAssumption DEF Respects, Move
  <1>4. Heeded(k)
    BY <1>1, <1>2, EnergyAssumption DEF Heeded, Move
  <1> QED
    BY <1>3, <1>4 DEF k

(* So does a revocation: the CPUs that the threads go back to are not the  *)
(* ones they are locked out of now.                                        *)
LEMMA RevokeHeeds ==
    ASSUME NEW m, RInv(m), Heeded(m), \A t \in Threads : m.target[t] = NONE
    PROVE  Heeded(Revoke(m)) /\ Respects(m, Revoke(m))
  <1> DEFINE k == Revoke(m)
  <1>1. /\ k.migrated = Nobody
        /\ k.locked = IF m.migrated = Nobody THEN m.locked
                      ELSE m.locked \cup {<<m.migrated, m.to>>} \cup
                           (IF m.swapped = Nobody THEN {} ELSE {<<m.swapped, m.from>>})
        /\ \A t \in Threads :
              Bound(k, t) = IF m.migrated = Nobody THEN Bound(m, t)
                            ELSE IF t = m.migrated THEN m.from
                            ELSE IF t = m.swapped THEN m.to ELSE Bound(m, t)
    BY RevokeKeeps
  <1> HIDE DEF k
  <1>2. m.migrated # Nobody => m.from # m.to /\ m.swapped # m.migrated
    BY DEF RInv, MoveOK
  <1>3. Respects(m, k)
    BY <1>1, EnergyAssumption DEF Respects, Heeded
  <1>4. \A t \in Threads : <<t, Bound(k, t)>> \notin k.locked
    <2>1. CASE m.migrated = Nobody
      BY <1>1, <2>1 DEF Heeded
    <2>2. CASE m.migrated # Nobody
      <3> SUFFICES ASSUME NEW t \in Threads PROVE <<t, Bound(k, t)>> \notin k.locked
        OBVIOUS
      <3>1. CASE t = m.migrated
        BY <1>1, <1>2, <2>2, <3>1 DEF Heeded
      <3>2. CASE t # m.migrated /\ t = m.swapped
        BY <1>1, <1>2, <2>2, <3>2, EnergyAssumption DEF Heeded
      <3>3. CASE t # m.migrated /\ t # m.swapped
        BY <1>1, <2>2, <3>3 DEF Heeded
      <3> QED
        BY <3>1, <3>2, <3>3
    <2> QED
      BY <2>1, <2>2
  <1> QED
    BY <1>1, <1>3, <1>4 DEF Heeded, k

(* Every step keeps to the locks, when orders are carried out before the   *)
(* next hyperperiod.                                                       *)
LEMMA StepHeeds ==
    ASSUME PROMPT, RInv(s), Heeded(s), [Next]_vars
    PROVE  Heeded(s') /\ Respects(s, s')
  <1>1. CASE Hyperperiod
    <2>1. \A t \in Threads : s.target[t] = NONE
      BY <1>1 DEF Hyperperiod
    <2>2. PICK m \in Manager :
            /\ SameMove(s, m) /\ SamePlaces(s, m)
            /\ s' = m \/ s' = Revoke(m) \/ \E v : Move(m, v) /\ s' = Migrate(m, v)
      BY <1>1, HyperperiodSteps
    <2>3. RInv(m)
      BY <2>2, SameMoveKeeps
    <2>4. /\ \A t \in Threads : Bound(m, t) = Bound(s, t) /\ m.target[t] = NONE
          /\ m.locked = s.locked
      BY <2>1, <2>2 DEF SameMove, SamePlaces, Bound
    <2>5. Heeded(m)
      BY <2>2, <2>4 DEF Heeded, SameMove
    <2>6. Heeded(s') /\ Respects(m, s')
      <3>1. Heeded(Revoke(m)) /\ Respects(m, Revoke(m))
        BY <2>3, <2>4, <2>5, RevokeHeeds
      <3>2. \A v : Move(m, v) => Heeded(Migrate(m, v)) /\ Respects(m, Migrate(m, v))
        BY <2>3, <2>4, <2>5, MigrateHeeds
      <3>3. Respects(m, m)
        BY DEF Respects
      <3> QED
        BY <2>2, <2>5, <3>1, <3>2, <3>3
    <2> QED
      BY <2>4, <2>6 DEF Respects
  <1>2. ASSUME NEW t \in Threads, Reschedule(t) \/ Dispatch(t) \/ Sleep(t) \/ Wakeup(t)
        PROVE  Heeded(s') /\ Respects(s, s')
    <2>1. SameMove(s, s') /\ \A u \in Threads : Bound(s', u) = Bound(s, u)
      BY <1>2, SchedulerSteps
    <2> QED
      BY <2>1 DEF Heeded, Respects, SameMove
  <1>3. CASE Enable \/ UNCHANGED vars
    BY <1>3 DEF Enable, vars, Respects
  <1> QED
    BY <1>1, <1>2, <1>3 DEF Next

(* OrdersRespectLocks: as long as the orders of a hyperperiod are carried  *)
(* out before the next one, prepare_migration() is never asked to send a   *)
(* thread to a CPU it is locked out of.                                    *)
THEOREM LocksAreHeeded == ASSUME PROMPT PROVE Spec => OrdersRespectLocks
  <1>1. Init => Heeded(s)
    BY DEF Init, Heeded
  <1>2. RInv(s) /\ Heeded(s) /\ [Next]_vars =>
          /\ Heeded(s)'
          /\ [\A t \in Threads : Bound(s', t) # Bound(s, t) => <<t, Bound(s', t)>> \notin s.locked]_vars
    <2> SUFFICES ASSUME RInv(s), Heeded(s), [Next]_vars
                 PROVE  /\ Heeded(s)'
                        /\ \A t \in Threads : Bound(s', t) # Bound(s, t) => <<t, Bound(s', t)>> \notin s.locked
      OBVIOUS
    <2>1. Heeded(s') /\ Respects(s, s')
      BY StepHeeds
    <2>2. Heeded(s)'
      BY <2>1 DEF Heeded, Bound, Threads, NONE
    <2> QED
      BY <2>1, <2>2 DEF Respects
  <1> QED
    BY RInit, RNext, <1>1, <1>2, PTL DEF Spec, OrdersRespectLocks
=============================================================================
