----------------------------- MODULE EnergyAware -----------------------------
(***************************************************************************)
(* The energy-aware partitioned EDF criterion of EPOS for RISC-V,          *)
(* EA_PEDF_RV64 (include/scheduler.h, src/api/scheduler_ea_pedf_rv64.cc):  *)
(* once per hyperperiod the timer interrupt of CPU 0 lowers or raises the  *)
(* clock of all CPUs and moves threads between the others, and revokes a   *)
(* move that did not pay.                                                  *)
(*                                                                         *)
(* A hyperperiod is one step, for it runs with Thread::_lock held.  The    *)
(* orders it gives to running threads are carried out later, by            *)
(* reschedule() on their CPUs.  What the neural network answers and the    *)
(* performance counters show (deadlines missed, utilizations, activities)  *)
(* is any value of a small set, another one each time; loads are           *)
(* percentages, and scores are exact where the code has floats.            *)
(***************************************************************************)
EXTENDS Integers, Sequences, SequencesExt, FiniteSets, FiniteSetsExt

CONSTANTS ThreadList,    \* _thread_list: the monitored threads, in order
          CPUS,          \* Traits<Build>::CPUS; CPU 0 has no monitored thread
          MAX,           \* HardwareClock::MAX, the highest frequency level
          COOLDOWN,      \* the initial _initial_cooldown_counter
          LIMIT,         \* 100 * (1 - SAFETY_MARGIN)
          STEP,          \* 100 * MIGRATION_OPTIMIZATION_THRESHOLD_INCREASE_STEP
          FIRST,         \* 100 * the initial _migration_optimization_threshold
          Utilizations,  \* what a thread may use, or be predicted to use, of a CPU
          Activities,    \* the activities the threads may have: functions
          PROMPT,        \* are orders carried out before the next hyperperiod?
          Nobody

CPU == 1 .. CPUS - 1
Threads == ToSet(ThreadList)

ASSUME EnergyAssumption ==
    /\ CPUS \in Nat \ {0, 1} /\ MAX \in Nat /\ COOLDOWN \in Nat
    /\ {LIMIT, STEP, FIRST} \subseteq Nat
    /\ IsInjective(ThreadList) /\ Nobody \notin Threads
    /\ Utilizations \subseteq Nat /\ Activities \subseteq [Threads -> Nat]
    /\ PROMPT \in BOOLEAN

VARIABLES s,         \* the manager's state and the threads' places
          enabled    \* _enabled

vars == <<s, enabled>>

NONE == -1           \* no _target_migration_cpu

Init ==
    /\ s \in {[level |-> MAX, cooldown |-> TRUE, initial |-> COOLDOWN, decreased |-> FALSE,
               balanced |-> FALSE, revoke |-> FALSE, missed |-> FALSE,
               pre |-> MAX, threshold |-> FIRST,
               from |-> 0, to |-> 0, migrated |-> Nobody, swapped |-> Nobody,
               locked |-> {}, queue |-> q,
               target |-> [t \in Threads |-> NONE],
               state |-> [t \in Threads |-> "READY"]] : q \in [Threads -> CPU]}
    /\ enabled = FALSE
-----------------------------------------------------------------------------
(* Thread::prepare_migration(): an order for a running thread, a move for  *)
(* any other.  (Orders that are pending stay pending.)                     *)
PrepareMigration(m, t, c) == IF m.state[t] = "RUNNING" THEN [m EXCEPT !.target[t] = c]
                             ELSE [m EXCEPT !.queue[t] = c]

(* collect_data(): have deadlines been missed since the last hyperperiod?  *)
(* late are the threads with more misses than then.                        *)
CollectData(m, late) == [m EXCEPT !.missed = FALSE /\ \A t \in Threads : t \in late]

HandleDeadlineMisses(m) ==
    IF m.missed THEN [m EXCEPT !.level = MAX, !.cooldown = TRUE, !.balanced = FALSE, !.revoke = TRUE] ELSE m

(* predict(): too high a use of some CPU asks for the highest level; a     *)
(* prediction that all CPUs can do with less lowers it.                    *)
Sum(f, m, c) == MapThenSumSet(LAMBDA t : f[t], {t \in Threads : m.queue[t] = c})

Predict(m, use, guess) ==
    LET level == IF m.level > 0 THEN m.level - 1 ELSE 0
    IN  CASE \E c \in CPU : Sum(use, m, c) >= LIMIT ->
               [m EXCEPT !.level = MAX, !.cooldown = TRUE, !.balanced = FALSE, !.decreased = FALSE]
          [] (\A c \in CPU : Sum(use, m, c) < LIMIT) /\ (\A c \in CPU : Sum(guess, m, c) < LIMIT) ->
               [m EXCEPT !.level = level, !.decreased = level # m.level,
                         !.cooldown = @ \/ level # m.level, !.balanced = @ \/ level = 0]
          [] OTHER -> [m EXCEPT !.decreased = FALSE]
-----------------------------------------------------------------------------
(* activity_variance() of a placement, times (CPUS - 1)^2                  *)
ActivityVariance(q, activity) ==
    LET load(c) == MapThenSumSet(LAMBDA t : activity[t], {t \in Threads : q[t] = c})
        all == MapThenSumSet(load, CPU)
    IN  MapThenSumSet(LAMBDA c : (all - (CPUS - 1) * load(c)) * (all - (CPUS - 1) * load(c)), CPU)

(* The moves balance_load() considers: single migrations, or swaps.        *)
Place(t) == CHOOSE i \in DOMAIN ThreadList : ThreadList[i] = t

Singles(m) ==
    {v \in [t : Threads, u : {Nobody}, from : CPU, to : CPU] :
        v.from = m.queue[v.t] /\ v.to # v.from /\ <<v.t, v.to>> \notin m.locked}

(* A slip: of two threads that are swapped only one's locks are heeded.    *)
SwapsHalf(m) ==
    {v \in [t : Threads, u : Threads, from : CPU, to : CPU] :
        /\ Place(v.t) < Place(v.u)
        /\ v.from = m.queue[v.t] /\ v.to = m.queue[v.u] /\ v.to # v.from
        /\ <<v.t, v.to>> \notin m.locked}

Swaps(m) ==
    {v \in [t : Threads, u : Threads, from : CPU, to : CPU] :
        /\ Place(v.t) < Place(v.u)
        /\ v.from = m.queue[v.t] /\ v.to = m.queue[v.u] /\ v.to # v.from
        /\ <<v.t, v.to>> \notin m.locked /\ <<v.u, v.from>> \notin m.locked}

After(m, v) == [t \in Threads |-> CASE t = v.t -> v.to [] t = v.u -> v.from [] OTHER -> m.queue[t]]

(* Those that lower the variance by the threshold at least                 *)
Good(m, moves, activity) ==
    LET original == ActivityVariance(m.queue, activity)
    IN  {v \in moves : LET score == ActivityVariance(After(m, v), activity)
                       IN  score < original /\ 100 * score < original * (100 - m.threshold)}

(* The first of those with the lowest score, in the order they are tried   *)
Before(v, w) == LET second(x) == IF x.u = Nobody THEN x.to ELSE Place(x.u)
                IN  \/ Place(v.t) < Place(w.t)
                    \/ v.t = w.t /\ second(v) <= second(w)
Best(m, moves, activity) ==
    LET score(v) == ActivityVariance(After(m, v), activity)
    IN  {v \in moves : \A w \in moves :
            score(v) < score(w) \/ (score(v) = score(w) /\ Before(v, w))}

Migrate(m, v) ==
    LET first == PrepareMigration(m, v.t, v.to)
        moved == IF v.u = Nobody THEN first ELSE PrepareMigration(first, v.u, v.from)
    IN  [moved EXCEPT !.from = v.from, !.to = v.to, !.migrated = v.t, !.swapped = v.u,
                      !.cooldown = TRUE, !.pre = m.level, !.level = MAX]

(* A slip: the migration that is revoked is not forgotten.                 *)
RevokeAgain(m) ==
    IF m.migrated = Nobody THEN [m EXCEPT !.revoke = FALSE] ELSE
    LET first == PrepareMigration(m, m.migrated, m.from)
        moved == IF m.swapped = Nobody THEN first ELSE PrepareMigration(first, m.swapped, m.to)
    IN  [moved EXCEPT !.locked = @ \cup {<<m.migrated, m.to>>},
                      !.threshold = @ + STEP, !.cooldown = TRUE, !.level = MAX, !.revoke = FALSE]

(* The last migration is undone and locked; the next has to promise more.  *)
Revoke(m) ==
    IF m.migrated = Nobody THEN [m EXCEPT !.revoke = FALSE] ELSE
    LET first == PrepareMigration(m, m.migrated, m.from)
        moved == IF m.swapped = Nobody THEN first ELSE PrepareMigration(first, m.swapped, m.to)
    IN  [moved EXCEPT !.locked = @ \cup {<<m.migrated, m.to>>} \cup
                                 (IF m.swapped = Nobody THEN {} ELSE {<<m.swapped, m.from>>}),
                      !.threshold = @ + STEP,
                      !.from = 0, !.to = 0, !.migrated = Nobody, !.swapped = Nobody,
                      !.cooldown = TRUE, !.level = MAX, !.revoke = FALSE]

(* balance_load(): the states it may leave, of which there is one          *)
BalanceLoad(m, activity) ==
    LET singles == Good(m, Singles(m), activity)
        swaps   == Good(m, Swaps(m), activity)
    IN  CASE m.revoke \/ m.level > m.pre -> {Revoke(m)}
          [] ~(m.revoke \/ m.level > m.pre) /\ ~m.balanced /\ singles \cup swaps # {} ->
               {Migrate(m, v) : v \in Best(m, IF singles # {} THEN singles ELSE swaps, activity)}
          [] OTHER -> {[m EXCEPT !.balanced = TRUE]}
-----------------------------------------------------------------------------
(* The CPU a thread is on or is ordered to go to                           *)
Bound(m, t) == IF m.target[t] = NONE THEN m.queue[t] ELSE m.target[t]

CoolDown(m) == IF m.initial > 0 THEN [m EXCEPT !.initial = @ - 1] ELSE [m EXCEPT !.cooldown = FALSE]

(* handle(TIMER_INTERRUPTION) at the end of a hyperperiod.  train(), which *)
(* changes what the network will answer, comes before predict().           *)
Hyperperiod ==
    /\ enabled
    /\ PROMPT => \A t \in Threads : s.target[t] = NONE
    /\ \E seen \in {HandleDeadlineMisses(CollectData(s, late)) : late \in SUBSET Threads} :
         \/ seen.cooldown /\ s' = CoolDown(seen)
         \/ /\ ~seen.cooldown
            /\ \E said \in {Predict(seen, use, guess) : use, guess \in [Threads -> Utilizations]},
                  activity \in Activities :
                 s' \in IF said.decreased THEN {said} ELSE BalanceLoad(said, activity)
    /\ UNCHANGED enabled

(* enable() and disable(), by the application                              *)
Enable == enabled' = ~enabled /\ UNCHANGED s

(* Thread::reschedule() on t's CPU: the pending order is carried out.      *)
Reschedule(t) ==
    /\ s.state[t] = "RUNNING"
    /\ s' = [s EXCEPT !.queue[t] = Bound(s, t), !.target[t] = NONE, !.state[t] = "READY"]
    /\ UNCHANGED enabled

(* The scheduler's other steps: t is chosen, waits for its next job, whose *)
(* order stays with it, or is released.                                    *)
Becomes(t, before, after) ==
    /\ s.state[t] = before
    /\ s' = [s EXCEPT !.state[t] = after]
    /\ UNCHANGED enabled

Dispatch(t) == /\ \A u \in Threads : s.queue[u] = s.queue[t] => s.state[u] # "RUNNING"
               /\ Becomes(t, "READY", "RUNNING")
Sleep(t) == Becomes(t, "RUNNING", "WAITING")
Wakeup(t) == Becomes(t, "WAITING", "READY")

Next == \/ Hyperperiod \/ Enable
        \/ \E t \in Threads : Reschedule(t) \/ Dispatch(t) \/ Sleep(t) \/ Wakeup(t)

Spec == Init /\ [][Next]_vars
-----------------------------------------------------------------------------
TypeOK ==
    /\ s.level \in 0 .. MAX /\ s.pre \in 0 .. MAX /\ s.initial \in 0 .. COOLDOWN
    /\ {s.cooldown, s.decreased, s.balanced, s.revoke, s.missed, enabled} \subseteq BOOLEAN
    /\ s.threshold \in Nat
    /\ {s.from, s.to} \subseteq {0} \cup CPU /\ {s.migrated, s.swapped} \subseteq Threads \cup {Nobody}
    /\ s.locked \subseteq Threads \X CPU
    /\ s.queue \in [Threads -> CPU] /\ s.target \in [Threads -> CPU \cup {NONE}]
    /\ s.state \in [Threads -> {"RUNNING", "READY", "WAITING"}]

(* Revocations come to an end: each locks a thread out of a CPU it was not *)
(* locked out of, so that there are no more of them than such pairs.       *)
RevocationsBounded == s.threshold <= FIRST + STEP * Cardinality(s.locked)

(* No order sends a thread to a CPU it was locked out of when a migration  *)
(* was revoked, be it to migrate, to swap or to revoke.                    *)
OrdersRespectLocks ==
    [][\A t \in Threads : Bound(s', t) # Bound(s, t) => <<t, Bound(s', t)>> \notin s.locked]_vars
=============================================================================
