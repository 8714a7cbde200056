-------------------------------- MODULE Thread --------------------------------
(***************************************************************************)
(* The kernel's threads on a multiprocessor: src/api/thread.cc and         *)
(* include/process.h, with the scheduler of module Scheduling.             *)
(*                                                                         *)
(* An operation of Thread runs with interrupts disabled and Thread::_lock  *)
(* held, so it is one action, up to the place where dispatch() releases    *)
(* the lock.  From there to the new thread's next kernel section other     *)
(* CPUs run: a CPU then waits for next->_context (pc "switch"), switches,  *)
(* and takes the lock again in the frame the new thread was left in (pc    *)
(* "resume").  What a thread object says and what a CPU executes are kept  *)
(* apart: exec[c] is the flow (the thread whose stack) CPU c is on, while  *)
(* Thread::running() is the scheduler's chosen thread.                     *)
(***************************************************************************)
EXTENDS Scheduling, FiniteSets

CONSTANTS NCPUS,      \* CPU::cores()
          App,        \* the application's threads
          Main,       \* the thread Thread::init() creates for main()
          Idle,       \* Idle[c]: the idle thread Thread::init() creates on c
          Rank,       \* Rank[t]: the priority a thread is created with
          Ranks,      \* the priorities priority() may give a thread
          Sync,       \* the synchronizers' waiting queues
          Uninit,     \* what _target_migration_cpu may hold in a thread whose
                      \* criterion was built by EA_PEDF_RV64(int)
          Calls       \* the operations the application uses (see Callable)

CPU == 0..NCPUS - 1
BSP == 0
SMP == NCPUS > 1      \* Traits<Thread>::smp
Idles == {Idle[c] : c \in CPU}
Threads == App \cup Idles
NoTarget == -1

(* The operations of Thread, each with the way it is used: pass_any,       *)
(* priority_any, suspend_other, resume_joiner, migrate_again, delete_live, *)
(* delete_joined and delete_joiner are the uses the code does not forbid   *)
(* and does not always handle.                                             *)
Callable == {"create", "create_suspended", "join", "exit", "yield",
             "suspend", "suspend_other", "resume", "resume_joiner",
             "pass", "pass_any", "priority", "priority_any",
             "sleep", "wakeup", "wakeup_all", "migrate", "migrate_again",
             "delete", "delete_live", "delete_joined", "delete_joiner"}

ASSUME ThreadAssumption ==
    /\ NCPUS \in Nat \ {0}
    /\ Main \in App /\ IsFiniteSet(App)
    /\ Idle \in [CPU -> Idles]
    /\ \A c, d \in CPU : Idle[c] = Idle[d] => c = d
    /\ App \cap Idles = {} /\ Null \notin Threads
    /\ IdleRank \in Nat
    /\ Rank \in [Threads -> 0..IdleRank]
    /\ \A t \in Threads : Rank[t] = IdleRank <=> t \in Idles
    /\ Ranks \subseteq 0..IdleRank - 1
    /\ Uninit \subseteq CPU \cup {NoTarget}
    /\ Calls \subseteq Callable

VARIABLES k,          \* the scheduler and the thread attributes it works on
          waitq,      \* waitq[q]: the waiting queue of synchronizer q
          joining,    \* joining[t]: t->_joining
          count,      \* _thread_count
          lock,       \* the thread that has _lock between two actions, or Null
          pc,         \* pc[c]: where CPU c is, in dispatch() or wakeup_all()
          exec,       \* exec[c]: the flow CPU c executes
          context,    \* context[t]: what t->_context points to, or Null
          loop        \* loop[t]: the CPUs t, in wakeup_all(), has yet to notify

vars == <<k, waitq, joining, count, lock, pc, exec, context, loop>>

State == {"NONE", "RUNNING", "READY", "SUSPENDED", "WAITING", "FINISHING", "DELETED"}
Live == {"RUNNING", "READY", "SUSPENDED", "WAITING"}

Running(c) == k.chosen[c]
AtWork == [at |-> "run"]
Switching(p, n) == [at |-> "switch", prev |-> p, next |-> n]
Waking(q, cpus) == [at |-> "waking", q |-> q, cpus |-> cpus]
Context(t, fresh) == [flow |-> t, fresh |-> fresh]

(* A context is told from none.                                            *)
ASSUME ContextAssumption == \A t \in Threads, fresh \in BOOLEAN : Context(t, fresh) # Null

(* The state Thread::init() and Init_End leave: MAIN runs on the bootstrap *)
(* CPU and IDLE, still READY, on the others.  The contexts they were loaded*)
(* from are not cleared, as dispatch() would have done.                    *)
Boot == Idles \cup {Main}

Init ==
    /\ \E target \in [Boot -> Uninit] :
       k = [chosen |-> [c \in CPU |-> IF c = BSP THEN Main ELSE Idle[c]],
            ready  |-> [c \in CPU |-> IF c = BSP THEN <<Idle[c]>> ELSE <<>>],
            rank   |-> Rank,
            queue  |-> [t \in Threads |->
                          IF t \in Idles THEN CHOOSE c \in CPU : t = Idle[c] ELSE BSP],
            intact |-> TRUE,
            state  |-> [t \in Threads |-> IF t = Main THEN "RUNNING"
                                          ELSE IF t \in Idles THEN "READY" ELSE "NONE"],
            target |-> [t \in Threads |-> IF t \in Boot THEN target[t] ELSE NoTarget],
            ipi    |-> {}]
    /\ waitq = [q \in Sync |-> <<>>]
    /\ joining = [t \in Threads |-> Null]
    /\ count = NCPUS + 1
    /\ lock = Null
    /\ pc = [c \in CPU |-> AtWork]
    /\ exec = [c \in CPU |-> IF c = BSP THEN Main ELSE Idle[c]]
    /\ context = [t \in Threads |-> IF t \in Boot THEN Context(t, TRUE) ELSE Null]
    /\ loop = [t \in Threads |-> {}]
-----------------------------------------------------------------------------
(* dispatch(prev, next): next is running from here on, for everyone who    *)
(* takes the lock it releases; the CPU itself has still to switch.  Having *)
(* no thread to choose is a null dereference.                              *)
Dispatched(s, prev, next) ==
    IF next = Null THEN [s EXCEPT !.intact = FALSE]
    ELSE IF prev = next THEN s
    ELSE [s EXCEPT !.state[prev] = IF @ = "RUNNING" THEN "READY" ELSE @,
                   !.state[next] = "RUNNING"]

Dispatch(s, c, prev) ==
    LET next == s.chosen[c]
    IN  /\ k' = Dispatched(s, prev, next)
        /\ pc' = [pc EXCEPT ![c] = IF next \in {prev, Null} THEN AtWork
                                                           ELSE Switching(prev, next)]

(* A slip: the order is not cleared.                                       *)
MigratedStale(s, prev) ==
    LET cpu == s.target[prev]
        out == SchedulerRemove([s EXCEPT !.state[prev] = "READY"], prev)
    IN  IF cpu = NoTarget THEN s
        ELSE [SchedulerInsert([out EXCEPT !.queue[prev] = cpu], prev)
                EXCEPT !.ipi = @ \cup {cpu}]

(* The first part of reschedule(): the running thread leaves for the CPU   *)
(* prepare_migration() has set for it.                                     *)
Migrated(s, prev) ==
    LET cpu == s.target[prev]
        out == SchedulerRemove([s EXCEPT !.target[prev] = NoTarget,
                                         !.state[prev] = "READY"], prev)
    IN  IF cpu = NoTarget THEN s
        ELSE [SchedulerInsert([out EXCEPT !.queue[prev] = cpu], prev)
                EXCEPT !.ipi = @ \cup {cpu}]

(* reschedule(), up to dispatch(), on CPU c                                *)
Rescheduled(s, c) ==
    LET m == Migrated(s, s.chosen[c])
    IN  IF m.chosen[c] = Null THEN m ELSE Choose(m, c)

(* A slip: running() is read after choose().                               *)
RescheduleLate(s, c) == LET r == Rescheduled(s, c) IN Dispatch(r, c, r.chosen[c])

Reschedule(s, c) == Dispatch(Rescheduled(s, c), c, s.chosen[c])

(* A slip: the other CPU is not told.                                      *)
RescheduleSilent(s, c, cpu) ==
    \/ cpu = c /\ Reschedule(s, c)
    \/ cpu # c /\ k' = s /\ UNCHANGED pc

(* reschedule(cpu): here, or by an interrupt to the other CPU              *)
RescheduleCPU(s, c, cpu) ==
    \/ /\ cpu = c
       /\ Reschedule(s, c)
    \/ /\ cpu # c
       /\ k' = [s EXCEPT !.ipi = @ \cup {cpu}]
       /\ UNCHANGED pc

(* The last loop of wakeup_all() on CPU c: reschedule(i) for the CPUs i of *)
(* the set cpus, in order.  A local reschedule() that switches leaves the  *)
(* CPUs above c to be notified when the thread, t, runs again.             *)
NotifyFrom(s, c, t, cpus) ==
    LET below == [s EXCEPT !.ipi = @ \cup {i \in cpus : i < c}]
        above == {i \in cpus : i > c}
        next  == Rescheduled(below, c)
    IN  \/ /\ c \notin cpus
           /\ k' = [s EXCEPT !.ipi = @ \cup cpus]
           /\ pc' = [pc EXCEPT ![c] = AtWork]
           /\ loop' = [loop EXCEPT ![t] = {}]
        \/ /\ c \in cpus /\ next.chosen[c] = s.chosen[c]
           /\ k' = [next EXCEPT !.ipi = @ \cup above]
           /\ pc' = [pc EXCEPT ![c] = AtWork]
           /\ loop' = [loop EXCEPT ![t] = {}]
        \/ /\ c \in cpus /\ next.chosen[c] # s.chosen[c]
           /\ Dispatch(next, c, s.chosen[c])
           /\ loop' = [loop EXCEPT ![t] = above]
-----------------------------------------------------------------------------
(* The thread CPU c executes calls an operation: it takes the lock.        *)
Entering(c) == pc[c] = AtWork /\ exec[c] \in App /\ lock = Null
Calling(c, op) == op \in Calls /\ Entering(c)

(* A slip: the new thread is not counted.                                  *)
CreateUncounted(c, t, st, cpu) ==
    /\ Calling(c, IF st = "READY" THEN "create" ELSE "create_suspended")
    /\ k.state[t] = "NONE"
    /\ RescheduleCPU(SchedulerInsert([k EXCEPT !.state[t] = st, !.queue[t] = cpu], t), c, cpu)
    /\ context' = [context EXCEPT ![t] = Context(t, TRUE)]
    /\ UNCHANGED <<waitq, joining, count, lock, exec, loop>>

(* Thread(): the constructor, in the state and on the CPU of its Configuration. *)
Create(c, t, st, cpu) ==
    /\ Calling(c, IF st = "READY" THEN "create" ELSE "create_suspended")
    /\ k.state[t] = "NONE"
    /\ \E target \in Uninit :
         LET n == SchedulerInsert([k EXCEPT !.state[t] = st, !.queue[t] = cpu,
                                            !.target[t] = target], t)
         IN  \/ /\ st = "READY"
                /\ RescheduleCPU(n, c, cpu)
             \/ /\ st = "SUSPENDED"
                /\ k' = SchedulerRemove(n, t)
                /\ UNCHANGED pc
    /\ count' = count + 1
    /\ context' = [context EXCEPT ![t] = Context(t, TRUE)]
    /\ UNCHANGED <<waitq, joining, lock, exec, loop>>

(* join(): t is not the running thread and has no joiner (preconditions).  *)
Join(c, t) ==
    /\ Calling(c, "join")
    /\ k.state[t] \notin {"NONE", "DELETED"}
    /\ t # Running(c) /\ joining[t] = Null
    /\ \/ /\ k.state[t] = "FINISHING"
          /\ UNCHANGED <<k, pc, joining>>
       \/ /\ k.state[t] # "FINISHING"
          /\ LET prev == Running(c) IN
             /\ joining' = [joining EXCEPT ![t] = prev]
             /\ Dispatch(SchedulerRemove([k EXCEPT !.state[prev] = "SUSPENDED"], prev), c, prev)
    /\ UNCHANGED <<waitq, count, lock, exec, context, loop>>

(* pass(): the scheduler is not asked whether t is ready, nor where.       *)
Pass(c, t) ==
    /\ Calling(c, IF k.state[t] = "READY" /\ k.queue[t] = c THEN "pass" ELSE "pass_any")
    /\ k.state[t] \in Live
    /\ LET s == ChooseThis(k, c, t) IN
       /\ k' = Dispatched(s, Running(c), t)
       /\ pc' = [pc EXCEPT ![c] = IF t = Running(c) THEN AtWork
                                                     ELSE Switching(Running(c), t)]
    /\ UNCHANGED <<waitq, joining, count, lock, exec, context, loop>>

(* suspend(): of the caller itself, or of any other thread                 *)
Suspend(c, t) ==
    /\ Calling(c, IF t = Running(c) THEN "suspend" ELSE "suspend_other")
    /\ k.state[t] \in Live
    /\ Dispatch(SchedulerRemove([k EXCEPT !.state[t] = "SUSPENDED"], t), c, Running(c))
    /\ UNCHANGED <<waitq, joining, count, lock, exec, context, loop>>

Joiner(t) == \E u \in Threads : joining[u] = t

(* resume(): effective on a suspended thread only.  A thread waiting in    *)
(* join() is in that state too.                                            *)
Resume(c, t) ==
    /\ Calling(c, IF Joiner(t) THEN "resume_joiner" ELSE "resume")
    /\ k.state[t] \in Live
    /\ \/ /\ k.state[t] = "SUSPENDED"
          /\ RescheduleCPU(SchedulerInsert([k EXCEPT !.state[t] = "READY"], t), c, k.queue[t])
       \/ /\ k.state[t] # "SUSPENDED"
          /\ UNCHANGED <<k, pc>>
    /\ UNCHANGED <<waitq, joining, count, lock, exec, context, loop>>

(* yield(): also what idle() calls when a thread has become ready          *)
YieldAt(c) ==
    /\ Dispatch(ChooseAnother(k, c), c, Running(c))
    /\ UNCHANGED <<waitq, joining, count, lock, exec, context, loop>>

Yield(c) == Calling(c, "yield") /\ YieldAt(c)

(* exit(): the joiner is made ready where its queue is; no CPU is notified.*)
Exit(c) ==
    /\ Calling(c, "exit")
    /\ LET prev == Running(c)
           j    == joining[prev]
           out  == [SchedulerRemove(k, prev) EXCEPT !.state[prev] = "FINISHING"]
           in   == IF j = Null THEN out
                   ELSE SchedulerInsert([out EXCEPT !.state[j] = "READY"], j)
       IN  /\ joining' = [joining EXCEPT ![prev] = Null]
           /\ Dispatch(IF in.chosen[c] = Null THEN in ELSE Choose(in, c), c, prev)
    /\ count' = count - 1
    /\ UNCHANGED <<waitq, lock, exec, context, loop>>
-----------------------------------------------------------------------------
(* sleep(q), which a synchronizer calls with the lock held                 *)
Sleep(c, q) ==
    LET prev == Running(c) IN
    /\ Dispatch([SchedulerRemove(k, prev) EXCEPT !.state[prev] = "WAITING"], c, prev)
    /\ waitq' = [waitq EXCEPT ![q] = OrderedInsert(@, k.rank, prev)]
    /\ UNCHANGED <<joining, count, lock, exec, context, loop>>

(* wakeup(q)                                                               *)
Wakeup(c, q) ==
    /\ \/ /\ waitq[q] = <<>>
          /\ UNCHANGED <<k, pc, waitq>>
       \/ /\ waitq[q] # <<>>
          /\ LET t == Head(waitq[q]) IN
             /\ waitq' = [waitq EXCEPT ![q] = Tail(@)]
             /\ RescheduleCPU(SchedulerInsert([k EXCEPT !.state[t] = "READY"], t), c, k.queue[t])
    /\ UNCHANGED <<joining, count, lock, exec, context, loop>>

(* wakeup_all(q): the lock is kept while the threads are made ready, one   *)
(* by one, and until their CPUs have been notified.                        *)
WakeupAll(c, q) ==
    /\ \/ /\ waitq[q] = <<>>
          /\ UNCHANGED <<lock, pc>>
       \/ /\ waitq[q] # <<>>
          /\ lock' = exec[c]
          /\ pc' = [pc EXCEPT ![c] = Waking(q, {})]
    /\ UNCHANGED <<k, waitq, joining, count, exec, context, loop>>

Wake(c) ==
    /\ pc[c].at = "waking" /\ waitq[pc[c].q] # <<>>
    /\ LET q == pc[c].q
           t == Head(waitq[q])
       IN  /\ waitq' = [waitq EXCEPT ![q] = Tail(@)]
           /\ k' = SchedulerInsert([k EXCEPT !.state[t] = "READY"], t)
           /\ pc' = [pc EXCEPT ![c] = Waking(q, pc[c].cpus \cup {k.queue[t]})]
    /\ UNCHANGED <<joining, count, lock, exec, context, loop>>

Notify(c) ==
    /\ pc[c].at = "waking" /\ waitq[pc[c].q] = <<>>
    /\ lock' = Null
    /\ NotifyFrom(k, c, exec[c], pc[c].cpus)
    /\ UNCHANGED <<waitq, joining, count, exec, context>>
-----------------------------------------------------------------------------
(* A slip: the criterion is changed before the thread is taken out of the  *)
(* list the old one put it in.                                             *)
PriorityLate(c, t, r, cpu) ==
    /\ Calling(c, "priority") /\ k.state[t] = "READY" /\ t # Main
    /\ LET new == [k EXCEPT !.rank[t] = r, !.queue[t] = cpu]
       IN  k' = [SchedulerInsert(SchedulerRemove(new, t), t)
                   EXCEPT !.ipi = @ \cup ({k.queue[t], cpu} \ {c})]
    /\ UNCHANGED <<waitq, joining, count, lock, pc, exec, context, loop>>

(* priority(p): a thread that is not running is taken out of the scheduler *)
(* and put back, whether or not it was in it.  On a multiprocessor only the*)
(* other CPUs are told.                                                    *)
Priority(c, t, r, cpu) ==
    /\ Calling(c, IF /\ k.state[t] = "RUNNING" \/ t = Main => cpu = k.queue[t]
                     /\ k.state[t] \in {"RUNNING", "READY"} /\ k.target[t] = NoTarget
                  THEN "priority" ELSE "priority_any")
    /\ k.state[t] \in Live \cup {"FINISHING"}
    /\ LET new(s) == [s EXCEPT !.rank[t] = r, !.queue[t] = cpu]
           s == IF k.state[t] = "RUNNING" THEN new(k)
                ELSE SchedulerInsert(new(SchedulerRemove(k, t)), t)
       IN  \/ /\ SMP
              /\ k' = [s EXCEPT !.ipi = @ \cup ({k.queue[t], cpu} \ {c})]
              /\ UNCHANGED pc
           \/ /\ ~SMP
              /\ Reschedule(s, c)
    /\ UNCHANGED <<waitq, joining, count, lock, exec, context, loop>>

(* A slip: a running thread is moved like a ready one.                    *)
PreparedAtOnce(s, t, cpu) ==
    IF s.state[t] \in {"RUNNING", "READY"}
    THEN [SchedulerInsert([SchedulerRemove(s, t) EXCEPT !.queue[t] = cpu], t)
            EXCEPT !.ipi = @ \cup {s.queue[t], cpu}]
    ELSE s

(* prepare_migration(cpu, mask)                                            *)
Prepared(s, t, cpu) ==
    CASE s.state[t] = "RUNNING" -> [s EXCEPT !.target[t] = cpu, !.ipi = @ \cup {s.queue[t]}]
      [] s.state[t] = "READY" ->
            [SchedulerInsert([SchedulerRemove(s, t) EXCEPT !.queue[t] = cpu], t)
               EXCEPT !.ipi = @ \cup {s.queue[t], cpu}]
      [] s.state[t] \in {"WAITING", "SUSPENDED"} -> [s EXCEPT !.queue[t] = cpu]
      [] OTHER -> s

(* What the criterion's handler may decide on a timer interrupt of the     *)
(* bootstrap CPU (EA_PEDF_RV64::handle(), balance_load()): nothing, to move*)
(* a thread, or to swap two; execute_migrations() then notifies the other  *)
(* CPUs concerned.  Only monitored periodic threads are moved, never MAIN. *)
(* An order given to a running thread may still be outstanding when the    *)
(* next decision is taken.                                                 *)
Movable == {t \in App \ {Main} :
               /\ k.state[t] \notin {"NONE", "DELETED"}
               /\ k.target[t] # NoTarget => "migrate_again" \in Calls}

Executed(s, c) == [s EXCEPT !.ipi = k.ipi \cup (@ \ {c})]

Balanced(c) ==
    {k} \cup
    (IF "migrate" \notin Calls \/ c # BSP THEN {} ELSE
        {Executed(Prepared(k, m[1], m[2]), c) :
            m \in {n \in Movable \X CPU : n[2] # k.queue[n[1]]}} \cup
        {Executed(Prepared(Prepared(k, m[1], k.queue[m[2]]), m[2], k.queue[m[1]]), c) :
            m \in {n \in Movable \X Movable : k.queue[n[1]] # k.queue[n[2]]}})
-----------------------------------------------------------------------------
(* A slip: the state is not asserted, and the thread deletes itself.       *)
DeleteSelf(c, t) ==
    /\ Calling(c, "delete") /\ k.state[t] \in {"RUNNING", "FINISHING"}
    /\ k' = [k EXCEPT !.state[t] = "DELETED"]
    /\ UNCHANGED <<waitq, joining, count, lock, pc, exec, context, loop>>

(* ~Thread(): a thread that has not finished is taken out of whatever list *)
(* it is in.  Its joiner is resumed with resume(), with the lock held: a   *)
(* dispatch() in there releases one of the two levels only.                *)
Delete(c, t) ==
    /\ t \notin {Running(c), Main}
    /\ k.state[t] \in {"READY", "SUSPENDED", "WAITING", "FINISHING"}
    /\ LET prev == Running(c)
           j    == joining[t]
           wake == j # Null /\ k.state[j] = "SUSPENDED"
           off  == CASE k.state[t] = "READY" -> SchedulerRemove(k, t)
                     [] k.state[t] = "FINISHING" -> k
                     [] OTHER -> SchedulerRemove(SchedulerInsert(k, t), t)
           gone == [off EXCEPT !.state[t] = "DELETED"]
       IN  /\ Calling(c, IF k.state[t] = "FINISHING" THEN "delete"
                         ELSE IF Joiner(t) THEN "delete_joiner"
                         ELSE IF wake /\ k.queue[j] = c THEN "delete_joined"
                         ELSE "delete_live")
           /\ \/ /\ ~wake
                 /\ k' = gone
                 /\ UNCHANGED <<pc, lock>>
              \/ /\ wake
                 /\ RescheduleCPU(SchedulerInsert([gone EXCEPT !.state[j] = "READY"], j), c, k.queue[j])
                 /\ lock' = IF SMP /\ pc' # pc THEN prev ELSE Null
    /\ count' = IF k.state[t] = "FINISHING" THEN count ELSE count - 1
    /\ waitq' = [q \in Sync |-> RemoveFirst(waitq[q], t)]
    /\ UNCHANGED <<joining, exec, context, loop>>
-----------------------------------------------------------------------------
(* Slips: the wait for next's context is left out; prev's is not saved.    *)
SwitchAtOnce(c) ==
    /\ pc[c].at = "switch"
    /\ context' = [context EXCEPT ![pc[c].next] = Null, ![pc[c].prev] = Context(exec[c], FALSE)]
    /\ exec' = [exec EXCEPT ![c] = pc[c].next]
    /\ pc' = [pc EXCEPT ![c] = [at |-> "resume"]]
    /\ UNCHANGED <<k, waitq, joining, count, lock, loop>>
SwitchUnsaved(c) ==
    /\ pc[c].at = "switch" /\ context[pc[c].next] # Null
    /\ context' = [context EXCEPT ![pc[c].next] = Null]
    /\ exec' = [exec EXCEPT ![c] = pc[c].next]
    /\ pc' = [pc EXCEPT ![c] = AtWork]
    /\ UNCHANGED <<k, waitq, joining, count, lock, loop>>

(* CPU::switch_context(), once next->_context is there to take: the flow of*)
(* this CPU is saved in prev, and the one saved in next goes on, at its    *)
(* entry point or after the switch it had made.                            *)
Switch(c) ==
    /\ pc[c].at = "switch"
    /\ LET prev == pc[c].prev
           next == pc[c].next
           ctx  == context[next]
       IN  /\ ctx # Null
           /\ context' = [context EXCEPT ![next] = Null, ![prev] = Context(exec[c], FALSE)]
           /\ exec' = [exec EXCEPT ![c] = ctx.flow]
           /\ pc' = [pc EXCEPT ![c] = IF ctx.fresh THEN AtWork ELSE [at |-> "resume"]]
    /\ UNCHANGED <<k, waitq, joining, count, lock, loop>>

(* The end of dispatch(): the flow takes the lock again, finishes the      *)
(* operation it was in (only wakeup_all() has something left to do) and    *)
(* releases the lock.                                                      *)
Reenter(c) ==
    /\ pc[c].at = "resume"
    /\ lock \in {Null, Running(c)}
    /\ lock' = Null
    /\ NotifyFrom(k, c, exec[c], loop[exec[c]])
    /\ UNCHANGED <<waitq, joining, count, exec, context>>

(* rescheduler(): the interrupt another CPU asked for                      *)
Rescheduler(c) ==
    /\ c \in k.ipi
    /\ pc[c] = AtWork /\ lock = Null
    /\ Reschedule([k EXCEPT !.ipi = @ \ {c}], c)
    /\ UNCHANGED <<waitq, joining, count, lock, exec, context, loop>>

(* time_slicer(): the scheduler's timer, with the criterion's handler      *)
TimeSlicer(c) ==
    /\ pc[c] = AtWork /\ lock = Null
    /\ \E s \in Balanced(c) : Reschedule(s, c)
    /\ UNCHANGED <<waitq, joining, count, lock, exec, context, loop>>

(* idle(): yields when its CPU has something to run                        *)
IdleYield(c) ==
    /\ pc[c] = AtWork /\ exec[c] = Idle[c] /\ lock = Null
    /\ count > NCPUS
    /\ k.ready[c] # <<>>
    /\ YieldAt(c)

(* A slip: the test is for one thread more.                                *)
LeaveEarly(c) ==
    /\ pc[c] = AtWork /\ exec[c] = Idle[c]
    /\ count <= NCPUS + 1
    /\ pc' = [pc EXCEPT ![c] = [at |-> "barrier"]]
    /\ UNCHANGED <<k, waitq, joining, count, lock, exec, context, loop>>

(* idle() leaves its loop when only the idle threads are left, and waits   *)
(* for the other CPUs at the barrier.                                      *)
Leave(c) ==
    /\ pc[c] = AtWork /\ exec[c] = Idle[c]
    /\ count <= NCPUS
    /\ pc' = [pc EXCEPT ![c] = [at |-> "barrier"]]
    /\ UNCHANGED <<k, waitq, joining, count, lock, exec, context, loop>>

(* Machine::reboot(), when every CPU has come to the barrier               *)
Reboot == /\ \A c \in CPU : pc[c].at = "barrier"
          /\ UNCHANGED vars
-----------------------------------------------------------------------------
Operation(c) ==
    \/ \E t \in App, st \in {"READY", "SUSPENDED"}, cpu \in CPU : Create(c, t, st, cpu)
    \/ \E t \in App : Join(c, t) \/ Pass(c, t) \/ Suspend(c, t) \/ Resume(c, t) \/ Delete(c, t)
    \/ \E t \in App, r \in Ranks, cpu \in CPU : Priority(c, t, r, cpu)
    \/ Yield(c) \/ Exit(c)

(* The synchronizers' calls, made by any thread at any time                *)
Synchronize(c) ==
    \E q \in Sync : \/ Calling(c, "sleep") /\ Sleep(c, q)
                    \/ Calling(c, "wakeup") /\ Wakeup(c, q)
                    \/ Calling(c, "wakeup_all") /\ WakeupAll(c, q)

Kernel(c) == Wake(c) \/ Notify(c) \/ Switch(c) \/ Reenter(c) \/ Rescheduler(c) \/ TimeSlicer(c)
             \/ IdleYield(c) \/ Leave(c)

Next == k.intact /\ (Reboot \/ \E c \in CPU : Operation(c) \/ Synchronize(c) \/ Kernel(c))

(* A CPU inside dispatch(), wakeup_all() or idle() goes on; one that tries *)
(* to take the lock, in dispatch() or for a pending interrupt, does not    *)
(* lose it to the others for ever; and the timer keeps ticking, also when  *)
(* the load needs no balancing.  That much the hardware and the criterion  *)
(* give.  Nothing is assumed of the application or of the balancer.        *)
Slice(c) == TimeSlicer(c) /\ Reschedule(k, c)

Fairness == \A c \in CPU : /\ WF_vars(Wake(c)) /\ WF_vars(Notify(c))
                           /\ WF_vars(Switch(c)) /\ WF_vars(Leave(c))
                           /\ SF_vars(Reenter(c)) /\ SF_vars(Rescheduler(c))
                           /\ SF_vars(Slice(c))

Spec == Init /\ [][Next]_vars
FairSpec == Spec /\ Fairness
-----------------------------------------------------------------------------
TypeOK ==
    /\ k.chosen \in [CPU -> Threads \cup {Null}]
    /\ k.ready \in [CPU -> Seq(Threads)]
    /\ k.rank \in [Threads -> 0..IdleRank]
    /\ k.queue \in [Threads -> CPU]
    /\ k.intact \in BOOLEAN
    /\ k.state \in [Threads -> State]
    /\ k.target \in [Threads -> CPU \cup {NoTarget}]
    /\ k.ipi \subseteq CPU
    /\ waitq \in [Sync -> Seq(Threads)]
    /\ joining \in [Threads -> Threads \cup {Null}]
    /\ count \in Nat
    /\ lock \in Threads \cup {Null}
    /\ \A c \in CPU : \/ pc[c] \in {AtWork, [at |-> "resume"], [at |-> "barrier"]}
                      \/ pc[c] \in {Switching(p, n) : p, n \in Threads}
                      \/ pc[c] \in {Waking(q, cpus) : q \in Sync, cpus \in SUBSET CPU}
    /\ exec \in [CPU -> Threads]
    /\ context \in [Threads -> {Null} \cup {Context(t, f) : t \in Threads, f \in BOOLEAN}]
    /\ loop \in [Threads -> SUBSET CPU]

(* The places a thread's _link is at, in the scheduler's lists or in a     *)
(* waiting queue.                                                          *)
Scheduled(t) == {<<c, 0>> : c \in {c \in CPU : k.chosen[c] = t}} \cup
                UNION {{<<c, i>> : i \in {i \in DOMAIN k.ready[c] : k.ready[c][i] = t}} : c \in CPU}
Blocked(t) == UNION {{<<q, i>> : i \in {i \in DOMAIN waitq[q] : waitq[q][i] = t}} : q \in Sync}

(* A thread's state, its queue and its only link agree in every state all  *)
(* CPUs can see: a running thread is the chosen one of exactly one CPU, a  *)
(* ready one is linked once, in the list of its own queue, a waiting one   *)
(* once in one waiting queue, and the others nowhere.  An operation that   *)
(* loses, duplicates or misplaces a thread breaks it.                      *)
LinkedOnce ==
    \A t \in Threads :
        /\ k.state[t] = "RUNNING" => Scheduled(t) = {<<k.queue[t], 0>>}
        /\ k.state[t] = "READY" => /\ Cardinality(Scheduled(t)) = 1
                                   /\ \A p \in Scheduled(t) : /\ p[1] = k.queue[t]
                                                               /\ p[2] = 0 => t \in Idles
        /\ k.state[t] \notin {"RUNNING", "READY"} => Scheduled(t) = {}
        /\ Cardinality(Blocked(t)) = IF k.state[t] = "WAITING" THEN 1 ELSE 0

(* No list operation is ever applied to a thread that is not in the list   *)
(* it is applied to, and no CPU is ever left with nothing to choose.       *)
ListsIntact == k.intact

(* What thread.cc says of choose(): "at least idle will always be there".  *)
AtLeastIdle == \A c \in CPU : k.chosen[c] = Idle[c] \/ IsLinked(k, Idle[c], c)

(* Thread::running() tells the truth: the thread the scheduler takes for   *)
(* running on a CPU, and whose state, links and context the operations     *)
(* called there change, is the one the CPU executes, except in dispatch(), *)
(* between releasing the lock and switching.                               *)
RunningIsExecuting ==
    \A c \in CPU : IF pc[c].at = "switch"
                   THEN exec[c] = pc[c].prev /\ k.chosen[c] = pc[c].next
                   ELSE exec[c] = k.chosen[c]

(* No two CPUs execute on one stack, although dispatch() gives a migrating *)
(* thread away before it has left its stack, and a thread that is not      *)
(* executing has its own context saved: what while(!next->_context) is for.*)
OneStackOneCPU ==
    /\ \A c, d \in CPU : c # d => exec[c] # exec[d]
    /\ \A t \in Threads : k.state[t] \in Live =>
         \/ \E c \in CPU : exec[c] = t
         \/ context[t] # Null /\ context[t].flow = t

(* The CPUs that spin for a context never do so in a cycle: the context a  *)
(* CPU wants is there, or is the one another CPU is about to save, and no  *)
(* set of CPUs waits only for each other, however threads were swapped.    *)
WaitsFor(c) == {d \in CPU : /\ pc[c].at = "switch" /\ context[pc[c].next] = Null
                            /\ pc[d].at = "switch" /\ pc[d].prev = pc[c].next}

NoSpinCycle ==
    /\ \A c \in CPU : pc[c].at = "switch" => context[pc[c].next] # Null \/ WaitsFor(c) # {}
    /\ \A D \in (SUBSET CPU) \ {{}} : \E c \in D : WaitsFor(c) \cap D = {}

(* _thread_count, by which idle() decides that the system is done, counts  *)
(* the threads that have not finished.                                     *)
CountIsExact == count = Cardinality({t \in Threads : k.state[t] \in Live})

(* No CPU comes to the shutdown barrier while a thread of the application  *)
(* can still run, whatever the CPUs do between exit() and idle()'s test.   *)
ShutdownWhenDone ==
    \A c \in CPU : pc[c].at = "barrier" => \A t \in App : k.state[t] \notin Live

(* A ready thread of a higher priority than the one its CPU runs has that  *)
(* CPU notified: by an interrupt on its way, or by a wakeup_all() that has *)
(* not come to its last loop or was itself switched out in the middle of it*)
PreemptionNotified ==
    \A c \in CPU : \A i \in DOMAIN k.ready[c] :
        k.rank[k.ready[c][i]] < k.rank[k.chosen[c]] =>
            \/ c \in k.ipi
            \/ \E t \in Threads : c \in loop[t]
            \/ \E d \in CPU : pc[d].at = "waking" /\ c \in pc[d].cpus

(* "The running thread cannot delete itself!": the assertion of ~Thread()  *)
(* can only tell by its state that a thread is running, so the thread a CPU*)
(* executes is in state RUNNING whenever it can call the destructor.       *)
ExecutingIsRunning ==
    \A c \in CPU : pc[c] = AtWork /\ exec[c] \in App => k.state[exec[c]] = "RUNNING"

(* A deleted thread's stack is freed: no CPU may still be on it.           *)
FreedStackUnused == \A c \in CPU : k.state[exec[c]] # "DELETED"

(* A CPU that has given up its thread comes to execute the next one: the   *)
(* wait for the context and the wait for the lock end, and so does the loop*)
(* of wakeup_all().                                                        *)
DispatchEnds == \A c \in CPU : pc[c].at \in {"switch", "resume", "waking"} ~> pc[c] = AtWork

(* Threads of the best rank take turns: none of them stays ready for ever, *)
(* since reschedule() puts the running thread behind its equals.           *)
BestRank(t) == \A u \in Threads : Rank[t] <= Rank[u]
TurnsAreTaken ==
    \A t \in App : BestRank(t) => (k.state[t] = "READY" ~> k.state[t] # "READY")
=============================================================================
