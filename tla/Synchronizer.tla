----------------------------- MODULE Synchronizer -----------------------------
(***************************************************************************)
(* Semaphore, Mutex and Condition (src/api/semaphore.cc, mutex.cc,         *)
(* condition.cc, include/synchronizer.h) on the threads of module Thread.  *)
(* An operation holds Thread::_lock from its first line to its last,       *)
(* unless sleep() or wakeup() dispatches, so it is one action.             *)
(***************************************************************************)
EXTENDS Thread

CONSTANTS Semaphores, Mutexes, Conditions,
          Value,      \* Value[s]: what semaphore s is constructed with
          MaxValue,   \* a bound: v() is not called on a semaphore that has this
          SyncCalls   \* the operations the application uses

ASSUME SynchronizerAssumption ==
    /\ Sync = Semaphores \cup Mutexes \cup Conditions /\ Null \notin Sync
    /\ Semaphores \cap Mutexes = {} /\ Semaphores \cap Conditions = {}
    /\ Mutexes \cap Conditions = {}
    /\ Value \in [Semaphores -> Int]
    /\ MaxValue \in Int
    /\ SyncCalls \subseteq {"p", "v", "lock", "unlock", "wait", "signal", "broadcast", "destroy"}

VARIABLES value,      \* value[s]: Semaphore::_value
          locked,     \* locked[x]: Mutex::_locked
          section,    \* section[t]: the mutex whose lock() t has called and whose
                      \* unlock() it has not, or Null: the application's place
          alive       \* the synchronizers not yet destroyed

sync == <<value, locked, section, alive>>
syncVars == <<vars, sync>>

SyncInit == /\ Init
            /\ value = Value
            /\ locked = [x \in Mutexes |-> FALSE]
            /\ section = [t \in Threads |-> Null]
            /\ alive = Sync

CallingSync(c, op, q) == op \in SyncCalls /\ Entering(c) /\ q \in alive
-----------------------------------------------------------------------------
(* A slip: the value is tested before it is decremented, and stays at zero *)
(* when the thread sleeps.                                                 *)
PTested(c, s) ==
    /\ CallingSync(c, "p", s)
    /\ \/ value[s] < 1 /\ Sleep(c, s) /\ UNCHANGED value
       \/ value[s] >= 1 /\ value' = [value EXCEPT ![s] = @ - 1] /\ UNCHANGED vars
    /\ UNCHANGED <<locked, section, alive>>

(* Semaphore::p(): fdec() answers the old value.                           *)
P(c, s) ==
    /\ CallingSync(c, "p", s)
    /\ value' = [value EXCEPT ![s] = @ - 1]
    /\ \/ value[s] < 1 /\ Sleep(c, s)
       \/ value[s] >= 1 /\ UNCHANGED vars
    /\ UNCHANGED <<locked, section, alive>>

(* A slip: v() wakes a thread up when the new value is negative.           *)
VNew(c, s) ==
    /\ CallingSync(c, "v", s) /\ value[s] < MaxValue
    /\ value' = [value EXCEPT ![s] = @ + 1]
    /\ \/ value'[s] < 0 /\ Wakeup(c, s)
       \/ value'[s] >= 0 /\ UNCHANGED vars
    /\ UNCHANGED <<locked, section, alive>>

(* Semaphore::v(): finc() answers the old value.                           *)
V(c, s) ==
    /\ CallingSync(c, "v", s) /\ value[s] < MaxValue
    /\ value' = [value EXCEPT ![s] = @ + 1]
    /\ \/ value[s] < 0 /\ Wakeup(c, s)
       \/ value[s] >= 0 /\ UNCHANGED vars
    /\ UNCHANGED <<locked, section, alive>>
-----------------------------------------------------------------------------
(* Mutex::lock(), by a thread that is in no critical section: the mutex is *)
(* not recursive.                                                          *)
Lock(c, x) ==
    /\ CallingSync(c, "lock", x)
    /\ section[exec[c]] = Null
    /\ section' = [section EXCEPT ![exec[c]] = x]
    /\ locked' = [locked EXCEPT ![x] = TRUE]
    /\ \/ locked[x] /\ Sleep(c, x)
       \/ ~locked[x] /\ UNCHANGED vars
    /\ UNCHANGED <<value, alive>>

(* A slip: the mutex is freed although a waiting thread is woken up.       *)
UnlockFreeing(c, x) ==
    /\ CallingSync(c, "unlock", x)
    /\ section[exec[c]] = x
    /\ section' = [section EXCEPT ![exec[c]] = Null]
    /\ locked' = [locked EXCEPT ![x] = FALSE]
    /\ Wakeup(c, x)
    /\ UNCHANGED <<value, alive>>

(* Mutex::unlock(), by the thread in the critical section: _locked stays   *)
(* set for the thread that is woken up.                                    *)
Unlock(c, x) ==
    /\ CallingSync(c, "unlock", x)
    /\ section[exec[c]] = x
    /\ section' = [section EXCEPT ![exec[c]] = Null]
    /\ \/ waitq[x] = <<>> /\ locked' = [locked EXCEPT ![x] = FALSE] /\ UNCHANGED vars
       \/ waitq[x] # <<>> /\ Wakeup(c, x) /\ UNCHANGED locked
    /\ UNCHANGED <<value, alive>>
-----------------------------------------------------------------------------
(* Condition::wait(), signal() and broadcast()                             *)
Wait(c, d) == CallingSync(c, "wait", d) /\ Sleep(c, d) /\ UNCHANGED sync
Signal(c, d) == CallingSync(c, "signal", d) /\ Wakeup(c, d) /\ UNCHANGED sync
Broadcast(c, d) == CallingSync(c, "broadcast", d) /\ WakeupAll(c, d) /\ UNCHANGED sync

(* ~Synchronizer_Common(): the blocked threads are all woken up.           *)
Destroy(c, q) ==
    /\ CallingSync(c, "destroy", q)
    /\ WakeupAll(c, q)
    /\ alive' = alive \ {q}
    /\ UNCHANGED <<value, locked, section>>
-----------------------------------------------------------------------------
SyncOperation(c) ==
    \/ \E s \in Semaphores : P(c, s) \/ V(c, s)
    \/ \E x \in Mutexes : Lock(c, x) \/ Unlock(c, x)
    \/ \E d \in Conditions : Wait(c, d) \/ Signal(c, d) \/ Broadcast(c, d)
    \/ \E q \in Sync : Destroy(c, q)

SyncNext ==
    /\ k.intact
    /\ \/ Reboot /\ UNCHANGED sync
       \/ \E c \in CPU : \/ SyncOperation(c)
                         \/ (Operation(c) \/ Kernel(c)) /\ UNCHANGED sync

SyncSpec == SyncInit /\ [][SyncNext]_syncVars
-----------------------------------------------------------------------------
SyncTypeOK ==
    /\ TypeOK
    /\ value \in [Semaphores -> Int]
    /\ locked \in [Mutexes -> BOOLEAN]
    /\ section \in [Threads -> Mutexes \cup {Null}]
    /\ alive \subseteq Sync

(* A negative value counts the threads blocked in p(), exactly: no v() ever*)
(* finds the queue empty that the value promised a thread in, and no thread*)
(* sleeps while the value has a permit for it.                             *)
SemaphoreExact ==
    \A s \in Semaphores \cap alive : Len(waitq[s]) = IF value[s] < 0 THEN -value[s] ELSE 0

(* The threads that have passed lock(), those included whom unlock() has   *)
(* made ready but who have not run since: one while _locked is set, none   *)
(* while it is not, although waking one up and its coming out of sleep()   *)
(* are far apart.                                                          *)
Holders(x) == {t \in Threads : section[t] = x /\ t \notin ToSet(waitq[x])}

MutualExclusion ==
    \A x \in Mutexes \cap alive : Cardinality(Holders(x)) = IF locked[x] THEN 1 ELSE 0

(* Each semaphore is a store of permits, and each mutex hands itself over. *)
Permits(s) == INSTANCE AbstractSemaphore
                WITH Client <- Threads, Permits <- Value[s],
                     permits <- IF value[s] > 0 THEN value[s] ELSE 0,
                     blocked <- ToSet(waitq[s]), urgency <- k.rank

(* Refinement: p() and v() as the scheduler interleaves them only ever do  *)
(* what the store of permits allows, and serve the most urgent thread.     *)
SemaphoreImplementsPermits ==
    /\ \A s \in Semaphores : Permits(s)!Init
    /\ [][\A s \in Semaphores \cap alive' : [Permits(s)!Next]_(Permits(s)!vars)]_syncVars

Handing(x) == INSTANCE AbstractMutex
                WITH Client <- Threads, Nobody <- Null,
                     owner <- IF Holders(x) = {} THEN Null ELSE CHOOSE t \in Holders(x) : TRUE,
                     contenders <- ToSet(waitq[x]), urgency <- k.rank

(* Refinement: a mutex is handed over by unlock(); no thread that calls    *)
(* lock() between the wakeup() of a waiting thread and that thread's       *)
(* running takes it instead.                                               *)
MutexImplementsHandOver ==
    /\ \A x \in Mutexes : Handing(x)!Init
    /\ [][\A x \in Mutexes \cap alive' : [Handing(x)!Next]_(Handing(x)!vars)]_syncVars
=============================================================================
