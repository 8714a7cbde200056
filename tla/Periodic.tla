------------------------------- MODULE Periodic -------------------------------
(***************************************************************************)
(* Periodic threads: Periodic_Thread and RT_Thread (include/real-time.h),  *)
(* under EDF (src/api/scheduler.cc).                                       *)
(*                                                                         *)
(* Four parties meet in one thread's semaphore, alarm and criterion: its   *)
(* constructor, the application that resumes it, the thread itself in      *)
(* wait_next(), and the timer interrupt, whose Alarm::handler() counts     *)
(* _times down with the kernel's lock held and calls the release handler   *)
(* after it has let go of it.  p(), v(), the constructor and the destructor*)
(* of Alarm are atomic, being under that lock; all else interleaves.       *)
(* A release handler ends before the next tick.  Time passes unseen while  *)
(* the alarm is not armed.                                                 *)
(***************************************************************************)
EXTENDS Integers

CONSTANTS PERIOD,       \* the period, in ticks
          Relative,     \* the deadline that is asked for; SAME (0) is the period
          SPORADIC,     \* the largest rank that periodic() takes for periodic
          Times,        \* the numbers of jobs that are asked for
          Activations,  \* the activation times given to RT_Threads; NOW is 0
          Off           \* the ticks left of an alarm that is not armed

ASSUME PeriodicAssumption ==
    /\ PERIOD \in Nat \ {0} /\ Relative \in Nat /\ SPORADIC \in Nat
    /\ Times \subseteq Nat \ {0} /\ Activations \subseteq Nat
    /\ Off \notin Int

VARIABLES thread,    \* "Periodic" or "RT", n and activation: what was asked for
          now,       \* TSC::time_stamp()
          left,      \* the ticks until _alarm goes off
          times,     \* _alarm._times
          sem,       \* _semaphore._value
          creator,   \* what the constructor does next
          pc,        \* what the thread does next
          handler,   \* what the release handler does next
          rank,      \* criterion(): _priority
          status,    \* _job_status
          misses,    \* _statistics.deadline_misses
          count,     \* the events so far: alarms fired, v()s, jobs started and done
          late       \* the alarms that went off with an earlier job not done

vars == <<thread, now, left, times, sem, creator, pc, handler, rank, status, misses, count, late>>

Status == {"UNINITIALIZED", "RUNNING", "FINISHED"}
Deadline == IF Relative = 0 THEN PERIOD ELSE Relative

(* EDF(p, d, c) ranks with the deadline that was asked for, SAME included; *)
(* the four-argument RT_Common() leaves _job_status as memory had it.      *)
Init == /\ thread \in {[kind |-> "Periodic", n |-> n, activation |-> 0] : n \in Times} \cup
                      {[kind |-> "RT", n |-> n, activation |-> a] : n \in Times, a \in Activations}
        /\ now = 0 /\ rank = Relative
        /\ left = Off /\ times = 0 /\ sem = 0
        /\ creator = "alarm" /\ pc = "suspended" /\ handler = "idle"
        /\ status \in Status /\ misses = 0
        /\ count = [fired |-> 0, released |-> 0, started |-> 0, done |-> 0]
        /\ late = 0
-----------------------------------------------------------------------------
(* RT_Common::periodic() and EDF::handle(JOB_RELEASE)                      *)
JobRelease == rank' = IF rank \in 0 .. SPORADIC THEN now + Deadline ELSE rank

(* The members of Periodic_Thread are made: the alarm runs from here on.   *)
Create == /\ creator = "alarm"
          /\ left' = PERIOD /\ times' = thread.n
          /\ creator' = IF thread.kind = "Periodic" THEN "resume" ELSE "done"
          /\ UNCHANGED <<thread, now, sem, pc, handler, rank, status, misses, count, late>>

(* resume(): by the constructor of Periodic_Thread, or by the application, *)
(* since RT_Thread's does not call it.                                     *)
Resume == /\ pc = "suspended"
          /\ \/ creator = "resume" /\ creator' = "release"
             \/ creator = "done" /\ UNCHANGED creator
          /\ pc' = "entry"
          /\ UNCHANGED <<thread, now, left, times, sem, handler, rank, status, misses, count, late>>

(* The constructor's own JOB_RELEASE, with the thread already running      *)
FirstRelease == /\ creator = "release"
                /\ JobRelease
                /\ creator' = "done"
                /\ UNCHANGED <<thread, now, left, times, sem, pc, handler, status, misses, count, late>>
-----------------------------------------------------------------------------
(* The jobs that should be done when the alarm goes off for the i-th time: *)
(* one was released by resume(), or by the activation.                     *)
Expected(i) == IF thread.activation = 0 THEN i ELSE i - 1

(* Alarm::handler() up to unlock()                                         *)
Tick ==
    /\ left # Off /\ handler = "idle"
    /\ now' = now + 1
    /\ \/ /\ left > 1
          /\ left' = left - 1
          /\ UNCHANGED <<times, handler, count, late>>
       \/ /\ left = 1
          /\ times' = times - 1
          /\ left' = IF times = 1 THEN Off ELSE PERIOD
          /\ handler' = "release"
          /\ count' = [count EXCEPT !.fired = @ + 1]
          /\ late' = IF count.done < Expected(count.fired + 1) THEN late + 1 ELSE late
    /\ UNCHANGED <<thread, sem, creator, pc, rank, status, misses>>

(* Dynamic_Handler: JOB_RELEASE, then JOB_ALARM_HANDLE, then v()           *)
HandleRelease == /\ handler = "release"
                 /\ JobRelease
                 /\ handler' = "miss"
                 /\ UNCHANGED <<thread, now, left, times, sem, creator, pc, status, misses, count, late>>

(* A slip: a job is late unless a new one is under way.                    *)
HandleMissHasty == /\ handler = "miss"
                   /\ misses' = IF status # "RUNNING" THEN misses + 1 ELSE misses
                   /\ status' = "UNINITIALIZED"
                   /\ handler' = "v"
                   /\ UNCHANGED <<thread, now, left, times, sem, creator, pc, rank, count, late>>

HandleMiss == /\ handler = "miss"
              /\ misses' = IF status # "FINISHED" THEN misses + 1 ELSE misses
              /\ status' = "UNINITIALIZED"
              /\ handler' = "v"
              /\ UNCHANGED <<thread, now, left, times, sem, creator, pc, rank, count, late>>

Woken == [activating |-> "activated", waiting |-> "return"]

(* Semaphore_Handler: v(), which wakes up the thread if it waits           *)
HandleV == /\ handler = "v"
           /\ sem' = sem + 1
           /\ pc' = IF sem < 0 THEN Woken[pc] ELSE pc
           /\ handler' = "idle"
           /\ count' = [count EXCEPT !.released = @ + 1]
           /\ UNCHANGED <<thread, now, left, times, creator, rank, status, misses, late>>
-----------------------------------------------------------------------------
(* A slip: the last unit is not given out.                                 *)
PStrict(passed, waits) == /\ sem' = sem - 1
                          /\ pc' = IF sem < 2 THEN waits ELSE passed

(* p(), which passes at once or waits                                      *)
P(passed, waits) == /\ sem' = sem - 1
                    /\ pc' = IF sem < 1 THEN waits ELSE passed

(* RT_Thread::entry(): wait for the alarm to go off if an activation time  *)
(* was given, whatever it is                                               *)
Entry == /\ pc = "entry"
         /\ IF thread.activation = 0
            THEN pc' = "start" /\ UNCHANGED sem
            ELSE P("activated", "activating")
         /\ UNCHANGED <<thread, now, left, times, creator, handler, rank, status, misses, count, late>>

Activated == /\ pc = "activated"
             /\ JobRelease
             /\ pc' = "destroy"
             /\ UNCHANGED <<thread, now, left, times, sem, creator, handler, status, misses, count, late>>

(* ~Alarm(), and a new Alarm in its place                                  *)
DestroyAlarm == /\ pc = "destroy"
                /\ left' = Off
                /\ pc' = "rearm"
                /\ UNCHANGED <<thread, now, times, sem, creator, handler, rank, status, misses, count, late>>

Rearm == /\ pc = "rearm"
         /\ left' = PERIOD /\ times' = thread.n
         /\ pc' = "start"
         /\ UNCHANGED <<thread, now, sem, creator, handler, rank, status, misses, count, late>>

(* One turn of the loop: JOB_EXECUTION_START, the function,                *)
(* JOB_EXECUTION_FINISH and the call of wait_next()                        *)
StartJob == /\ pc = "start"
            /\ status' = "RUNNING"
            /\ pc' = "job"
            /\ count' = [count EXCEPT !.started = @ + 1]
            /\ UNCHANGED <<thread, now, left, times, sem, creator, handler, rank, misses, late>>

FinishJob == /\ pc = "job"
             /\ status' = "FINISHED"
             /\ pc' = "test"
             /\ count' = [count EXCEPT !.done = @ + 1]
             /\ UNCHANGED <<thread, now, left, times, sem, creator, handler, rank, misses, late>>

(* wait_next(): if(_alarm.times())                                         *)
Test == /\ pc = "test"
        /\ pc' = IF times # 0 THEN "p" ELSE "return"
        /\ UNCHANGED <<thread, now, left, times, sem, creator, handler, rank, status, misses, count, late>>

(* A slip: a release that is there already is not taken.                   *)
WaitPeek == /\ pc = "p"
            /\ IF sem < 1 THEN P("return", "waiting") ELSE pc' = "return" /\ UNCHANGED sem
            /\ UNCHANGED <<thread, now, left, times, creator, handler, rank, status, misses, count, late>>

Wait == /\ pc = "p"
        /\ P("return", "waiting")
        /\ UNCHANGED <<thread, now, left, times, creator, handler, rank, status, misses, count, late>>

(* A slip: the alarm is taken to have stopped one time early.              *)
ReturnEarly == /\ pc = "return"
               /\ pc' = IF times > 1 THEN "start" ELSE "exit"
               /\ UNCHANGED <<thread, now, left, times, sem, creator, handler, rank, status, misses, count, late>>

(* return _alarm.times(), which the loop tests                             *)
Return == /\ pc = "return"
          /\ pc' = IF times # 0 THEN "start" ELSE "exit"
          /\ UNCHANGED <<thread, now, left, times, sem, creator, handler, rank, status, misses, count, late>>
-----------------------------------------------------------------------------
Thread == \/ Entry \/ Activated \/ DestroyAlarm \/ Rearm \/ StartJob
          \/ FinishJob \/ Test \/ Wait \/ Return
Interrupt == Tick \/ HandleRelease \/ HandleMiss \/ HandleV

Next == Create \/ Resume \/ FirstRelease \/ Thread \/ Interrupt
Spec == Init /\ [][Next]_vars

(* The timer goes on ticking, a thread that can run gets its turn and every*)
(* job ends; nobody has to resume an RT_Thread.                            *)
FairSpec == Spec /\ WF_vars(Thread) /\ WF_vars(Interrupt)
-----------------------------------------------------------------------------
TypeOK == /\ now \in Nat /\ left \in {Off} \cup 1 .. PERIOD
          /\ times \in 0 .. thread.n
          /\ sem \in -1 .. 2 * thread.n
          /\ creator \in {"alarm", "resume", "release", "done"}
          /\ pc \in {"suspended", "entry", "activating", "activated", "destroy", "rearm",
                     "start", "job", "test", "p", "waiting", "return", "exit"}
          /\ handler \in {"idle", "release", "miss", "v"}
          /\ rank \in Nat /\ status \in Status /\ misses \in Nat /\ late \in Nat
          /\ count \in [{"fired", "released", "started", "done"} -> Nat]

(* No job runs ahead of its release: beyond the one that resume() started, *)
(* a thread has begun at most one job per v() of the release handler,      *)
(* although wait_next() skips p() when the alarm has stopped.              *)
NoJobAhead == count.started <= count.released + (IF thread.activation = 0 THEN 1 ELSE 0)

(* A thread that was never late has done exactly the jobs that were asked  *)
(* for when it ends: wait_next() reads times() before and after p(), and   *)
(* the alarm counts down in between and before its v().                    *)
NoJobSkipped == pc = "exit" /\ late = 0 => count.done = thread.n

(* Every deadline miss that is counted is one: _job_status, written by the *)
(* thread and by the handler without a lock, accuses no thread that had    *)
(* done its job when the alarm went off, save once at an activation.       *)
MissesAreReal == misses <= late + (IF thread.activation = 0 THEN 0 ELSE 1)

(* A thread with a number of times ends, however its reads of times() and  *)
(* the last alarm interleave: it does not wait for an alarm that has       *)
(* stopped.                                                                *)
Ends == pc = "entry" ~> pc = "exit"

(* "Update the priority of the thread at job releases, before _alarm->v(), *)
(* so it enters the queue in the right order": its rank is its deadline.   *)
ReleasedInOrder == handler = "v" => rank = now + Deadline
=============================================================================
