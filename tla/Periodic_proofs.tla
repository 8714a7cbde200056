--------------------------- MODULE Periodic_proofs ---------------------------
(***************************************************************************)
(* Proofs about Periodic, for every period, deadline, number of jobs and   *)
(* activation time: the three safety properties of periodic threads follow *)
(* from one inductive invariant, PInv, which relates the semaphore's value *)
(* and _times to the numbers of alarms, releases and jobs so far.          *)
(***************************************************************************)
EXTENDS Periodic, TLAPS

Labels == {"suspended", "entry", "activating", "activated", "destroy", "rearm",
           "start", "job", "test", "p", "waiting", "return", "exit"}
Activating == {"suspended", "entry", "activating", "activated", "destroy", "rearm"}

(* A thread that waits for its activation takes one more unit than it has  *)
(* jobs.                                                                   *)
Extra == IF thread.activation = 0 THEN 0 ELSE 1

(* The calls of p() so far, the one that waits included                    *)
Taken == count.released - sem

Types == /\ thread.n \in Nat \ {0} /\ thread.activation \in Nat
         /\ now \in Nat /\ left \in {Off} \cup 1 .. PERIOD
         /\ times \in 0 .. thread.n
         /\ sem \in Int /\ sem >= -1
         /\ creator \in {"alarm", "resume", "release", "done"}
         /\ pc \in Labels
         /\ handler \in {"idle", "release", "miss", "v"}
         /\ rank \in Nat /\ status \in Status /\ misses \in Nat /\ late \in Nat
         /\ count \in [{"fired", "released", "started", "done"} -> Nat]

(* The semaphore is below zero just when the thread waits in p(), and each *)
(* alarm is followed by one v().                                           *)
Balance == /\ sem = -1 <=> pc \in {"activating", "waiting"}
           /\ count.fired = count.released + (IF handler = "idle" THEN 0 ELSE 1)

(* The jobs started and done, at each label, by the units taken            *)
Jobs == /\ pc \in {"suspended", "entry"} => count.started = 0 /\ count.done = 0 /\ Taken = 0
        /\ pc \in {"activating", "activated", "destroy", "rearm"} =>
             count.started = 0 /\ count.done = 0 /\ Taken = 1 /\ Extra = 1
        /\ pc \in {"start", "waiting"} => count.started = Taken - Extra /\ count.done = Taken - Extra
        /\ pc = "job" => count.started = Taken - Extra + 1 /\ count.done = Taken - Extra
        /\ pc \in {"test", "p"} =>
             count.started = Taken - Extra + 1 /\ count.done = Taken - Extra + 1
        /\ pc \in {"return", "exit"} =>
             /\ count.started = count.done
             /\ count.done = Taken - Extra \/ (count.done = Taken - Extra + 1 /\ times = 0)
        /\ pc = "exit" => times = 0
        /\ pc \notin Activating => Taken >= Extra

(* What _times says of the alarms so far.  An alarm that is armed again    *)
(* starts from thread.n; a thread never late was activated by the first.   *)
Alarms == /\ creator = "alarm" => pc = "suspended" /\ left = Off /\ count.fired = 0
          /\ left # Off => times > 0
          /\ count.fired <= 2 * thread.n
          /\ pc \in Activating \/ Extra = 0 => creator = "alarm" \/ count.fired = thread.n - times
          /\ pc \notin Activating => count.fired <= 2 * thread.n - times
          /\ pc \notin Activating /\ late = 0 => count.fired = thread.n - times + Extra

(* No more units are taken than jobs are asked for                         *)
Bounded == late = 0 =>
              /\ pc \in {"start", "job", "test", "p"} => Taken - Extra < thread.n
              /\ count.done <= thread.n

(* A thread never late has done the jobs expected of it; a job done before *)
(* its alarm leaves FINISHED behind; each miss has its late alarm.         *)
Deadlines == /\ late = 0 => count.done >= count.fired - Extra
             /\ count.fired = 0 => misses = 0
             /\ handler # "v" /\ count.done > 0 /\ count.done = count.released + 1 - Extra =>
                  status = "FINISHED"
             /\ misses <= late + Extra
             /\ handler \in {"release", "miss"} =>
                  \/ misses + 1 <= late + Extra
                  \/ count.done > 0 /\ count.done = count.released + 1 - Extra

PInv == Types /\ Balance /\ Jobs /\ Alarms /\ Bounded /\ Deadlines
-----------------------------------------------------------------------------
(* The constructor's state satisfies the invariant.                        *)
LEMMA PInit == Init => PInv
  BY PeriodicAssumption DEF Init, PInv, Types, Balance, Jobs, Alarms, Bounded, Deadlines, Taken, Extra, Labels, Activating, Status

(* The invariant bounds the jobs: none is done before it is started, and   *)
(* none is started without its unit, but for the first of a thread that    *)
(* does not wait for its activation.                                       *)
LEMMA JobsBounded == PInv => count.done <= count.started /\ count.started <= count.released + 1 - Extra
  <1> SUFFICES ASSUME PInv PROVE count.done <= count.started /\ count.started <= count.released + 1 - Extra
    OBVIOUS
  <1>1. /\ count.done \in Nat /\ count.started \in Nat /\ count.released \in Nat /\ sem \in Int /\ Extra \in {0, 1}
        /\ Taken = count.released - sem /\ pc \in Labels
    BY DEF PInv, Types, Extra, Taken
  <1>2. CASE pc \in {"activating", "waiting"}
    BY <1>1, <1>2 DEF PInv, Balance, Jobs, Activating
  <1>3. CASE pc \notin {"activating", "waiting"}
    <2>1. sem >= 0
      BY <1>3 DEF PInv, Types, Balance
    <2>2. /\ count.done <= count.started /\ count.done >= 0
          /\ count.started = 0 \/ count.started <= Taken - Extra + 1
      <3>1. CASE pc \in {"suspended", "entry", "activated", "destroy", "rearm"}
        BY <1>1, <3>1 DEF PInv, Jobs, Activating
      <3>2. CASE pc \in {"start", "job", "test", "p"}
        BY <1>1, <3>2 DEF PInv, Jobs, Taken, Activating
      <3>3. CASE pc \in {"return", "exit"}
        BY <1>1, <3>3 DEF PInv, Jobs, Taken, Activating
      <3> QED
        BY <1>1, <1>3, <3>1, <3>2, <3>3 DEF Labels
    <2> QED
      BY <1>1, <2>1, <2>2
  <1> QED
    BY <1>2, <1>3

(* The alarm starts with the number of jobs that was asked for.            *)
LEMMA CreateKeeps == PInv /\ Create => PInv'
  <1> SUFFICES ASSUME PInv, Create PROVE PInv'
    OBVIOUS
  <1>1. Types' /\ Balance'
    BY PeriodicAssumption DEF Create, PInv, Types, Balance, Labels, Status
  <1>2. Jobs' /\ Bounded'
    BY DEF Create, PInv, Jobs, Alarms, Bounded, Taken, Extra, Activating
  <1>3. Alarms'
    <2>1. /\ thread.n \in Nat \ {0} /\ pc = "suspended" /\ count.fired = 0 /\ times' = thread.n
          /\ UNCHANGED <<thread, pc, count>> /\ creator' # "alarm"
      BY DEF Create, PInv, Types, Alarms
    <2> QED
      BY <2>1 DEF Alarms, Activating, Extra
  <1>4. Deadlines'
    BY DEF Create, PInv, Types, Balance, Jobs, Deadlines, Taken, Extra, Labels, Activating
  <1> QED
    BY <1>1, <1>2, <1>3, <1>4 DEF PInv

(* resume() changes nothing the counts depend on.                          *)
LEMMA ResumeKeeps == PInv /\ Resume => PInv'
  <1> SUFFICES ASSUME PInv, Resume PROVE PInv'
    OBVIOUS
  <1>1. Types' /\ Balance'
    BY DEF Resume, PInv, Types, Balance, Labels, Status
  <1>2. Jobs'
    BY DEF Resume, PInv, Types, Balance, Jobs, Taken, Extra, Labels, Activating
  <1>3. Alarms' /\ Bounded'
    BY DEF Resume, PInv, Types, Balance, Jobs, Alarms, Bounded, Deadlines, Taken, Extra, Labels, Activating
  <1>4. Deadlines'
    BY DEF Resume, PInv, Types, Balance, Jobs, Deadlines, Taken, Extra, Labels, Activating
  <1> QED
    BY <1>1, <1>2, <1>3, <1>4 DEF PInv

(* The constructor's JOB_RELEASE changes the rank alone.                   *)
LEMMA FirstReleaseKeeps == PInv /\ FirstRelease => PInv'
  <1> SUFFICES ASSUME PInv, FirstRelease PROVE PInv'
    OBVIOUS
  <1>1. Types' /\ Balance'
    BY PeriodicAssumption DEF FirstRelease, JobRelease, Deadline, PInv, Types, Balance, Labels, Status
  <1>2. Jobs'
    BY DEF FirstRelease, PInv, Types, Balance, Jobs, Taken, Extra, Labels, Activating
  <1>3. Alarms' /\ Bounded'
    BY DEF FirstRelease, PInv, Types, Balance, Jobs, Alarms, Bounded, Deadlines, Taken, Extra, Labels, Activating
  <1>4. Deadlines'
    BY DEF FirstRelease, PInv, Types, Balance, Jobs, Deadlines, Taken, Extra, Labels, Activating
  <1> QED
    BY <1>1, <1>2, <1>3, <1>4 DEF PInv

(* Alarm::handler(): _times and the alarms so far move together, and an    *)
(* alarm that is not late finds the job before it done.                    *)
LEMMA TickKeeps == PInv /\ Tick => PInv'
  <1> SUFFICES ASSUME PInv, Tick PROVE PInv'
    OBVIOUS
  <1>0. left \in 1 .. PERIOD /\ handler = "idle" /\ UNCHANGED <<thread, sem, creator, pc, rank, status, misses>>
        /\ creator # "alarm" /\ times > 0 /\ now' \in Nat
    BY DEF Tick, PInv, Types, Alarms
  <1>a. CASE left > 1
    <2>1. left' = left - 1 /\ UNCHANGED <<times, handler, count, late>>
      BY <1>0, <1>a DEF Tick
    <2>2. left' \in 1 .. PERIOD /\ left' # Off
      BY <1>0, <1>a, <2>1, PeriodicAssumption
    <2> QED
      BY <1>0, <2>1, <2>2 DEF PInv, Types, Balance, Jobs, Alarms, Bounded, Deadlines, Taken, Extra, Labels, Activating, Status
  <1>b. CASE left = 1
    <2>1. /\ times' = times - 1
          /\ left' = IF times = 1 THEN Off ELSE PERIOD
          /\ handler' = "release"
          /\ count' = [count EXCEPT !["fired"] = @ + 1]
          /\ late' = IF count.done < Expected(count.fired + 1) THEN late + 1 ELSE late
      BY <1>0, <1>b DEF Tick
    <2>2. left' \in {Off} \cup 1 .. PERIOD /\ (left' # Off => times' > 0) /\ times' \in 0 .. thread.n
      BY <1>0, <2>1, PeriodicAssumption DEF PInv, Types
    <2>3. /\ count' \in [{"fired", "released", "started", "done"} -> Nat]
          /\ count'.fired = count.fired + 1 /\ count'.released = count.released
          /\ count'.started = count.started /\ count'.done = count.done
      BY <2>1 DEF PInv, Types
    <2>4. late' \in Nat
      BY <2>1 DEF PInv, Types
    <2>5. Types' /\ Balance' /\ Jobs'
      BY <1>0, <2>1, <2>2, <2>3, <2>4 DEF PInv, Types, Balance, Jobs, Taken, Extra, Labels, Status, Activating
    <2>6. late' = 0 => late = 0
      BY <2>1 DEF PInv, Types
    <2>7. Alarms' /\ Bounded'
      BY <1>0, <2>1, <2>2, <2>3, <2>6 DEF PInv, Types, Alarms, Bounded, Taken, Extra, Labels, Activating
    <2>8. Deadlines'
      <3>1. /\ thread.activation \in Nat /\ Extra' = Extra /\ Extra \in {0, 1} /\ Expected(count.fired + 1) = count.fired + 1 - Extra
            /\ count.fired = count.released /\ count.fired \in Nat /\ count.done \in Nat /\ misses \in Nat /\ late \in Nat
        BY <1>0 DEF PInv, Types, Balance, Expected, Extra
      <3>2. count.done <= count.released + 1 - Extra
        BY JobsBounded, <3>1 DEF PInv, Types
      <3>3. late' = late => count.done = count.released + 1 - Extra
        BY <2>1, <3>1, <3>2
      <3>4. late' = late \/ late' = late + 1
        BY <2>1
      <3>5. late' = late /\ count.done = 0 => misses = 0 /\ Extra = 1
        BY <3>1, <3>3 DEF PInv, Deadlines
      <3> QED
        BY <1>0, <2>1, <2>3, <3>1, <3>2, <3>3, <3>4, <3>5 DEF PInv, Deadlines
    <2> QED
      BY <2>5, <2>7, <2>8 DEF PInv
  <1> QED
    BY <1>0, <1>a, <1>b DEF Tick

(* JOB_RELEASE changes the rank alone.                                     *)
LEMMA HandleReleaseKeeps == PInv /\ HandleRelease => PInv'
  <1> SUFFICES ASSUME PInv, HandleRelease PROVE PInv'
    OBVIOUS
  <1>1. Types' /\ Balance'
    BY PeriodicAssumption DEF HandleRelease, JobRelease, Deadline, PInv, Types, Balance, Labels, Status
  <1>2. Jobs'
    BY DEF HandleRelease, PInv, Types, Balance, Jobs, Taken, Extra, Labels, Activating
  <1>3. Alarms' /\ Bounded'
    BY DEF HandleRelease, PInv, Types, Balance, Jobs, Alarms, Bounded, Deadlines, Taken, Extra, Labels, Activating
  <1>4. Deadlines'
    BY DEF HandleRelease, PInv, Types, Balance, Jobs, Deadlines, Taken, Extra, Labels, Activating
  <1> QED
    BY <1>1, <1>2, <1>3, <1>4 DEF PInv

(* JOB_ALARM_HANDLE counts a miss only if the alarm was late, or first.    *)
LEMMA HandleMissKeeps == PInv /\ HandleMiss => PInv'
  <1> SUFFICES ASSUME PInv, HandleMiss PROVE PInv'
    OBVIOUS
  <1>1. Types' /\ Balance'
    BY DEF HandleMiss, PInv, Types, Balance, Labels, Status
  <1>2. Jobs'
    BY DEF HandleMiss, PInv, Types, Balance, Jobs, Taken, Extra, Labels, Activating
  <1>3. Alarms' /\ Bounded'
    BY DEF HandleMiss, PInv, Types, Balance, Jobs, Alarms, Bounded, Deadlines, Taken, Extra, Labels, Activating
  <1>4. Deadlines'
    BY DEF HandleMiss, PInv, Types, Balance, Jobs, Deadlines, Taken, Extra, Labels, Activating
  <1> QED
    BY <1>1, <1>2, <1>3, <1>4 DEF PInv

(* v() gives out a unit, which a waiting thread takes.                     *)
LEMMA HandleVKeeps == PInv /\ HandleV => PInv'
  <1> SUFFICES ASSUME PInv, HandleV PROVE PInv'
    OBVIOUS
  <1>1. /\ handler = "v" /\ handler' = "idle" /\ sem' = sem + 1
        /\ UNCHANGED <<thread, now, left, times, creator, rank, status, misses, late>>
        /\ count' \in [{"fired", "released", "started", "done"} -> Nat]
        /\ count'.released = count.released + 1 /\ count'.fired = count.fired
        /\ count'.started = count.started /\ count'.done = count.done
    BY DEF HandleV, PInv, Types
  <1>2. Taken' = Taken /\ Extra' = Extra
    BY <1>1 DEF Taken, Extra, PInv, Types
  <1>3. \/ pc = "activating" /\ pc' = "activated" /\ sem = -1
        \/ pc = "waiting" /\ pc' = "return" /\ sem = -1
        \/ pc \notin {"activating", "waiting"} /\ pc' = pc /\ sem >= 0
    BY DEF HandleV, Woken, PInv, Types, Balance
  <1>4. Types' /\ Balance'
    BY <1>1, <1>3 DEF PInv, Types, Balance, Labels, Status
  <1>5. Jobs' /\ Alarms' /\ Bounded'
    BY <1>1, <1>2, <1>3 DEF PInv, Types, Jobs, Alarms, Bounded, Labels, Activating
  <1>6. Deadlines'
    BY <1>1, <1>2, <1>3 DEF PInv, Types, Balance, Jobs, Deadlines, Taken, Extra, Labels, Activating
  <1> QED
    BY <1>4, <1>5, <1>6 DEF PInv

(* entry() goes to the first job or waits for the activation.              *)
LEMMA EntryKeeps == PInv /\ Entry => PInv'
  <1> SUFFICES ASSUME PInv, Entry PROVE PInv'
    OBVIOUS
  <1>1. /\ pc = "entry" /\ sem >= 0 /\ sem \in Int
        /\ UNCHANGED <<thread, now, left, times, creator, handler, rank, status, misses, count, late>>
    BY DEF Entry, PInv, Types, Balance
  <1>a. CASE thread.activation = 0
    <2>1. pc' = "start" /\ sem' = sem
      BY <1>a DEF Entry
    <2> QED
      <3>1. Types' /\ Balance'
        BY <1>1, <2>1 DEF PInv, Types, Balance, Labels, Status
      <3>2. Jobs' /\ Deadlines'
        BY <1>1, <1>a, <2>1 DEF PInv, Jobs, Deadlines, Taken, Extra, Activating
      <3>3. Taken' = 0 /\ Extra = 0 /\ Extra' = 0 /\ count.done = 0 /\ creator # "alarm"
        BY <1>1, <1>a, <2>1 DEF PInv, Jobs, Alarms, Taken, Extra, Activating
      <3>4. Alarms' /\ Bounded'
        BY <1>1, <2>1, <3>3 DEF PInv, Types, Alarms, Bounded, Activating
      <3> QED
        BY <3>1, <3>2, <3>4 DEF PInv
  <1>b. CASE thread.activation # 0
    <2>1. sem' = sem - 1 /\ pc' = IF sem < 1 THEN "activating" ELSE "activated"
      BY <1>b DEF Entry, P
    <2>2. Types' /\ Balance'
      BY <1>1, <2>1 DEF PInv, Types, Balance, Labels, Status
    <2>3. Jobs' /\ Alarms' /\ Bounded' /\ Deadlines'
      BY <1>1, <1>b, <2>1 DEF PInv, Types, Jobs, Alarms, Bounded, Deadlines, Taken, Extra, Labels, Activating
    <2> QED
      BY <2>2, <2>3 DEF PInv
  <1> QED
    BY <1>a, <1>b

(* The activation changes the rank alone.                                  *)
LEMMA ActivatedKeeps == PInv /\ Activated => PInv'
  <1> SUFFICES ASSUME PInv, Activated PROVE PInv'
    OBVIOUS
  <1>1. Types' /\ Balance'
    BY PeriodicAssumption DEF Activated, JobRelease, Deadline, PInv, Types, Balance, Labels, Status
  <1>2. Jobs'
    BY DEF Activated, PInv, Types, Balance, Jobs, Taken, Extra, Labels, Activating
  <1>3. Alarms' /\ Bounded'
    BY DEF Activated, PInv, Types, Balance, Jobs, Alarms, Bounded, Deadlines, Taken, Extra, Labels, Activating
  <1>4. Deadlines'
    BY DEF Activated, PInv, Types, Balance, Jobs, Deadlines, Taken, Extra, Labels, Activating
  <1> QED
    BY <1>1, <1>2, <1>3, <1>4 DEF PInv

(* The destructor stops the alarm; a handler may still be under way.       *)
LEMMA DestroyAlarmKeeps == PInv /\ DestroyAlarm => PInv'
  <1> SUFFICES ASSUME PInv, DestroyAlarm PROVE PInv'
    OBVIOUS
  <1>1. Types' /\ Balance'
    BY DEF DestroyAlarm, PInv, Types, Balance, Labels, Status
  <1>2. Jobs'
    BY DEF DestroyAlarm, PInv, Types, Balance, Jobs, Taken, Extra, Labels, Activating
  <1>3. Alarms' /\ Bounded'
    BY DEF DestroyAlarm, PInv, Types, Balance, Jobs, Alarms, Bounded, Deadlines, Taken, Extra, Labels, Activating
  <1>4. Deadlines'
    BY DEF DestroyAlarm, PInv, Types, Balance, Jobs, Deadlines, Taken, Extra, Labels, Activating
  <1> QED
    BY <1>1, <1>2, <1>3, <1>4 DEF PInv

(* The new alarm starts over: a thread never late saw one go off.          *)
LEMMA RearmKeeps == PInv /\ Rearm => PInv'
  <1> SUFFICES ASSUME PInv, Rearm PROVE PInv'
    OBVIOUS
  <1>1. Types' /\ Balance'
    BY PeriodicAssumption DEF Rearm, PInv, Types, Balance, Labels, Status
  <1>2. Jobs'
    BY DEF Rearm, PInv, Types, Balance, Jobs, Taken, Extra, Labels, Activating
  <1>3. Alarms' /\ Bounded'
    <2>1. /\ pc = "rearm" /\ pc' = "start" /\ left' # Off /\ times' = thread.n /\ thread.n \in Nat \ {0}
          /\ UNCHANGED <<thread, sem, creator, count, late>> /\ creator # "alarm" /\ count.fired \in Nat
          /\ Extra = 1 /\ Extra' = 1 /\ Taken = 1 /\ Taken' = 1 /\ count.done = 0
      BY PeriodicAssumption DEF Rearm, PInv, Types, Jobs, Alarms, Taken, Extra
    <2>2. count.fired <= thread.n
      BY <2>1 DEF PInv, Types, Alarms, Activating
    <2>3. late = 0 => count.fired = 1
      <3>1. count.released >= 1 /\ count.fired >= count.released
        BY <2>1 DEF PInv, Types, Balance, Taken
      <3>2. late = 0 => count.fired <= 1
        BY <2>1 DEF PInv, Deadlines
      <3> QED
        BY <2>1, <3>1, <3>2 DEF PInv, Types
    <2> QED
      BY <2>1, <2>2, <2>3 DEF Alarms, Bounded, Activating
  <1>4. Deadlines'
    BY DEF Rearm, PInv, Types, Balance, Jobs, Deadlines, Taken, Extra, Labels, Activating
  <1> QED
    BY <1>1, <1>2, <1>3, <1>4 DEF PInv

(* A job starts only with the unit of its release.                         *)
LEMMA StartJobKeeps == PInv /\ StartJob => PInv'
  <1> SUFFICES ASSUME PInv, StartJob PROVE PInv'
    OBVIOUS
  <1>1. Types' /\ Balance'
    BY DEF StartJob, PInv, Types, Balance, Labels, Status
  <1>2. Jobs'
    BY DEF StartJob, PInv, Types, Balance, Jobs, Taken, Extra, Labels, Activating
  <1>3. Alarms' /\ Bounded'
    BY DEF StartJob, PInv, Types, Balance, Jobs, Alarms, Bounded, Deadlines, Taken, Extra, Labels, Activating
  <1>4. Deadlines'
    <2>1. /\ handler' = handler /\ misses' = misses /\ late' = late /\ Extra' = Extra
          /\ count'.done = count.done /\ count'.released = count.released /\ count'.fired = count.fired
      BY DEF StartJob, PInv, Types, Extra
    <2>2. ~ (count.done = count.released + 1 - Extra)
      <3>1. pc = "start" /\ sem >= 0 /\ sem \in Int /\ count.released \in Nat /\ Extra \in {0, 1}
        BY DEF StartJob, PInv, Types, Balance, Extra
      <3>2. count.done = Taken - Extra
        BY <3>1 DEF PInv, Jobs
      <3> QED
        BY <3>1, <3>2 DEF Taken
    <2> QED
      BY <2>1, <2>2 DEF PInv, Deadlines
  <1> QED
    BY <1>1, <1>2, <1>3, <1>4 DEF PInv

(* A job done leaves FINISHED.                                             *)
LEMMA FinishJobKeeps == PInv /\ FinishJob => PInv'
  <1> SUFFICES ASSUME PInv, FinishJob PROVE PInv'
    OBVIOUS
  <1>1. Types' /\ Balance'
    BY DEF FinishJob, PInv, Types, Balance, Labels, Status
  <1>2. Jobs'
    BY DEF FinishJob, PInv, Types, Balance, Jobs, Taken, Extra, Labels, Activating
  <1>3. Alarms' /\ Bounded'
    BY DEF FinishJob, PInv, Types, Balance, Jobs, Alarms, Bounded, Deadlines, Taken, Extra, Labels, Activating
  <1>4. Deadlines'
    BY DEF FinishJob, PInv, Types, Balance, Jobs, Deadlines, Taken, Extra, Labels, Activating
  <1> QED
    BY <1>1, <1>2, <1>3, <1>4 DEF PInv

(* wait_next() skips p() only when the alarm has stopped.                  *)
LEMMA TestKeeps == PInv /\ Test => PInv'
  <1> SUFFICES ASSUME PInv, Test PROVE PInv'
    OBVIOUS
  <1>1. Types' /\ Balance'
    BY DEF Test, PInv, Types, Balance, Labels, Status
  <1>2. Jobs'
    BY DEF Test, PInv, Types, Balance, Jobs, Taken, Extra, Labels, Activating
  <1>3. Alarms' /\ Bounded'
    BY DEF Test, PInv, Types, Balance, Jobs, Alarms, Bounded, Deadlines, Taken, Extra, Labels, Activating
  <1>4. Deadlines'
    BY DEF Test, PInv, Types, Balance, Jobs, Deadlines, Taken, Extra, Labels, Activating
  <1> QED
    BY <1>1, <1>2, <1>3, <1>4 DEF PInv

(* p() takes the unit of the next release.                                 *)
LEMMA WaitKeeps == PInv /\ Wait => PInv'
  <1> SUFFICES ASSUME PInv, Wait PROVE PInv'
    OBVIOUS
  <1>1. Types' /\ Balance'
    BY DEF Wait, P, PInv, Types, Balance, Labels, Status
  <1>2. Jobs'
    BY DEF Wait, P, PInv, Types, Balance, Jobs, Taken, Extra, Labels, Activating
  <1>3. Alarms' /\ Bounded'
    BY DEF Wait, P, PInv, Types, Balance, Jobs, Alarms, Bounded, Deadlines, Taken, Extra, Labels, Activating
  <1>4. Deadlines'
    BY DEF Wait, P, PInv, Types, Balance, Jobs, Deadlines, Taken, Extra, Labels, Activating
  <1> QED
    BY <1>1, <1>2, <1>3, <1>4 DEF PInv

(* The loop goes on only while alarms are left.                            *)
LEMMA ReturnKeeps == PInv /\ Return => PInv'
  <1> SUFFICES ASSUME PInv, Return PROVE PInv'
    OBVIOUS
  <1>1. Types' /\ Balance'
    BY DEF Return, PInv, Types, Balance, Labels, Status
  <1>2. Jobs'
    BY DEF Return, PInv, Types, Balance, Jobs, Taken, Extra, Labels, Activating
  <1>3. Alarms' /\ Bounded'
    BY DEF Return, PInv, Types, Balance, Jobs, Alarms, Bounded, Deadlines, Taken, Extra, Labels, Activating
  <1>4. Deadlines'
    BY DEF Return, PInv, Types, Balance, Jobs, Deadlines, Taken, Extra, Labels, Activating
  <1> QED
    BY <1>1, <1>2, <1>3, <1>4 DEF PInv

-----------------------------------------------------------------------------
(* The relation between the semaphore, _times, the labels and the jobs     *)
(* holds at every moment of a periodic thread's life.                      *)
THEOREM PeriodicInvariant == Spec => []PInv
  <1>1. PInv /\ [Next]_vars => PInv'
    <2> SUFFICES ASSUME PInv, [Next]_vars PROVE PInv'
      OBVIOUS
    <2>1. CASE Thread
      BY <2>1, EntryKeeps, ActivatedKeeps, DestroyAlarmKeeps, RearmKeeps, StartJobKeeps,
         FinishJobKeeps, TestKeeps, WaitKeeps, ReturnKeeps DEF Thread
    <2>2. CASE Interrupt
      BY <2>2, TickKeeps, HandleReleaseKeeps, HandleMissKeeps, HandleVKeeps DEF Interrupt
    <2>3. CASE UNCHANGED vars
      BY <2>3 DEF vars, PInv, Types, Balance, Jobs, Alarms, Bounded, Deadlines, Taken, Extra, Activating
    <2> QED
      BY <2>1, <2>2, <2>3, CreateKeeps, ResumeKeeps, FirstReleaseKeeps DEF Next
  <1> QED
    BY PInit, <1>1, PTL DEF Spec

(* Every variable keeps its type: in particular the semaphore stays below  *)
(* twice the number of jobs and _times never wraps below zero.             *)
THEOREM PeriodicTypes == Spec => []TypeOK
  <1>1. PInv => TypeOK
    <2> SUFFICES ASSUME PInv PROVE TypeOK
      OBVIOUS
    <2>1. /\ sem \in Int /\ sem >= -1 /\ count.fired \in Nat /\ count.released \in Nat /\ count.done \in Nat
          /\ thread.n \in Nat /\ count.fired <= 2 * thread.n /\ count.released <= count.fired
          /\ Extra \in {0, 1} /\ pc \in Labels /\ Taken = count.released - sem
      BY DEF PInv, Types, Balance, Alarms, Extra, Taken
    <2>2. Taken >= 0
      <3>1. CASE pc \in Activating
        BY <2>1, <3>1 DEF PInv, Jobs, Activating
      <3>2. CASE pc \notin Activating
        BY <2>1, <3>2 DEF PInv, Jobs
      <3> QED
        BY <3>1, <3>2
    <2>3. sem \in -1 .. 2 * thread.n
      BY <2>1, <2>2
    <2> QED
      BY <2>3 DEF PInv, Types, TypeOK, Labels
  <1> QED
    BY <1>1, PeriodicInvariant, PTL

(* NoJobAhead: no job starts before the release handler's v() for it,      *)
(* whatever the number of jobs and however the handler and wait_next()     *)
(* interleave.                                                             *)
THEOREM JobsFollowReleases == Spec => []NoJobAhead
  <1>1. PInv => NoJobAhead
    BY JobsBounded DEF NoJobAhead, PInv, Types, Extra
  <1> QED
    BY <1>1, PeriodicInvariant, PTL

(* NoJobSkipped: a thread that was never late ends with exactly the jobs   *)
(* that were asked for.                                                    *)
THEOREM JobsAreAllDone == Spec => []NoJobSkipped
  <1>1. PInv => NoJobSkipped
    <2> SUFFICES ASSUME PInv, pc = "exit", late = 0 PROVE count.done = thread.n
      BY DEF NoJobSkipped
    <2>1. count.fired = thread.n + Extra /\ count.done >= count.fired - Extra /\ count.done <= thread.n
      BY DEF PInv, Types, Jobs, Alarms, Bounded, Deadlines, Activating, Extra
    <2> QED
      BY <2>1 DEF PInv, Types, Extra
  <1> QED
    BY <1>1, PeriodicInvariant, PTL

(* MissesAreReal: every miss JOB_ALARM_HANDLE counts is an alarm that went *)
(* off with an earlier job not done, save one at an activation.            *)
THEOREM MissesAreCountedOnce == Spec => []MissesAreReal
  <1>1. PInv => MissesAreReal
    BY DEF MissesAreReal, PInv, Deadlines, Extra
  <1> QED
    BY <1>1, PeriodicInvariant, PTL
=============================================================================
