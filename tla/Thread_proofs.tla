----------------------------- MODULE Thread_proofs -----------------------------
(***************************************************************************)
(* Proof that the threads, scheduler and CPUs agree, and then that the     *)
(* semaphores and mutexes made of them keep their promises, for any number *)
(* of CPUs, threads and synchronizers, in a system that keeps to the uses  *)
(* Thread handles.                                                         *)
(***************************************************************************)
EXTENDS Synchronizer, Scheduling_proofs, FiniteSetTheorems

(* Where a CPU can be.                                                     *)
Places == {AtWork, [at |-> "resume"], [at |-> "barrier"]}
            \cup {Switching(p, n) : p, n \in Threads}
            \cup {Waking(q, cpus) : q \in Sync, cpus \in SUBSET CPU}

(* The places a CPU can be at, told apart by their field at.               *)
LEMMA PlaceFacts ==
  /\ AtWork \in Places /\ AtWork.at = "run"
  /\ [at |-> "resume"] \in Places /\ [at |-> "barrier"] \in Places
  /\ \A p, n \in Threads : /\ Switching(p, n) \in Places /\ Switching(p, n).at = "switch"
                           /\ Switching(p, n).prev = p /\ Switching(p, n).next = n
  /\ \A q \in Sync, cpus \in SUBSET CPU : /\ Waking(q, cpus) \in Places
                                          /\ Waking(q, cpus).at = "waking"
                                          /\ Waking(q, cpus).q = q /\ Waking(q, cpus).cpus = cpus
  /\ \A p \in Places : /\ p.at = "switch" => p.prev \in Threads /\ p.next \in Threads
                       /\ p.at = "waking" => p.q \in Sync /\ p.cpus \in SUBSET CPU
<1>1. AtWork \in Places /\ AtWork.at = "run"
  BY DEF Places, AtWork
<1>2. [at |-> "resume"] \in Places /\ [at |-> "barrier"] \in Places
  BY DEF Places
<1>3. \A p, n \in Threads : /\ Switching(p, n) \in Places /\ Switching(p, n).at = "switch"
                            /\ Switching(p, n).prev = p /\ Switching(p, n).next = n
  <2>1. \A p, n \in Threads : Switching(p, n) \in {Switching(a, b) : a, b \in Threads}
    OBVIOUS
  <2>2. \A p, n \in Threads : Switching(p, n) \in Places
    BY <2>1 DEF Places
  <2>3. \A p, n \in Threads : /\ Switching(p, n).at = "switch"
                              /\ Switching(p, n).prev = p /\ Switching(p, n).next = n
    BY DEF Switching
  <2>4. QED
    BY <2>2, <2>3
<1>4. \A q \in Sync, cpus \in SUBSET CPU : /\ Waking(q, cpus) \in Places
                                           /\ Waking(q, cpus).at = "waking"
                                           /\ Waking(q, cpus).q = q /\ Waking(q, cpus).cpus = cpus
  <2>1. \A q \in Sync, cpus \in SUBSET CPU :
           Waking(q, cpus) \in {Waking(a, b) : a \in Sync, b \in SUBSET CPU}
    OBVIOUS
  <2>2. \A q \in Sync, cpus \in SUBSET CPU : Waking(q, cpus) \in Places
    BY <2>1 DEF Places
  <2>3. \A q \in Sync, cpus \in SUBSET CPU : /\ Waking(q, cpus).at = "waking"
                                              /\ Waking(q, cpus).q = q
                                              /\ Waking(q, cpus).cpus = cpus
    BY DEF Waking
  <2>4. QED
    BY <2>2, <2>3
<1>5. ASSUME NEW p \in Places
      PROVE  /\ p.at = "switch" => p.prev \in Threads /\ p.next \in Threads
             /\ p.at = "waking" => p.q \in Sync /\ p.cpus \in SUBSET CPU
  <2>1. CASE p \in {AtWork, [at |-> "resume"], [at |-> "barrier"]}
    BY <2>1 DEF AtWork
  <2>2. CASE p \in {Switching(a, n) : a, n \in Threads}
    BY <2>2 DEF Switching
  <2>3. CASE p \in {Waking(q, cpus) : q \in Sync, cpus \in SUBSET CPU}
    <3>1. PICK q \in Sync, cpus \in SUBSET CPU : p = Waking(q, cpus)
      BY <2>3
    <3>2. QED
      BY <3>1 DEF Waking
  <2>4. QED
    BY <2>1, <2>2, <2>3 DEF Places
<1>6. QED
  BY <1>1, <1>2, <1>3, <1>4, <1>5

(* The flows are where the scheduler takes them to be.                     *)
Flow == /\ pc \in [CPU -> Places] /\ exec \in [CPU -> Threads]
        /\ RunningIsExecuting

(* The effect of an operation on CPU c: none but c may have another thread *)
(* chosen, and c then is about to switch to it.                            *)
Turned(c) ==
    /\ \A d \in CPU : d # c => k'.chosen[d] = k.chosen[d]
    /\ \/ pc' = pc /\ k'.chosen[c] = k.chosen[c]
       \/ \E p \in Places :
            /\ pc' = [pc EXCEPT ![c] = p]
            /\ \/ p.at \notin {"switch", "barrier"} /\ k'.chosen[c] = k.chosen[c]
               \/ p = Switching(k.chosen[c], k'.chosen[c]) /\ k'.chosen[c] # k.chosen[c]

(* An operation that turns the CPU from one thread to another leaves each  *)
(* CPU executing what it has chosen.                                       *)
LEMMA TurnedFlow ==
  ASSUME NEW c \in CPU, Flow, pc[c].at # "switch", KInv(k), KInv(k'), Turned(c), exec' = exec
  PROVE  Flow'
<1>1. \A d \in CPU : k.chosen[d] \in Threads /\ k'.chosen[d] \in Threads
  BY DEF KInv, Core
<1>2. exec[c] = k.chosen[c]
  BY DEF Flow, RunningIsExecuting
<1>3. CASE pc' = pc /\ k'.chosen[c] = k.chosen[c]
  BY <1>3 DEF Flow, RunningIsExecuting, Turned
<1>4. ASSUME NEW p \in Places, pc' = [pc EXCEPT ![c] = p],
             \/ p.at \notin {"switch", "barrier"} /\ k'.chosen[c] = k.chosen[c]
             \/ p = Switching(k.chosen[c], k'.chosen[c]) /\ k'.chosen[c] # k.chosen[c]
      PROVE  Flow'
  <2>1. pc' \in [CPU -> Places] /\ pc'[c] = p /\ \A d \in CPU : d # c => pc'[d] = pc[d]
    BY <1>4 DEF Flow
  <2>2. ASSUME NEW d \in CPU
        PROVE  IF pc'[d].at = "switch" THEN exec'[d] = pc'[d].prev /\ k'.chosen[d] = pc'[d].next
                                       ELSE exec'[d] = k'.chosen[d]
    <3>1. CASE d # c
      BY <2>1, <3>1 DEF Flow, RunningIsExecuting, Turned
    <3>2. CASE d = c
      BY <1>1, <1>2, <1>4, <2>1, <3>2, PlaceFacts
    <3>3. QED
      BY <3>1, <3>2
  <2>3. QED
    BY <2>1, <2>2 DEF Flow, RunningIsExecuting
<1>5. QED
  BY <1>3, <1>4 DEF Turned

(* dispatch() on c, from the thread that ran there, keeps the invariant of *)
(* the kernel and turns c alone.                                           *)
LEMMA DispatchStep ==
  ASSUME NEW s, NEW c \in CPU, KInv(k), Mid(s, c, k.chosen[c]), Dispatch(s, c, k.chosen[c]),
         \A d \in CPU : d # c => s.chosen[d] = k.chosen[d]
  PROVE  KInv(k') /\ Kept(s, k') /\ Turned(c)
<1>1. AfterDispatch(s, Dispatched(s, k.chosen[c], s.chosen[c]))
  BY DispatchedKeeps
<1>2. k' = Dispatched(s, k.chosen[c], s.chosen[c])
  BY DEF Dispatch
<1>3. AfterDispatch(s, k')
  BY <1>1, <1>2, Zenon
<1>4. KInv(k') /\ Kept(s, k') /\ k'.chosen = s.chosen
  BY <1>3 DEF AfterDispatch
<1>5. \A d \in CPU : k.chosen[d] \in Threads /\ k'.chosen[d] \in Threads
  BY <1>4 DEF KInv, Core
<1>6. CASE s.chosen[c] = k.chosen[c]
  <2>1. pc' = [pc EXCEPT ![c] = AtWork]
    BY <1>6 DEF Dispatch
  <2>2. AtWork \in Places /\ AtWork.at \notin {"switch", "barrier"}
    BY PlaceFacts
  <2>3. QED
    BY <1>4, <1>6, <2>1, <2>2 DEF Turned
<1>7. CASE s.chosen[c] # k.chosen[c]
  <2>1. pc' = [pc EXCEPT ![c] = Switching(k.chosen[c], k'.chosen[c])]
    BY <1>4, <1>5, <1>7, NullIsNoThread DEF Dispatch
  <2>2. Switching(k.chosen[c], k'.chosen[c]) \in Places
    BY <1>5, PlaceFacts
  <2>3. QED
    BY <1>4, <1>7, <2>1, <2>2 DEF Turned
<1>8. QED
  BY <1>6, <1>7

(* So does reschedule() on c, in a state in which the same threads are     *)
(* chosen.                                                                 *)
LEMMA RescheduleStep ==
  ASSUME NEW s, NEW c \in CPU, KInv(k), KInv(s), s.chosen = k.chosen, Reschedule(s, c)
  PROVE  KInv(k') /\ Kept(s, k') /\ Turned(c)
<1>1. PICK x : x = Rescheduled(s, c)
  OBVIOUS
<1>2. AfterReschedule(s, c, x)
  BY <1>1, RescheduledKeeps
<1>3. Dispatch(x, c, k.chosen[c])
  BY <1>1 DEF Reschedule
<1>4. /\ Mid(x, c, k.chosen[c]) /\ Kept(s, x)
      /\ \A d \in CPU : d # c => x.chosen[d] = k.chosen[d]
  BY <1>2 DEF AfterReschedule
<1>5. KInv(k') /\ Kept(x, k') /\ Turned(c)
  BY <1>3, <1>4, DispatchStep
<1>6. QED
  BY <1>4, <1>5 DEF Kept

(* So does reschedule(cpu), whichever CPU it is called for.                *)
LEMMA RescheduleCPUStep ==
  ASSUME NEW s, NEW c \in CPU, NEW cpu \in CPU, KInv(k), KInv(s), s.chosen = k.chosen,
         RescheduleCPU(s, c, cpu)
  PROVE  KInv(k') /\ Kept(s, k') /\ Turned(c)
<1>1. CASE cpu = c
  BY <1>1, RescheduleStep DEF RescheduleCPU
<1>2. CASE cpu # c
  <2>1. k' = [s EXCEPT !.ipi = @ \cup {cpu}] /\ pc' = pc
    BY <1>2 DEF RescheduleCPU
  <2>2. PICK I \in SUBSET CPU : I = s.ipi \cup {cpu}
    BY DEF KInv, Core
  <2>3. AfterIpi(s, k')
    BY <2>1, <2>2, IpiKeeps
  <2>4. KInv(k') /\ k'.state = s.state /\ k'.chosen = k.chosen
    BY <2>3 DEF AfterIpi
  <2>5. QED
    BY <2>1, <2>4 DEF Kept, Turned
<1>3. QED
  BY <1>1, <1>2

(* So does the last loop of wakeup_all().                                  *)
LEMMA NotifyStep ==
  ASSUME NEW c \in CPU, NEW t \in Threads, NEW cpus \in SUBSET CPU, KInv(k),
         loop \in [Threads -> SUBSET CPU], NotifyFrom(k, c, t, cpus)
  PROVE  KInv(k') /\ Kept(k, k') /\ Turned(c) /\ loop' \in [Threads -> SUBSET CPU]
<1>1. k.ipi \in SUBSET CPU
  BY DEF KInv, Core
<1>2. AtWork \in Places /\ AtWork.at \notin {"switch", "barrier"}
  BY PlaceFacts
<1>3. PICK I \in SUBSET CPU : I = k.ipi \cup {i \in cpus : i < c}
  BY <1>1
<1>4. PICK above \in SUBSET CPU : above = {i \in cpus : i > c}
  OBVIOUS
<1>5. PICK below : below = [k EXCEPT !.ipi = I]
  OBVIOUS
<1>6. PICK next : next = Rescheduled(below, c)
  OBVIOUS
<1>7. AfterIpi(k, below)
  BY <1>5, IpiKeeps
<1>8. KInv(below) /\ below.state = k.state /\ below.chosen = k.chosen
  BY <1>7 DEF AfterIpi
<1>9. AfterReschedule(below, c, next)
  BY <1>6, <1>8, RescheduledKeeps
<1>10. /\ Mid(next, c, k.chosen[c]) /\ Kept(below, next)
       /\ \A d \in CPU : d # c => next.chosen[d] = k.chosen[d]
  BY <1>8, <1>9 DEF AfterReschedule
<1>11. Kept(k, next)
  BY <1>8, <1>10 DEF Kept
<1>12. CASE /\ c \notin cpus
            /\ k' = [k EXCEPT !.ipi = @ \cup cpus]
            /\ pc' = [pc EXCEPT ![c] = AtWork]
            /\ loop' = [loop EXCEPT ![t] = {}]
  <2>1. k.ipi \cup cpus \in SUBSET CPU
    BY <1>1
  <2>2. AfterIpi(k, k')
    BY <1>12, <2>1, IpiKeeps
  <2>3. KInv(k') /\ k'.state = k.state /\ k'.chosen = k.chosen
    BY <2>2 DEF AfterIpi
  <2>4. Turned(c)
    BY <1>2, <1>12, <2>3 DEF Turned
  <2>5. loop' \in [Threads -> SUBSET CPU]
    BY <1>12
  <2>6. QED
    BY <2>3, <2>4, <2>5 DEF Kept
<1>13. CASE /\ c \in cpus /\ next.chosen[c] = k.chosen[c]
            /\ k' = [next EXCEPT !.ipi = @ \cup above]
            /\ pc' = [pc EXCEPT ![c] = AtWork]
            /\ loop' = [loop EXCEPT ![t] = {}]
  <2>1. AfterDispatch(next, Dispatched(next, k.chosen[c], next.chosen[c]))
    BY <1>10, DispatchedKeeps
  <2>2. k.chosen[c] # Null
    BY NullIsNoThread DEF KInv, Core
  <2>3. Dispatched(next, k.chosen[c], next.chosen[c]) = next
    BY <1>13, <2>2 DEF Dispatched
  <2>4. AfterDispatch(next, next)
    BY <2>1, <2>3, Zenon
  <2>5. KInv(next)
    BY <2>4 DEF AfterDispatch
  <2>6. next.ipi \cup above \in SUBSET CPU
    BY <2>5 DEF KInv, Core
  <2>7. AfterIpi(next, k')
    BY <1>13, <2>5, <2>6, IpiKeeps
  <2>8. KInv(k') /\ k'.state = next.state /\ k'.chosen = next.chosen
    BY <2>7 DEF AfterIpi
  <2>9. Turned(c)
    BY <1>2, <1>10, <1>13, <2>8 DEF Turned
  <2>10. loop' \in [Threads -> SUBSET CPU]
    BY <1>13
  <2>11. QED
    BY <1>11, <2>8, <2>9, <2>10 DEF Kept
<1>14. CASE /\ c \in cpus /\ next.chosen[c] # k.chosen[c]
            /\ Dispatch(next, c, k.chosen[c])
            /\ loop' = [loop EXCEPT ![t] = above]
  <2>1. KInv(k') /\ Kept(next, k') /\ Turned(c)
    BY <1>10, <1>14, DispatchStep
  <2>2. loop' \in [Threads -> SUBSET CPU]
    BY <1>14
  <2>3. QED
    BY <1>11, <2>1, <2>2 DEF Kept
<1>15. QED
  BY <1>3, <1>4, <1>5, <1>6, <1>12, <1>13, <1>14 DEF NotifyFrom
-----------------------------------------------------------------------------
(* Whoever waits is in one waiting queue, once, and no one else is.        *)
WaitOK(w, st) ==
    /\ w \in [Sync -> Seq(Threads)]
    /\ \A q \in Sync : /\ Distinct(w[q])
                       /\ \A t \in ToSet(w[q]) : t \in App /\ st[t] = "WAITING"
    /\ \A q, r \in Sync : q # r => \A t \in ToSet(w[q]) : t \notin ToSet(w[r])
    /\ \A t \in Threads : st[t] = "WAITING" => \E q \in Sync : t \in ToSet(w[q])

(* The joiner of a thread that has not finished is suspended, and it is in *)
(* no other join().                                                        *)
JoinOK(j, st) ==
    /\ j \in [Threads -> App \cup {Null}]
    /\ \A u \in Threads : j[u] # Null => /\ st[u] \in Live \cup {"DELETED"}
                                         /\ st[u] \in Live => st[j[u]] = "SUSPENDED"
    /\ \A u, v \in Threads : /\ j[u] # Null /\ j[u] = j[v]
                             /\ st[u] \in Live /\ st[v] \in Live
                             => u = v

(* Of all threads only t enters or leaves the scheduler.                   *)
KeptBut(st, x, t) ==
    \A u \in Threads : u # t => /\ x[u] \in Sched <=> st[u] \in Sched
                                /\ st[u] \notin Sched => x[u] = st[u]

(* Those who wait, but t, are the same as before.                          *)
Stay(st, x, t) == \A u \in Threads : u # t => (st[u] = "WAITING" <=> x[u] = "WAITING")

(* Those who wait go on waiting when only t changes.                       *)
LEMMA KeptStay ==
  ASSUME NEW st, NEW x, NEW t, KeptBut(st, x, t)
  PROVE  Stay(st, x, t)
  BY DEF KeptBut, Stay, Sched

(* The waiting queues stay consistent when nothing happens to them and the *)
(* same threads wait.                                                      *)
LEMMA WaitSame ==
  ASSUME NEW w, NEW st, NEW x, NEW t, WaitOK(w, st), Stay(st, x, t),
         st[t] = "WAITING" <=> x[t] = "WAITING"
  PROVE  WaitOK(w, x)
<1>1. \A q \in Sync : \A u \in ToSet(w[q]) : u \in App /\ x[u] = "WAITING"
  BY IdleFacts DEF WaitOK, Stay
<1>2. \A u \in Threads : x[u] = "WAITING" => \E q \in Sync : u \in ToSet(w[q])
  BY DEF WaitOK, Stay
<1>3. QED
  BY <1>1, <1>2 DEF WaitOK

(* They stay consistent when a thread that waits no longer is taken out of *)
(* them.                                                                   *)
LEMMA WaitRemove ==
  ASSUME NEW w, NEW st, NEW x, NEW t, NEW y, WaitOK(w, st), Stay(st, x, t),
         x[t] # "WAITING", y \in [Sync -> Seq(Threads)],
         \A q \in Sync : Distinct(y[q]) /\ ToSet(y[q]) = ToSet(w[q]) \ {t}
  PROVE  WaitOK(y, x)
<1>1. \A q \in Sync : \A u \in ToSet(y[q]) : u # t /\ u \in ToSet(w[q])
  OBVIOUS
<1>2. \A q \in Sync : \A u \in ToSet(w[q]) : u \in App /\ u \in Threads /\ st[u] = "WAITING"
  BY IdleFacts DEF WaitOK
<1>3. \A q \in Sync : \A u \in ToSet(y[q]) : u \in App /\ x[u] = "WAITING"
  BY <1>1, <1>2 DEF Stay
<1>4. \A q, r \in Sync : q # r => \A u \in ToSet(y[q]) : u \notin ToSet(y[r])
  BY <1>1 DEF WaitOK
<1>5. \A u \in Threads : x[u] = "WAITING" => \E q \in Sync : u \in ToSet(y[q])
  <2>1. ASSUME NEW u \in Threads, x[u] = "WAITING" PROVE \E q \in Sync : u \in ToSet(y[q])
    <3>1. u # t /\ st[u] = "WAITING"
      BY <2>1 DEF Stay
    <3>2. PICK q \in Sync : u \in ToSet(w[q])
      BY <3>1 DEF WaitOK
    <3>3. QED
      BY <3>1, <3>2
  <2>2. QED
    BY <2>1
<1>6. QED
  BY <1>3, <1>4, <1>5 DEF WaitOK

(* The head of a waiting queue waits, and the queues stay consistent when  *)
(* it is woken and taken out.                                              *)
LEMMA WaitTail ==
  ASSUME NEW w, NEW st, NEW q \in Sync, WaitOK(w, st), w[q] # <<>>
  PROVE  /\ Head(w[q]) \in App /\ st[Head(w[q])] = "WAITING"
         /\ \A x : Stay(st, x, Head(w[q])) /\ x[Head(w[q])] # "WAITING" =>
                    WaitOK([w EXCEPT ![q] = Tail(@)], x)
<1>1. w[q] \in Seq(Threads) /\ w \in [Sync -> Seq(Threads)] /\ Distinct(w[q])
  BY DEF WaitOK
<1>2. /\ Head(w[q]) \in Threads /\ Head(w[q]) \in ToSet(w[q])
      /\ Tail(w[q]) \in Seq(Threads)
      /\ Distinct(w[q]) => ToSet(Tail(w[q])) = ToSet(w[q]) \ {Head(w[q])} /\ Distinct(Tail(w[q]))
  BY <1>1, HeadTailElements
<1>3. PICK t : t = Head(w[q])
  OBVIOUS
<1>4. PICK l : l = Tail(w[q])
  OBVIOUS
<1>5. PICK y : y = [w EXCEPT ![q] = l]
  OBVIOUS
<1>6. t \in ToSet(w[q]) /\ l \in Seq(Threads) /\ ToSet(l) = ToSet(w[q]) \ {t} /\ Distinct(l)
  BY <1>1, <1>2, <1>3, <1>4
<1>7. y[q] = l /\ y \in [Sync -> Seq(Threads)] /\ \A r \in Sync : r # q => y[r] = w[r]
  BY <1>1, <1>5, <1>6
<1>8. ASSUME NEW r \in Sync PROVE Distinct(y[r]) /\ ToSet(y[r]) = ToSet(w[r]) \ {t}
  <2>1. CASE r = q
    BY <2>1, <1>6, <1>7
  <2>2. CASE r # q
    <3>1. t \notin ToSet(w[r]) /\ y[r] = w[r] /\ Distinct(w[r])
      BY <2>2, <1>6, <1>7 DEF WaitOK
    <3>2. QED
      BY <3>1
  <2>3. QED
    BY <2>1, <2>2
<1>9. ASSUME NEW x, Stay(st, x, t), x[t] # "WAITING" PROVE WaitOK(y, x)
  BY <1>7, <1>8, <1>9, WaitRemove
<1>10. t \in App /\ st[t] = "WAITING"
  BY <1>6 DEF WaitOK
<1>11. QED
  BY <1>3, <1>4, <1>5, <1>9, <1>10

(* They stay consistent when t goes to sleep in q.                         *)
LEMMA WaitInsert ==
  ASSUME NEW w, NEW st, NEW x, NEW q \in Sync, NEW t \in App, NEW rank, WaitOK(w, st),
         st[t] # "WAITING", x[t] = "WAITING", Stay(st, x, t)
  PROVE  WaitOK([w EXCEPT ![q] = OrderedInsert(@, rank, t)], x)
<1>1. w[q] \in Seq(Threads) /\ w \in [Sync -> Seq(Threads)] /\ Distinct(w[q]) /\ t \in Threads
  BY IdleFacts DEF WaitOK
<1>2. PICK l : l = OrderedInsert(w[q], rank, t)
  OBVIOUS
<1>3. PICK y : y = [w EXCEPT ![q] = l]
  OBVIOUS
<1>4. \A r \in Sync : t \notin ToSet(w[r])
  BY DEF WaitOK
<1>5. /\ l \in Seq(Threads) /\ ToSet(l) = ToSet(w[q]) \cup {t}
      /\ Distinct(w[q]) /\ t \notin ToSet(w[q]) => Distinct(l)
  BY <1>1, <1>2, OrderedInsertElements
<1>6. /\ y[q] = l /\ y \in [Sync -> Seq(Threads)] /\ Distinct(l)
      /\ \A r \in Sync : r # q => y[r] = w[r]
  BY <1>1, <1>3, <1>4, <1>5
<1>7. \A r \in Sync : \A u \in ToSet(y[r]) : u = t \/ u \in ToSet(w[r])
  BY <1>5, <1>6
<1>8. \A r \in Sync : \A u \in ToSet(w[r]) : u \in App /\ u \in Threads /\ st[u] = "WAITING"
  BY IdleFacts DEF WaitOK
<1>9. \A r \in Sync : \A u \in ToSet(y[r]) : u \in App /\ x[u] = "WAITING"
  BY <1>4, <1>7, <1>8 DEF Stay
<1>10. \A r \in Sync : t \in ToSet(y[r]) => r = q
  BY <1>4, <1>6
<1>11. ASSUME NEW r \in Sync, NEW p \in Sync, r # p, NEW u \in ToSet(y[r])
       PROVE  u \notin ToSet(y[p])
  <2>1. CASE u = t
    BY <2>1, <1>10, <1>11
  <2>2. CASE u # t
    <3>1. u \in ToSet(w[r])
      BY <2>2, <1>7, <1>11
    <3>2. u \notin ToSet(w[p])
      BY <3>1, <1>11 DEF WaitOK
    <3>3. QED
      BY <3>2, <2>2, <1>7, <1>11
  <2>3. QED
    BY <2>1, <2>2
<1>12. \A r \in Sync : Distinct(y[r])
  BY <1>6 DEF WaitOK
<1>13. \A u \in Threads : x[u] = "WAITING" => \E r \in Sync : u \in ToSet(y[r])
  <2>1. ASSUME NEW u \in Threads, x[u] = "WAITING", u # t PROVE \E r \in Sync : u \in ToSet(y[r])
    <3>1. PICK r \in Sync : u \in ToSet(w[r])
      BY <2>1 DEF WaitOK, Stay
    <3>2. CASE r = q
      BY <3>1, <3>2, <1>5, <1>6
    <3>3. CASE r # q
      BY <3>1, <3>3, <1>6
    <3>4. QED
      BY <3>2, <3>3
  <2>2. t \in ToSet(y[q])
    BY <1>5, <1>6
  <2>3. QED
    BY <2>1, <2>2
<1>14. WaitOK(y, x)
  BY <1>6, <1>9, <1>11, <1>12, <1>13 DEF WaitOK
<1>15. QED
  BY <1>2, <1>3, <1>14, Zenon

(* The joiners stay consistent when a thread no one waits in join() for,   *)
(* or with, enters or leaves the scheduler.                                *)
LEMMA JoinSame ==
  ASSUME NEW j, NEW st, NEW x, NEW t, JoinOK(j, st), KeptBut(st, x, t),
         st[t] \in Live \cup {"NONE"}, x[t] \in Live,
         \A u \in Threads : st[u] \in Live => j[u] # t
  PROVE  JoinOK(j, x)
<1>1. \A u \in Threads : u # t => (x[u] \in Live <=> st[u] \in Live)
  BY DEF KeptBut, Live, Sched
<1>2. ASSUME NEW u \in Threads, j[u] # Null
      PROVE  /\ x[u] \in Live \cup {"DELETED"}
             /\ x[u] \in Live => x[j[u]] = "SUSPENDED"
             /\ x[u] \in Live => st[u] \in Live
  <2>1. st[u] \in Live \cup {"DELETED"} /\ j[u] \in App /\ j[u] \in Threads
    BY <1>2, IdleFacts DEF JoinOK
  <2>2. x[u] \in Live => st[u] \in Live
    BY <1>1, <2>1 DEF Live
  <2>3. x[u] \in Live \cup {"DELETED"}
    BY <1>1, <2>1 DEF Live, KeptBut, Sched
  <2>4. st[u] \in Live => x[j[u]] = "SUSPENDED"
    BY <1>2, <2>1 DEF JoinOK, KeptBut, Sched
  <2>5. QED
    BY <2>2, <2>3, <2>4
<1>3. \A u, v \in Threads : /\ j[u] # Null /\ j[u] = j[v]
                            /\ st[u] \in Live /\ st[v] \in Live
                            => u = v
  BY DEF JoinOK
<1>4. ASSUME NEW u \in Threads, NEW v \in Threads, j[u] # Null, j[u] = j[v],
             x[u] \in Live, x[v] \in Live
      PROVE  u = v
  BY <1>2, <1>3, <1>4
<1>5. j \in [Threads -> App \cup {Null}]
  BY DEF JoinOK
<1>6. \A u \in Threads : j[u] # Null => /\ x[u] \in Live \cup {"DELETED"}
                                        /\ x[u] \in Live => x[j[u]] = "SUSPENDED"
  BY <1>2
<1>7. \A u, v \in Threads : /\ j[u] # Null /\ j[u] = j[v]
                            /\ x[u] \in Live /\ x[v] \in Live
                            => u = v
  BY <1>4
<1>8. QED
  BY <1>5, <1>6, <1>7, Zenon DEF JoinOK

-----------------------------------------------------------------------------
(* The context of a thread, when there is one, is that thread's own.       *)
ContextOK == /\ DOMAIN context = Threads
             /\ \A t \in Threads : context[t] # Null => context[t].flow = t

(* The inductive invariant                                                 *)
SInv == /\ KInv(k)
        /\ WaitOK(waitq, k.state)
        /\ JoinOK(joining, k.state)
        /\ Flow
        /\ ContextOK
        /\ loop \in [Threads -> SUBSET CPU]

(* The application keeps to the uses the code handles: it does not pass()  *)
(* the CPU to a thread that is not ready there, change the priority of a   *)
(* blocked thread, suspend or delete a thread from outside whose state the *)
(* operation does not expect, or resume one that waits in join(); the      *)
(* balancer gives no second order before the first is carried out; and the *)
(* constructors leave no migration order behind.                           *)
Disciplined ==
    /\ \A op \in {"pass_any", "priority_any", "suspend_other", "resume_joiner",
                  "migrate_again", "delete_joiner"} : op \notin Calls
    /\ Uninit \subseteq {NoTarget}

(* The invariant follows from the parts an operation of CPU c has to re-   *)
(* establish.                                                              *)
LEMMA Combine ==
  ASSUME NEW c \in CPU, SInv, pc[c].at # "switch", KInv(k'), Turned(c), exec' = exec,
         ContextOK', loop' \in [Threads -> SUBSET CPU],
         WaitOK(waitq', k'.state), JoinOK(joining', k'.state)
  PROVE  SInv'
<1>1. Flow'
  BY TurnedFlow DEF SInv
<1>2. QED
  BY <1>1 DEF SInv

(* The threads that exist and have not finished.                           *)
Alive(st) == {t \in Threads : st[t] \in Live}

(* Nobody becomes unborn, nobody is deleted by himself, and a thread that  *)
(* comes to life is created, with a context, by the caller on c.           *)
Aged(c) ==
    \A u \in Threads :
        /\ k'.state[u] = "NONE" => k.state[u] = "NONE"
        /\ k'.state[u] = "DELETED" => k.state[u] = "DELETED" \/ u # exec[c]
        /\ \/ context'[u] = context[u] /\ (k'.state[u] \in Live => k.state[u] \in Live)
           \/ k.state[u] = "NONE" /\ context'[u] # Null /\ Entering(c)

(* _thread_count follows the threads.                                      *)
Counted ==
    \/ Alive(k'.state) = Alive(k.state) /\ count' = count
    \/ \E t \in App : /\ t \notin Alive(k.state) /\ count' = count + 1
                      /\ Alive(k'.state) = Alive(k.state) \cup {t}
    \/ \E t \in App : /\ t \in Alive(k.state) /\ count' = count - 1
                      /\ Alive(k'.state) = Alive(k.state) \ {t}

(* What an operation on CPU c does to the flows, the threads' lives and    *)
(* their number.                                                           *)
Did(c) == /\ pc[c].at # "switch" /\ exec' = exec
          /\ Turned(c) /\ Aged(c) /\ Counted

(* An operation that only changes the states of live threads brings no one *)
(* to life and to no end.                                                  *)
LEMMA DidLive ==
  ASSUME NEW c \in CPU, NEW t \in Threads, pc[c].at # "switch", Turned(c),
         KeptBut(k.state, k'.state, t), k.state[t] \in Live, k'.state[t] \in Live,
         UNCHANGED <<exec, context, count>>
  PROVE  Did(c)
<1>1. \A u \in Threads : /\ k'.state[u] \in Live <=> k.state[u] \in Live
                         /\ k'.state[u] = "NONE" => k.state[u] = "NONE"
                         /\ k'.state[u] = "DELETED" => k.state[u] = "DELETED"
  BY DEF KeptBut, Live, Sched
<1>2. Aged(c)
  BY <1>1 DEF Aged
<1>3. Counted
  BY <1>1 DEF Counted, Alive
<1>4. QED
  BY <1>2, <1>3 DEF Did

(* An operation after which the same threads are in the scheduler keeps    *)
(* the invariant.                                                          *)
LEMMA QuietStep ==
  ASSUME NEW c \in CPU, SInv, pc[c].at # "switch", KInv(k'), Kept(k, k'), Turned(c),
         UNCHANGED <<waitq, joining, exec, context, count>>, loop' \in [Threads -> SUBSET CPU]
  PROVE  SInv' /\ Did(c)
<1>1. PICK t : t = Idle[0]
  OBVIOUS
<1>2. 0 \in CPU
  BY ThreadAssumption DEF CPU
<1>3. t \in Threads /\ t \notin App /\ k.state[t] \in Sched /\ k'.state[t] \in Sched
  BY <1>1, <1>2, IdleFacts DEF SInv, KInv, Core, AtHome
<1>4. KeptBut(k.state, k'.state, t)
  BY DEF Kept, KeptBut
<1>5. Stay(k.state, k'.state, t)
  BY <1>4, KeptStay
<1>6. WaitOK(waitq, k'.state)
  BY <1>3, <1>5, WaitSame DEF SInv, Sched
<1>7. \A u \in Threads : k.state[u] \in Live => joining[u] # t
  BY <1>3, NullIsNoThread DEF SInv, JoinOK
<1>8. JoinOK(joining, k'.state)
  <2>1. k.state[t] \in Live \cup {"NONE"} /\ k'.state[t] \in Live
    BY <1>3 DEF Sched, Live
  <2>2. QED
    BY <2>1, <1>4, <1>7, JoinSame DEF SInv
<1>9. ContextOK'
  BY DEF SInv, ContextOK
<1>10. Did(c)
  <2>1. k.state[t] \in Live /\ k'.state[t] \in Live
    BY <1>3 DEF Sched, Live
  <2>2. QED
    BY <1>3, <1>4, <2>1, DidLive
<1>11. QED
  BY <1>6, <1>8, <1>9, <1>10, Combine

(* An operation on a live thread t that is in no join() keeps the          *)
(* invariant.                                                              *)
LEMMA OneStep ==
  ASSUME NEW c \in CPU, NEW t \in Threads, SInv, pc[c].at # "switch", KInv(k'), Turned(c),
         KeptBut(k.state, k'.state, t), k.state[t] \in Live, k'.state[t] \in Live,
         \A u \in Threads : k.state[u] \in Live => joining[u] # t,
         WaitOK(waitq', k'.state),
         UNCHANGED <<joining, exec, loop, context, count>>
  PROVE  SInv' /\ Did(c)
<1>1. JoinOK(joining, k'.state)
  BY JoinSame DEF SInv
<1>2. ContextOK'
  BY DEF SInv, ContextOK
<1>3. Did(c)
  BY DidLive
<1>4. QED
  BY <1>1, <1>2, <1>3, Combine DEF SInv

(* A thread that calls an operation is the running one.                    *)
LEMMA Caller ==
  ASSUME NEW c \in CPU, SInv, Entering(c)
  PROVE  /\ k.chosen[c] \in App /\ k.chosen[c] \in Threads /\ k.state[k.chosen[c]] = "RUNNING"
         /\ pc[c].at # "switch" /\ exec[c] = k.chosen[c]
<1>1. pc[c].at # "switch"
  BY PlaceFacts DEF Entering
<1>2. exec[c] = k.chosen[c]
  BY <1>1 DEF SInv, Flow, RunningIsExecuting
<1>3. QED
  BY <1>1, <1>2, IdleFacts DEF SInv, KInv, Entering

(* No thread in the scheduler is waiting in join().                        *)
LEMMA NotJoining ==
  ASSUME NEW t \in Threads, SInv, k.state[t] # "SUSPENDED" \/ ~Joiner(t)
  PROVE  \A u \in Threads : k.state[u] \in Live => joining[u] # t
<1>1. ASSUME NEW u \in Threads, k.state[u] \in Live, joining[u] = t PROVE FALSE
  <2>1. joining[u] # Null /\ Joiner(t)
    BY <1>1, NullIsNoThread DEF Joiner
  <2>2. k.state[t] = "SUSPENDED"
    BY <2>1, <1>1 DEF SInv, JoinOK
  <2>3. QED
    BY <2>1, <2>2
<1>2. QED
  BY <1>1

(* When the running thread leaves the scheduler and the CPU is dispatched, *)
(* no one else changes state.                                              *)
LEMMA LeaveStep ==
  ASSUME NEW s, NEW c \in CPU, NEW prev \in App, NEW v \in State \ Sched, KInv(k),
         prev = k.chosen[c], AfterLeave(k, prev, v, s), Dispatch(s, c, prev)
  PROVE  /\ KInv(k') /\ Turned(c) /\ KeptBut(k.state, k'.state, prev) /\ k'.state[prev] = v
<1>1. Mid(s, c, prev) /\ \A d \in CPU : d # c => s.chosen[d] = k.chosen[d]
  BY MidLeave
<1>2. KInv(k') /\ Kept(s, k') /\ Turned(c)
  BY <1>1, DispatchStep
<1>3. prev \in Threads /\ s.state = [k.state EXCEPT ![prev] = v] /\ k.state \in [Threads -> State]
  BY IdleFacts DEF AfterLeave, Left, KInv, Core
<1>4. s.state[prev] = v /\ \A u \in Threads : u # prev => s.state[u] = k.state[u]
  BY <1>3
<1>5. QED
  BY <1>2, <1>3, <1>4 DEF Kept, KeptBut

(* A blocked thread is made ready.                                         *)
Woken(t, n) == /\ KInv(n) /\ n.chosen = k.chosen
               /\ KeptBut(k.state, n.state, t) /\ n.state[t] \in Sched

(* Waking a blocked thread keeps the invariant of the kernel and changes   *)
(* the state of no one else.                                               *)
LEMMA WokenThread ==
  ASSUME NEW t \in App, KInv(k), k.state[t] \notin Sched
  PROVE  Woken(t, SchedulerInsert([k EXCEPT !.state[t] = "READY"], t))
<1>1. PICK n : n = SchedulerInsert([k EXCEPT !.state[t] = "READY"], t)
  OBVIOUS
<1>2. AfterWake(k, t, n)
  BY <1>1, CoreWake DEF KInv
<1>3. KInv(n)
  BY <1>2, WakeKeeps
<1>4. /\ n.chosen = k.chosen /\ n.state = [k.state EXCEPT ![t] = "READY"]
      /\ k.state \in [Threads -> State] /\ t \in Threads
  BY <1>2, IdleFacts DEF AfterWake, KInv, Core
<1>5. n.state[t] = "READY" /\ \A u \in Threads : u # t => n.state[u] = k.state[u]
  BY <1>4
<1>6. Woken(t, n)
  BY <1>3, <1>4, <1>5 DEF Woken, KeptBut, Sched
<1>7. QED
  BY <1>1, <1>6, Zenon

(* When a thread is made ready and its CPU rescheduled, no one else enters *)
(* or leaves the scheduler.                                                *)
LEMMA WakeStep ==
  ASSUME NEW c \in CPU, NEW t \in App, NEW n, NEW cpu \in CPU, KInv(k), Woken(t, n),
         RescheduleCPU(n, c, cpu)
  PROVE  /\ KInv(k') /\ Turned(c) /\ KeptBut(k.state, k'.state, t) /\ k'.state[t] \in Sched
<1>1. KInv(n) /\ n.chosen = k.chosen /\ KeptBut(k.state, n.state, t) /\ n.state[t] \in Sched
  BY DEF Woken
<1>2. KInv(k') /\ Kept(n, k') /\ Turned(c)
  BY <1>1, RescheduleCPUStep
<1>3. QED
  BY <1>1, <1>2, IdleFacts DEF Kept, KeptBut

-----------------------------------------------------------------------------
(* The constructor keeps the invariant.                                    *)
LEMMA CreateStep ==
  ASSUME SInv, Disciplined, k.state[Main] # "NONE", NEW c \in CPU, NEW t \in App, NEW st \in {"READY", "SUSPENDED"},
         NEW cpu \in CPU, Create(c, t, st, cpu)
  PROVE  SInv' /\ Did(c)
<1>1. Entering(c) /\ k.state[t] = "NONE" /\ t \in Threads /\ KInv(k) /\ t \in App \ {Main}
  BY IdleFacts DEF Create, Calling, SInv
<1>2. pc[c].at # "switch"
  BY <1>1, Caller
<1>3. k.state[t] \notin Sched /\ k.state \in [Threads -> State]
  BY <1>1 DEF Sched, KInv, Core
<1>4. \/ st = "READY" /\ RescheduleCPU(SchedulerInsert(Fresh(k, t, st, cpu), t), c, cpu)
      \/ /\ st = "SUSPENDED"
         /\ k' = SchedulerRemove(SchedulerInsert(Fresh(k, t, st, cpu), t), t) /\ pc' = pc
  <2>1. PICK target \in Uninit :
          LET n == SchedulerInsert([k EXCEPT !.state[t] = st, !.queue[t] = cpu,
                                             !.target[t] = target], t)
          IN  \/ st = "READY" /\ RescheduleCPU(n, c, cpu)
              \/ st = "SUSPENDED" /\ k' = SchedulerRemove(n, t) /\ UNCHANGED pc
    BY Zenon DEF Create
  <2>2. target = NoTarget
    BY DEF Disciplined
  <2>3. QED
    BY <2>1, <2>2, Zenon DEF Fresh
<1>5. /\ KInv(k') /\ Turned(c) /\ KeptBut(k.state, k'.state, t)
      /\ k'.state[t] \in Live /\ k'.state[t] # "WAITING"
  <2>1. CASE st = "READY"
    <3>1. PICK n : n = SchedulerInsert(Fresh(k, t, "READY", cpu), t)
      OBVIOUS
    <3>2. AfterFresh(k, t, "READY", SchedulerInsert(Fresh(k, t, "READY", cpu), t))
      BY <1>1, <1>3, FreshReady
    <3>3. AfterFresh(k, t, "READY", n)
      BY <3>1, <3>2, Zenon
    <3>4. KInv(n) /\ n.chosen = k.chosen /\ n.state = [k.state EXCEPT ![t] = "READY"]
      BY <3>3 DEF AfterFresh
    <3>5. RescheduleCPU(n, c, cpu)
      BY <1>4, <2>1, <3>1
    <3>6. KInv(k') /\ Kept(n, k') /\ Turned(c)
      BY <1>1, <3>4, <3>5, RescheduleCPUStep
    <3>7. n.state[t] = "READY" /\ \A u \in Threads : u # t => n.state[u] = k.state[u]
      BY <1>1, <1>3, <3>4
    <3>8. QED
      BY <1>1, <3>6, <3>7 DEF Kept, KeptBut, Sched, Live
  <2>2. CASE st = "SUSPENDED"
    <3>1. PICK y : y = Fresh(k, t, "SUSPENDED", cpu)
      OBVIOUS
    <3>2. "SUSPENDED" \in State \ Sched
      BY DEF State, Sched
    <3>3. AfterFresh(k, t, "SUSPENDED", y)
      BY <1>1, <1>3, <3>1, <3>2, FreshKeeps
    <3>4. KInv(y) /\ y.chosen = k.chosen /\ y.state = [k.state EXCEPT ![t] = "SUSPENDED"]
      BY <3>3 DEF AfterFresh
    <3>5. y.state[t] = "SUSPENDED" /\ \A u \in Threads : u # t => y.state[u] = k.state[u]
      BY <1>1, <1>3, <3>4
    <3>6. k' = SchedulerRemove(SchedulerInsert(y, t), t) /\ pc' = pc
      BY <1>4, <2>2, <3>1
    <3>7. y.state[t] \notin Sched
      BY <3>5 DEF Sched
    <3>8. AfterInOut(y, k')
      BY <3>4, <3>6, <3>7, InOutKeeps
    <3>9. KInv(k') /\ k'.state = y.state /\ k'.chosen = k.chosen
      BY <3>4, <3>8 DEF AfterInOut, SameAttributes
    <3>10. QED
      BY <3>5, <3>6, <3>9 DEF KeptBut, Turned, Live
  <2>3. QED
    BY <2>1, <2>2
<1>6. WaitOK(waitq', k'.state)
  <2>1. waitq' = waitq
    BY DEF Create
  <2>2. Stay(k.state, k'.state, t)
    BY <1>5, KeptStay
  <2>3. QED
    BY <1>1, <1>5, <2>1, <2>2, WaitSame DEF SInv
<1>7. ContextOK'
  <2>1. context' = [context EXCEPT ![t] = Context(t, TRUE)]
    BY DEF Create
  <2>2. Context(t, TRUE).flow = t
    BY DEF Context
  <2>3. QED
    BY <1>1, <2>1, <2>2 DEF SInv, ContextOK
<1>8. \A u \in Threads : k.state[u] \in Live => joining[u] # t
  BY <1>1, NotJoining
<1>9. UNCHANGED <<joining, exec, loop>> /\ count' = count + 1
  BY DEF Create
<1>10. JoinOK(joining', k'.state)
  <2>1. JoinOK(joining, k'.state)
    BY <1>1, <1>5, <1>8, JoinSame DEF SInv
  <2>2. QED
    BY <1>9, <2>1
<1>11. Did(c)
  <2>1. /\ context'[t] # Null
        /\ \A u \in Threads : u # t => context'[u] = context[u]
    <3>1. Context(t, TRUE) # Null
      BY <1>1, ContextAssumption
    <3>2. QED
      BY <1>1, <3>1 DEF Create, SInv, ContextOK
  <2>2. \A u \in Threads : u # t => /\ k'.state[u] \in Live <=> k.state[u] \in Live
                                    /\ k'.state[u] = "NONE" => k.state[u] = "NONE"
                                    /\ k'.state[u] = "DELETED" => k.state[u] = "DELETED"
    BY <1>5 DEF KeptBut, Live, Sched
  <2>3. k.state[t] \notin Live /\ k'.state[t] # "DELETED"
    BY <1>1, <1>5 DEF Live
  <2>4. Aged(c)
    BY <1>1, <2>1, <2>2, <2>3 DEF Aged
  <2>5. Alive(k'.state) = Alive(k.state) \cup {t} /\ t \notin Alive(k.state)
    BY <1>1, <1>5, <2>2, <2>3 DEF Alive
  <2>6. Counted
    BY <1>9, <2>5 DEF Counted
  <2>7. QED
    BY <1>2, <1>5, <1>9, <2>4, <2>6 DEF Did
<1>12. QED
  BY <1>2, <1>5, <1>6, <1>7, <1>9, <1>10, <1>11, Combine DEF SInv

(* sleep() keeps the invariant.                                            *)
LEMMA SleepStep ==
  ASSUME SInv, NEW c \in CPU, NEW q \in Sync, Entering(c), Sleep(c, q)
  PROVE  SInv' /\ Did(c)
<1>1. PICK prev : prev = k.chosen[c]
  OBVIOUS
<1>2. prev \in App /\ prev \in Threads /\ k.state[prev] = "RUNNING" /\ pc[c].at # "switch"
  BY <1>1, Caller
<1>3. PICK s : s = [SchedulerRemove(k, prev) EXCEPT !.state[prev] = "WAITING"]
  OBVIOUS
<1>4. "WAITING" \in State \ Sched /\ k.state[prev] \in Sched /\ Core(k) /\ KInv(k)
  BY <1>2 DEF State, Sched, SInv, KInv
<1>5. AfterLeave(k, prev, "WAITING", s)
  BY <1>2, <1>3, <1>4, CoreLeave
<1>6. Dispatch(s, c, prev)
  BY <1>1, <1>3 DEF Sleep, Running
<1>7. /\ KInv(k') /\ Turned(c) /\ KeptBut(k.state, k'.state, prev) /\ k'.state[prev] = "WAITING"
  BY <1>1, <1>2, <1>4, <1>5, <1>6, LeaveStep
<1>8. waitq' = [waitq EXCEPT ![q] = OrderedInsert(@, k.rank, prev)]
  BY <1>1 DEF Sleep, Running
<1>9. Stay(k.state, k'.state, prev)
  BY <1>7, KeptStay
<1>10. WaitOK(waitq', k'.state)
  <2>1. WaitOK([waitq EXCEPT ![q] = OrderedInsert(@, k.rank, prev)], k'.state)
    BY <1>2, <1>7, <1>9, WaitInsert DEF SInv
  <2>2. QED
    BY <1>8, <2>1, Zenon
<1>11. \A u \in Threads : k.state[u] \in Live => joining[u] # prev
  BY <1>2, NotJoining
<1>12. UNCHANGED <<joining, exec, loop, context, count>>
  BY DEF Sleep
<1>13. k.state[prev] \in Live /\ k'.state[prev] \in Live
  BY <1>2, <1>7 DEF Live
<1>14. QED
  BY <1>2, <1>7, <1>10, <1>11, <1>12, <1>13, OneStep

(* suspend() of oneself keeps the invariant.                               *)
LEMMA SuspendStep ==
  ASSUME SInv, Disciplined, NEW c \in CPU, NEW t \in App, Suspend(c, t)
  PROVE  SInv' /\ Did(c)
<1>1. Entering(c)
  BY DEF Suspend, Calling
<1>2. t = k.chosen[c]
  BY DEF Suspend, Calling, Disciplined, Running
<1>3. t \in Threads /\ k.state[t] = "RUNNING" /\ pc[c].at # "switch"
  BY <1>1, <1>2, Caller
<1>4. PICK s : s = SchedulerRemove([k EXCEPT !.state[t] = "SUSPENDED"], t)
  OBVIOUS
<1>5. "SUSPENDED" \in State \ Sched /\ k.state[t] \in Sched /\ Core(k) /\ KInv(k)
  BY <1>3 DEF State, Sched, SInv, KInv
<1>6. AfterLeave(k, t, "SUSPENDED", s)
  BY <1>4, <1>5, CoreLeaveBefore
<1>7. Dispatch(s, c, t)
  BY <1>2, <1>4 DEF Suspend, Running
<1>8. /\ KInv(k') /\ Turned(c) /\ KeptBut(k.state, k'.state, t) /\ k'.state[t] = "SUSPENDED"
  BY <1>2, <1>5, <1>6, <1>7, LeaveStep
<1>9. Stay(k.state, k'.state, t)
  BY <1>8, KeptStay
<1>10. WaitOK(waitq', k'.state)
  <2>1. waitq' = waitq
    BY DEF Suspend
  <2>2. QED
    BY <1>3, <1>8, <1>9, <2>1, WaitSame DEF SInv
<1>11. \A u \in Threads : k.state[u] \in Live => joining[u] # t
  BY <1>3, NotJoining
<1>12. UNCHANGED <<joining, exec, loop, context, count>>
  BY DEF Suspend
<1>13. k.state[t] \in Live /\ k'.state[t] \in Live
  BY <1>3, <1>8 DEF Live
<1>14. QED
  BY <1>3, <1>8, <1>10, <1>11, <1>12, <1>13, OneStep

(* join(), whether it blocks or not, keeps the invariant.                  *)
LEMMA JoinStep ==
  ASSUME SInv, NEW c \in CPU, NEW t \in App, Join(c, t)
  PROVE  SInv' /\ Did(c)
<1>1. PICK prev : prev = k.chosen[c]
  OBVIOUS
<1>2. Entering(c) /\ t \in Threads /\ KInv(k) /\ Core(k)
  BY IdleFacts DEF Join, Calling, SInv, KInv
<1>3. prev \in App /\ prev \in Threads /\ k.state[prev] = "RUNNING" /\ pc[c].at # "switch"
  BY <1>1, <1>2, Caller
<1>4. CASE UNCHANGED <<k, pc, joining>>
  <2>1. Turned(c) /\ Kept(k, k') /\ KInv(k')
    BY <1>2, <1>4 DEF Turned, Kept
  <2>2. UNCHANGED <<waitq, joining, exec, context, count>> /\ loop' \in [Threads -> SUBSET CPU]
    BY <1>4 DEF Join, SInv
  <2>3. QED
    BY <1>3, <2>1, <2>2, QuietStep
<1>5. CASE /\ k.state[t] # "FINISHING"
           /\ joining' = [joining EXCEPT ![t] = prev]
           /\ Dispatch(SchedulerRemove([k EXCEPT !.state[prev] = "SUSPENDED"], prev), c, prev)
  <2>1. PICK s : s = SchedulerRemove([k EXCEPT !.state[prev] = "SUSPENDED"], prev)
    OBVIOUS
  <2>2. "SUSPENDED" \in State \ Sched /\ k.state[prev] \in Sched
    BY <1>3 DEF State, Sched
  <2>3. AfterLeave(k, prev, "SUSPENDED", s)
    BY <1>2, <1>3, <2>1, <2>2, CoreLeaveBefore
  <2>4. Dispatch(s, c, prev)
    BY <1>5, <2>1
  <2>5. /\ KInv(k') /\ Turned(c) /\ KeptBut(k.state, k'.state, prev)
        /\ k'.state[prev] = "SUSPENDED"
    BY <1>1, <1>2, <1>3, <2>2, <2>3, <2>4, LeaveStep
  <2>6. Stay(k.state, k'.state, prev)
    BY <2>5, KeptStay
  <2>7. WaitOK(waitq', k'.state)
    <3>1. waitq' = waitq
      BY DEF Join
    <3>2. QED
      BY <1>3, <2>5, <2>6, <3>1, WaitSame DEF SInv
  <2>8. \A u \in Threads : k.state[u] \in Live => joining[u] # prev
    BY <1>3, NotJoining
  <2>9. JoinOK(joining, k'.state)
    <3>1. k.state[prev] \in Live \cup {"NONE"} /\ k'.state[prev] \in Live
      BY <1>3, <2>5 DEF Live
    <3>2. QED
      BY <2>5, <2>8, <3>1, JoinSame DEF SInv
  <2>10. \A u \in Threads : k'.state[u] \in Live => joining[u] # prev
    <3>1. ASSUME NEW u \in Threads, k'.state[u] \in Live, joining[u] = prev PROVE FALSE
      <4>1. k.state[u] \in Live
        BY <1>3, <2>5, <3>1 DEF KeptBut, Live, Sched
      <4>2. QED
        BY <4>1, <2>8, <3>1
    <3>2. QED
      BY <3>1
  <2>11. t # prev /\ k'.state[t] \in Live
    <3>1. t # prev /\ k.state[t] \notin {"NONE", "DELETED"}
      BY <1>1 DEF Join, Running
    <3>2. k.state[t] \in Live
      BY <1>2, <1>5, <3>1 DEF Core, State, Live
    <3>3. QED
      BY <1>2, <2>5, <3>1, <3>2 DEF KeptBut, Live, Sched
  <2>12. JoinOK(joining', k'.state)
    <3>1. joining \in [Threads -> App \cup {Null}]
      BY DEF SInv, JoinOK
    <3>2. /\ joining' \in [Threads -> App \cup {Null}] /\ joining'[t] = prev
          /\ \A u \in Threads : u # t => joining'[u] = joining[u]
      BY <1>2, <1>3, <1>5, <3>1
    <3>3. \A u \in Threads : joining'[u] # Null =>
                 /\ k'.state[u] \in Live \cup {"DELETED"}
                 /\ k'.state[u] \in Live => k'.state[joining'[u]] = "SUSPENDED"
      BY <2>5, <2>9, <2>11, <3>2 DEF JoinOK
    <3>4. ASSUME NEW u \in Threads, NEW v \in Threads, joining'[u] # Null,
                 joining'[u] = joining'[v], k'.state[u] \in Live, k'.state[v] \in Live
          PROVE  u = v
      <4>1. CASE u = t
        BY <4>1, <2>10, <3>2, <3>4
      <4>2. CASE v = t
        BY <4>2, <2>10, <3>2, <3>4
      <4>3. CASE u # t /\ v # t
        BY <4>3, <2>9, <3>2, <3>4 DEF JoinOK
      <4>4. QED
        BY <4>1, <4>2, <4>3
    <3>5. \A u, v \in Threads : /\ joining'[u] # Null /\ joining'[u] = joining'[v]
                                /\ k'.state[u] \in Live /\ k'.state[v] \in Live
                                => u = v
      BY <3>4
    <3>6. QED
      BY <3>2, <3>3, <3>5, Zenon DEF JoinOK
  <2>13. exec' = exec /\ loop' \in [Threads -> SUBSET CPU] /\ ContextOK'
    BY DEF Join, SInv, ContextOK
  <2>14. Did(c)
    <3>1. k.state[prev] \in Live /\ k'.state[prev] \in Live
      BY <1>3, <2>5 DEF Live
    <3>2. UNCHANGED <<exec, context, count>>
      BY DEF Join
    <3>3. QED
      BY <1>3, <2>5, <3>1, <3>2, DidLive
  <2>15. QED
    BY <1>3, <2>5, <2>7, <2>12, <2>13, <2>14, Combine
<1>6. QED
  BY <1>1, <1>4, <1>5 DEF Join, Running

(* A choice on CPU c among those in the scheduler, and dispatch(), keep    *)
(* the invariant.                                                          *)
LEMMA ChoiceStep ==
  ASSUME SInv, NEW c \in CPU, NEW s, AfterChoose(k, c, s), Dispatch(s, c, k.chosen[c]),
         pc[c].at # "switch", UNCHANGED <<waitq, joining, exec, context, loop, count>>
  PROVE  SInv' /\ Did(c)
<1>1. KInv(k) /\ Core(k) /\ k.chosen[c] \in Threads
  BY DEF SInv, KInv, Core
<1>2. AfterMigration(k, c, k)
  BY <1>1 DEF AfterMigration, Kept
<1>3. Mid(k, c, k.chosen[c])
  BY <1>1, <1>2, MidMigration
<1>4. k.chosen[c] \in App => k.state[k.chosen[c]] = "RUNNING"
  BY <1>1 DEF KInv
<1>5. Mid(s, c, k.chosen[c]) /\ Kept(k, s) /\ \A d \in CPU : d # c => s.chosen[d] = k.chosen[d]
  <2>1. PICK p : p = k.chosen[c]
    OBVIOUS
  <2>2. Mid(k, c, p) /\ (p \in App => k.state[p] = "RUNNING" \/ k.queue[p] # c \/ ~In(k, p))
    BY <1>3, <1>4, <2>1
  <2>3. Mid(s, c, p) /\ Kept(k, s) /\ \A d \in CPU : d # c => s.chosen[d] = k.chosen[d]
    BY <2>2, MidChoose
  <2>4. QED
    BY <2>1, <2>3
<1>6. KInv(k') /\ Kept(s, k') /\ Turned(c)
  BY <1>1, <1>5, DispatchStep
<1>7. Kept(k, k')
  BY <1>5, <1>6 DEF Kept
<1>8. loop' \in [Threads -> SUBSET CPU]
  BY DEF SInv
<1>9. QED
  BY <1>6, <1>7, <1>8, QuietStep

(* yield() keeps the invariant.                                            *)
LEMMA YieldStep ==
  ASSUME SInv, NEW c \in CPU, pc[c].at # "switch", YieldAt(c)
  PROVE  SInv' /\ Did(c)
<1>1. PICK s : s = ChooseAnother(k, c)
  OBVIOUS
<1>2. Shape(k) /\ Placed(k) /\ k.chosen[c] # Null
  BY NullIsNoThread DEF SInv, KInv, Core
<1>3. AfterChoose(k, c, s)
  BY <1>1, <1>2, ChooseAnotherKeeps
<1>4. Dispatch(s, c, k.chosen[c])
  BY <1>1 DEF YieldAt, Running
<1>5. UNCHANGED <<waitq, joining, exec, context, loop, count>>
  BY DEF YieldAt
<1>6. QED
  BY <1>3, <1>4, <1>5, ChoiceStep

(* pass() to a thread that is ready on this CPU keeps the invariant.       *)
LEMMA PassStep ==
  ASSUME SInv, Disciplined, NEW c \in CPU, NEW t \in App, Pass(c, t)
  PROVE  SInv' /\ Did(c)
<1>1. Entering(c) /\ k.state[t] = "READY" /\ k.queue[t] = c /\ t \in Threads
  <2>1. Calling(c, IF k.state[t] = "READY" /\ k.queue[t] = c THEN "pass" ELSE "pass_any")
    BY DEF Pass
  <2>2. QED
    BY <2>1, IdleFacts DEF Calling, Disciplined
<1>2. /\ k.chosen[c] \in Threads /\ k.state[k.chosen[c]] = "RUNNING" /\ pc[c].at # "switch"
  BY <1>1, Caller
<1>3. PICK s : s = ChooseThis(k, c, t)
  OBVIOUS
<1>4. Shape(k) /\ Placed(k) /\ k.chosen[c] # Null /\ In(k, t)
  BY <1>1, NullIsNoThread DEF SInv, KInv, Core, Sched
<1>5. AfterChoose(k, c, s) /\ s.chosen[c] = t
  BY <1>1, <1>3, <1>4, ChooseThisKeeps
<1>6. t # k.chosen[c] /\ t # Null
  BY <1>1, <1>2, NullIsNoThread
<1>7. Dispatch(s, c, k.chosen[c])
  <2>1. /\ k' = Dispatched(s, k.chosen[c], t)
        /\ pc' = [pc EXCEPT ![c] = Switching(k.chosen[c], t)]
    BY <1>3, <1>6 DEF Pass, Running
  <2>2. QED
    BY <2>1, <1>5, <1>6 DEF Dispatch
<1>8. UNCHANGED <<waitq, joining, exec, context, loop, count>>
  BY DEF Pass
<1>9. QED
  BY <1>2, <1>5, <1>7, <1>8, ChoiceStep

(* resume() of a thread that is in no join() keeps the invariant.          *)
LEMMA ResumeStep ==
  ASSUME SInv, Disciplined, NEW c \in CPU, NEW t \in App, Resume(c, t)
  PROVE  SInv' /\ Did(c)
<1>1. Entering(c) /\ ~Joiner(t) /\ t \in Threads /\ KInv(k)
  BY IdleFacts DEF Resume, Calling, Disciplined, SInv
<1>2. pc[c].at # "switch"
  BY <1>1, Caller
<1>3. CASE UNCHANGED <<k, pc>>
  <2>1. Turned(c) /\ Kept(k, k') /\ KInv(k')
    BY <1>1, <1>3 DEF Turned, Kept
  <2>2. UNCHANGED <<waitq, joining, exec, context, count>> /\ loop' \in [Threads -> SUBSET CPU]
    BY DEF Resume, SInv
  <2>3. QED
    BY <1>2, <2>1, <2>2, QuietStep
<1>4. CASE /\ k.state[t] = "SUSPENDED"
           /\ RescheduleCPU(SchedulerInsert([k EXCEPT !.state[t] = "READY"], t), c, k.queue[t])
  <2>1. PICK n : n = SchedulerInsert([k EXCEPT !.state[t] = "READY"], t)
    OBVIOUS
  <2>2. k.state[t] \notin Sched /\ k.queue[t] \in CPU
    BY <1>1, <1>4 DEF Sched, KInv, Core, Shape
  <2>3. Woken(t, n)
    BY <1>1, <2>1, <2>2, WokenThread
  <2>4. RescheduleCPU(n, c, k.queue[t])
    BY <1>4, <2>1
  <2>5. /\ KInv(k') /\ Turned(c) /\ KeptBut(k.state, k'.state, t) /\ k'.state[t] \in Sched
    BY <1>1, <2>2, <2>3, <2>4, WakeStep
  <2>6. Stay(k.state, k'.state, t)
    BY <2>5, KeptStay
  <2>7. WaitOK(waitq', k'.state)
    <3>1. waitq' = waitq
      BY DEF Resume
    <3>2. QED
      <4>1. k'.state[t] # "WAITING"
        BY <2>5 DEF Sched
      <4>2. QED
        BY <1>1, <1>4, <2>6, <3>1, <4>1, WaitSame DEF SInv
  <2>8. \A u \in Threads : k.state[u] \in Live => joining[u] # t
    BY <1>1, NotJoining
  <2>9. UNCHANGED <<joining, exec, loop, context, count>>
    BY DEF Resume
  <2>10. k.state[t] \in Live /\ k'.state[t] \in Live
    BY <1>4, <2>5 DEF Live, Sched
  <2>11. QED
    BY <1>1, <1>2, <2>5, <2>7, <2>8, <2>9, <2>10, OneStep
<1>5. QED
  BY <1>3, <1>4 DEF Resume

(* wakeup() keeps the invariant.                                           *)
LEMMA WakeupStep ==
  ASSUME SInv, NEW c \in CPU, NEW q \in Sync, Entering(c), Wakeup(c, q)
  PROVE  SInv' /\ Did(c)
<1>1. pc[c].at # "switch" /\ KInv(k)
  BY Caller DEF SInv
<1>2. CASE UNCHANGED <<k, pc, waitq>>
  <2>1. Turned(c) /\ Kept(k, k') /\ KInv(k')
    BY <1>1, <1>2 DEF Turned, Kept
  <2>2. UNCHANGED <<waitq, joining, exec, context, count>> /\ loop' \in [Threads -> SUBSET CPU]
    BY <1>2 DEF Wakeup, SInv
  <2>3. QED
    BY <1>1, <2>1, <2>2, QuietStep
<1>3. CASE /\ waitq[q] # <<>>
           /\ waitq' = [waitq EXCEPT ![q] = Tail(@)]
           /\ LET t == Head(waitq[q])
              IN  RescheduleCPU(SchedulerInsert([k EXCEPT !.state[t] = "READY"], t), c, k.queue[t])
  <2>1. PICK t : t = Head(waitq[q])
    OBVIOUS
  <2>2. /\ t \in App /\ k.state[t] = "WAITING"
        /\ \A x : Stay(k.state, x, t) /\ x[t] # "WAITING" =>
                   WaitOK([waitq EXCEPT ![q] = Tail(@)], x)
    BY <1>3, <2>1, WaitTail DEF SInv
  <2>3. PICK n : n = SchedulerInsert([k EXCEPT !.state[t] = "READY"], t)
    OBVIOUS
  <2>4. k.state[t] \notin Sched /\ k.queue[t] \in CPU /\ t \in Threads
    BY <1>1, <2>2, IdleFacts DEF Sched, KInv, Core, Shape
  <2>5. Woken(t, n)
    BY <1>1, <2>2, <2>3, <2>4, WokenThread
  <2>6. RescheduleCPU(n, c, k.queue[t])
    BY <1>3, <2>1, <2>3
  <2>7. /\ KInv(k') /\ Turned(c) /\ KeptBut(k.state, k'.state, t) /\ k'.state[t] \in Sched
    BY <1>1, <2>2, <2>4, <2>5, <2>6, WakeStep
  <2>8. WaitOK(waitq', k'.state)
    <3>1. Stay(k.state, k'.state, t)
      BY <2>7, KeptStay
    <3>2. WaitOK([waitq EXCEPT ![q] = Tail(@)], k'.state)
      <4>1. k'.state[t] # "WAITING"
        BY <2>7 DEF Sched
      <4>2. QED
        BY <2>2, <3>1, <4>1
    <3>3. QED
      BY <1>3, <3>2, Zenon
  <2>9. \A u \in Threads : k.state[u] \in Live => joining[u] # t
    BY <2>2, <2>4, NotJoining
  <2>10. UNCHANGED <<joining, exec, loop, context, count>>
    BY DEF Wakeup
  <2>11. k.state[t] \in Live /\ k'.state[t] \in Live
    BY <2>2, <2>7 DEF Live, Sched
  <2>12. QED
    BY <1>1, <2>4, <2>7, <2>8, <2>9, <2>10, <2>11, OneStep
<1>4. QED
  BY <1>2, <1>3 DEF Wakeup

(* wakeup_all() taking the lock keeps the invariant.                       *)
LEMMA WakeupAllStep ==
  ASSUME SInv, NEW c \in CPU, NEW q \in Sync, Entering(c), WakeupAll(c, q)
  PROVE  SInv' /\ Did(c)
<1>1. pc[c].at # "switch" /\ KInv(k)
  BY Caller DEF SInv
<1>2. UNCHANGED <<k, waitq, joining, exec, context, count>> /\ loop' \in [Threads -> SUBSET CPU]
  BY DEF WakeupAll, SInv
<1>3. Turned(c)
  <2>1. Waking(q, {}) \in Places /\ Waking(q, {}).at \notin {"switch", "barrier"}
    BY PlaceFacts
  <2>2. pc' = pc \/ pc' = [pc EXCEPT ![c] = Waking(q, {})]
    BY DEF WakeupAll
  <2>3. QED
    BY <1>2, <2>1, <2>2 DEF Turned
<1>4. Kept(k, k') /\ KInv(k')
  BY <1>1, <1>2 DEF Kept
<1>5. QED
  BY <1>1, <1>2, <1>3, <1>4, QuietStep

(* One iteration of the loop of wakeup_all(), which wakes the head of the  *)
(* queue, keeps the invariant.                                             *)
LEMMA WakeAllStep ==
  ASSUME SInv, NEW c \in CPU, Wake(c)
  PROVE  SInv' /\ Did(c)
<1>1. PICK q : q = pc[c].q
  OBVIOUS
<1>2. /\ q \in Sync /\ pc[c].cpus \in SUBSET CPU /\ pc[c].at # "switch"
      /\ KInv(k) /\ waitq[q] # <<>>
  BY <1>1, PlaceFacts DEF Wake, SInv, Flow
<1>3. PICK t : t = Head(waitq[q])
  OBVIOUS
<1>4. /\ t \in App /\ k.state[t] = "WAITING"
      /\ \A x : Stay(k.state, x, t) /\ x[t] # "WAITING" =>
                   WaitOK([waitq EXCEPT ![q] = Tail(@)], x)
  BY <1>2, <1>3, WaitTail DEF SInv
<1>5. k.state[t] \notin Sched /\ k.queue[t] \in CPU /\ t \in Threads
  BY <1>2, <1>4, IdleFacts DEF Sched, KInv, Core, Shape
<1>6. /\ waitq' = [waitq EXCEPT ![q] = Tail(@)]
      /\ k' = SchedulerInsert([k EXCEPT !.state[t] = "READY"], t)
      /\ pc' = [pc EXCEPT ![c] = Waking(q, pc[c].cpus \cup {k.queue[t]})]
  BY <1>1, <1>3 DEF Wake
<1>7. Woken(t, k')
  BY <1>2, <1>4, <1>5, <1>6, WokenThread
<1>8. KInv(k') /\ k'.chosen = k.chosen /\ KeptBut(k.state, k'.state, t) /\ k'.state[t] \in Sched
  BY <1>7 DEF Woken
<1>9. Turned(c)
  <2>1. PICK I \in SUBSET CPU : I = pc[c].cpus \cup {k.queue[t]}
    BY <1>2, <1>5
  <2>2. Waking(q, I) \in Places /\ Waking(q, I).at \notin {"switch", "barrier"}
    BY <1>2, <2>1, PlaceFacts
  <2>3. QED
    BY <1>6, <1>8, <2>1, <2>2 DEF Turned
<1>10. WaitOK(waitq', k'.state)
  <2>1. Stay(k.state, k'.state, t)
    BY <1>8, KeptStay
  <2>2. WaitOK([waitq EXCEPT ![q] = Tail(@)], k'.state)
    <3>1. k'.state[t] # "WAITING"
      BY <1>8 DEF Sched
    <3>2. QED
      BY <1>4, <2>1, <3>1
  <2>3. QED
    BY <1>6, <2>2, Zenon
<1>11. \A u \in Threads : k.state[u] \in Live => joining[u] # t
  BY <1>4, <1>5, NotJoining
<1>12. UNCHANGED <<joining, exec, loop, context, count>>
  BY DEF Wake
<1>13. k.state[t] \in Live /\ k'.state[t] \in Live
  BY <1>4, <1>8 DEF Live, Sched
<1>14. QED
  BY <1>2, <1>5, <1>8, <1>9, <1>10, <1>11, <1>12, <1>13, OneStep

(* Both places that run the last loop of wakeup_all() keep the invariant.  *)
LEMMA LoopStep ==
  ASSUME SInv, NEW c \in CPU, NEW cpus \in SUBSET CPU, pc[c].at # "switch",
         NotifyFrom(k, c, exec[c], cpus), UNCHANGED <<waitq, joining, exec, context, count>>
  PROVE  SInv' /\ Did(c)
<1>1. KInv(k) /\ exec[c] \in Threads /\ loop \in [Threads -> SUBSET CPU]
  BY DEF SInv, Flow
<1>2. KInv(k') /\ Kept(k, k') /\ Turned(c) /\ loop' \in [Threads -> SUBSET CPU]
  BY <1>1, NotifyStep
<1>3. QED
  BY <1>2, QuietStep

(* The last loop of wakeup_all(), by the CPU that wakes or on its return   *)
(* from a switch, keeps the invariant.                                     *)
LEMMA NotifyReenterStep ==
  ASSUME SInv, NEW c \in CPU, Notify(c) \/ Reenter(c)
  PROVE  SInv' /\ Did(c)
<1>1. CASE Notify(c)
  <2>1. pc[c].cpus \in SUBSET CPU /\ pc[c].at # "switch"
    BY <1>1, PlaceFacts DEF Notify, SInv, Flow
  <2>2. QED
    BY <1>1, <2>1, LoopStep DEF Notify
<1>2. CASE Reenter(c)
  <2>1. loop[exec[c]] \in SUBSET CPU /\ pc[c].at # "switch"
    BY <1>2 DEF Reenter, SInv, Flow
  <2>2. QED
    BY <1>2, <2>1, LoopStep DEF Reenter
<1>3. QED
  BY <1>1, <1>2

(* t ends, and w, its joiner, if it has one, is made ready.                *)
KeptBut2(st, x, t, w) ==
    \A u \in Threads : u # t /\ u # w => /\ x[u] \in Sched <=> st[u] \in Sched
                                         /\ st[u] \notin Sched => x[u] = st[u]

(* When t finishes or is deleted its joiner is released, and no other      *)
(* join() is concerned.                                                    *)
LEMMA JoinGone ==
  ASSUME NEW j, NEW st, NEW x, NEW t \in Threads, NEW w, NEW y, JoinOK(j, st), w = j[t],
         KeptBut2(st, x, t, w), st[t] \in Live \cup {"FINISHING"},
         x[t] \in {"FINISHING", "DELETED"},
         w # Null => x[w] \in Sched /\ w # t,
         \A u \in Threads : st[u] \in Live => j[u] # t,
         y \in [Threads -> App \cup {Null}], \A u \in Threads : u # t => y[u] = j[u],
         y[t] = Null \/ x[t] = "DELETED"
  PROVE  JoinOK(y, x)
<1>1. w # Null => w \in Threads /\ st[t] \in Live /\ st[w] = "SUSPENDED"
  BY IdleFacts DEF JoinOK, Live
<1>2. w = Null => w \notin Threads
  BY NullIsNoThread
<1>3. x[t] \notin Live
  BY DEF Live
<1>4. \A u \in Threads : u # t => (x[u] \in Live <=> st[u] \in Live)
  <2>1. ASSUME NEW u \in Threads, u # t PROVE x[u] \in Live <=> st[u] \in Live
    <3>1. CASE u = w
      BY <1>1, <1>2, <3>1 DEF Live, Sched
    <3>2. CASE u # w
      BY <2>1, <3>2 DEF KeptBut2, Live, Sched
    <3>3. QED
      BY <3>1, <3>2
  <2>2. QED
    BY <2>1
<1>5. ASSUME NEW u \in Threads, u # t, y[u] # Null
      PROVE  /\ x[u] \in Live \cup {"DELETED"}
             /\ x[u] \in Live => x[y[u]] = "SUSPENDED"
  <2>1. j[u] # Null /\ y[u] = j[u] /\ j[u] \in Threads /\ st[u] \in Live \cup {"DELETED"}
    BY <1>5, IdleFacts DEF JoinOK
  <2>2. x[u] \in Live \cup {"DELETED"}
    <3>1. CASE st[u] \in Live
      BY <3>1, <1>4, <1>5
    <3>2. CASE st[u] = "DELETED"
      <4>1. u # w
        BY <1>1, <1>2, <3>2 DEF Live
      <4>2. QED
        BY <4>1, <1>5, <3>2 DEF KeptBut2, Sched
    <3>3. QED
      BY <2>1, <3>1, <3>2
  <2>3. ASSUME x[u] \in Live PROVE x[j[u]] = "SUSPENDED"
    <3>1. st[u] \in Live
      BY <2>3, <1>4, <1>5
    <3>2. st[j[u]] = "SUSPENDED" /\ j[u] # t
      BY <2>1, <3>1 DEF JoinOK
    <3>3. j[u] # w
      BY <1>1, <1>5, <2>1, <3>1 DEF JoinOK
    <3>4. QED
      BY <2>1, <3>2, <3>3 DEF KeptBut2, Sched
  <2>4. QED
    BY <2>1, <2>2, <2>3
<1>6. \A u \in Threads : y[u] # Null => /\ x[u] \in Live \cup {"DELETED"}
                                        /\ x[u] \in Live => x[y[u]] = "SUSPENDED"
  BY <1>3, <1>5
<1>7. ASSUME NEW u \in Threads, NEW v \in Threads, y[u] # Null, y[u] = y[v],
             x[u] \in Live, x[v] \in Live
      PROVE  u = v
  <2>1. u # t /\ v # t
    BY <1>3, <1>7
  <2>2. st[u] \in Live /\ st[v] \in Live /\ j[u] # Null /\ j[u] = j[v]
    BY <2>1, <1>4, <1>7
  <2>3. QED
    BY <2>2 DEF JoinOK
<1>8. \A u, v \in Threads : /\ y[u] # Null /\ y[u] = y[v]
                            /\ x[u] \in Live /\ x[v] \in Live
                            => u = v
  BY <1>7
<1>9. QED
  BY <1>6, <1>8, Zenon DEF JoinOK

(* When t ends and its joiner, if any, is released, the others live on.    *)
LEMMA LivesGone ==
  ASSUME NEW t \in Threads, NEW w, w # Null => k.state[w] = "SUSPENDED" /\ k'.state[w] \in Sched,
         KeptBut2(k.state, k'.state, t, w), k'.state[t] \in {"FINISHING", "DELETED"}
  PROVE  /\ \A u \in Threads : u # t => /\ k'.state[u] \in Live <=> k.state[u] \in Live
                                        /\ k'.state[u] = "NONE" => k.state[u] = "NONE"
                                        /\ k'.state[u] = "DELETED" => k.state[u] = "DELETED"
         /\ Alive(k'.state) = Alive(k.state) \ {t}
<1>1. ASSUME NEW u \in Threads, u # t
      PROVE  /\ k'.state[u] \in Live <=> k.state[u] \in Live
             /\ k'.state[u] = "NONE" => k.state[u] = "NONE"
             /\ k'.state[u] = "DELETED" => k.state[u] = "DELETED"
  <2>1. CASE u = w
    BY <2>1, NullIsNoThread DEF Live, Sched
  <2>2. CASE u # w
    BY <1>1, <2>2 DEF KeptBut2, Live, Sched
  <2>3. QED
    BY <2>1, <2>2
<1>2. k'.state[t] \notin Live
  BY DEF Live
<1>3. QED
  BY <1>1, <1>2 DEF Alive

(* exit(), which releases the joiner, keeps the invariant.                 *)
LEMMA ExitStep ==
  ASSUME SInv, NEW c \in CPU, Exit(c)
  PROVE  SInv' /\ Did(c)
<1>1. PICK prev : prev = k.chosen[c]
  OBVIOUS
<1>2. Entering(c) /\ KInv(k) /\ Core(k) /\ k.state \in [Threads -> State]
  <2>1. Entering(c) /\ KInv(k) /\ Core(k)
    BY DEF Exit, Calling, SInv, KInv
  <2>2. QED
    BY <2>1 DEF Core
<1>3. prev \in App /\ prev \in Threads /\ k.state[prev] = "RUNNING" /\ pc[c].at # "switch"
  BY <1>1, <1>2, Caller
<1>4. PICK j : j = joining[prev]
  OBVIOUS
<1>5. PICK out : out = [SchedulerRemove(k, prev) EXCEPT !.state[prev] = "FINISHING"]
  OBVIOUS
<1>6. PICK in : in = IF j = Null THEN out ELSE SchedulerInsert([out EXCEPT !.state[j] = "READY"], j)
  OBVIOUS
<1>7. /\ joining' = [joining EXCEPT ![prev] = Null]
      /\ Dispatch(IF in.chosen[c] = Null THEN in ELSE Choose(in, c), c, prev)
  BY <1>1, <1>4, <1>5, <1>6 DEF Exit, Running
<1>8. "FINISHING" \in State \ Sched /\ k.state[prev] \in Sched
  BY <1>3 DEF State, Sched
<1>9. AfterLeave(k, prev, "FINISHING", out)
  BY <1>2, <1>3, <1>5, <1>8, CoreLeave
<1>10. /\ Mid(out, c, prev) /\ ~In(out, prev)
       /\ \A d \in CPU : d # c => out.chosen[d] = k.chosen[d]
  BY <1>1, <1>2, <1>3, <1>8, <1>9, MidLeave
<1>11. /\ out.state[prev] = "FINISHING"
       /\ \A u \in Threads : u # prev => out.state[u] = k.state[u]
  BY <1>2, <1>3, <1>9 DEF AfterLeave, Left
<1>12. j # Null => j \in App /\ j \in Threads /\ k.state[j] = "SUSPENDED" /\ j # prev
  BY <1>3, <1>4, IdleFacts DEF SInv, JoinOK, Live
<1>13. /\ Mid(in, c, prev) /\ ~In(in, prev)
       /\ \A d \in CPU : d # c => in.chosen[d] = k.chosen[d]
       /\ in.state[prev] = "FINISHING"
       /\ j # Null => in.state[j] \in Sched
       /\ \A u \in Threads : u # prev /\ u # j => in.state[u] = k.state[u]
  <2>1. CASE j = Null
    <3>1. in = out
      BY <1>6, <2>1
    <3>2. QED
      BY <3>1, <2>1, <1>10, <1>11
  <2>2. CASE j # Null
    <3>1. in = SchedulerInsert([out EXCEPT !.state[j] = "READY"], j)
      BY <1>6, <2>2
    <3>2. Core(out) /\ out.state[j] \notin Sched /\ out.state \in [Threads -> State]
      BY <1>10, <1>11, <1>12, <2>2 DEF Mid, Core, Sched
    <3>3. AfterWake(out, j, in)
      BY <1>12, <2>2, <3>1, <3>2, CoreWake
    <3>4. Mid(in, c, prev)
      BY <1>10, <1>12, <2>2, <3>2, <3>3, MidWake
    <3>5. in.state = [out.state EXCEPT ![j] = "READY"] /\ in.chosen = out.chosen
      BY <3>3 DEF AfterWake
    <3>6. in.state[j] = "READY" /\ \A u \in Threads : u # j => in.state[u] = out.state[u]
      BY <1>12, <2>2, <3>2, <3>5
    <3>7. in.state[prev] = "FINISHING"
      BY <1>3, <1>11, <1>12, <2>2, <3>6
    <3>8. ~In(in, prev)
      BY <1>3, <3>4, <3>7 DEF Mid, Core, Sched
    <3>9. QED
      BY <1>10, <1>11, <3>4, <3>5, <3>6, <3>7, <3>8 DEF Sched
  <2>3. QED
    BY <2>1, <2>2
<1>14. in.chosen[c] # Null /\ Shape(in) /\ Placed(in)
  BY <1>13, NullIsNoThread DEF Mid, Core
<1>15. PICK x : x = Choose(in, c)
  OBVIOUS
<1>16. AfterChoose(in, c, x)
  BY <1>14, <1>15, ChooseKeeps
<1>17. Mid(x, c, prev) /\ Kept(in, x) /\ \A d \in CPU : d # c => x.chosen[d] = in.chosen[d]
  BY <1>13, <1>16, MidChoose
<1>18. Dispatch(x, c, prev)
  BY <1>7, <1>14, <1>15
<1>19. KInv(k') /\ Kept(x, k') /\ Turned(c)
  BY <1>1, <1>2, <1>13, <1>17, <1>18, DispatchStep
<1>20. Kept(in, k')
  BY <1>17, <1>19 DEF Kept
<1>21. /\ k'.state[prev] = "FINISHING"
       /\ j # Null => k'.state[j] \in Sched
       /\ KeptBut2(k.state, k'.state, prev, j)
  BY <1>3, <1>12, <1>13, <1>20 DEF Kept, KeptBut2, Sched
<1>22. WaitOK(waitq', k'.state)
  <2>1. waitq' = waitq
    BY DEF Exit
  <2>2. Stay(k.state, k'.state, prev)
    <3>1. ASSUME NEW u \in Threads, u # prev
          PROVE  k.state[u] = "WAITING" <=> k'.state[u] = "WAITING"
      <4>1. CASE u = j
        <5>1. k.state[u] = "SUSPENDED" /\ k'.state[u] \in Sched
          BY <1>12, <1>21, <4>1, NullIsNoThread
        <5>2. QED
          BY <5>1 DEF Sched
      <4>2. CASE u # j
        BY <3>1, <4>2, <1>21 DEF KeptBut2, Sched
      <4>3. QED
        BY <4>1, <4>2
    <3>2. QED
      BY <3>1 DEF Stay
  <2>3. QED
    BY <1>3, <1>21, <2>1, <2>2, WaitSame DEF SInv
<1>23. JoinOK(joining', k'.state)
  <2>1. joining \in [Threads -> App \cup {Null}] /\ JoinOK(joining, k.state)
    BY DEF SInv, JoinOK
  <2>2. /\ joining' \in [Threads -> App \cup {Null}] /\ joining'[prev] = Null
        /\ \A u \in Threads : u # prev => joining'[u] = joining[u]
    BY <1>3, <1>7, <2>1
  <2>3. \A u \in Threads : k.state[u] \in Live => joining[u] # prev
    BY <1>3, NotJoining
  <2>4. k.state[prev] \in Live \cup {"FINISHING"} /\ k'.state[prev] \in {"FINISHING", "DELETED"}
    BY <1>3, <1>21 DEF Live
  <2>5. j # Null => k'.state[j] \in Sched /\ j # prev
    BY <1>12, <1>21
  <2>6. KeptBut2(k.state, k'.state, prev, j)
    BY <1>21
  <2>7. QED
    BY <1>3, <1>4, <2>1, <2>2, <2>3, <2>4, <2>5, <2>6, JoinGone
<1>24. exec' = exec /\ loop' \in [Threads -> SUBSET CPU] /\ ContextOK'
  BY DEF Exit, SInv, ContextOK
<1>25. Did(c)
  <2>1. UNCHANGED <<exec, context>> /\ count' = count - 1
    BY DEF Exit
  <2>2. /\ \A u \in Threads : u # prev => /\ k'.state[u] \in Live <=> k.state[u] \in Live
                                          /\ k'.state[u] = "NONE" => k.state[u] = "NONE"
                                          /\ k'.state[u] = "DELETED" => k.state[u] = "DELETED"
        /\ Alive(k'.state) = Alive(k.state) \ {prev}
    BY <1>3, <1>12, <1>21, LivesGone
  <2>3. Aged(c)
    <3>1. ASSUME NEW u \in Threads
          PROVE  /\ k'.state[u] = "NONE" => k.state[u] = "NONE"
                 /\ k'.state[u] = "DELETED" => k.state[u] = "DELETED" \/ u # exec[c]
                 /\ k'.state[u] \in Live => k.state[u] \in Live
      <4>1. CASE u = prev
        BY <1>21, <4>1 DEF Live
      <4>2. CASE u # prev
        BY <2>2, <4>2
      <4>3. QED
        BY <4>1, <4>2
    <3>2. context' = context
      BY <2>1
    <3>3. QED
      BY <3>1, <3>2 DEF Aged
  <2>4. prev \in Alive(k.state)
    BY <1>3 DEF Alive, Live
  <2>5. Counted
    BY <1>3, <2>1, <2>2, <2>4 DEF Counted
  <2>6. QED
    BY <1>3, <1>19, <2>1, <2>3, <2>5 DEF Did
<1>26. QED
  BY <1>3, <1>19, <1>22, <1>23, <1>24, <1>25, Combine

(* ~Thread(): the thread is taken out of whatever list it is in.           *)
Gone(t) == [CASE k.state[t] = "READY" -> SchedulerRemove(k, t)
              [] k.state[t] = "FINISHING" -> k
              [] OTHER -> SchedulerRemove(SchedulerInsert(k, t), t)
            EXCEPT !.state[t] = "DELETED"]

(* ~Thread() leaves no trace of the thread in the lists, whichever of the  *)
(* states it admits the thread is in.                                      *)
LEMMA GoneKeeps ==
  ASSUME NEW t \in App, KInv(k), k.state[t] \in {"READY", "SUSPENDED", "WAITING", "FINISHING"}
  PROVE  AfterRest(k, t, "DELETED", Gone(t))
<1>1. "DELETED" \in State \ Sched /\ Core(k)
  BY DEF State, Sched, KInv
<1>2. CASE k.state[t] = "READY"
  <2>1. PICK x : x = [SchedulerRemove(k, t) EXCEPT !.state[t] = "DELETED"]
    OBVIOUS
  <2>2. k.state[t] \in Sched
    BY <1>2 DEF Sched
  <2>3. AfterLeave(k, t, "DELETED", x)
    BY <1>1, <2>1, <2>2, CoreLeave
  <2>4. KInv(x) /\ x.chosen = k.chosen
    BY <1>1, <1>2, <2>3, LeaveKeeps
  <2>5. AfterRest(k, t, "DELETED", x)
    BY <2>3, <2>4 DEF AfterLeave, Left, AfterRest
  <2>6. Gone(t) = x
    BY <1>2, <2>1 DEF Gone
  <2>7. QED
    BY <2>5, <2>6, Zenon
<1>3. CASE k.state[t] = "FINISHING"
  <2>1. Gone(t) = [k EXCEPT !.state[t] = "DELETED"]
    BY <1>3 DEF Gone
  <2>2. k.state[t] \notin Sched
    BY <1>3 DEF Sched
  <2>3. AfterRest(k, t, "DELETED", [k EXCEPT !.state[t] = "DELETED"])
    BY <1>1, <2>2, RestKeeps
  <2>4. QED
    BY <2>1, <2>3, Zenon
<1>4. CASE k.state[t] \in {"SUSPENDED", "WAITING"}
  <2>1. PICK off : off = SchedulerRemove(SchedulerInsert(k, t), t)
    OBVIOUS
  <2>2. PICK x : x = [off EXCEPT !.state[t] = "DELETED"]
    OBVIOUS
  <2>3. k.state[t] \notin Sched
    BY <1>4 DEF Sched
  <2>4. AfterInOut(k, off)
    BY <2>1, <2>3, InOutKeeps
  <2>5. KInv(off) /\ off.state = k.state /\ off.queue = k.queue /\ off.chosen = k.chosen
    BY <2>4 DEF AfterInOut, SameAttributes
  <2>6. AfterRest(off, t, "DELETED", x)
    BY <1>1, <2>2, <2>3, <2>5, RestKeeps
  <2>7. AfterRest(k, t, "DELETED", x)
    BY <2>5, <2>6 DEF AfterRest
  <2>8. Gone(t) = x
    BY <1>4, <2>1, <2>2 DEF Gone
  <2>9. QED
    BY <2>7, <2>8, Zenon
<1>5. QED
  BY <1>2, <1>3, <1>4

(* ~Thread() of a thread that is in no join() keeps the invariant.         *)
LEMMA DeleteStep ==
  ASSUME SInv, Disciplined, NEW c \in CPU, NEW t \in App, Delete(c, t)
  PROVE  SInv' /\ Did(c)
<1>1. PICK j : j = joining[t]
  OBVIOUS
<1>2. PICK gone : gone = Gone(t)
  OBVIOUS
<1>3. /\ k.state[t] \in {"READY", "SUSPENDED", "WAITING", "FINISHING"}
      /\ Entering(c)
      /\ k.state[t] = "FINISHING" \/ ~Joiner(t)
  BY DEF Delete, Calling, Disciplined
<1>4. \/ ~(j # Null /\ k.state[j] = "SUSPENDED") /\ k' = gone /\ pc' = pc
      \/ /\ j # Null /\ k.state[j] = "SUSPENDED"
         /\ RescheduleCPU(SchedulerInsert([gone EXCEPT !.state[j] = "READY"], j), c, k.queue[j])
  BY <1>1, <1>2 DEF Delete, Gone
<1>5. KInv(k) /\ t \in Threads /\ pc[c].at # "switch" /\ k.state \in [Threads -> State]
  <2>1. KInv(k) /\ t \in Threads /\ pc[c].at # "switch"
    BY <1>3, Caller, IdleFacts DEF SInv
  <2>2. QED
    BY <2>1 DEF KInv, Core
<1>6. /\ KInv(gone) /\ gone.chosen = k.chosen /\ gone.queue = k.queue
      /\ gone.state = [k.state EXCEPT ![t] = "DELETED"]
  <2>1. AfterRest(k, t, "DELETED", gone)
    BY <1>2, <1>3, <1>5, GoneKeeps
  <2>2. QED
    BY <2>1 DEF AfterRest
<1>7. /\ gone.state[t] = "DELETED"
      /\ \A u \in Threads : u # t => gone.state[u] = k.state[u]
  BY <1>5, <1>6
<1>8. j # Null => j \in App /\ j \in Threads /\ k.state[j] = "SUSPENDED" /\ j # t
  <2>1. j # Null => j \in App /\ k.state[t] \in Live /\ k.state[j] = "SUSPENDED"
    BY <1>1, <1>3, <1>5 DEF SInv, JoinOK, Live
  <2>2. j = t => Joiner(t) \/ j = Null
    BY <1>1, <1>5 DEF Joiner
  <2>3. QED
    BY <1>3, <2>1, <2>2, IdleFacts DEF Live
<1>9. /\ KInv(k') /\ Turned(c) /\ k'.state[t] = "DELETED"
      /\ j # Null => k'.state[j] \in Sched
      /\ KeptBut2(k.state, k'.state, t, j)
  <2>1. CASE j = Null
    <3>1. k' = gone /\ pc' = pc
      BY <1>4, <2>1
    <3>2. QED
      BY <2>1, <3>1, <1>6, <1>7 DEF Turned, KeptBut2
  <2>2. CASE j # Null
    <3>1. PICK n : n = SchedulerInsert([gone EXCEPT !.state[j] = "READY"], j)
      OBVIOUS
    <3>2. RescheduleCPU(n, c, k.queue[j]) /\ k.queue[j] \in CPU
      BY <1>4, <1>5, <1>8, <2>2, <3>1 DEF KInv, Core, Shape
    <3>3. gone.state[j] \notin Sched /\ Core(gone) /\ gone.state \in [Threads -> State]
      BY <1>6, <1>7, <1>8, <2>2 DEF Sched, KInv, Core
    <3>4. AfterWake(gone, j, n)
      BY <1>8, <2>2, <3>1, <3>3, CoreWake
    <3>5. KInv(n)
      BY <1>6, <1>8, <2>2, <3>3, <3>4, WakeKeeps
    <3>6. n.chosen = k.chosen /\ n.state = [gone.state EXCEPT ![j] = "READY"]
      BY <1>6, <3>4 DEF AfterWake
    <3>7. n.state[j] = "READY" /\ \A u \in Threads : u # j => n.state[u] = gone.state[u]
      BY <1>8, <2>2, <3>3, <3>6
    <3>8. KInv(k') /\ Kept(n, k') /\ Turned(c)
      BY <1>5, <3>2, <3>5, <3>6, RescheduleCPUStep
    <3>9. n.state[t] = "DELETED"
      BY <1>5, <1>7, <1>8, <2>2, <3>7
    <3>10. k'.state[t] = "DELETED" /\ k'.state[j] \in Sched
      BY <1>5, <1>8, <2>2, <3>7, <3>8, <3>9 DEF Kept, Sched
    <3>11. KeptBut2(k.state, k'.state, t, j)
      BY <1>7, <3>7, <3>8 DEF Kept, KeptBut2
    <3>12. QED
      BY <3>8, <3>10, <3>11
  <2>3. QED
    BY <2>1, <2>2
<1>10. WaitOK(waitq', k'.state)
  <2>1. waitq' = [q \in Sync |-> RemoveFirst(waitq[q], t)]
    BY DEF Delete
  <2>2. Stay(k.state, k'.state, t)
    <3>1. ASSUME NEW u \in Threads, u # t
          PROVE  k.state[u] = "WAITING" <=> k'.state[u] = "WAITING"
      <4>1. CASE u = j
        <5>1. k.state[u] = "SUSPENDED" /\ k'.state[u] \in Sched
          BY <1>8, <1>9, <4>1, NullIsNoThread
        <5>2. QED
          BY <5>1 DEF Sched
      <4>2. CASE u # j
        BY <3>1, <4>2, <1>9 DEF KeptBut2, Sched
      <4>3. QED
        BY <4>1, <4>2
    <3>2. QED
      BY <3>1 DEF Stay
  <2>3. WaitOK(waitq, k.state)
    BY DEF SInv
  <2>4. ASSUME NEW q \in Sync
        PROVE  /\ RemoveFirst(waitq[q], t) \in Seq(Threads)
               /\ ToSet(RemoveFirst(waitq[q], t)) = ToSet(waitq[q]) \ {t}
               /\ Distinct(RemoveFirst(waitq[q], t))
    <3>1. waitq[q] \in Seq(Threads) /\ Distinct(waitq[q])
      BY <2>3 DEF WaitOK
    <3>2. QED
      BY <3>1, RemoveFirstElements
  <2>5. PICK y : y = [q \in Sync |-> RemoveFirst(waitq[q], t)]
    OBVIOUS
  <2>6. \A q \in Sync : y[q] = RemoveFirst(waitq[q], t)
    BY <2>5
  <2>7. y \in [Sync -> Seq(Threads)]
    BY <2>4, <2>5
  <2>8. \A q \in Sync : Distinct(y[q]) /\ ToSet(y[q]) = ToSet(waitq[q]) \ {t}
    BY <2>4, <2>6
  <2>9. WaitOK(y, k'.state)
    <3>1. k'.state[t] # "WAITING"
      BY <1>9
    <3>2. QED
      BY <1>5, <2>2, <2>3, <2>7, <2>8, <3>1, WaitRemove
  <2>10. QED
    BY <2>1, <2>5, <2>9, Zenon
<1>11. JoinOK(joining', k'.state)
  <2>1. joining' = joining
    BY DEF Delete
  <2>2. joining \in [Threads -> App \cup {Null}] /\ JoinOK(joining, k.state)
    BY DEF SInv, JoinOK
  <2>3. \A u \in Threads : k.state[u] \in Live => joining[u] # t
    BY <1>3, <1>5, NotJoining
  <2>4. k.state[t] \in Live \cup {"FINISHING"} /\ k'.state[t] \in {"FINISHING", "DELETED"}
    BY <1>3, <1>9 DEF Live
  <2>5. j # Null => k'.state[j] \in Sched /\ j # t
    BY <1>8, <1>9
  <2>6. KeptBut2(k.state, k'.state, t, j) /\ k'.state[t] = "DELETED"
    BY <1>9
  <2>7. JoinOK(joining, k'.state)
    BY <1>1, <1>5, <2>2, <2>3, <2>4, <2>5, <2>6, JoinGone
  <2>8. QED
    BY <2>1, <2>7, Zenon
<1>12. exec' = exec /\ loop' \in [Threads -> SUBSET CPU] /\ ContextOK'
  BY DEF Delete, SInv, ContextOK
<1>13. Did(c)
  <2>1. /\ UNCHANGED <<exec, context>>
        /\ count' = IF k.state[t] = "FINISHING" THEN count ELSE count - 1
    BY DEF Delete
  <2>2. /\ \A u \in Threads : u # t => /\ k'.state[u] \in Live <=> k.state[u] \in Live
                                       /\ k'.state[u] = "NONE" => k.state[u] = "NONE"
                                       /\ k'.state[u] = "DELETED" => k.state[u] = "DELETED"
        /\ Alive(k'.state) = Alive(k.state) \ {t}
    BY <1>5, <1>8, <1>9, LivesGone
  <2>3. t # exec[c]
    BY <1>3, Caller DEF Delete, Running
  <2>4. Aged(c)
    <3>1. ASSUME NEW u \in Threads
          PROVE  /\ k'.state[u] = "NONE" => k.state[u] = "NONE"
                 /\ k'.state[u] = "DELETED" => k.state[u] = "DELETED" \/ u # exec[c]
                 /\ k'.state[u] \in Live => k.state[u] \in Live
      <4>1. CASE u = t
        BY <1>9, <2>3, <4>1 DEF Live
      <4>2. CASE u # t
        BY <2>2, <4>2
      <4>3. QED
        BY <4>1, <4>2
    <3>2. context' = context
      BY <2>1
    <3>3. QED
      BY <3>1, <3>2 DEF Aged
  <2>5. Counted
    <3>1. CASE k.state[t] = "FINISHING"
      <4>1. t \notin Alive(k.state)
        BY <3>1 DEF Alive, Live
      <4>2. Alive(k'.state) = Alive(k.state)
        BY <2>2, <4>1
      <4>3. QED
        BY <2>1, <3>1, <4>2 DEF Counted
    <3>2. CASE k.state[t] # "FINISHING"
      <4>1. t \in Alive(k.state)
        BY <1>3, <1>5, <3>2 DEF Alive, Live
      <4>2. QED
        BY <2>1, <2>2, <3>2, <4>1 DEF Counted
    <3>3. QED
      BY <3>1, <3>2
  <2>6. QED
    BY <1>5, <1>9, <2>1, <2>4, <2>5 DEF Did
<1>14. QED
  BY <1>5, <1>9, <1>10, <1>11, <1>12, <1>13, Combine

(* reschedule() after a change that leaves states and chosen threads alone *)
(* keeps the invariant.                                                    *)
LEMMA TurnStep ==
  ASSUME SInv, NEW c \in CPU, pc[c].at # "switch", NEW s, KInv(s), s.chosen = k.chosen,
         s.state = k.state, UNCHANGED <<waitq, joining, exec, context, loop, count>>,
         Reschedule(s, c) \/ (pc' = pc /\ \E I \in SUBSET CPU : k' = [s EXCEPT !.ipi = I])
  PROVE  SInv' /\ Did(c)
<1>1. KInv(k) /\ loop' \in [Threads -> SUBSET CPU]
  BY DEF SInv
<1>2. CASE Reschedule(s, c)
  <2>1. KInv(k') /\ Kept(s, k') /\ Turned(c)
    BY <1>1, <1>2, RescheduleStep
  <2>2. Kept(k, k')
    BY <2>1 DEF Kept
  <2>3. QED
    BY <1>1, <2>1, <2>2, QuietStep
<1>3. ASSUME NEW I \in SUBSET CPU, k' = [s EXCEPT !.ipi = I], pc' = pc PROVE SInv' /\ Did(c)
  <2>1. AfterIpi(s, k')
    BY <1>3, IpiKeeps
  <2>2. KInv(k') /\ k'.state = k.state /\ k'.chosen = k.chosen
    BY <2>1 DEF AfterIpi
  <2>3. Turned(c) /\ Kept(k, k')
    BY <1>3, <2>2 DEF Turned, Kept
  <2>4. QED
    BY <1>1, <2>2, <2>3, QuietStep
<1>4. QED
  BY <1>2, <1>3

(* priority() of a running or a ready thread keeps the invariant.          *)
LEMMA PriorityStep ==
  ASSUME SInv, Disciplined, NEW c \in CPU, NEW t \in App, NEW r \in Ranks, NEW cpu \in CPU,
         Priority(c, t, r, cpu)
  PROVE  SInv' /\ Did(c)
<1>1. /\ Entering(c) /\ k.state[t] \in {"RUNNING", "READY"} /\ k.target[t] = NoTarget
      /\ k.state[t] = "RUNNING" => cpu = k.queue[t]
      /\ t = Main => cpu = k.queue[t]
  <2>1. Calling(c, IF /\ k.state[t] = "RUNNING" \/ t = Main => cpu = k.queue[t]
                      /\ k.state[t] \in {"RUNNING", "READY"} /\ k.target[t] = NoTarget
                   THEN "priority" ELSE "priority_any")
    BY DEF Priority
  <2>2. QED
    BY <2>1 DEF Calling, Disciplined
<1>2. pc[c].at # "switch" /\ KInv(k) /\ Core(k) /\ t \in Threads /\ k.queue[t] \in CPU
  <2>1. pc[c].at # "switch" /\ KInv(k) /\ t \in Threads
    BY <1>1, Caller, IdleFacts DEF SInv
  <2>2. QED
    BY <2>1 DEF KInv, Core, Shape
<1>3. r \in 0..IdleRank
  BY ThreadAssumption
<1>4. PICK s : s = IF k.state[t] = "RUNNING" THEN [k EXCEPT !.rank[t] = r, !.queue[t] = cpu]
                   ELSE SchedulerInsert([SchedulerRemove(k, t) EXCEPT !.rank[t] = r,
                                                                      !.queue[t] = cpu], t)
  OBVIOUS
<1>5. KInv(s) /\ s.chosen = k.chosen /\ s.state = k.state
  <2>1. CASE k.state[t] = "RUNNING"
    <3>1. s = [k EXCEPT !.rank[t] = r, !.queue[t] = k.queue[t]]
      BY <1>1, <1>4, <2>1
    <3>2. AfterIpi(k, s)
      BY <1>2, <1>3, <3>1, RankKeeps
    <3>3. QED
      BY <3>2 DEF AfterIpi
  <2>2. CASE k.state[t] = "READY"
    <3>1. PICK o : o = SchedulerRemove(k, t)
      OBVIOUS
    <3>2. PICK z : z = [o EXCEPT !.rank[t] = r, !.queue[t] = cpu]
      OBVIOUS
    <3>3. DOMAIN o = Fields
      <4>1. In(k, t) /\ Shape(k) /\ Placed(k)
        BY <1>2, <2>2 DEF Core, Sched
      <4>2. AfterRemove(k, t, o)
        BY <1>2, <3>1, <4>1, RemoveKeeps
      <4>3. QED
        BY <4>2 DEF AfterRemove, Shape
    <3>4. /\ Requeued(o, t, cpu, z) /\ z.state = o.state /\ z.target = o.target
          /\ z.ipi = o.ipi /\ z.rank = [o.rank EXCEPT ![t] = r]
      BY <3>2, <3>3 DEF Fields, Requeued
    <3>5. AfterPut(k, t, SchedulerInsert(z, t))
      BY <1>1, <1>2, <1>3, <2>2, <3>1, <3>4, PutElsewhere
    <3>6. s = SchedulerInsert(z, t)
      BY <1>4, <2>2, <3>1, <3>2
    <3>7. AfterPut(k, t, s)
      BY <3>5, <3>6, Zenon
    <3>8. QED
      BY <3>7 DEF AfterPut
  <2>3. QED
    BY <1>1, <2>1, <2>2
<1>6. \/ k' = [s EXCEPT !.ipi = @ \cup ({k.queue[t], cpu} \ {c})] /\ pc' = pc
      \/ Reschedule(s, c)
  BY <1>4 DEF Priority
<1>7. Reschedule(s, c) \/ (pc' = pc /\ \E I \in SUBSET CPU : k' = [s EXCEPT !.ipi = I])
  <2>1. s.ipi \cup ({k.queue[t], cpu} \ {c}) \in SUBSET CPU
    BY <1>2, <1>5 DEF KInv, Core
  <2>2. QED
    BY <1>6, <2>1
<1>8. UNCHANGED <<waitq, joining, exec, context, loop, count>>
  BY DEF Priority
<1>9. QED
  BY <1>2, <1>5, <1>7, <1>8, TurnStep

(* What the balancer decides leaves states and chosen threads alone.       *)
LEMMA BalancedKeeps ==
  ASSUME SInv, Disciplined, NEW c \in CPU, NEW s \in Balanced(c)
  PROVE  KInv(s) /\ s.chosen = k.chosen /\ s.state = k.state
<1>1. KInv(k) /\ k.ipi \in SUBSET CPU /\ k.queue \in [Threads -> CPU]
  BY DEF SInv, KInv, Core, Shape
<1>2. \A t \in Movable : t \in App \ {Main} /\ t \in Threads /\ k.target[t] = NoTarget
  BY IdleFacts DEF Movable, Disciplined
<1>3. ASSUME NEW x, KInv(x), x.chosen = k.chosen, x.state = k.state, s = Executed(x, c)
      PROVE  KInv(s) /\ s.chosen = k.chosen /\ s.state = k.state
  <2>1. PICK I \in SUBSET CPU : I = k.ipi \cup (x.ipi \ {c})
    BY <1>1, <1>3 DEF KInv, Core
  <2>2. Executed(x, c) = [x EXCEPT !.ipi = I]
    BY <2>1 DEF Executed
  <2>3. AfterIpi(x, [x EXCEPT !.ipi = I])
    BY <1>3, IpiKeeps
  <2>4. AfterIpi(x, s)
    BY <1>3, <2>2, <2>3, Zenon
  <2>5. QED
    BY <1>3, <2>4 DEF AfterIpi
<1>4. CASE s = k
  BY <1>1, <1>4
<1>5. CASE s \in {Executed(Prepared(k, m[1], m[2]), c) :
                    m \in {n \in Movable \X CPU : n[2] # k.queue[n[1]]}}
  <2>1. PICK t \in Movable, cpu \in CPU : cpu # k.queue[t] /\ s = Executed(Prepared(k, t, cpu), c)
    BY <1>5
  <2>2. PICK x : x = Prepared(k, t, cpu)
    OBVIOUS
  <2>3. AfterPut(k, t, x)
    BY <1>1, <1>2, <2>1, <2>2, PreparedKeeps
  <2>4. KInv(x) /\ x.chosen = k.chosen /\ x.state = k.state
    BY <2>3 DEF AfterPut
  <2>5. QED
    BY <1>3, <2>1, <2>2, <2>4
<1>6. CASE s \in {Executed(Prepared(Prepared(k, m[1], k.queue[m[2]]), m[2], k.queue[m[1]]), c) :
                    m \in {n \in Movable \X Movable : k.queue[n[1]] # k.queue[n[2]]}}
  <2>1. PICK t \in Movable, u \in Movable :
           /\ k.queue[t] # k.queue[u]
           /\ s = Executed(Prepared(Prepared(k, t, k.queue[u]), u, k.queue[t]), c)
    BY <1>6
  <2>2. PICK x : x = Prepared(k, t, k.queue[u])
    OBVIOUS
  <2>3. PICK y : y = Prepared(x, u, k.queue[t])
    OBVIOUS
  <2>4. k.queue[t] \in CPU /\ k.queue[u] \in CPU /\ t # u
    BY <1>1, <1>2, <2>1
  <2>5. AfterPut(k, t, x)
    BY <1>1, <1>2, <2>1, <2>2, <2>4, PreparedKeeps
  <2>6. /\ KInv(x) /\ x.chosen = k.chosen /\ x.state = k.state
        /\ x.queue[u] = k.queue[u] /\ x.target[u] = NoTarget
    BY <1>2, <2>4, <2>5 DEF AfterPut
  <2>7. AfterPut(x, u, y)
    BY <1>2, <2>1, <2>3, <2>4, <2>6, PreparedKeeps
  <2>8. KInv(y) /\ y.chosen = k.chosen /\ y.state = k.state
    BY <2>6, <2>7 DEF AfterPut
  <2>9. QED
    BY <1>3, <2>1, <2>2, <2>3, <2>8
<1>7. QED
  BY <1>4, <1>5, <1>6 DEF Balanced

(* The timer interrupt, with the balancer, and the inter-processor         *)
(* interrupt keep the invariant.                                           *)
LEMMA InterruptStep ==
  ASSUME SInv, Disciplined, NEW c \in CPU, Rescheduler(c) \/ TimeSlicer(c)
  PROVE  SInv' /\ Did(c)
<1>1. pc[c].at # "switch" /\ UNCHANGED <<waitq, joining, exec, context, loop, count>>
  BY PlaceFacts DEF Rescheduler, TimeSlicer
<1>2. CASE Rescheduler(c)
  <2>1. PICK I \in SUBSET CPU : I = k.ipi \ {c}
    BY DEF SInv, KInv, Core
  <2>2. PICK s : s = [k EXCEPT !.ipi = I]
    OBVIOUS
  <2>3. AfterIpi(k, s)
    BY <2>2, IpiKeeps DEF SInv
  <2>4. KInv(s) /\ s.chosen = k.chosen /\ s.state = k.state
    BY <2>3 DEF AfterIpi
  <2>5. Reschedule(s, c)
    BY <1>2, <2>1, <2>2 DEF Rescheduler
  <2>6. QED
    BY <1>1, <2>4, <2>5, TurnStep
<1>3. CASE TimeSlicer(c)
  <2>1. PICK s \in Balanced(c) : Reschedule(s, c)
    BY <1>3 DEF TimeSlicer
  <2>2. KInv(s) /\ s.chosen = k.chosen /\ s.state = k.state
    BY BalancedKeeps
  <2>3. QED
    BY <1>1, <2>1, <2>2, TurnStep
<1>4. QED
  BY <1>2, <1>3

(* CPU::switch_context() keeps the invariant: c goes on with the thread    *)
(* the scheduler chose.                                                    *)
LEMMA SwitchStep ==
  ASSUME SInv, NEW c \in CPU, Switch(c)
  PROVE  SInv'
<1>1. PICK prev, next : prev = pc[c].prev /\ next = pc[c].next
  OBVIOUS
<1>2. /\ pc[c].at = "switch" /\ prev \in Threads /\ next \in Threads
      /\ exec[c] = prev /\ k.chosen[c] = next
      /\ pc \in [CPU -> Places] /\ exec \in [CPU -> Threads]
  BY <1>1, PlaceFacts DEF Switch, SInv, Flow, RunningIsExecuting
<1>3. /\ context[next] # Null
      /\ context' = [context EXCEPT ![next] = Null, ![prev] = Context(prev, FALSE)]
      /\ exec' = [exec EXCEPT ![c] = context[next].flow]
      /\ pc' = [pc EXCEPT ![c] = IF context[next].fresh THEN AtWork ELSE [at |-> "resume"]]
      /\ UNCHANGED <<k, waitq, joining, loop>>
  BY <1>1, <1>2 DEF Switch
<1>4. PICK p : p = IF context[next].fresh THEN AtWork ELSE [at |-> "resume"]
  OBVIOUS
<1>5. p \in Places /\ p.at # "switch"
  BY <1>4, PlaceFacts
<1>6. context[next].flow = next
  BY <1>2, <1>3 DEF SInv, ContextOK
<1>7. /\ pc' \in [CPU -> Places] /\ pc'[c] = p
      /\ \A d \in CPU : d # c => pc'[d] = pc[d]
  BY <1>2, <1>3, <1>4, <1>5
<1>8. /\ exec' \in [CPU -> Threads] /\ exec'[c] = next
      /\ \A d \in CPU : d # c => exec'[d] = exec[d]
  BY <1>2, <1>3, <1>6
<1>9. Flow'
  <2>1. ASSUME NEW d \in CPU
        PROVE  IF pc'[d].at = "switch" THEN exec'[d] = pc'[d].prev /\ k'.chosen[d] = pc'[d].next
                                       ELSE exec'[d] = k'.chosen[d]
    <3>1. CASE d # c
      BY <1>3, <1>7, <1>8, <3>1 DEF SInv, Flow, RunningIsExecuting
    <3>2. CASE d = c
      BY <1>2, <1>3, <1>5, <1>7, <1>8, <3>2
    <3>3. QED
      BY <3>1, <3>2
  <2>2. QED
    BY <1>7, <1>8, <2>1 DEF Flow, RunningIsExecuting
<1>10. ContextOK'
  <2>1. Context(prev, FALSE).flow = prev
    BY DEF Context
  <2>2. QED
    BY <1>2, <1>3, <2>1 DEF SInv, ContextOK
<1>11. QED
  BY <1>3, <1>9, <1>10 DEF SInv

(* idle() leaving its loop and coming to the barrier keeps the invariant.  *)
LEMMA IdleStep ==
  ASSUME SInv, NEW c \in CPU, Leave(c)
  PROVE  SInv'
<1>1. pc[c].at # "switch"
  BY PlaceFacts DEF Leave
<1>2. UNCHANGED <<k, waitq, joining, exec, context, loop>>
  BY DEF Leave
<1>3. PICK p : p = [at |-> "barrier"]
  OBVIOUS
<1>4. p \in Places /\ p.at # "switch" /\ pc' = [pc EXCEPT ![c] = p]
  BY <1>3, PlaceFacts DEF Leave
<1>5. pc' \in [CPU -> Places] /\ pc'[c] = p /\ \A d \in CPU : d # c => pc'[d] = pc[d]
  BY <1>4 DEF SInv, Flow
<1>6. RunningIsExecuting'
  BY <1>1, <1>2, <1>4, <1>5 DEF SInv, Flow, RunningIsExecuting
<1>7. QED
  BY <1>2, <1>5, <1>6 DEF SInv, Flow, ContextOK

-----------------------------------------------------------------------------
(* No two CPUs are on one stack, and only a CPU that has not switched since*)
(* it was booted is on the stack of a thread with a context.               *)
StackOK ==
    /\ \A c, d \in CPU : c # d => exec[c] # exec[d]
    /\ \A c \in CPU : \/ context[exec[c]] = Null
                      \/ exec[c] = Idle[c]
                      \/ exec[c] = Main /\ c = BSP
    /\ \A t \in Threads : k.state[t] \in Live => (\E c \in CPU : exec[c] = t) \/ context[t] # Null
    /\ \A c \in CPU : pc[c].at = "switch" => pc[c].prev # pc[c].next
    /\ \A c \in CPU : k.state[exec[c]] # "NONE"

(* No CPUs wait only for each other.                                       *)
Untangled == \A D \in (SUBSET CPU) \ {{}} : \E c \in D : WaitsFor(c) \cap D = {}

(* The second inductive invariant: the lives of the threads                *)
LInv == /\ StackOK
        /\ k.state[Main] # "NONE"
        /\ Untangled
        /\ CountIsExact
        /\ ShutdownWhenDone
        /\ NCPUS = 1 => FreedStackUnused

(* What CPU c's place becomes by an operation there.                       *)
LEMMA TurnedPlaces ==
  ASSUME NEW c \in CPU, SInv, KInv(k'), Turned(c)
  PROVE  /\ \A d \in CPU : d # c => pc'[d] = pc[d]
         /\ \/ pc'[c] = pc[c]
            \/ pc'[c].at \notin {"switch", "barrier"}
            \/ /\ pc'[c].at = "switch" /\ pc'[c].prev = k.chosen[c]
               /\ pc'[c].next = k'.chosen[c] /\ k'.chosen[c] # k.chosen[c]
<1>1. k.chosen[c] \in Threads /\ k'.chosen[c] \in Threads /\ pc \in [CPU -> Places]
  BY DEF SInv, Flow, KInv, Core
<1>2. CASE pc' = pc
  BY <1>2
<1>3. ASSUME NEW p \in Places, pc' = [pc EXCEPT ![c] = p],
             \/ p.at \notin {"switch", "barrier"} /\ k'.chosen[c] = k.chosen[c]
             \/ p = Switching(k.chosen[c], k'.chosen[c]) /\ k'.chosen[c] # k.chosen[c]
      PROVE  /\ \A d \in CPU : d # c => pc'[d] = pc[d]
             /\ \/ pc'[c].at \notin {"switch", "barrier"}
                \/ /\ pc'[c].at = "switch" /\ pc'[c].prev = k.chosen[c]
                   /\ pc'[c].next = k'.chosen[c] /\ k'.chosen[c] # k.chosen[c]
  <2>1. pc'[c] = p /\ \A d \in CPU : d # c => pc'[d] = pc[d]
    BY <1>1, <1>3
  <2>2. QED
    BY <1>1, <1>3, <2>1, PlaceFacts
<1>4. QED
  BY <1>2, <1>3 DEF Turned

(* Two CPUs have not chosen the same thread.                               *)
LEMMA OneChosen ==
  ASSUME NEW c \in CPU, NEW d \in CPU, KInv(k), k.chosen[c] = k.chosen[d]
  PROVE  c = d
  BY NullIsNoThread DEF KInv, Core, Placed

(* An operation leaves each CPU on a stack of its own.                     *)
LEMMA DidStack ==
  ASSUME NEW c \in CPU, SInv, KInv(k'), StackOK, Did(c)
  PROVE  StackOK'
<1>1. /\ exec' = exec /\ \A d \in CPU : exec[d] \in Threads
      /\ \A d \in CPU : d # c => pc'[d] = pc[d]
      /\ \/ pc'[c] = pc[c]
         \/ pc'[c].at \notin {"switch", "barrier"}
         \/ /\ pc'[c].at = "switch" /\ pc'[c].prev = k.chosen[c]
            /\ pc'[c].next = k'.chosen[c] /\ k'.chosen[c] # k.chosen[c]
  BY TurnedPlaces DEF Did, SInv, Flow
<1>2. Aged(c)
  BY DEF Did
<1>3. \A a, d \in CPU : a # d => exec'[a] # exec'[d]
  BY <1>1 DEF StackOK
<1>4. ASSUME NEW d \in CPU
      PROVE  context'[exec[d]] = context[exec[d]] /\ k'.state[exec[d]] # "NONE"
  <2>1. k.state[exec[d]] # "NONE" /\ exec[d] \in Threads
    BY <1>1 DEF StackOK
  <2>2. QED
    BY <1>2, <2>1 DEF Aged
<1>5. \A d \in CPU : \/ context'[exec'[d]] = Null
                     \/ exec'[d] = Idle[d]
                     \/ exec'[d] = Main /\ d = BSP
  BY <1>1, <1>4 DEF StackOK
<1>6. ASSUME NEW t \in Threads, k'.state[t] \in Live
      PROVE  (\E d \in CPU : exec'[d] = t) \/ context'[t] # Null
  <2>1. CASE context'[t] # Null
    BY <2>1
  <2>2. CASE context'[t] = context[t] /\ k.state[t] \in Live
    BY <1>1, <2>2 DEF StackOK
  <2>3. QED
    BY <1>2, <1>6, <2>1, <2>2 DEF Aged
<1>7. ASSUME NEW d \in CPU, pc'[d].at = "switch" PROVE pc'[d].prev # pc'[d].next
  <2>1. CASE pc'[d] = pc[d]
    BY <1>7, <2>1 DEF StackOK
  <2>2. CASE d = c
    BY <1>1, <1>7, <2>1, <2>2
  <2>3. QED
    BY <1>1, <2>1, <2>2
<1>8. \A d \in CPU : k'.state[exec'[d]] # "NONE"
  BY <1>1, <1>4
<1>9. QED
  BY <1>3, <1>5, <1>6, <1>7, <1>8 DEF StackOK

(* Whom a CPU waits for, one by one.                                       *)
LEMMA Waits ==
  ASSUME NEW a, NEW d
  PROVE  d \in WaitsFor(a) <=> /\ d \in CPU
                               /\ pc[a].at = "switch" /\ context[pc[a].next] = Null
                               /\ pc[d].at = "switch" /\ pc[d].prev = pc[a].next
  BY DEF WaitsFor

(* The same in the next state.                                             *)
LEMMA WaitsNext ==
  ASSUME NEW CONSTANT a, NEW CONSTANT d
  PROVE  d \in WaitsFor(a)' <=> /\ d \in CPU
                                /\ pc'[a].at = "switch" /\ context'[pc'[a].next] = Null
                                /\ pc'[d].at = "switch" /\ pc'[d].prev = pc'[a].next
  BY DEF WaitsFor

(* A CPU that starts to wait is waited for by no one, since the thread it  *)
(* leaves was its own: an operation closes no cycle.                       *)
LEMMA DidUntangled ==
  ASSUME NEW c \in CPU, SInv, KInv(k'), StackOK, Untangled, Did(c)
  PROVE  Untangled'
<1>1. /\ \A d \in CPU : d # c => pc'[d] = pc[d]
      /\ \/ pc'[c] = pc[c]
         \/ pc'[c].at \notin {"switch", "barrier"}
         \/ /\ pc'[c].at = "switch" /\ pc'[c].prev = k.chosen[c]
            /\ pc'[c].next = k'.chosen[c] /\ k'.chosen[c] # k.chosen[c]
  BY TurnedPlaces DEF Did
<1>2. \A u \in Threads : context'[u] = Null => context[u] = Null
  BY DEF Did, Aged
<1>3. \A d \in CPU : pc[d].at = "switch" => pc[d].next \in Threads /\ k.chosen[d] = pc[d].next
  BY PlaceFacts DEF SInv, Flow, RunningIsExecuting
<1>4. ASSUME NEW a \in CPU, NEW d \in CPU, d \in WaitsFor(a)', pc'[a] = pc[a], pc'[d] = pc[d]
      PROVE  d \in WaitsFor(a)
  <2>1. /\ pc[a].at = "switch" /\ context'[pc[a].next] = Null
        /\ pc[d].at = "switch" /\ pc[d].prev = pc[a].next
    BY <1>4, WaitsNext
  <2>2. QED
    BY <1>2, <1>3, <2>1, Waits
<1>5. \A a : WaitsFor(a)' \subseteq CPU
  BY WaitsNext
<1>6. CASE pc'[c] = pc[c] \/ pc'[c].at # "switch"
  <2>1. ASSUME NEW a \in CPU PROVE WaitsFor(a)' \subseteq WaitsFor(a)
    <3>1. ASSUME NEW d \in WaitsFor(a)' PROVE d \in WaitsFor(a)
      <4>1. pc'[a].at = "switch" /\ pc'[d].at = "switch" /\ d \in CPU
        BY WaitsNext
      <4>2. pc'[a] = pc[a] /\ pc'[d] = pc[d]
        BY <1>1, <1>6, <4>1
      <4>3. QED
        BY <1>4, <4>1, <4>2
    <3>2. QED
      BY <3>1
  <2>2. ASSUME NEW D \in (SUBSET CPU) \ {{}} PROVE \E a \in D : WaitsFor(a)' \cap D = {}
    <3>1. PICK a \in D : WaitsFor(a) \cap D = {}
      BY DEF Untangled
    <3>2. QED
      BY <2>1, <3>1
  <2>3. QED
    BY <2>2 DEF Untangled
<1>7. CASE /\ pc'[c].at = "switch" /\ pc'[c].prev = k.chosen[c]
           /\ pc'[c].next = k'.chosen[c] /\ k'.chosen[c] # k.chosen[c]
  <2>1. ASSUME NEW a \in CPU PROVE c \notin WaitsFor(a)'
    <3>1. SUFFICES ASSUME c \in WaitsFor(a)' PROVE FALSE
      OBVIOUS
    <3>2. pc'[a].at = "switch" /\ pc'[c].prev = pc'[a].next
      BY <3>1, WaitsNext
    <3>3. a # c
      BY <1>7, <3>2
    <3>4. k.chosen[a] = k.chosen[c]
      BY <1>1, <1>3, <1>7, <3>2, <3>3
    <3>5. QED
      BY <3>3, <3>4, OneChosen DEF SInv
  <2>2. ASSUME NEW D \in (SUBSET CPU) \ {{}} PROVE \E a \in D : WaitsFor(a)' \cap D = {}
    <3>1. CASE D \ {c} = {}
      <4>1. c \in D /\ \A d \in D : d = c
        <5>1. \A d \in D : d = c
          BY <3>1
        <5>2. \E d : d \in D
          OBVIOUS
        <5>3. QED
          BY <5>1, <5>2
      <4>2. WaitsFor(c)' \cap D = {}
        BY <2>1, <4>1
      <4>3. QED
        BY <4>1, <4>2
    <3>2. CASE D \ {c} # {}
      <4>1. D \ {c} \in (SUBSET CPU) \ {{}}
        BY <3>2
      <4>2. PICK a \in D \ {c} : WaitsFor(a) \cap (D \ {c}) = {}
        BY <4>1 DEF Untangled
      <4>3. ASSUME NEW d \in WaitsFor(a)', d \in D PROVE FALSE
        <5>1. d # c /\ a # c /\ a \in CPU /\ d \in CPU
          BY <2>1, <4>2, <4>3
        <5>2. d \in WaitsFor(a)
          BY <1>1, <1>4, <4>3, <5>1
        <5>3. QED
          BY <4>2, <4>3, <5>1, <5>2
      <4>4. QED
        BY <4>2, <4>3
    <3>3. QED
      BY <3>1, <3>2
  <2>3. QED
    BY <2>2 DEF Untangled
<1>8. QED
  BY <1>1, <1>6, <1>7

(* The threads are finitely many, and each CPU has an idle one.            *)
LEMMA FiniteThreads ==
  /\ IsFiniteSet(Threads) /\ IsFiniteSet(Idles) /\ Cardinality(Idles) = NCPUS
  /\ \A st : IsFiniteSet(Alive(st)) /\ Cardinality(Alive(st)) \in Nat
<1>1. IsFiniteSet(CPU) /\ Cardinality(CPU) = NCPUS
  BY FS_Interval, ThreadAssumption DEF CPU
<1>2. ExistsBijection(CPU, Idles)
  <2>1. Idle \in [CPU -> Idles]
    BY ThreadAssumption
  <2>2. \A c, d \in CPU : Idle[c] = Idle[d] => c = d
    BY ThreadAssumption
  <2>3. \A t \in Idles : \E c \in CPU : Idle[c] = t
    BY DEF Idles
  <2>4. Idle \in Bijection(CPU, Idles)
    BY <2>1, <2>2, <2>3 DEF Bijection, Injection, Surjection, IsInjective
  <2>5. QED
    BY <2>4 DEF ExistsBijection
<1>3. IsFiniteSet(Idles) /\ Cardinality(Idles) = NCPUS
  BY <1>1, <1>2, FS_Bijection
<1>4. IsFiniteSet(Threads)
  BY <1>3, ThreadAssumption, FS_Union DEF Threads
<1>5. ASSUME NEW st PROVE IsFiniteSet(Alive(st)) /\ Cardinality(Alive(st)) \in Nat
  <2>1. Alive(st) \in SUBSET Threads
    BY DEF Alive
  <2>2. IsFiniteSet(Alive(st))
    BY <1>4, <2>1, FS_Subset
  <2>3. QED
    BY <2>2, FS_CardinalityType
<1>6. QED
  BY <1>3, <1>4, <1>5

(* _thread_count stays the number of the threads that have not finished.   *)
LEMMA DidCount ==
  ASSUME CountIsExact, Counted
  PROVE  CountIsExact'
<1>1. count = Cardinality(Alive(k.state)) /\ IsFiniteSet(Alive(k.state))
  BY FiniteThreads DEF CountIsExact, Alive
<1>2. count' = Cardinality(Alive(k'.state))
  <2>1. CASE Alive(k'.state) = Alive(k.state) /\ count' = count
    BY <1>1, <2>1
  <2>2. ASSUME NEW t \in App, t \notin Alive(k.state), count' = count + 1,
               Alive(k'.state) = Alive(k.state) \cup {t}
        PROVE  count' = Cardinality(Alive(k'.state))
    BY <1>1, <2>2, FS_AddElement
  <2>3. ASSUME NEW t \in App, t \in Alive(k.state), count' = count - 1,
               Alive(k'.state) = Alive(k.state) \ {t}
        PROVE  count' = Cardinality(Alive(k'.state))
    BY <1>1, <2>3, FS_RemoveElement
  <2>4. QED
    BY <2>1, <2>2, <2>3 DEF Counted
<1>3. QED
  BY <1>2 DEF CountIsExact, Alive

(* Once a CPU is at the barrier no one is left to create a thread.         *)
LEMMA DidShutdown ==
  ASSUME NEW c \in CPU, SInv, KInv(k'), ShutdownWhenDone, Did(c)
  PROVE  ShutdownWhenDone'
<1>1. SUFFICES ASSUME NEW d \in CPU, pc'[d].at = "barrier", NEW t \in App, k'.state[t] \in Live
               PROVE  FALSE
  BY DEF ShutdownWhenDone
<1>2. pc[d].at = "barrier"
  <2>1. CASE d = c
    BY <1>1, <2>1, TurnedPlaces DEF Did
  <2>2. CASE d # c
    BY <1>1, <2>2, TurnedPlaces DEF Did
  <2>3. QED
    BY <2>1, <2>2
<1>3. \A u \in App : k.state[u] \notin Live
  BY <1>2 DEF ShutdownWhenDone
<1>4. t \in Threads
  BY IdleFacts
<1>5. k.state[t] \in Live \/ Entering(c)
  BY <1>1, <1>4 DEF Did, Aged
<1>6. Entering(c)
  BY <1>3, <1>5
<1>7. k.chosen[c] \in App /\ k.state[k.chosen[c]] = "RUNNING"
  BY <1>6, Caller
<1>8. QED
  BY <1>3, <1>7 DEF Live

(* On a single processor the CPU is never on the stack of a deleted thread.*)
LEMMA DidFreed ==
  ASSUME NEW c \in CPU, SInv, NCPUS = 1, FreedStackUnused, Did(c)
  PROVE  FreedStackUnused'
<1>1. \A d \in CPU : d = c
  BY DEF CPU
<1>2. exec' = exec /\ exec[c] \in Threads /\ k.state[exec[c]] # "DELETED"
  BY DEF Did, SInv, Flow, FreedStackUnused
<1>3. k'.state[exec[c]] # "DELETED"
  BY <1>2 DEF Did, Aged
<1>4. QED
  BY <1>1, <1>2, <1>3 DEF FreedStackUnused

(* An operation keeps the second invariant.                                *)
LEMMA DidKeeps ==
  ASSUME NEW c \in CPU, SInv, KInv(k'), LInv, Did(c)
  PROVE  LInv'
<1>1. StackOK'
  BY DidStack DEF LInv
<1>2. Untangled'
  BY DidUntangled DEF LInv
<1>3. CountIsExact'
  BY DidCount DEF LInv, Did
<1>4. ShutdownWhenDone'
  BY DidShutdown DEF LInv
<1>5. NCPUS = 1 => FreedStackUnused'
  BY DidFreed DEF LInv
<1>6. k'.state[Main] # "NONE"
  BY IdleFacts DEF LInv, Did, Aged
<1>7. QED
  BY <1>1, <1>2, <1>3, <1>4, <1>5, <1>6 DEF LInv

(* A switch takes a stack that no CPU is on, and puts one away: what       *)
(* while(!next->_context) is for.                                          *)
LEMMA SwitchKeepsLives ==
  ASSUME NEW c \in CPU, SInv, LInv, Switch(c)
  PROVE  LInv'
<1>1. PICK prev, next : prev = pc[c].prev /\ next = pc[c].next
  OBVIOUS
<1>2. /\ pc[c].at = "switch" /\ prev \in Threads /\ next \in Threads
      /\ exec[c] = prev /\ k.chosen[c] = next /\ KInv(k)
      /\ pc \in [CPU -> Places] /\ exec \in [CPU -> Threads] /\ DOMAIN context = Threads
  BY <1>1, PlaceFacts DEF Switch, SInv, Flow, RunningIsExecuting, ContextOK
<1>3. prev # next
  BY <1>1, <1>2 DEF LInv, StackOK
<1>4. /\ context[next] # Null
      /\ context' = [context EXCEPT ![next] = Null, ![prev] = Context(prev, FALSE)]
      /\ exec' = [exec EXCEPT ![c] = context[next].flow]
      /\ pc' = [pc EXCEPT ![c] = IF context[next].fresh THEN AtWork ELSE [at |-> "resume"]]
      /\ k' = k /\ count' = count
  BY <1>1, <1>2 DEF Switch
<1>5. context[next].flow = next
  BY <1>2, <1>4 DEF SInv, ContextOK
<1>6. /\ exec'[c] = next /\ \A d \in CPU : d # c => exec'[d] = exec[d]
  BY <1>2, <1>4, <1>5
<1>7. /\ pc'[c].at \notin {"switch", "barrier"} /\ \A d \in CPU : d # c => pc'[d] = pc[d]
  <2>1. PICK p : p = IF context[next].fresh THEN AtWork ELSE [at |-> "resume"]
    OBVIOUS
  <2>2. p.at \notin {"switch", "barrier"}
    BY <2>1, PlaceFacts
  <2>3. QED
    BY <1>2, <1>4, <2>1, <2>2
<1>8. /\ context'[next] = Null /\ context'[prev] # Null
      /\ \A u \in Threads : u # next /\ u # prev => context'[u] = context[u]
  <2>1. PICK x : x = Context(prev, FALSE)
    OBVIOUS
  <2>2. x # Null
    BY <1>2, <2>1, ContextAssumption
  <2>3. context' = [context EXCEPT ![next] = Null, ![prev] = x]
    BY <1>4, <2>1
  <2>4. QED
    BY <1>2, <1>3, <2>2, <2>3
<1>9. k.state[next] \in Sched /\ k.queue[next] = c
  BY <1>2, NullIsNoThread DEF KInv, Core, Placed, In
<1>10. \A d \in CPU : exec[d] # next
  <2>1. ASSUME NEW d \in CPU, exec[d] = next PROVE FALSE
    <3>1. d # c
      BY <1>2, <1>3, <2>1
    <3>2. CASE next = Idle[d]
      <4>1. k.queue[Idle[d]] = d
        BY <1>2 DEF KInv, Core, AtHome
      <4>2. QED
        BY <1>9, <3>1, <3>2, <4>1
    <3>3. CASE next = Main /\ d = BSP
      <4>1. k.queue[Main] = BSP
        BY <1>2 DEF KInv, Core, AtHome
      <4>2. QED
        BY <1>9, <3>1, <3>3, <4>1
    <3>4. QED
      BY <1>4, <2>1, <3>2, <3>3 DEF LInv, StackOK
  <2>2. QED
    BY <2>1
<1>11. \A d \in CPU : d # c => exec[d] # prev /\ exec[d] \in Threads
  BY <1>2 DEF LInv, StackOK
<1>12. StackOK'
  <2>1. \A a, d \in CPU : a # d => exec'[a] # exec'[d]
    <3>1. \A a, d \in CPU : a # d => exec[a] # exec[d]
      BY DEF LInv, StackOK
    <3>2. QED
      BY <1>6, <1>10, <3>1
  <2>2. ASSUME NEW d \in CPU
        PROVE  context'[exec'[d]] = Null \/ exec'[d] = Idle[d] \/ (exec'[d] = Main /\ d = BSP)
    <3>1. CASE d = c
      BY <1>6, <1>8, <3>1
    <3>2. CASE d # c
      <4>1. exec'[d] = exec[d] /\ context'[exec[d]] = context[exec[d]]
        BY <1>6, <1>8, <1>10, <1>11, <3>2
      <4>2. QED
        BY <4>1 DEF LInv, StackOK
    <3>3. QED
      BY <3>1, <3>2
  <2>3. ASSUME NEW t \in Threads, k.state[t] \in Live
        PROVE  (\E d \in CPU : exec'[d] = t) \/ context'[t] # Null
    <3>1. CASE t = next
      BY <1>6, <3>1
    <3>2. CASE t = prev
      BY <1>8, <3>2
    <3>3. CASE t # next /\ t # prev
      <4>1. CASE context[t] # Null
        BY <1>8, <3>3, <4>1
      <4>2. ASSUME NEW d \in CPU, exec[d] = t PROVE \E e \in CPU : exec'[e] = t
        <5>1. d # c
          BY <1>2, <3>3, <4>2
        <5>2. QED
          BY <1>6, <4>2, <5>1
      <4>3. QED
        BY <2>3, <4>1, <4>2 DEF LInv, StackOK
    <3>4. QED
      BY <3>1, <3>2, <3>3
  <2>4. \A d \in CPU : pc'[d].at = "switch" => pc'[d].prev # pc'[d].next
    BY <1>7 DEF LInv, StackOK
  <2>5. ASSUME NEW d \in CPU PROVE k.state[exec'[d]] # "NONE"
    <3>1. CASE d = c
      BY <1>6, <1>9, <3>1 DEF Sched
    <3>2. CASE d # c
      BY <1>6, <3>2 DEF LInv, StackOK
    <3>3. QED
      BY <3>1, <3>2
  <2>6. QED
    BY <1>4, <2>1, <2>2, <2>3, <2>4, <2>5 DEF StackOK
<1>13. Untangled'
  <2>1. ASSUME NEW a \in CPU PROVE WaitsFor(a)' \subseteq WaitsFor(a)
    <3>1. ASSUME NEW d \in WaitsFor(a)' PROVE d \in WaitsFor(a)
      <4>1. /\ d \in CPU
            /\ pc'[a].at = "switch" /\ context'[pc'[a].next] = Null
            /\ pc'[d].at = "switch" /\ pc'[d].prev = pc'[a].next
        BY <3>1, WaitsNext
      <4>2. a # c /\ d # c /\ pc'[a] = pc[a] /\ pc'[d] = pc[d]
        BY <1>7, <4>1
      <4>3. pc[a].next \in Threads /\ k.chosen[a] = pc[a].next
        BY <4>1, <4>2, PlaceFacts DEF SInv, Flow, RunningIsExecuting
      <4>4. pc[a].next # next
        BY <1>2, <4>2, <4>3, OneChosen
      <4>5. context[pc[a].next] = Null
        BY <1>8, <4>1, <4>2, <4>3, <4>4
      <4>6. QED
        BY <4>1, <4>2, <4>5, Waits
    <3>2. QED
      BY <3>1
  <2>2. ASSUME NEW D \in (SUBSET CPU) \ {{}} PROVE \E a \in D : WaitsFor(a)' \cap D = {}
    <3>1. PICK a \in D : WaitsFor(a) \cap D = {}
      BY DEF LInv, Untangled
    <3>2. QED
      BY <2>1, <3>1
  <2>3. QED
    BY <2>2 DEF Untangled
<1>14. CountIsExact'
  BY <1>4 DEF LInv, CountIsExact
<1>15. ShutdownWhenDone'
  BY <1>4, <1>7 DEF LInv, ShutdownWhenDone
<1>16. NCPUS = 1 => FreedStackUnused'
  <2>1. ASSUME NCPUS = 1, NEW d \in CPU PROVE k.state[exec'[d]] # "DELETED"
    <3>1. d = c
      BY <2>1 DEF CPU
    <3>2. QED
      BY <1>6, <1>9, <3>1 DEF Sched
  <2>2. QED
    BY <1>4, <2>1 DEF FreedStackUnused
<1>17. k'.state[Main] # "NONE"
  BY <1>4 DEF LInv
<1>18. QED
  BY <1>12, <1>13, <1>14, <1>15, <1>16, <1>17 DEF LInv

(* When the count says that only the idle threads are left, they are.      *)
LEMMA OnlyIdle ==
  ASSUME SInv, CountIsExact, count <= NCPUS
  PROVE  \A t \in App : k.state[t] \notin Live
<1>1. SUFFICES ASSUME NEW t \in App, k.state[t] \in Live PROVE FALSE
  OBVIOUS
<1>2. t \notin Idles /\ t \in Threads
  BY IdleFacts, ThreadAssumption
<1>3. Idles \subseteq Alive(k.state)
  <2>1. ASSUME NEW c \in CPU PROVE Idle[c] \in Alive(k.state)
    <3>1. Idle[c] \in Threads /\ k.state[Idle[c]] \in Sched
      BY IdleFacts DEF SInv, KInv, Core, AtHome
    <3>2. QED
      BY <3>1 DEF Alive, Live, Sched
  <2>2. QED
    BY <2>1 DEF Idles
<1>4. Idles \cup {t} \in SUBSET Alive(k.state)
  BY <1>1, <1>2, <1>3 DEF Alive
<1>5. Cardinality(Idles \cup {t}) = NCPUS + 1
  BY <1>2, FiniteThreads, FS_AddElement
<1>6. Cardinality(Idles \cup {t}) <= Cardinality(Alive(k.state))
  BY <1>4, FiniteThreads, FS_Subset
<1>7. count = Cardinality(Alive(k.state)) /\ Cardinality(Alive(k.state)) \in Nat
  BY FiniteThreads DEF CountIsExact, Alive
<1>8. NCPUS \in Nat
  BY ThreadAssumption
<1>9. QED
  BY <1>5, <1>6, <1>7, <1>8

(* idle() comes to the barrier when no other thread is left.               *)
LEMMA IdleKeepsLives ==
  ASSUME NEW c \in CPU, SInv, LInv, Leave(c)
  PROVE  LInv'
<1>1. UNCHANGED <<k, count, exec, context>> /\ count <= NCPUS
  BY DEF Leave
<1>2. pc'[c].at = "barrier" /\ \A d \in CPU : d # c => pc'[d] = pc[d]
  BY DEF Leave, SInv, Flow
<1>3. StackOK'
  <2>1. \A d \in CPU : pc'[d].at = "switch" => pc'[d].prev # pc'[d].next
    BY <1>2 DEF LInv, StackOK
  <2>2. QED
    BY <1>1, <2>1 DEF LInv, StackOK
<1>4. Untangled'
  <2>1. ASSUME NEW a \in CPU PROVE WaitsFor(a)' \subseteq WaitsFor(a)
    <3>1. ASSUME NEW d \in WaitsFor(a)' PROVE d \in WaitsFor(a)
      <4>1. /\ d \in CPU
            /\ pc'[a].at = "switch" /\ context'[pc'[a].next] = Null
            /\ pc'[d].at = "switch" /\ pc'[d].prev = pc'[a].next
        BY <3>1, WaitsNext
      <4>2. pc'[a] = pc[a] /\ pc'[d] = pc[d]
        BY <1>2, <4>1
      <4>3. QED
        BY <1>1, <4>1, <4>2, Waits
    <3>2. QED
      BY <3>1
  <2>2. ASSUME NEW D \in (SUBSET CPU) \ {{}} PROVE \E a \in D : WaitsFor(a)' \cap D = {}
    <3>1. PICK a \in D : WaitsFor(a) \cap D = {}
      BY DEF LInv, Untangled
    <3>2. QED
      BY <2>1, <3>1
  <2>3. QED
    BY <2>2 DEF Untangled
<1>5. CountIsExact' /\ k'.state[Main] # "NONE"
  BY <1>1 DEF LInv, CountIsExact
<1>6. ShutdownWhenDone'
  <2>1. \A t \in App : k.state[t] \notin Live
    BY <1>1, OnlyIdle DEF LInv
  <2>2. QED
    BY <1>1, <2>1 DEF ShutdownWhenDone
<1>7. NCPUS = 1 => FreedStackUnused'
  BY <1>1 DEF LInv, FreedStackUnused
<1>8. QED
  BY <1>3, <1>4, <1>5, <1>6, <1>7 DEF LInv

-----------------------------------------------------------------------------
(* Thread::init() establishes the invariant.                               *)
LEMMA InitKeeps ==
  ASSUME Disciplined, Init
  PROVE  SInv
<1>1. /\ 0 \in CPU /\ Main \in App /\ Main \in Threads /\ Main \notin Idles
      /\ \A c \in CPU : Idle[c] \in Threads /\ Idle[c] \in Idles /\ Idle[c] \notin App
  BY ThreadAssumption, IdleFacts DEF CPU, Threads
<1>2. PICK target \in [Boot -> Uninit] :
       k = [chosen |-> [c \in CPU |-> IF c = BSP THEN Main ELSE Idle[c]],
            ready  |-> [c \in CPU |-> IF c = BSP THEN <<Idle[c]>> ELSE <<>>],
            rank   |-> Rank,
            queue  |-> [t \in Threads |->
                          IF t \in Idles THEN CHOOSE c \in CPU : t = Idle[c] ELSE BSP],
            intact |-> TRUE,
            state  |-> [t \in Threads |-> IF t = Main THEN "RUNNING"
                                          ELSE IF t \in Idles THEN "READY" ELSE "NONE"],
            target |-> [t \in Threads |-> IF t \in Boot THEN target[t] ELSE NoTarget],
            ipi    |-> {}]
  BY DEF Init
<1>3. /\ DOMAIN k = Fields /\ k.intact = TRUE /\ k.ipi = {} /\ k.rank = Rank
      /\ k.chosen = [c \in CPU |-> IF c = BSP THEN Main ELSE Idle[c]]
      /\ k.ready = [c \in CPU |-> IF c = BSP THEN <<Idle[c]>> ELSE <<>>]
      /\ k.queue = [t \in Threads |-> IF t \in Idles THEN CHOOSE c \in CPU : t = Idle[c] ELSE BSP]
      /\ k.state = [t \in Threads |-> IF t = Main THEN "RUNNING"
                                      ELSE IF t \in Idles THEN "READY" ELSE "NONE"]
      /\ k.target = [t \in Threads |-> IF t \in Boot THEN target[t] ELSE NoTarget]
  BY <1>2 DEF Fields
<1>4. ASSUME NEW c \in CPU PROVE (CHOOSE d \in CPU : Idle[c] = Idle[d]) = c
  BY ThreadAssumption
<1>5. /\ k.queue \in [Threads -> CPU] /\ k.queue[Main] = 0
      /\ \A c \in CPU : k.queue[Idle[c]] = c
  <2>1. ASSUME NEW t \in Threads
        PROVE  (IF t \in Idles THEN CHOOSE c \in CPU : t = Idle[c] ELSE BSP) \in CPU
    <3>1. CASE t \in Idles
      <4>1. \E c \in CPU : t = Idle[c]
        BY <3>1 DEF Idles
      <4>2. QED
        BY <3>1, <4>1
    <3>2. CASE t \notin Idles
      BY <1>1, <3>2 DEF BSP
    <3>3. QED
      BY <3>1, <3>2
  <2>2. k.queue \in [Threads -> CPU]
    BY <1>3, <2>1
  <2>3. k.queue[Main] = 0
    BY <1>1, <1>3 DEF BSP
  <2>4. \A c \in CPU : k.queue[Idle[c]] = c
    BY <1>1, <1>3, <1>4
  <2>5. QED
    BY <2>2, <2>3, <2>4
<1>6. /\ k.chosen \in [CPU -> Threads] /\ k.chosen[0] = Main
      /\ \A c \in CPU : c # 0 => k.chosen[c] = Idle[c]
  BY <1>1, <1>3 DEF BSP
<1>7. /\ k.ready \in [CPU -> Seq(Threads)] /\ k.ready[0] = <<Idle[0]>>
      /\ \A c \in CPU : c # 0 => k.ready[c] = <<>>
  BY <1>1, <1>3 DEF BSP
<1>8. Distinct(<<Idle[0]>>) /\ ToSet(<<Idle[0]>>) = {Idle[0]} /\ Distinct(<<>>) /\ ToSet(<<>>) = {}
  BY DEF Distinct, ToSet
<1>9. /\ k.state \in [Threads -> State] /\ k.state[Main] = "RUNNING"
      /\ \A c \in CPU : k.state[Idle[c]] = "READY"
      /\ \A t \in Threads : t # Main /\ t \notin Idles => k.state[t] = "NONE"
  BY <1>1, <1>3 DEF State
<1>10. \A t \in Threads : k.target[t] = NoTarget
  BY <1>3 DEF Disciplined
<1>11. k.target \in [Threads -> CPU \cup {NoTarget}]
  BY <1>3, <1>10
<1>12. Shape(k)
  BY <1>3, <1>5, <1>6, <1>7 DEF Shape
<1>13. \A c \in CPU : /\ Distinct(k.ready[c]) /\ k.chosen[c] # Null /\ k.queue[k.chosen[c]] = c
                      /\ k.chosen[c] \notin ToSet(k.ready[c])
                      /\ \A t \in ToSet(k.ready[c]) : k.queue[t] = c
  <2>1. Main # Idle[0] /\ Main # Null /\ \A c \in CPU : Idle[c] # Null
    BY <1>1, NullIsNoThread
  <2>2. ASSUME NEW c \in CPU, c = 0
        PROVE  /\ Distinct(k.ready[c]) /\ k.chosen[c] # Null /\ k.queue[k.chosen[c]] = c
               /\ k.chosen[c] \notin ToSet(k.ready[c])
               /\ \A t \in ToSet(k.ready[c]) : k.queue[t] = c
    BY <1>5, <1>6, <1>7, <1>8, <2>1, <2>2
  <2>3. ASSUME NEW c \in CPU, c # 0
        PROVE  /\ Distinct(k.ready[c]) /\ k.chosen[c] # Null /\ k.queue[k.chosen[c]] = c
               /\ k.chosen[c] \notin ToSet(k.ready[c])
               /\ \A t \in ToSet(k.ready[c]) : k.queue[t] = c
    BY <1>5, <1>6, <1>7, <1>8, <2>1, <2>3
  <2>4. QED
    BY <2>2, <2>3
<1>14. Placed(k)
  BY <1>3, <1>13 DEF Placed
<1>15. ASSUME NEW t \in Threads PROVE In(k, t) <=> k.state[t] \in Sched
  <2>1. CASE t = Main
    BY <1>5, <1>6, <1>9, <2>1 DEF In, Sched
  <2>2. CASE t \in Idles
    <3>1. PICK c \in CPU : t = Idle[c]
      BY <2>2 DEF Idles
    <3>2. In(k, t)
      <4>1. k.queue[t] = c
        BY <1>5, <3>1
      <4>2. CASE c = 0
        BY <1>7, <1>8, <3>1, <4>1, <4>2 DEF In
      <4>3. CASE c # 0
        BY <1>6, <3>1, <4>1, <4>3 DEF In
      <4>4. QED
        BY <4>2, <4>3
    <3>3. QED
      BY <1>9, <3>1, <3>2 DEF Sched
  <2>3. CASE t # Main /\ t \notin Idles
    <3>1. k.state[t] \notin Sched
      BY <1>9, <2>3 DEF Sched
    <3>2. \A c \in CPU : k.chosen[c] # t /\ t \notin ToSet(k.ready[c])
      BY <1>1, <1>6, <1>7, <1>8, <2>3
    <3>3. QED
      BY <1>5, <3>1, <3>2 DEF In
  <2>4. QED
    BY <2>1, <2>2, <2>3
<1>16. AtHome(k)
  BY <1>1, <1>5, <1>9, <1>10 DEF AtHome, Sched, BSP
<1>17. Core(k)
  <2>1. k.rank \in [Threads -> 0..IdleRank]
    BY <1>3, ThreadAssumption
  <2>2. \A c \in CPU : k.chosen[c] \in Threads
    BY <1>6
  <2>3. QED
    BY <1>3, <1>9, <1>10, <1>11, <1>12, <1>14, <1>15, <1>16, <2>1, <2>2 DEF Core
<1>18. KInv(k)
  <2>1. \A t \in Threads : k.state[t] = "RUNNING" => t = Main
    BY <1>9 DEF Idles
  <2>2. \A c \in CPU : k.chosen[c] \in App => k.chosen[c] = Main
    BY <1>1, <1>6
  <2>3. QED
    BY <1>5, <1>6, <1>9, <1>17, <2>1, <2>2 DEF KInv
<1>19. WaitOK(waitq, k.state)
  <2>1. waitq \in [Sync -> Seq(Threads)] /\ \A q \in Sync : waitq[q] = <<>>
    BY DEF Init
  <2>2. QED
    <3>1. \A t \in Threads : k.state[t] # "WAITING"
      BY <1>9 DEF Idles
    <3>2. QED
      BY <1>8, <2>1, <3>1 DEF WaitOK
<1>20. JoinOK(joining, k.state)
  BY DEF Init, JoinOK
<1>21. Flow
  <2>1. /\ pc \in [CPU -> Places] /\ \A c \in CPU : pc[c] = AtWork
    BY PlaceFacts DEF Init
  <2>2. exec \in [CPU -> Threads] /\ \A c \in CPU : exec[c] = k.chosen[c]
    BY <1>1, <1>6 DEF Init, BSP
  <2>3. QED
    BY <2>1, <2>2, PlaceFacts DEF Flow, RunningIsExecuting
<1>22. ContextOK
  <2>1. \A t \in Threads : Context(t, TRUE).flow = t
    BY DEF Context
  <2>2. QED
    BY <2>1 DEF Init, ContextOK
<1>23. loop \in [Threads -> SUBSET CPU]
  BY DEF Init
<1>24. QED
  BY <1>18, <1>19, <1>20, <1>21, <1>22, <1>23 DEF SInv

(* The second invariant at the beginning: only the idle threads and the    *)
(* main one are alive, and each CPU is on the stack of its own.            *)
LEMMA InitLives ==
  ASSUME Disciplined, Init
  PROVE  LInv
<1>1. /\ 0 \in CPU /\ Main \in App /\ Main \in Threads /\ Main \notin Idles
      /\ \A c \in CPU : Idle[c] \in Threads /\ Idle[c] \in Idles /\ Idle[c] # Main
  BY ThreadAssumption, IdleFacts DEF CPU, Threads, Idles
<1>2. k.state = [t \in Threads |-> IF t = Main THEN "RUNNING"
                                   ELSE IF t \in Idles THEN "READY" ELSE "NONE"]
  BY DEF Init
<1>3. \A t \in Threads : k.state[t] \in Live <=> t \in Idles \cup {Main}
  BY <1>2 DEF Live
<1>4. exec \in [CPU -> Threads] /\ exec[0] = Main /\ \A c \in CPU : c # 0 => exec[c] = Idle[c]
  BY <1>1 DEF Init, BSP
<1>5. \A c, d \in CPU : Idle[c] = Idle[d] => c = d
  BY ThreadAssumption
<1>6. \A c \in CPU : pc[c].at \notin {"switch", "barrier"}
  BY PlaceFacts DEF Init
<1>7. StackOK
  <2>1. \A c, d \in CPU : c # d => exec[c] # exec[d]
    BY <1>1, <1>4, <1>5
  <2>2. \A c \in CPU : exec[c] = Idle[c] \/ (exec[c] = Main /\ c = BSP)
    BY <1>4 DEF BSP
  <2>3. ASSUME NEW t \in Threads, k.state[t] \in Live PROVE context[t] # Null
    <3>1. t \in Boot
      BY <1>3, <2>3 DEF Boot
    <3>2. context[t] = Context(t, TRUE)
      BY <3>1 DEF Init
    <3>3. QED
      BY <3>2, ContextAssumption
  <2>4. \A c \in CPU : k.state[exec[c]] # "NONE"
    BY <1>1, <1>2, <2>2
  <2>5. QED
    BY <1>6, <2>1, <2>2, <2>3, <2>4 DEF StackOK
<1>8. Untangled
  <2>1. \A c \in CPU : WaitsFor(c) = {}
    BY <1>6 DEF WaitsFor
  <2>2. QED
    BY <2>1 DEF Untangled
<1>9. CountIsExact
  <2>1. {t \in Threads : k.state[t] \in Live} = Idles \cup {Main}
    BY <1>1, <1>3 DEF Threads
  <2>2. Cardinality(Idles \cup {Main}) = NCPUS + 1
    BY <1>1, FiniteThreads, FS_AddElement
  <2>3. count = NCPUS + 1
    BY DEF Init
  <2>4. QED
    BY <2>1, <2>2, <2>3 DEF CountIsExact
<1>10. ShutdownWhenDone
  BY <1>6 DEF ShutdownWhenDone
<1>11. FreedStackUnused
  <2>1. \A t \in Threads : k.state[t] # "DELETED"
    BY <1>2
  <2>2. QED
    BY <1>4, <2>1 DEF FreedStackUnused
<1>12. k.state[Main] # "NONE"
  BY <1>1, <1>2
<1>13. QED
  BY <1>7, <1>8, <1>9, <1>10, <1>11, <1>12 DEF LInv

(* Nothing happens.                                                        *)
LEMMA StutterKeeps ==
  ASSUME SInv, LInv, UNCHANGED vars
  PROVE  SInv' /\ LInv'
<1>1. SInv'
  BY DEF vars, SInv, Flow, RunningIsExecuting, ContextOK
<1>2. UNCHANGED <<k, pc, exec, context, count>>
  BY DEF vars
<1>3. StackOK'
  BY <1>2 DEF LInv, StackOK
<1>4. Untangled'
  <2>1. \A a \in CPU : WaitsFor(a)' = WaitsFor(a)
    BY <1>2 DEF WaitsFor
  <2>2. QED
    BY <2>1 DEF LInv, Untangled
<1>5. CountIsExact' /\ ShutdownWhenDone' /\ (NCPUS = 1 => FreedStackUnused')
  BY <1>2 DEF LInv, CountIsExact, ShutdownWhenDone, FreedStackUnused
<1>6. QED
  BY <1>1, <1>2, <1>3, <1>4, <1>5 DEF LInv

(* The operations of Thread keep both invariants.                          *)
LEMMA OperationKeeps ==
  ASSUME Disciplined, SInv, LInv, NEW c \in CPU, Operation(c)
  PROVE  SInv' /\ LInv'
<1>1. ASSUME SInv', Did(c) PROVE SInv' /\ LInv'
  BY <1>1, DidKeeps DEF SInv
<1>2. CASE \E t \in App, st \in {"READY", "SUSPENDED"}, cpu \in CPU : Create(c, t, st, cpu)
  BY <1>1, <1>2, CreateStep DEF LInv
<1>3. CASE \E t \in App : Join(c, t) \/ Pass(c, t) \/ Suspend(c, t) \/ Resume(c, t) \/ Delete(c, t)
  BY <1>1, <1>3, JoinStep, PassStep, SuspendStep, ResumeStep, DeleteStep
<1>4. CASE \E t \in App, r \in Ranks, cpu \in CPU : Priority(c, t, r, cpu)
  BY <1>1, <1>4, PriorityStep
<1>5. CASE Yield(c)
  <2>1. pc[c].at # "switch"
    BY <1>5, Caller DEF Yield, Calling
  <2>2. QED
    BY <1>1, <1>5, <2>1, YieldStep DEF Yield
<1>6. CASE Exit(c)
  BY <1>1, <1>6, ExitStep
<1>7. QED
  BY <1>2, <1>3, <1>4, <1>5, <1>6 DEF Operation

(* So do the calls that the synchronizers make.                            *)
LEMMA CallKeeps ==
  ASSUME SInv, LInv, NEW c \in CPU, NEW q \in Sync, Entering(c),
         Sleep(c, q) \/ Wakeup(c, q) \/ WakeupAll(c, q)
  PROVE  SInv' /\ LInv'
<1>1. SInv' /\ Did(c)
  BY SleepStep, WakeupStep, WakeupAllStep
<1>2. QED
  BY <1>1, DidKeeps DEF SInv

(* So does what a CPU does by itself.                                      *)
LEMMA KernelKeeps ==
  ASSUME Disciplined, SInv, LInv, NEW c \in CPU, Kernel(c)
  PROVE  SInv' /\ LInv'
<1>1. ASSUME SInv', Did(c) PROVE SInv' /\ LInv'
  BY <1>1, DidKeeps DEF SInv
<1>2. CASE IdleYield(c)
  <2>1. pc[c].at # "switch"
    BY <1>2, PlaceFacts DEF IdleYield
  <2>2. QED
    BY <1>1, <1>2, <2>1, YieldStep DEF IdleYield
<1>3. CASE Switch(c)
  BY <1>3, SwitchStep, SwitchKeepsLives
<1>4. CASE Leave(c)
  BY <1>4, IdleStep, IdleKeepsLives
<1>5. QED
  BY <1>1, <1>2, <1>3, <1>4, WakeAllStep, NotifyReenterStep, InterruptStep DEF Kernel

(* Every step keeps both invariants.                                       *)
LEMMA NextKeeps ==
  ASSUME Disciplined, SInv, LInv, [Next]_vars
  PROVE  SInv' /\ LInv'
<1>1. CASE UNCHANGED vars
  BY <1>1, StutterKeeps
<1>2. CASE Reboot
  BY <1>2, StutterKeeps DEF Reboot
<1>3. ASSUME NEW c \in CPU, Operation(c) PROVE SInv' /\ LInv'
  BY <1>3, OperationKeeps
<1>4. ASSUME NEW c \in CPU, Synchronize(c) PROVE SInv' /\ LInv'
  BY <1>4, CallKeeps DEF Synchronize, Calling
<1>5. ASSUME NEW c \in CPU, Kernel(c) PROVE SInv' /\ LInv'
  BY <1>5, KernelKeeps
<1>6. QED
  BY <1>1, <1>2, <1>3, <1>4, <1>5 DEF Next

(* Both invariants hold of every state the threads reach.                  *)
THEOREM Invariance == ASSUME Disciplined PROVE Spec => [](SInv /\ LInv)
<1>1. Init => SInv /\ LInv
  BY InitKeeps, InitLives
<1>2. SInv /\ LInv /\ [Next]_vars => SInv' /\ LInv'
  BY NextKeeps
<1>3. QED
  BY <1>1, <1>2, PTL DEF Spec

(* The scheduler's lists stay intact, whatever the CPUs, the application   *)
(* and the balancer do: no element is linked twice, none is unlinked from  *)
(* a list it is not in and no list is found empty that must not be.        *)
THEOREM ListsStayIntact == ASSUME Disciplined PROVE Spec => []ListsIntact
<1>1. SInv => ListsIntact
  <2>1. SInv => k.intact = TRUE
    BY DEF SInv, KInv, Core, Placed
  <2>2. QED
    BY <2>1, Zenon DEF ListsIntact
<1>2. QED
  BY <1>1, Invariance, PTL

(* The idle thread of a CPU, which never blocks and never leaves it, is    *)
(* there to be chosen whatever the others do.                              *)
THEOREM IdleStaysHome == ASSUME Disciplined PROVE Spec => []AtLeastIdle
<1>1. SInv => AtLeastIdle
  <2>1. ASSUME SInv, NEW c \in CPU PROVE k.chosen[c] = Idle[c] \/ IsLinked(k, Idle[c], c)
    <3>1. Core(k) /\ Idle[c] \in Threads
      BY <2>1, IdleFacts DEF SInv, KInv
    <3>2. k.queue[Idle[c]] = c /\ k.state[Idle[c]] \in Sched
      BY <3>1 DEF Core, AtHome
    <3>3. In(k, Idle[c])
      BY <3>1, <3>2 DEF Core
    <3>4. QED
      BY <3>2, <3>3 DEF In, IsLinked
  <2>2. QED
    BY <2>1 DEF AtLeastIdle
<1>2. QED
  BY <1>1, Invariance, PTL

(* Whoever a CPU executes is the thread its scheduler has chosen, but for  *)
(* the moment between dispatch() giving the lock back and the switch.      *)
THEOREM ChosenIsExecuted == ASSUME Disciplined PROVE Spec => []RunningIsExecuting
<1>1. SInv => RunningIsExecuting
  BY DEF SInv, Flow
<1>2. QED
  BY <1>1, Invariance, PTL

(* A thread of the application that executes is marked RUNNING.            *)
THEOREM ExecutedIsRunning == ASSUME Disciplined PROVE Spec => []ExecutingIsRunning
<1>1. SInv => ExecutingIsRunning
  <2>1. ASSUME SInv, NEW c \in CPU, pc[c] = AtWork, exec[c] \in App
        PROVE  k.state[exec[c]] = "RUNNING"
    <3>1. exec[c] = k.chosen[c]
      BY <2>1, PlaceFacts DEF SInv, Flow, RunningIsExecuting
    <3>2. QED
      BY <2>1, <3>1 DEF SInv, KInv
  <2>2. QED
    BY <2>1 DEF ExecutingIsRunning
<1>2. QED
  BY <1>1, Invariance, PTL

(* The places of a thread in the scheduler, one by one.                    *)
LEMMA ScheduledPlaces ==
  ASSUME NEW t, NEW p
  PROVE  p \in Scheduled(t) <=>
           \E c \in CPU : \/ k.chosen[c] = t /\ p = <<c, 0>>
                          \/ \E i \in DOMAIN k.ready[c] : k.ready[c][i] = t /\ p = <<c, i>>
BY DEF Scheduled

(* The places of a thread in the waiting queues, one by one.               *)
LEMMA BlockedPlaces ==
  ASSUME NEW t, NEW p
  PROVE  p \in Blocked(t) <=>
           \E q \in Sync : \E i \in DOMAIN waitq[q] : waitq[q][i] = t /\ p = <<q, i>>
BY DEF Blocked

(* A chosen thread has that place only.                                    *)
LEMMA ChosenPlace ==
  ASSUME Core(k), NEW t \in Threads, k.chosen[k.queue[t]] = t
  PROVE  Scheduled(t) = {<<k.queue[t], 0>>}
<1>1. k.queue[t] \in CPU
  BY DEF Core, Shape
<1>2. ASSUME NEW c \in CPU, k.chosen[c] = t PROVE c = k.queue[t]
  BY <1>2, NullIsNoThread DEF Core, Placed
<1>3. ASSUME NEW c \in CPU, NEW i \in DOMAIN k.ready[c], k.ready[c][i] = t PROVE FALSE
  <2>1. t \in ToSet(k.ready[c])
    BY <1>3 DEF ToSet
  <2>2. c = k.queue[t]
    BY <2>1 DEF Core, Placed
  <2>3. QED
    BY <2>1, <2>2 DEF Core, Placed
<1>4. ASSUME NEW p PROVE p \in Scheduled(t) <=> p = <<k.queue[t], 0>>
  BY <1>1, <1>2, <1>3, ScheduledPlaces
<1>5. QED
  BY <1>4

(* A thread that is linked is so once, and it is not chosen.               *)
LEMMA LinkedPlace ==
  ASSUME Core(k), NEW t \in Threads, t \in ToSet(k.ready[k.queue[t]])
  PROVE  \E i \in DOMAIN k.ready[k.queue[t]] : i # 0 /\ Scheduled(t) = {<<k.queue[t], i>>}
<1>1. k.queue[t] \in CPU /\ k.ready[k.queue[t]] \in Seq(Threads)
  BY DEF Core, Shape
<1>2. PICK i \in DOMAIN k.ready[k.queue[t]] : k.ready[k.queue[t]][i] = t
  BY DEF ToSet
<1>3. i # 0
  BY <1>1, <1>2
<1>4. ASSUME NEW c \in CPU, k.chosen[c] = t PROVE FALSE
  <2>1. c = k.queue[t]
    BY <1>4, NullIsNoThread DEF Core, Placed
  <2>2. QED
    BY <1>4, <2>1 DEF Core, Placed
<1>5. ASSUME NEW c \in CPU, NEW j \in DOMAIN k.ready[c], k.ready[c][j] = t
      PROVE  c = k.queue[t] /\ j = i
  <2>1. t \in ToSet(k.ready[c])
    BY <1>5 DEF ToSet
  <2>2. c = k.queue[t]
    BY <2>1 DEF Core, Placed
  <2>3. Distinct(k.ready[c])
    BY DEF Core, Placed
  <2>4. QED
    BY <1>2, <1>5, <2>2, <2>3 DEF Distinct
<1>6. ASSUME NEW p PROVE p \in Scheduled(t) <=> p = <<k.queue[t], i>>
  BY <1>1, <1>2, <1>4, <1>5, ScheduledPlaces
<1>7. QED
  BY <1>3, <1>6

(* A thread that is not in the scheduler is at none of its places.         *)
LEMMA NoPlace ==
  ASSUME Core(k), NEW t \in Threads, ~In(k, t)
  PROVE  Scheduled(t) = {}
<1>1. ASSUME NEW c \in CPU PROVE k.chosen[c] # t /\ t \notin ToSet(k.ready[c])
  BY NullIsNoThread DEF In, Core, Placed
<1>2. ASSUME NEW p PROVE p \notin Scheduled(t)
  BY <1>1, ScheduledPlaces DEF ToSet
<1>3. QED
  BY <1>2

(* A thread is in the waiting queues once if it waits, and else never.     *)
LEMMA WaitingPlace ==
  ASSUME WaitOK(waitq, k.state), NEW t \in Threads
  PROVE  Cardinality(Blocked(t)) = IF k.state[t] = "WAITING" THEN 1 ELSE 0
<1>1. CASE k.state[t] = "WAITING"
  <2>1. PICK q \in Sync : t \in ToSet(waitq[q])
    BY <1>1 DEF WaitOK
  <2>2. PICK i \in DOMAIN waitq[q] : waitq[q][i] = t
    BY <2>1 DEF ToSet
  <2>3. ASSUME NEW r \in Sync, NEW j \in DOMAIN waitq[r], waitq[r][j] = t
        PROVE  r = q /\ j = i
    <3>1. t \in ToSet(waitq[r])
      BY <2>3 DEF ToSet
    <3>2. r = q
      BY <2>1, <3>1 DEF WaitOK
    <3>3. Distinct(waitq[q])
      BY DEF WaitOK
    <3>4. QED
      BY <2>2, <2>3, <3>2, <3>3 DEF Distinct
  <2>4. ASSUME NEW p PROVE p \in Blocked(t) <=> p = <<q, i>>
    BY <2>2, <2>3, BlockedPlaces
  <2>5. Blocked(t) = {<<q, i>>}
    BY <2>4
  <2>6. QED
    BY <1>1, <2>5, FS_Singleton
<1>2. CASE k.state[t] # "WAITING"
  <2>1. ASSUME NEW p PROVE p \notin Blocked(t)
    BY <1>2, BlockedPlaces DEF WaitOK, ToSet
  <2>2. Blocked(t) = {}
    BY <2>1
  <2>3. QED
    BY <1>2, <2>2, FS_EmptySet
<1>3. QED
  BY <1>1, <1>2

(* A thread's state, its queue and its only link agree: no operation of    *)
(* Thread, Scheduler or the balancer loses, duplicates or misplaces one.   *)
THEOREM EveryThreadLinkedOnce == ASSUME Disciplined PROVE Spec => []LinkedOnce
<1>1. SInv => LinkedOnce
  <2>1. SUFFICES ASSUME SInv, NEW t \in Threads
                 PROVE  /\ k.state[t] = "RUNNING" => Scheduled(t) = {<<k.queue[t], 0>>}
                        /\ k.state[t] = "READY" =>
                             /\ Cardinality(Scheduled(t)) = 1
                             /\ \A p \in Scheduled(t) : /\ p[1] = k.queue[t]
                                                         /\ p[2] = 0 => t \in Idles
                        /\ k.state[t] \notin {"RUNNING", "READY"} => Scheduled(t) = {}
                        /\ Cardinality(Blocked(t)) = IF k.state[t] = "WAITING" THEN 1 ELSE 0
    BY DEF LinkedOnce
  <2>2. Core(k) /\ KInv(k) /\ WaitOK(waitq, k.state) /\ k.queue[t] \in CPU
    BY <2>1 DEF SInv, KInv, Core, Shape
  <2>3. ASSUME k.state[t] = "RUNNING" PROVE Scheduled(t) = {<<k.queue[t], 0>>}
    BY <2>2, <2>3, ChosenPlace DEF KInv
  <2>4. ASSUME k.state[t] = "READY"
        PROVE  /\ Cardinality(Scheduled(t)) = 1
               /\ \A p \in Scheduled(t) : /\ p[1] = k.queue[t]
                                           /\ p[2] = 0 => t \in Idles
    <3>1. In(k, t)
      BY <2>2, <2>4 DEF Core, Sched
    <3>2. CASE k.chosen[k.queue[t]] = t
      <4>1. Scheduled(t) = {<<k.queue[t], 0>>}
        BY <2>2, <3>2, ChosenPlace
      <4>2. t \in Idles
        BY <2>1, <2>2, <2>4, <3>2 DEF KInv, Threads
      <4>3. QED
        BY <4>1, <4>2, FS_Singleton
    <3>3. CASE t \in ToSet(k.ready[k.queue[t]])
      <4>1. PICK i \in DOMAIN k.ready[k.queue[t]] : i # 0 /\ Scheduled(t) = {<<k.queue[t], i>>}
        BY <2>2, <3>3, LinkedPlace
      <4>2. Cardinality(Scheduled(t)) = 1
        BY <4>1, FS_Singleton
      <4>3. \A p \in Scheduled(t) : p[1] = k.queue[t] /\ p[2] = i
        BY <4>1
      <4>4. QED
        BY <4>1, <4>2, <4>3
    <3>4. QED
      BY <3>1, <3>2, <3>3 DEF In
  <2>5. ASSUME k.state[t] \notin {"RUNNING", "READY"} PROVE Scheduled(t) = {}
    <3>1. ~In(k, t)
      BY <2>2, <2>5 DEF Core, Sched
    <3>2. QED
      BY <2>2, <3>1, NoPlace
  <2>6. QED
    BY <2>2, <2>3, <2>4, <2>5, WaitingPlace
<1>2. QED
  BY <1>1, Invariance, PTL

(* No two CPUs are ever on one stack, and a thread that is on none of them *)
(* has its own context saved, although dispatch() gives a thread away      *)
(* before it has left its stack: while(!next->_context) is enough.         *)
THEOREM StacksAreApart == ASSUME Disciplined PROVE Spec => []OneStackOneCPU
<1>1. SInv /\ LInv => OneStackOneCPU
  BY DEF SInv, ContextOK, LInv, StackOK, OneStackOneCPU
<1>2. QED
  BY <1>1, Invariance, PTL

(* The CPUs that spin in while(!next->_context) never do so in a cycle: the*)
(* context each wants is there, or another CPU is about to save it, and no *)
(* set of them waits only for each other.                                  *)
THEOREM NoCycleOfWaits == ASSUME Disciplined PROVE Spec => []NoSpinCycle
<1>1. SInv /\ LInv => NoSpinCycle
  <2>1. ASSUME SInv, LInv, NEW c \in CPU, pc[c].at = "switch", context[pc[c].next] = Null
        PROVE  \E d \in CPU : d \in WaitsFor(c)
    <3>1. /\ pc[c].next \in Threads /\ k.chosen[c] = pc[c].next /\ KInv(k)
          /\ exec[c] = pc[c].prev /\ pc[c].prev # pc[c].next
      BY <2>1, PlaceFacts DEF SInv, Flow, RunningIsExecuting, LInv, StackOK
    <3>2. k.state[pc[c].next] \in Live
      BY <3>1, NullIsNoThread DEF KInv, Core, Placed, In, Sched, Live
    <3>3. PICK d \in CPU : exec[d] = pc[c].next
      BY <2>1, <3>1, <3>2 DEF LInv, StackOK
    <3>4. d # c
      BY <3>1, <3>3
    <3>5. pc[d].at = "switch"
      <4>1. ASSUME pc[d].at # "switch" PROVE FALSE
        <5>1. k.chosen[d] = k.chosen[c]
          BY <2>1, <3>1, <3>3, <4>1 DEF SInv, Flow, RunningIsExecuting
        <5>2. QED
          BY <3>1, <3>4, <5>1, OneChosen
      <4>2. QED
        BY <4>1
    <3>6. pc[d].prev = pc[c].next
      BY <2>1, <3>3, <3>5 DEF SInv, Flow, RunningIsExecuting
    <3>7. QED
      BY <2>1, <3>5, <3>6, Waits
  <2>2. QED
    BY <2>1 DEF NoSpinCycle, LInv, Untangled
<1>2. QED
  BY <1>1, Invariance, PTL

(* _thread_count is at any time the number of threads that were created    *)
(* and have neither finished nor been deleted, the idle ones included.     *)
THEOREM CountStaysExact == ASSUME Disciplined PROVE Spec => []CountIsExact
<1>1. LInv => CountIsExact
  BY DEF LInv
<1>2. QED
  BY <1>1, Invariance, PTL

(* idle() leaves for the shutdown barrier only when no thread of the       *)
(* application can run any more, and none comes to life afterwards.        *)
THEOREM ShutdownOnlyWhenDone == ASSUME Disciplined PROVE Spec => []ShutdownWhenDone
<1>1. LInv => ShutdownWhenDone
  BY DEF LInv
<1>2. QED
  BY <1>1, Invariance, PTL

(* On a single processor no CPU is on the stack that ~Thread() freed.  With*)
(* more of them it is false: a thread that exits is FINISHING, and can be  *)
(* deleted, before its CPU has switched.                                   *)
THEOREM FreedStacksAreLeft ==
  ASSUME Disciplined, NCPUS = 1 PROVE Spec => []FreedStackUnused
<1>1. LInv => FreedStackUnused
  BY DEF LInv
<1>2. QED
  BY <1>1, Invariance, PTL

-----------------------------------------------------------------------------
(* Only the CPUs matter, and the more are excepted the less is said.       *)
LEMMA FitWeaken ==
  ASSUME NEW s, NEW N, NEW M, Fit(s, N), \A d \in CPU : d \in N => d \in M
  PROVE  Fit(s, M)
BY DEF Fit

(* On every CPU outside N that no interrupt is on its way to, no ready     *)
(* thread is more urgent than the chosen one.                              *)
Told(s, N) == Fit(s, N \cup s.ipi)

(* Fewer exceptions, or more interrupts on their way                       *)
LEMMA ToldWeaken ==
  ASSUME NEW s, NEW N, NEW M, Told(s, N), \A d \in CPU : d \in N => d \in M \/ d \in s.ipi
  PROVE  Told(s, M)
BY FitWeaken DEF Told

(* A change of attributes other than the rank                              *)
LEMMA ToldSame ==
  ASSUME NEW s, NEW x, NEW N, NEW M, Told(s, N), DOMAIN x = Fields, x.queue \in [Threads -> CPU],
         x.chosen = s.chosen, x.ready = s.ready, x.rank = s.rank,
         \A d \in CPU : d \in N \/ d \in s.ipi => d \in M \/ d \in x.ipi
  PROVE  Told(x, M)
<1>1. Fit(x, N \cup s.ipi)
  BY FitSame DEF Told
<1>2. QED
  BY <1>1, FitWeaken DEF Told

(* The scheduler's operations, of interrupts                               *)
LEMMA ToldInsert ==
  ASSUME NEW s, NEW N, NEW t \in Threads, Told(s, N)
  PROVE  /\ Told(SchedulerInsert(s, t), N \cup {s.queue[t]})
         /\ SameAttributes(s, SchedulerInsert(s, t))
<1>1. PICK x : x = SchedulerInsert(s, t)
  OBVIOUS
<1>2. PICK I : I = N \cup s.ipi
  OBVIOUS
<1>3. Fit(s, I)
  BY <1>2 DEF Told
<1>4. Fit(x, I \cup {s.queue[t]}) /\ SameAttributes(s, x)
  BY <1>1, <1>3, FitInsert
<1>5. Told(x, N \cup {s.queue[t]})
  <2>1. x.ipi = s.ipi
    BY <1>4 DEF SameAttributes
  <2>2. QED
    BY <1>2, <1>4, <2>1, FitWeaken DEF Told
<1>6. QED
  BY <1>1, <1>4, <1>5

(* Unlinking a thread leaves the others as they were.                      *)
LEMMA ToldRemove ==
  ASSUME NEW s, NEW N, NEW t \in Threads, Told(s, N)
  PROVE  Told(SchedulerRemove(s, t), N) /\ SameAttributes(s, SchedulerRemove(s, t))
<1>1. PICK x : x = SchedulerRemove(s, t)
  OBVIOUS
<1>2. PICK I : I = N \cup s.ipi
  OBVIOUS
<1>3. Fit(s, I)
  BY <1>2 DEF Told
<1>4. Fit(x, I) /\ SameAttributes(s, x)
  BY <1>1, <1>3, FitRemove
<1>5. Told(x, N)
  BY <1>2, <1>4 DEF Told, SameAttributes
<1>6. QED
  BY <1>1, <1>4, <1>5

(* Choosing the first of its list tells c all it has to know.              *)
LEMMA ToldChoose ==
  ASSUME NEW s, NEW N, NEW c \in CPU, Told(s, N), s.chosen[c] \in Threads, s.queue[s.chosen[c]] = c
  PROVE  Told(Choose(s, c), N \ {c}) /\ SameAttributes(s, Choose(s, c))
<1>1. PICK x : x = Choose(s, c)
  OBVIOUS
<1>2. PICK I : I = N \cup s.ipi
  OBVIOUS
<1>3. Fit(s, I)
  BY <1>2 DEF Told
<1>4. Fit(x, I \ {c}) /\ SameAttributes(s, x)
  BY <1>1, <1>3, FitChoose
<1>5. Told(x, N \ {c})
  <2>1. x.ipi = s.ipi
    BY <1>4 DEF SameAttributes
  <2>2. QED
    BY <1>2, <1>4, <2>1, FitWeaken DEF Told
<1>6. QED
  BY <1>1, <1>4, <1>5

(* An idle CPU that chooses another thread leaves nobody to tell.          *)
LEMMA ToldIdle ==
  ASSUME NEW s, NEW N, NEW c \in CPU, Told(s, N), s.chosen[c] = Idle[c], s.queue[Idle[c]] = c
  PROVE  Told(ChooseAnother(s, c), N)
<1>1. PICK x : x = ChooseAnother(s, c)
  OBVIOUS
<1>2. PICK I : I = N \cup s.ipi
  OBVIOUS
<1>3. Fit(s, I)
  BY <1>2 DEF Told
<1>4. Fit(x, I \ {c}) /\ SameAttributes(s, x)
  BY <1>1, <1>3, FitIdle
<1>5. Told(x, N)
  <2>1. x.ipi = s.ipi
    BY <1>4 DEF SameAttributes
  <2>2. QED
    BY <1>2, <1>4, <2>1, FitWeaken DEF Told
<1>6. QED
  BY <1>1, <1>5

(* The part of reschedule() that moves the running thread tells the CPU it *)
(* moves to.                                                               *)
LEMMA ToldMigrated ==
  ASSUME NEW s, NEW N, NEW t \in Threads, Core(s), Told(s, N)
  PROVE  Told(Migrated(s, t), N) /\ s.ipi \subseteq Migrated(s, t).ipi
<1>1. PICK cpu : cpu = s.target[t]
  OBVIOUS
<1>2. /\ DOMAIN s = Fields /\ s.state \in [Threads -> State]
      /\ s.target \in [Threads -> CPU \cup {NoTarget}] /\ cpu \in CPU \cup {NoTarget}
      /\ s.queue \in [Threads -> CPU]
  BY <1>1 DEF Core, Shape
<1>3. CASE cpu = NoTarget
  BY <1>1, <1>3 DEF Migrated
<1>4. CASE cpu # NoTarget
  <2>1. PICK y : y = [s EXCEPT !.target[t] = NoTarget, !.state[t] = "READY"]
    OBVIOUS
  <2>2. /\ DOMAIN y = Fields /\ y.chosen = s.chosen /\ y.ready = s.ready /\ y.rank = s.rank
        /\ y.queue = s.queue /\ y.ipi = s.ipi
    BY <2>1, <1>2 DEF Fields
  <2>3. Told(y, N)
    BY <1>2, <2>2, ToldSame
  <2>4. PICK o : o = SchedulerRemove(y, t)
    OBVIOUS
  <2>5. Told(o, N) /\ SameAttributes(y, o)
    BY <2>3, <2>4, ToldRemove
  <2>6. PICK z : z = [o EXCEPT !.queue[t] = cpu]
    OBVIOUS
  <2>7. DOMAIN o = Fields
    BY <2>5 DEF Told, Fit, Shape
  <2>8. /\ DOMAIN z = Fields /\ z.chosen = o.chosen /\ z.ready = o.ready /\ z.rank = o.rank
        /\ z.ipi = o.ipi /\ z.queue = [o.queue EXCEPT ![t] = cpu]
    BY <2>6, <2>7 DEF Fields
  <2>9. o.queue = s.queue /\ o.ipi = s.ipi
    BY <2>2, <2>5 DEF SameAttributes
  <2>10. z.queue \in [Threads -> CPU] /\ z.queue[t] = cpu
    BY <1>2, <1>4, <2>8, <2>9
  <2>11. Told(z, N)
    BY <2>5, <2>8, <2>10, ToldSame
  <2>12. PICK w : w = SchedulerInsert(z, t)
    OBVIOUS
  <2>13. Told(w, N \cup {cpu}) /\ SameAttributes(z, w)
    BY <2>10, <2>11, <2>12, ToldInsert
  <2>14. DOMAIN w = Fields /\ w.queue \in [Threads -> CPU] /\ w.ipi = s.ipi
    BY <2>8, <2>9, <2>13 DEF Told, Fit, Shape, SameAttributes
  <2>15. PICK x : x = [w EXCEPT !.ipi = @ \cup {cpu}]
    OBVIOUS
  <2>16. /\ DOMAIN x = Fields /\ x.chosen = w.chosen /\ x.ready = w.ready /\ x.rank = w.rank
         /\ x.queue = w.queue /\ x.ipi = w.ipi \cup {cpu}
    BY <2>14, <2>15 DEF Fields
  <2>17. Told(x, N)
    <3>1. PICK M : M = N \cup {cpu}
      OBVIOUS
    <3>2. Told(w, M) /\ \A d \in CPU : d \in M \/ d \in w.ipi => d \in N \/ d \in x.ipi
      BY <2>13, <2>16, <3>1
    <3>3. QED
      BY <2>14, <2>16, <3>2, ToldSame
  <2>18. Migrated(s, t) = x
    BY <1>1, <1>4, <2>1, <2>4, <2>6, <2>12, <2>15 DEF Migrated
  <2>19. QED
    BY <2>14, <2>16, <2>17, <2>18
<1>5. QED
  BY <1>2, <1>3, <1>4

(* reschedule() leaves the most urgent thread chosen.                      *)
LEMMA ToldRescheduled ==
  ASSUME NEW s, NEW N, NEW c \in CPU, KInv(s), Told(s, N)
  PROVE  Told(Rescheduled(s, c), N \ {c}) /\ s.ipi \subseteq Rescheduled(s, c).ipi
<1>1. PICK m : m = Migrated(s, s.chosen[c])
  OBVIOUS
<1>2. Core(s) /\ s.chosen[c] \in Threads
  BY DEF KInv, Core
<1>3. Told(m, N) /\ s.ipi \subseteq m.ipi
  BY <1>1, <1>2, ToldMigrated
<1>4. Core(m)
  BY <1>1, MigratedKeeps DEF AfterMigration
<1>5. m.chosen[c] \in Threads /\ m.chosen[c] # Null /\ m.queue[m.chosen[c]] = c
  BY <1>4, NullIsNoThread DEF Core, Placed
<1>6. Told(Choose(m, c), N \ {c}) /\ SameAttributes(m, Choose(m, c))
  BY <1>3, <1>5, ToldChoose
<1>7. Rescheduled(s, c) = Choose(m, c)
  BY <1>1, <1>5 DEF Rescheduled
<1>8. QED
  BY <1>3, <1>6, <1>7 DEF SameAttributes

(* dispatch() changes states alone.                                        *)
LEMMA ToldDispatch ==
  ASSUME NEW s, NEW N, NEW c \in CPU, NEW prev, Told(s, N), Dispatch(s, c, prev)
  PROVE  Told(k', N)
<1>1. DOMAIN s = Fields /\ s.queue \in [Threads -> CPU]
  BY DEF Told, Fit, Shape
<1>2. PICK next : next = s.chosen[c]
  OBVIOUS
<1>3. k' = Dispatched(s, prev, next)
  BY <1>2 DEF Dispatch
<1>4. CASE next = Null
  <2>1. k' = [s EXCEPT !.intact = FALSE]
    BY <1>3, <1>4 DEF Dispatched
  <2>2. /\ DOMAIN k' = Fields /\ k'.queue = s.queue /\ k'.chosen = s.chosen /\ k'.ready = s.ready
        /\ k'.rank = s.rank /\ k'.ipi = s.ipi
    BY <1>1, <2>1 DEF Fields
  <2>3. QED
    BY <1>1, <2>2, ToldSame
<1>5. CASE next # Null /\ prev = next
  BY <1>3, <1>5 DEF Dispatched
<1>6. CASE next # Null /\ prev # next
  <2>1. k' = [s EXCEPT !.state[prev] = IF @ = "RUNNING" THEN "READY" ELSE @, !.state[next] = "RUNNING"]
    BY <1>3, <1>6 DEF Dispatched
  <2>2. /\ DOMAIN k' = Fields /\ k'.queue = s.queue /\ k'.chosen = s.chosen /\ k'.ready = s.ready
        /\ k'.rank = s.rank /\ k'.ipi = s.ipi
    BY <1>1, <2>1 DEF Fields
  <2>3. QED
    BY <1>1, <2>2, ToldSame
<1>7. QED
  BY <1>4, <1>5, <1>6

(* reschedule(), here or by an interrupt, settles what its CPU was owed.   *)
LEMMA ToldReschedule ==
  ASSUME NEW s, NEW N, NEW c \in CPU, KInv(s), Told(s, N), Reschedule(s, c)
  PROVE  Told(k', N \ {c})
<1>1. PICK r : r = Rescheduled(s, c)
  OBVIOUS
<1>2. Told(r, N \ {c})
  BY <1>1, ToldRescheduled
<1>3. Dispatch(r, c, s.chosen[c])
  BY <1>1 DEF Reschedule
<1>4. QED
  BY <1>2, <1>3, ToldDispatch

(* reschedule(cpu) tells the CPU by an interrupt or at once.               *)
LEMMA ToldRescheduleCPU ==
  ASSUME NEW s, NEW N, NEW c \in CPU, NEW cpu \in CPU, KInv(s), Told(s, N), RescheduleCPU(s, c, cpu)
  PROVE  Told(k', N \ {cpu})
<1>1. CASE cpu = c /\ Reschedule(s, c)
  BY <1>1, ToldReschedule
<1>2. CASE k' = [s EXCEPT !.ipi = @ \cup {cpu}]
  <2>1. DOMAIN s = Fields /\ s.queue \in [Threads -> CPU]
    BY DEF Told, Fit, Shape
  <2>2. /\ DOMAIN k' = Fields /\ k'.queue = s.queue /\ k'.chosen = s.chosen /\ k'.ready = s.ready
        /\ k'.rank = s.rank /\ k'.ipi = s.ipi \cup {cpu}
    BY <1>2, <2>1 DEF Fields
  <2>3. PICK M : M = N \ {cpu}
    OBVIOUS
  <2>4. \A d \in CPU : d \in N \/ d \in s.ipi => d \in M \/ d \in k'.ipi
    BY <2>2, <2>3
  <2>5. Told(k', M)
    BY <2>1, <2>2, <2>4, ToldSame
  <2>6. QED
    BY <2>3, <2>5
<1>3. QED
  BY <1>1, <1>2 DEF RescheduleCPU

(* Waking a thread and rescheduling its CPU leaves nobody to tell.         *)
LEMMA ToldWoken ==
  ASSUME NEW s, NEW N, NEW t \in Threads, Told(s, N), s.state \in [Threads -> State]
  PROVE  /\ Told(SchedulerInsert([s EXCEPT !.state[t] = "READY"], t), N \cup {s.queue[t]})
<1>1. PICK y : y = [s EXCEPT !.state[t] = "READY"]
  OBVIOUS
<1>2. DOMAIN s = Fields /\ s.queue \in [Threads -> CPU]
  BY DEF Told, Fit, Shape
<1>3. /\ DOMAIN y = Fields /\ y.queue = s.queue /\ y.chosen = s.chosen /\ y.ready = s.ready
      /\ y.rank = s.rank /\ y.ipi = s.ipi
  BY <1>1, <1>2 DEF Fields
<1>4. Told(y, N)
  BY <1>2, <1>3, ToldSame
<1>5. Told(SchedulerInsert(y, t), N \cup {y.queue[t]})
  BY <1>4, ToldInsert
<1>6. QED
  BY <1>1, <1>3, <1>5

(* The last loop of wakeup_all() settles what it was for, but for what it  *)
(* leaves to be done.                                                      *)
LEMMA ToldNotify ==
  ASSUME NEW c \in CPU, NEW t \in Threads, NEW cpus \in SUBSET CPU, NEW N, KInv(k), Told(k, N),
         loop \in [Threads -> SUBSET CPU], NotifyFrom(k, c, t, cpus)
  PROVE  Told(k', (N \ cpus) \cup loop'[t])
<1>1. k.ipi \in SUBSET CPU /\ DOMAIN k = Fields /\ k.queue \in [Threads -> CPU]
  BY DEF KInv, Core, Shape
<1>2. PICK I \in SUBSET CPU : I = k.ipi \cup {i \in cpus : i < c}
  BY <1>1
<1>3. PICK above \in SUBSET CPU : above = {i \in cpus : i > c}
  OBVIOUS
<1>4. PICK below : below = [k EXCEPT !.ipi = I]
  OBVIOUS
<1>5. PICK next : next = Rescheduled(below, c)
  OBVIOUS
<1>6. KInv(below)
  BY <1>4, IpiKeeps DEF AfterIpi
<1>7. /\ DOMAIN below = Fields /\ below.queue = k.queue /\ below.chosen = k.chosen /\ below.ready = k.ready
      /\ below.rank = k.rank /\ below.ipi = I
  BY <1>1, <1>4 DEF Fields
<1>8. Told(below, N)
  <2>1. \A d \in CPU : d \in N \/ d \in k.ipi => d \in N \/ d \in below.ipi
    BY <1>2, <1>7
  <2>2. QED
    BY <1>1, <1>7, <2>1, ToldSame
<1>9. PICK M : M = N \ {c}
  OBVIOUS
<1>10. Told(next, M) /\ I \subseteq next.ipi
  BY <1>5, <1>6, <1>7, <1>8, <1>9, ToldRescheduled
<1>11. DOMAIN next = Fields /\ next.queue \in [Threads -> CPU]
  BY <1>10 DEF Told, Fit, Shape
<1>12. PICK R : R = (N \ cpus) \cup loop'[t]
  OBVIOUS
<1>13. \A d \in cpus : d = c \/ d \in above \/ d \in I
  BY <1>2, <1>3 DEF CPU
<1>14. CASE /\ c \notin cpus
            /\ k' = [k EXCEPT !.ipi = @ \cup cpus]
            /\ loop' = [loop EXCEPT ![t] = {}]
  <2>1. /\ DOMAIN k' = Fields /\ k'.queue = k.queue /\ k'.chosen = k.chosen /\ k'.ready = k.ready
        /\ k'.rank = k.rank /\ k'.ipi = k.ipi \cup cpus
    BY <1>1, <1>14 DEF Fields
  <2>2. \A d \in CPU : d \in N \/ d \in k.ipi => d \in R \/ d \in k'.ipi
    BY <1>12, <2>1
  <2>3. Told(k', R)
    BY <1>1, <2>1, <2>2, ToldSame
  <2>4. QED
    BY <1>12, <2>3
<1>15. CASE /\ c \in cpus
            /\ k' = [next EXCEPT !.ipi = @ \cup above]
  <2>1. /\ DOMAIN k' = Fields /\ k'.queue = next.queue /\ k'.chosen = next.chosen /\ k'.ready = next.ready
        /\ k'.rank = next.rank /\ k'.ipi = next.ipi \cup above
    BY <1>11, <1>15 DEF Fields
  <2>2. \A d \in CPU : d \in M \/ d \in next.ipi => d \in R \/ d \in k'.ipi
    BY <1>9, <1>10, <1>12, <1>13, <2>1
  <2>3. Told(k', R)
    BY <1>10, <1>11, <2>1, <2>2, ToldSame
  <2>4. QED
    BY <1>12, <2>3
<1>16. CASE /\ c \in cpus
            /\ Dispatch(next, c, k.chosen[c])
            /\ loop' = [loop EXCEPT ![t] = above]
  <2>1. loop'[t] = above
    BY <1>16
  <2>2. \A d \in CPU : d \in M => d \in R \/ d \in next.ipi
    BY <1>9, <1>10, <1>12, <1>13, <2>1
  <2>3. Told(next, R)
    BY <1>10, <2>2, ToldWeaken
  <2>4. Told(k', R)
    BY <1>16, <2>3, ToldDispatch
  <2>5. QED
    BY <1>12, <2>4
<1>17. QED
  BY <1>2, <1>3, <1>4, <1>5, <1>14, <1>15, <1>16 DEF NotifyFrom

(* prepare_migration() tells the CPUs it concerns.                         *)
LEMMA ToldPrepared ==
  ASSUME NEW s, NEW N, NEW t \in Threads, NEW cpu \in CPU, Core(s), Told(s, N)
  PROVE  Told(Prepared(s, t, cpu), N)
<1>1. DOMAIN s = Fields /\ s.queue \in [Threads -> CPU] /\ s.queue[t] \in CPU
  BY DEF Core, Shape
<1>2. CASE s.state[t] = "RUNNING"
  <2>1. PICK x : x = [s EXCEPT !.target[t] = cpu, !.ipi = @ \cup {s.queue[t]}]
    OBVIOUS
  <2>2. /\ DOMAIN x = Fields /\ x.queue = s.queue /\ x.chosen = s.chosen /\ x.ready = s.ready
        /\ x.rank = s.rank /\ x.ipi = s.ipi \cup {s.queue[t]}
    BY <1>1, <2>1 DEF Fields
  <2>3. \A d \in CPU : d \in N \/ d \in s.ipi => d \in N \/ d \in x.ipi
    BY <2>2
  <2>4. Told(x, N)
    BY <1>1, <2>2, <2>3, ToldSame
  <2>5. Prepared(s, t, cpu) = x
    BY <1>2, <2>1 DEF Prepared
  <2>6. QED
    BY <2>4, <2>5
<1>3. CASE s.state[t] = "READY"
  <2>1. PICK o : o = SchedulerRemove(s, t)
    OBVIOUS
  <2>2. Told(o, N) /\ SameAttributes(s, o)
    BY <2>1, ToldRemove
  <2>3. DOMAIN o = Fields /\ o.queue = s.queue
    BY <2>2 DEF Told, Fit, Shape, SameAttributes
  <2>4. PICK z : z = [o EXCEPT !.queue[t] = cpu]
    OBVIOUS
  <2>5. /\ DOMAIN z = Fields /\ z.chosen = o.chosen /\ z.ready = o.ready /\ z.rank = o.rank
        /\ z.ipi = o.ipi /\ z.queue = [o.queue EXCEPT ![t] = cpu]
    BY <2>3, <2>4 DEF Fields
  <2>6. z.queue \in [Threads -> CPU] /\ z.queue[t] = cpu
    BY <1>1, <2>3, <2>5
  <2>7. Told(z, N)
    BY <2>2, <2>5, <2>6, ToldSame
  <2>8. PICK w : w = SchedulerInsert(z, t)
    OBVIOUS
  <2>9. PICK M : M = N \cup {cpu}
    OBVIOUS
  <2>10. Told(w, M)
    BY <2>6, <2>7, <2>8, <2>9, ToldInsert
  <2>11. DOMAIN w = Fields /\ w.queue \in [Threads -> CPU]
    BY <2>10 DEF Told, Fit, Shape
  <2>12. PICK x : x = [w EXCEPT !.ipi = @ \cup {s.queue[t], cpu}]
    OBVIOUS
  <2>13. /\ DOMAIN x = Fields /\ x.queue = w.queue /\ x.chosen = w.chosen /\ x.ready = w.ready
         /\ x.rank = w.rank /\ x.ipi = w.ipi \cup {s.queue[t], cpu}
    BY <2>11, <2>12 DEF Fields
  <2>14. \A d \in CPU : d \in M \/ d \in w.ipi => d \in N \/ d \in x.ipi
    BY <2>9, <2>13
  <2>15. Told(x, N)
    BY <2>10, <2>11, <2>13, <2>14, ToldSame
  <2>16. Prepared(s, t, cpu) = x
    BY <1>3, <2>1, <2>4, <2>8, <2>12 DEF Prepared
  <2>17. QED
    BY <2>15, <2>16
<1>4. CASE s.state[t] \in {"WAITING", "SUSPENDED"}
  <2>1. PICK x : x = [s EXCEPT !.queue[t] = cpu]
    OBVIOUS
  <2>2. /\ DOMAIN x = Fields /\ x.queue = [s.queue EXCEPT ![t] = cpu] /\ x.chosen = s.chosen /\ x.ready = s.ready
        /\ x.rank = s.rank /\ x.ipi = s.ipi
    BY <1>1, <2>1 DEF Fields
  <2>3. x.queue \in [Threads -> CPU]
    BY <1>1, <2>2
  <2>4. Told(x, N)
    BY <2>2, <2>3, ToldSame
  <2>5. Prepared(s, t, cpu) = x
    BY <1>4, <2>1 DEF Prepared
  <2>6. QED
    BY <2>4, <2>5
<1>5. CASE s.state[t] \notin {"RUNNING", "READY", "WAITING", "SUSPENDED"}
  <2>1. Prepared(s, t, cpu) = s
    BY <1>5 DEF Prepared
  <2>2. QED
    BY <2>1
<1>6. QED
  BY <1>2, <1>3, <1>4, <1>5

(* Whatever the balancer decides on CPU c, only c has yet to be told.      *)
LEMMA ToldBalanced ==
  ASSUME SInv, Disciplined, NEW c \in CPU, NEW s \in Balanced(c), NEW N, Told(k, N)
  PROVE  Told(s, N \cup {c})
<1>1. KInv(k) /\ Core(k) /\ k.queue \in [Threads -> CPU]
  BY DEF SInv, KInv, Core, Shape
<1>2. \A t \in Movable : t \in App \ {Main} /\ t \in Threads /\ k.target[t] = NoTarget
  BY IdleFacts DEF Movable, Disciplined
<1>3. ASSUME NEW x, Told(x, N), s = Executed(x, c)
      PROVE  Told(s, N \cup {c})
  <2>1. DOMAIN x = Fields /\ x.queue \in [Threads -> CPU]
    BY <1>3 DEF Told, Fit, Shape
  <2>2. /\ DOMAIN s = Fields /\ s.queue = x.queue /\ s.chosen = x.chosen /\ s.ready = x.ready
        /\ s.rank = x.rank /\ s.ipi = k.ipi \cup (x.ipi \ {c})
    BY <1>3, <2>1 DEF Fields, Executed
  <2>3. PICK M : M = N \cup {c}
    OBVIOUS
  <2>4. \A d \in CPU : d \in N \/ d \in x.ipi => d \in M \/ d \in s.ipi
    BY <2>2, <2>3
  <2>5. Told(s, M)
    BY <1>3, <2>1, <2>2, <2>4, ToldSame
  <2>6. QED
    BY <2>3, <2>5
<1>4. CASE s = k
  BY <1>4, ToldWeaken
<1>5. CASE s \in {Executed(Prepared(k, m[1], m[2]), c) :
                    m \in {n \in Movable \X CPU : n[2] # k.queue[n[1]]}}
  <2>1. PICK t \in Movable, cpu \in CPU : s = Executed(Prepared(k, t, cpu), c)
    BY <1>5
  <2>2. Told(Prepared(k, t, cpu), N)
    BY <1>1, <1>2, ToldPrepared
  <2>3. QED
    BY <1>3, <2>1, <2>2
<1>6. CASE s \in {Executed(Prepared(Prepared(k, m[1], k.queue[m[2]]), m[2], k.queue[m[1]]), c) :
                    m \in {n \in Movable \X Movable : k.queue[n[1]] # k.queue[n[2]]}}
  <2>1. PICK t \in Movable, u \in Movable :
           /\ k.queue[t] # k.queue[u]
           /\ s = Executed(Prepared(Prepared(k, t, k.queue[u]), u, k.queue[t]), c)
    BY <1>6
  <2>2. PICK x : x = Prepared(k, t, k.queue[u])
    OBVIOUS
  <2>3. k.queue[t] \in CPU /\ k.queue[u] \in CPU /\ t \in App \ {Main} /\ t \in Threads /\ u \in Threads
    BY <1>1, <1>2, <2>1
  <2>4. Told(x, N)
    BY <1>1, <2>2, <2>3, ToldPrepared
  <2>5. AfterPut(k, t, x)
    BY <1>1, <1>2, <2>1, <2>2, <2>3, PreparedKeeps
  <2>6. Core(x)
    BY <2>5 DEF AfterPut, KInv
  <2>7. Told(Prepared(x, u, k.queue[t]), N)
    BY <2>3, <2>4, <2>6, ToldPrepared
  <2>8. QED
    BY <1>3, <2>1, <2>2, <2>7
<1>7. QED
  BY <1>4, <1>5, <1>6 DEF Balanced

(* Lists that are in order and hold no thread that was not there before    *)
LEMMA ToldNoMore ==
  ASSUME NEW s, NEW x, NEW N, NEW M, KInv(s), KInv(x), Told(s, N), Told(x, M),
         x.chosen = s.chosen, x.rank = s.rank, x.ipi = s.ipi,
         \A u \in Threads : x.state[u] \in Sched => s.state[u] \in Sched /\ x.queue[u] = s.queue[u]
  PROVE  Told(x, N)
<1>1. ASSUME NEW d \in CPU, NEW u \in ToSet(x.ready[d]) PROVE u \in ToSet(s.ready[d])
  <2>1. x.ready[d] \in Seq(Threads) /\ x.queue[u] = d /\ u # x.chosen[d]
    <3>1. Shape(x) /\ Placed(x)
      BY DEF KInv, Core
    <3>2. x.ready[d] \in Seq(Threads)
      BY <3>1 DEF Shape
    <3>3. x.queue[u] = d /\ u # x.chosen[d]
      BY <1>1, <3>1 DEF Placed
    <3>4. QED
      BY <3>2, <3>3
  <2>2. u \in Threads
    BY <2>1, ElementOfSeq, LenProperties DEF ToSet
  <2>3. x.state[u] \in Sched
    BY <1>1, <2>1, <2>2 DEF KInv, Core, In
  <2>4. s.queue[u] = d /\ In(s, u)
    BY <2>1, <2>2, <2>3 DEF KInv, Core
  <2>5. QED
    BY <2>1, <2>4 DEF In
<1>2. \A d \in CPU : d \notin N \cup s.ipi => \A u \in ToSet(s.ready[d]) : s.rank[s.chosen[d]] <= s.rank[u]
  BY DEF Told, Fit
<1>3. \A d \in CPU : d \notin N \cup x.ipi => \A u \in ToSet(x.ready[d]) : x.rank[x.chosen[d]] <= x.rank[u]
  BY <1>1, <1>2
<1>4. Fit(x, M \cup x.ipi)
  BY DEF Told
<1>5. Fit(x, N \cup x.ipi)
  BY <1>3, <1>4 DEF Fit
<1>6. QED
  BY <1>5 DEF Told

(* Changing the state and, of a thread that is in no list, the queue       *)
LEMMA ToldState ==
  ASSUME NEW s, NEW N, NEW t, NEW v, Told(s, N)
  PROVE  /\ Told([s EXCEPT !.state[t] = v], N)
         /\ LET x == [s EXCEPT !.state[t] = v]
            IN  /\ DOMAIN x = Fields /\ x.chosen = s.chosen /\ x.ready = s.ready /\ x.rank = s.rank
                /\ x.queue = s.queue /\ x.ipi = s.ipi /\ x.state = [s.state EXCEPT ![t] = v]
<1>1. DOMAIN s = Fields /\ s.queue \in [Threads -> CPU]
  BY DEF Told, Fit, Shape
<1>2. PICK x : x = [s EXCEPT !.state[t] = v]
  OBVIOUS
<1>3. /\ DOMAIN x = Fields /\ x.chosen = s.chosen /\ x.ready = s.ready /\ x.rank = s.rank
      /\ x.queue = s.queue /\ x.ipi = s.ipi /\ x.state = [s.state EXCEPT ![t] = v]
  BY <1>1, <1>2 DEF Fields
<1>4. Told(x, N)
  BY <1>1, <1>3, ToldSame
<1>5. QED
  BY <1>2, <1>3, <1>4

(* ~Thread() of a thread leaves nobody to tell.                            *)
LEMMA ToldGone ==
  ASSUME NEW t \in App, KInv(k), k.state[t] \in {"READY", "SUSPENDED", "WAITING", "FINISHING"},
         NEW N, Told(k, N)
  PROVE  Told(Gone(t), N) /\ Gone(t).rank = k.rank
<1>1. t \in Threads
  BY IdleFacts
<1>2. CASE k.state[t] = "READY"
  <2>1. PICK o : o = SchedulerRemove(k, t)
    OBVIOUS
  <2>2. Told(o, N) /\ o.rank = k.rank
    BY <1>1, <2>1, ToldRemove DEF SameAttributes
  <2>3. Gone(t) = [o EXCEPT !.state[t] = "DELETED"]
    BY <1>2, <2>1 DEF Gone
  <2>4. QED
    BY <2>2, <2>3, ToldState
<1>3. CASE k.state[t] = "FINISHING"
  <2>1. Gone(t) = [k EXCEPT !.state[t] = "DELETED"]
    BY <1>3 DEF Gone
  <2>2. QED
    BY <2>1, ToldState
<1>4. CASE k.state[t] \in {"SUSPENDED", "WAITING"}
  <2>1. PICK i : i = SchedulerInsert(k, t)
    OBVIOUS
  <2>2. PICK o : o = SchedulerRemove(i, t)
    OBVIOUS
  <2>3. PICK M : M = N \cup {k.queue[t]}
    OBVIOUS
  <2>4. Told(i, M)
    BY <1>1, <2>1, <2>3, ToldInsert
  <2>5. Told(o, M)
    BY <1>1, <2>2, <2>4, ToldRemove
  <2>6. k.state[t] \notin Sched
    BY <1>4 DEF Sched
  <2>7. AfterInOut(k, o)
    BY <2>1, <2>2, <2>6, InOutKeeps
  <2>8. KInv(o) /\ SameAttributes(k, o) /\ o.chosen = k.chosen
    BY <2>7 DEF AfterInOut
  <2>9. Told(o, N) /\ o.rank = k.rank
    <3>1. /\ o.rank = k.rank /\ o.ipi = k.ipi
          /\ \A u \in Threads : o.state[u] \in Sched => k.state[u] \in Sched /\ o.queue[u] = k.queue[u]
      BY <2>8 DEF SameAttributes
    <3>2. QED
      BY <2>5, <2>8, <3>1, ToldNoMore
  <2>10. Gone(t) = [o EXCEPT !.state[t] = "DELETED"]
    BY <1>4, <2>1, <2>2 DEF Gone
  <2>11. QED
    BY <2>9, <2>10, ToldState
<1>5. QED
  BY <1>2, <1>3, <1>4

(* Every ready thread that should run has its CPU told only in a system    *)
(* where no thread gives the CPU away by yield() or pass(), and, on a      *)
(* multiprocessor, without join() and priority(): exit() tells no CPU of   *)
(* the joiner, and priority() does not reschedule the caller's own.        *)
Preemptive ==
    /\ Disciplined
    /\ "yield" \notin Calls /\ "pass" \notin Calls
    /\ SMP => "join" \notin Calls /\ "priority" \notin Calls

(* A thread that leaves leaves nobody to tell.                             *)
LEMMA ToldLeave ==
  ASSUME NEW s, NEW N, NEW t \in Threads, NEW v, Told(s, N)
  PROVE  /\ Told([SchedulerRemove(s, t) EXCEPT !.state[t] = v], N)
         /\ Told(SchedulerRemove([s EXCEPT !.state[t] = v], t), N)
<1>1. PICK o : o = SchedulerRemove(s, t)
  OBVIOUS
<1>2. Told(o, N)
  BY <1>1, ToldRemove
<1>3. Told([o EXCEPT !.state[t] = v], N)
  BY <1>2, ToldState
<1>4. PICK y : y = [s EXCEPT !.state[t] = v]
  OBVIOUS
<1>5. Told(y, N)
  BY <1>4, ToldState
<1>6. Told(SchedulerRemove(y, t), N)
  BY <1>5, ToldRemove
<1>7. QED
  BY <1>1, <1>3, <1>4, <1>6

(* sleep()                                                                 *)
LEMMA ToldSleep ==
  ASSUME SInv, NEW c \in CPU, NEW q, NEW N, Told(k, N), Sleep(c, q)
  PROVE  Told(k', N)
<1>1. k.chosen[c] \in Threads
  BY DEF SInv, KInv, Core
<1>2. PICK x : x = [SchedulerRemove(k, k.chosen[c]) EXCEPT !.state[k.chosen[c]] = "WAITING"]
  OBVIOUS
<1>3. Told(x, N)
  BY <1>1, <1>2, ToldLeave
<1>4. Dispatch(x, c, k.chosen[c])
  BY <1>2 DEF Sleep, Running
<1>5. QED
  BY <1>3, <1>4, ToldDispatch

(* suspend()                                                               *)
LEMMA ToldSuspend ==
  ASSUME SInv, NEW c \in CPU, NEW t \in App, NEW N, Told(k, N), Suspend(c, t)
  PROVE  Told(k', N)
<1>1. t \in Threads
  BY IdleFacts
<1>2. PICK x : x = SchedulerRemove([k EXCEPT !.state[t] = "SUSPENDED"], t)
  OBVIOUS
<1>3. Told(x, N)
  BY <1>1, <1>2, ToldLeave
<1>4. Dispatch(x, c, k.chosen[c])
  BY <1>2 DEF Suspend, Running
<1>5. QED
  BY <1>3, <1>4, ToldDispatch

(* join()                                                                  *)
LEMMA ToldJoin ==
  ASSUME SInv, NEW c \in CPU, NEW t \in App, NEW N, Told(k, N), Join(c, t)
  PROVE  Told(k', N)
<1>1. k.chosen[c] \in Threads
  BY DEF SInv, KInv, Core
<1>2. PICK x : x = SchedulerRemove([k EXCEPT !.state[k.chosen[c]] = "SUSPENDED"], k.chosen[c])
  OBVIOUS
<1>3. Told(x, N)
  BY <1>1, <1>2, ToldLeave
<1>4. Dispatch(x, c, k.chosen[c]) \/ k' = k
  BY <1>2 DEF Join, Running
<1>5. QED
  BY <1>3, <1>4, ToldDispatch

(* Waking a thread with its CPU rescheduled, as resume(), wakeup() and the *)
(* destructor do                                                           *)
LEMMA ToldWakeStep ==
  ASSUME NEW s, NEW c \in CPU, NEW t \in App, NEW N, KInv(s), Told(s, N), s.state[t] \notin Sched,
         RescheduleCPU(SchedulerInsert([s EXCEPT !.state[t] = "READY"], t), c, s.queue[t])
  PROVE  Told(k', N)
<1>1. t \in Threads /\ Core(s) /\ s.state \in [Threads -> State] /\ s.queue[t] \in CPU
  BY IdleFacts DEF KInv, Core, Shape
<1>2. PICK n : n = SchedulerInsert([s EXCEPT !.state[t] = "READY"], t)
  OBVIOUS
<1>3. PICK cpu \in CPU : cpu = s.queue[t]
  BY <1>1
<1>4. Told(n, N \cup {cpu})
  BY <1>1, <1>2, <1>3, ToldWoken
<1>5. AfterWake(s, t, n)
  BY <1>1, <1>2, CoreWake
<1>6. KInv(n)
  BY <1>5, WakeKeeps
<1>7. RescheduleCPU(n, c, cpu)
  BY <1>2, <1>3
<1>8. PICK M : M = N \cup {cpu}
  OBVIOUS
<1>9. Told(k', M \ {cpu})
  BY <1>4, <1>6, <1>7, <1>8, ToldRescheduleCPU
<1>10. QED
  BY <1>8, <1>9, ToldWeaken

(* resume()                                                                *)
LEMMA ToldResume ==
  ASSUME SInv, NEW c \in CPU, NEW t \in App, NEW N, Told(k, N), Resume(c, t)
  PROVE  Told(k', N)
<1>1. CASE k' = k
  BY <1>1
<1>2. CASE /\ k.state[t] = "SUSPENDED"
           /\ RescheduleCPU(SchedulerInsert([k EXCEPT !.state[t] = "READY"], t), c, k.queue[t])
  <2>1. k.state[t] \notin Sched /\ KInv(k)
    BY <1>2 DEF Sched, SInv
  <2>2. QED
    BY <1>2, <2>1, ToldWakeStep
<1>3. QED
  BY <1>1, <1>2 DEF Resume

(* wakeup()                                                                *)
LEMMA ToldWakeup ==
  ASSUME SInv, NEW c \in CPU, NEW q \in Sync, NEW N, Told(k, N), Wakeup(c, q)
  PROVE  Told(k', N)
<1>1. CASE k' = k
  BY <1>1
<1>2. CASE /\ waitq[q] # <<>>
           /\ RescheduleCPU(SchedulerInsert([k EXCEPT !.state[Head(waitq[q])] = "READY"], Head(waitq[q])), c,
                            k.queue[Head(waitq[q])])
  <2>1. Head(waitq[q]) \in App /\ k.state[Head(waitq[q])] = "WAITING"
    BY <1>2, WaitTail DEF SInv
  <2>2. k.state[Head(waitq[q])] \notin Sched /\ KInv(k)
    BY <2>1 DEF Sched, SInv
  <2>3. QED
    BY <1>2, <2>1, <2>2, ToldWakeStep
<1>3. QED
  BY <1>1, <1>2 DEF Wakeup

(* The destructor                                                          *)
LEMMA ToldDelete ==
  ASSUME SInv, Disciplined, NEW c \in CPU, NEW t \in App, NEW N, Told(k, N), Delete(c, t)
  PROVE  Told(k', N)
<1>1. PICK j : j = joining[t]
  OBVIOUS
<1>2. PICK gone : gone = Gone(t)
  OBVIOUS
<1>3. /\ k.state[t] \in {"READY", "SUSPENDED", "WAITING", "FINISHING"}
      /\ Entering(c)
      /\ k.state[t] = "FINISHING" \/ ~Joiner(t)
  BY DEF Delete, Calling, Disciplined
<1>4. \/ k' = gone
      \/ /\ j # Null /\ k.state[j] = "SUSPENDED"
         /\ RescheduleCPU(SchedulerInsert([gone EXCEPT !.state[j] = "READY"], j), c, k.queue[j])
  BY <1>1, <1>2 DEF Delete, Gone
<1>5. KInv(k) /\ t \in Threads /\ k.state \in [Threads -> State]
  BY IdleFacts DEF SInv, KInv, Core
<1>6. Told(gone, N)
  BY <1>2, <1>3, <1>5, ToldGone
<1>7. /\ KInv(gone) /\ gone.queue = k.queue /\ gone.state = [k.state EXCEPT ![t] = "DELETED"]
  BY <1>2, <1>3, <1>5, GoneKeeps DEF AfterRest
<1>8. CASE k' = gone
  BY <1>6, <1>8
<1>9. CASE /\ j # Null /\ k.state[j] = "SUSPENDED"
           /\ RescheduleCPU(SchedulerInsert([gone EXCEPT !.state[j] = "READY"], j), c, k.queue[j])
  <2>1. j \in App /\ j \in Threads
    BY <1>1, <1>5, <1>9, IdleFacts DEF SInv, JoinOK
  <2>2. gone.state[j] \notin Sched
    BY <1>5, <1>7, <1>9, <2>1 DEF Sched
  <2>3. RescheduleCPU(SchedulerInsert([gone EXCEPT !.state[j] = "READY"], j), c, gone.queue[j])
    BY <1>7, <1>9
  <2>4. QED
    BY <1>6, <1>7, <2>1, <2>2, <2>3, ToldWakeStep
<1>10. QED
  BY <1>4, <1>8, <1>9

(* exit()                                                                  *)
LEMMA ToldExit ==
  ASSUME SInv, NEW c \in CPU, NEW N, Told(k, N), SMP => \A t \in Threads : joining[t] = Null, Exit(c)
  PROVE  Told(k', N)
<1>1. PICK prev : prev = k.chosen[c]
  OBVIOUS
<1>2. Entering(c) /\ KInv(k) /\ Core(k)
  BY DEF Exit, Calling, SInv, KInv
<1>3. prev \in App /\ prev \in Threads /\ k.state[prev] = "RUNNING"
  BY <1>1, <1>2, Caller
<1>4. PICK j : j = joining[prev]
  OBVIOUS
<1>5. PICK out : out = [SchedulerRemove(k, prev) EXCEPT !.state[prev] = "FINISHING"]
  OBVIOUS
<1>6. PICK in : in = IF j = Null THEN out ELSE SchedulerInsert([out EXCEPT !.state[j] = "READY"], j)
  OBVIOUS
<1>7. Dispatch(IF in.chosen[c] = Null THEN in ELSE Choose(in, c), c, prev)
  BY <1>1, <1>4, <1>5, <1>6 DEF Exit, Running
<1>8. "FINISHING" \in State \ Sched /\ k.state[prev] \in Sched
  BY <1>3 DEF State, Sched
<1>9. AfterLeave(k, prev, "FINISHING", out)
  BY <1>2, <1>3, <1>5, <1>8, CoreLeave
<1>10. Core(out) /\ out.state = [k.state EXCEPT ![prev] = "FINISHING"] /\ out.queue = k.queue
  BY <1>9 DEF AfterLeave, Left
<1>11. Told(out, N)
  BY <1>3, <1>5, ToldLeave
<1>12. Core(in) /\ Told(in, N \cup {c})
  <2>1. CASE j = Null
    <3>1. in = out
      BY <1>6, <2>1
    <3>2. Told(out, N \cup {c})
      BY <1>11, ToldWeaken
    <3>3. QED
      BY <1>10, <3>1, <3>2
  <2>2. CASE j # Null
    <3>1. j \in App /\ j \in Threads /\ k.state[j] = "SUSPENDED"
      BY <1>3, <1>4, <2>2, IdleFacts DEF SInv, JoinOK, Live
    <3>2. CPU = {c}
      <4>1. ~SMP
        BY <1>3, <1>4, <2>2
      <4>2. QED
        BY <4>1, ThreadAssumption DEF SMP, CPU
    <3>3. k.state \in [Threads -> State] /\ out.state \in [Threads -> State] /\ out.queue[j] = c
      BY <1>2, <1>10, <3>1, <3>2 DEF Core, Shape
    <3>4. out.state[j] \notin Sched
      BY <1>3, <1>10, <3>1, <3>3 DEF Sched
    <3>5. AfterWake(out, j, SchedulerInsert([out EXCEPT !.state[j] = "READY"], j))
      BY <1>10, <3>1, <3>4, CoreWake
    <3>6. Told(SchedulerInsert([out EXCEPT !.state[j] = "READY"], j), N \cup {c})
      BY <1>11, <3>1, <3>3, ToldWoken
    <3>7. QED
      BY <1>6, <2>2, <3>5, <3>6 DEF AfterWake
  <2>3. QED
    BY <2>1, <2>2
<1>13. in.chosen[c] \in Threads /\ in.chosen[c] # Null /\ in.queue[in.chosen[c]] = c
  BY <1>12, NullIsNoThread DEF Core, Placed
<1>14. PICK M : M = N \cup {c}
  OBVIOUS
<1>15. Told(Choose(in, c), M \ {c})
  BY <1>12, <1>13, <1>14, ToldChoose
<1>16. Told(Choose(in, c), N)
  BY <1>14, <1>15, ToldWeaken
<1>17. Dispatch(Choose(in, c), c, prev)
  BY <1>7, <1>13
<1>18. QED
  BY <1>16, <1>17, ToldDispatch

(* The constructor                                                         *)
LEMMA ToldCreate ==
  ASSUME SInv, Disciplined, k.state[Main] # "NONE", NEW c \in CPU, NEW t \in App, NEW st \in {"READY", "SUSPENDED"},
         NEW cpu \in CPU, NEW N, Told(k, N), Create(c, t, st, cpu)
  PROVE  Told(k', N)
<1>1. k.state[t] = "NONE" /\ t \in Threads /\ KInv(k) /\ t \in App \ {Main}
  BY IdleFacts DEF Create, SInv
<1>2. /\ k.state[t] \notin Sched /\ k.state \in [Threads -> State] /\ DOMAIN k = Fields
      /\ k.queue \in [Threads -> CPU]
  BY <1>1 DEF Sched, KInv, Core, Shape
<1>3. PICK y : y = Fresh(k, t, st, cpu)
  OBVIOUS
<1>4. PICK n : n = SchedulerInsert(y, t)
  OBVIOUS
<1>5. \/ st = "READY" /\ RescheduleCPU(n, c, cpu)
      \/ st = "SUSPENDED" /\ k' = SchedulerRemove(n, t)
  <2>1. PICK target \in Uninit :
          LET w == SchedulerInsert([k EXCEPT !.state[t] = st, !.queue[t] = cpu,
                                             !.target[t] = target], t)
          IN  \/ st = "READY" /\ RescheduleCPU(w, c, cpu)
              \/ st = "SUSPENDED" /\ k' = SchedulerRemove(w, t) /\ UNCHANGED pc
    BY Zenon DEF Create
  <2>2. target = NoTarget
    BY DEF Disciplined
  <2>3. QED
    BY <1>3, <1>4, <2>1, <2>2, Zenon DEF Fresh
<1>6. /\ DOMAIN y = Fields /\ y.chosen = k.chosen /\ y.ready = k.ready /\ y.rank = k.rank
      /\ y.ipi = k.ipi /\ y.queue = [k.queue EXCEPT ![t] = cpu] /\ y.state = [k.state EXCEPT ![t] = st]
  BY <1>2, <1>3 DEF Fields, Fresh
<1>7. y.queue \in [Threads -> CPU] /\ y.queue[t] = cpu
  BY <1>1, <1>2, <1>6
<1>8. Told(y, N)
  BY <1>6, <1>7, ToldSame
<1>9. PICK M : M = N \cup {cpu}
  OBVIOUS
<1>10. Told(n, M) /\ SameAttributes(y, n)
  BY <1>1, <1>4, <1>7, <1>8, <1>9, ToldInsert
<1>11. CASE st = "READY" /\ RescheduleCPU(n, c, cpu)
  <2>1. AfterFresh(k, t, "READY", n)
    BY <1>1, <1>2, <1>3, <1>4, <1>11, FreshReady
  <2>2. KInv(n)
    BY <2>1 DEF AfterFresh
  <2>3. Told(k', M \ {cpu})
    BY <1>10, <1>11, <2>2, ToldRescheduleCPU
  <2>4. QED
    BY <1>9, <2>3, ToldWeaken
<1>12. CASE st = "SUSPENDED" /\ k' = SchedulerRemove(n, t)
  <2>1. Told(k', M) /\ SameAttributes(n, k')
    BY <1>1, <1>10, <1>12, ToldRemove
  <2>2. "SUSPENDED" \in State \ Sched
    BY DEF State, Sched
  <2>3. AfterFresh(k, t, "SUSPENDED", y)
    BY <1>1, <1>2, <1>3, <1>12, <2>2, FreshKeeps
  <2>4. KInv(y) /\ y.state[t] = "SUSPENDED"
    BY <1>1, <1>2, <1>6, <1>12, <2>3 DEF AfterFresh
  <2>5. y.state[t] \notin Sched
    BY <2>4 DEF Sched
  <2>6. AfterInOut(y, k')
    BY <1>4, <1>12, <2>4, <2>5, InOutKeeps
  <2>7. KInv(k') /\ k'.chosen = k.chosen
    BY <1>6, <2>6 DEF AfterInOut
  <2>8. k'.rank = k.rank /\ k'.ipi = k.ipi /\ k'.queue = y.queue /\ k'.state = y.state
    BY <1>6, <1>10, <2>1 DEF SameAttributes
  <2>9. \A u \in Threads : k'.state[u] \in Sched => k.state[u] \in Sched /\ k'.queue[u] = k.queue[u]
    BY <1>1, <1>2, <1>6, <2>5, <2>8
  <2>10. QED
    BY <1>1, <2>1, <2>7, <2>8, <2>9, ToldNoMore
<1>13. QED
  BY <1>5, <1>11, <1>12

(* A thread that is in no ready list may get another rank, as far as the   *)
(* order of the lists is concerned.                                        *)
LEMMA FitRank ==
  ASSUME NEW s, NEW N, NEW x, NEW t \in App, NEW r \in 0..IdleRank, Fit(s, N), DOMAIN x = Fields,
         x.queue \in [Threads -> CPU], x.chosen = s.chosen, x.ready = s.ready,
         x.rank = [s.rank EXCEPT ![t] = r], \A d \in CPU : t \notin ToSet(s.ready[d])
  PROVE  Fit(x, CPU)
<1>1. t \in Threads /\ \A d \in CPU : t # Idle[d] /\ Idle[d] \in Threads
  BY IdleFacts
<1>2. Shape(x)
  BY DEF Fit, Shape
<1>3. x.rank \in [Threads -> 0..IdleRank] /\ \A u \in Threads : u # t => x.rank[u] = s.rank[u]
  BY DEF Fit
<1>4. ASSUME NEW d \in CPU PROVE Sorted(x.ready[d], x.rank)
  <2>1. PICK l : l = s.ready[d]
    OBVIOUS
  <2>2. l \in Seq(Threads) /\ Sorted(l, s.rank) /\ t \notin ToSet(l)
    BY <2>1 DEF Fit, Shape
  <2>3. \A i \in DOMAIN l : l[i] \in Threads /\ l[i] # t
    BY <2>2, ElementOfSeq, LenProperties DEF ToSet
  <2>4. \A i \in DOMAIN l : x.rank[l[i]] = s.rank[l[i]]
    BY <1>3, <2>3
  <2>5. DOMAIN l = 1..Len(l)
    BY <2>2, LenProperties
  <2>6. Sorted(l, x.rank)
    BY <2>2, <2>4, <2>5 DEF Sorted
  <2>7. QED
    BY <2>1, <2>6
<1>5. \A d \in CPU : x.rank[Idle[d]] = IdleRank
  BY <1>1, <1>3 DEF Fit
<1>6. QED
  BY <1>2, <1>3, <1>4, <1>5 DEF Fit

(* priority() on a single processor                                        *)
LEMMA ToldPriority ==
  ASSUME SInv, Preemptive, NEW c \in CPU, NEW t \in App, NEW r \in Ranks, NEW cpu \in CPU, NEW N,
         Told(k, N), Priority(c, t, r, cpu)
  PROVE  Told(k', N)
<1>1. /\ k.state[t] = "RUNNING" \/ t = Main => cpu = k.queue[t]
      /\ k.state[t] \in {"RUNNING", "READY"} /\ k.target[t] = NoTarget
      /\ "priority" \in Calls
  BY DEF Priority, Calling, Preemptive, Disciplined
<1>2. ~SMP
  BY <1>1 DEF Preemptive
<1>3. CPU = {c}
  BY <1>2, ThreadAssumption DEF SMP, CPU
<1>4. KInv(k) /\ Core(k) /\ t \in Threads /\ r \in 0..IdleRank /\ DOMAIN k = Fields /\ k.queue \in [Threads -> CPU]
  <2>1. KInv(k) /\ t \in Threads
    BY IdleFacts DEF SInv
  <2>2. Core(k) /\ DOMAIN k = Fields /\ k.queue \in [Threads -> CPU]
    BY <2>1 DEF KInv, Core, Shape
  <2>3. r \in 0..IdleRank
    BY ThreadAssumption
  <2>4. QED
    BY <2>1, <2>2, <2>3
<1>5. PICK s : s = IF k.state[t] = "RUNNING" THEN [k EXCEPT !.rank[t] = r, !.queue[t] = cpu]
                   ELSE SchedulerInsert([SchedulerRemove(k, t) EXCEPT !.rank[t] = r, !.queue[t] = cpu], t)
  OBVIOUS
<1>6. Reschedule(s, c)
  <2>1. SMP \/ Reschedule(s, c)
    BY <1>5 DEF Priority
  <2>2. QED
    BY <1>2, <2>1
<1>7. Fit(k, N \cup k.ipi)
  BY DEF Told
<1>8. KInv(s) /\ Fit(s, CPU)
  <2>1. CASE k.state[t] = "RUNNING"
    <3>1. s = [k EXCEPT !.rank[t] = r, !.queue[t] = k.queue[t]]
      BY <1>1, <1>5, <2>1
    <3>2. KInv(s)
      BY <1>4, <3>1, RankKeeps DEF AfterIpi
    <3>3. /\ DOMAIN s = Fields /\ s.queue = [k.queue EXCEPT ![t] = k.queue[t]] /\ s.chosen = k.chosen
          /\ s.ready = k.ready /\ s.rank = [k.rank EXCEPT ![t] = r]
      BY <1>4, <3>1 DEF Fields
    <3>4. s.queue \in [Threads -> CPU]
      BY <1>4, <3>3
    <3>5. \A d \in CPU : t \notin ToSet(k.ready[d])
      <4>1. k.chosen[k.queue[t]] = t
        BY <1>4, <2>1 DEF KInv
      <4>2. QED
        BY <1>4, <4>1 DEF Core, Placed
    <3>6. Fit(s, CPU)
      BY <1>4, <1>7, <3>3, <3>4, <3>5, FitRank
    <3>7. QED
      BY <3>2, <3>6
  <2>2. CASE k.state[t] = "READY"
    <3>1. PICK o : o = SchedulerRemove(k, t)
      OBVIOUS
    <3>2. PICK z : z = [o EXCEPT !.rank[t] = r, !.queue[t] = cpu]
      OBVIOUS
    <3>3. In(k, t) /\ Shape(k) /\ Placed(k)
      BY <1>4, <2>2 DEF Core, Sched
    <3>4. AfterRemove(k, t, o)
      BY <1>4, <3>1, <3>3, RemoveKeeps
    <3>5. Shape(o) /\ Placed(o) /\ ~In(o, t) /\ DOMAIN o = Fields /\ o.queue \in [Threads -> CPU]
      BY <1>4, <3>4 DEF AfterRemove, Shape
    <3>6. /\ Requeued(o, t, cpu, z) /\ z.state = o.state /\ z.target = o.target
          /\ z.ipi = o.ipi /\ z.rank = [o.rank EXCEPT ![t] = r]
      BY <3>2, <3>5 DEF Fields, Requeued
    <3>7. AfterPut(k, t, SchedulerInsert(z, t))
      BY <1>1, <1>4, <2>2, <3>1, <3>6, PutElsewhere
    <3>8. s = SchedulerInsert(z, t)
      BY <1>5, <2>2, <3>1, <3>2
    <3>9. KInv(s)
      BY <3>7, <3>8, Zenon DEF AfterPut
    <3>10. Fit(o, N \cup k.ipi)
      BY <1>4, <1>7, <3>1, FitRemove
    <3>11. \A d \in CPU : t \notin ToSet(o.ready[d])
      BY <1>4, <3>5 DEF Placed, In
    <3>12. DOMAIN z = Fields /\ z.chosen = o.chosen /\ z.ready = o.ready /\ z.queue \in [Threads -> CPU]
      BY <3>5, <3>6 DEF Requeued
    <3>13. Fit(z, CPU)
      BY <1>4, <3>6, <3>10, <3>11, <3>12, FitRank
    <3>14. Fit(s, CPU \cup {z.queue[t]})
      BY <1>4, <3>8, <3>13, FitInsert
    <3>15. Fit(s, CPU)
      BY <1>4, <3>12, <3>14, FitWeaken
    <3>16. QED
      BY <3>9, <3>15
  <2>3. QED
    BY <1>1, <2>1, <2>2
<1>9. Told(s, CPU)
  BY <1>8, FitWeaken DEF Told
<1>10. Told(k', CPU \ {c})
  BY <1>6, <1>8, <1>9, ToldReschedule
<1>11. QED
  BY <1>3, <1>10, ToldWeaken

(* The inter-processor interrupt and the timer's, with the balancer        *)
LEMMA ToldInterrupt ==
  ASSUME SInv, Disciplined, NEW c \in CPU, NEW N, Told(k, N), Rescheduler(c) \/ TimeSlicer(c)
  PROVE  Told(k', N)
<1>1. PICK M : M = N \cup {c}
  OBVIOUS
<1>2. ASSUME NEW s, KInv(s), Told(s, M), Reschedule(s, c) PROVE Told(k', N)
  <2>1. Told(k', M \ {c})
    BY <1>2, ToldReschedule
  <2>2. QED
    BY <1>1, <2>1, ToldWeaken
<1>3. CASE Rescheduler(c)
  <2>1. DOMAIN k = Fields /\ k.queue \in [Threads -> CPU] /\ k.ipi \ {c} \in SUBSET CPU /\ KInv(k)
    BY DEF SInv, KInv, Core, Shape
  <2>2. PICK s : s = [k EXCEPT !.ipi = @ \ {c}]
    OBVIOUS
  <2>3. KInv(s)
    <3>1. s = [k EXCEPT !.ipi = k.ipi \ {c}]
      BY <2>2
    <3>2. AfterIpi(k, s)
      BY <2>1, <3>1, IpiKeeps
    <3>3. QED
      BY <3>2 DEF AfterIpi
  <2>4. /\ DOMAIN s = Fields /\ s.queue = k.queue /\ s.chosen = k.chosen /\ s.ready = k.ready
        /\ s.rank = k.rank /\ s.ipi = k.ipi \ {c}
    BY <2>1, <2>2 DEF Fields
  <2>5. \A d \in CPU : d \in N \/ d \in k.ipi => d \in M \/ d \in s.ipi
    BY <1>1, <2>4
  <2>6. Told(s, M)
    BY <2>1, <2>4, <2>5, ToldSame
  <2>7. QED
    BY <1>2, <1>3, <2>2, <2>3, <2>6 DEF Rescheduler
<1>4. CASE TimeSlicer(c)
  <2>1. PICK s \in Balanced(c) : Reschedule(s, c)
    BY <1>4 DEF TimeSlicer
  <2>2. KInv(s)
    BY BalancedKeeps
  <2>3. Told(s, M)
    BY <1>1, ToldBalanced
  <2>4. QED
    BY <1>2, <2>1, <2>2, <2>3
<1>5. QED
  BY <1>3, <1>4

(* idle() yielding to whoever is ready                                     *)
LEMMA ToldIdleYield ==
  ASSUME SInv, NEW c \in CPU, NEW N, Told(k, N), IdleYield(c)
  PROVE  Told(k', N)
<1>1. k.chosen[c] = Idle[c] /\ k.queue[Idle[c]] = c
  BY PlaceFacts DEF IdleYield, SInv, Flow, RunningIsExecuting, KInv, Core, AtHome
<1>2. Told(ChooseAnother(k, c), N)
  BY <1>1, ToldIdle
<1>3. Dispatch(ChooseAnother(k, c), c, k.chosen[c])
  BY DEF IdleYield, YieldAt, Running
<1>4. QED
  BY <1>2, <1>3, ToldDispatch
-----------------------------------------------------------------------------
(* The CPUs that a wakeup_all() in progress has yet to notify              *)
Owed == {d \in CPU : \/ \E t \in Threads : d \in loop[t]
                     \/ \E e \in CPU : pc[e].at = "waking" /\ d \in pc[e].cpus}

(* Who is not in the middle of a dispatch() has nothing left over from one,*)
(* nor has a thread that has not run.                                      *)
LoopOK ==
    /\ \A c \in CPU : pc[c].at \notin {"switch", "resume"} => loop[exec[c]] = {}
    /\ \A t \in Threads : loop[t] # {} =>
         /\ k.state[t] # "NONE"
         /\ context[t] # Null /\ context[t].fresh => \E c \in CPU : exec[c] = t /\ pc[c].at = "switch"

(* The inductive invariant of preemption                                   *)
VInv == /\ Told(k, Owed)
        /\ LoopOK
        /\ SMP => \A t \in Threads : joining[t] = Null

(* An operation of CPU c outside wakeup_all() leaves what is owed.         *)
LEMMA OwedKept ==
  ASSUME SInv, NEW c \in CPU, pc[c].at # "waking", Turned(c), loop' = loop
  PROVE  \A d \in CPU : d \in Owed => d \in Owed'
<1>1. \A e \in CPU : e # c => pc'[e] = pc[e]
  BY DEF Turned, SInv, Flow
<1>2. QED
  BY <1>1 DEF Owed

(* Nor does it bring a thread into the middle of one.                      *)
LEMMA LoopKept ==
  ASSUME SInv, LoopOK, NEW c \in CPU, pc[c].at # "resume", Did(c), loop' = loop
  PROVE  LoopOK'
<1>1. /\ \A e \in CPU : e # c => pc'[e] = pc[e]
      /\ pc[c].at # "switch" /\ exec' = exec
  BY DEF Did, Turned, SInv, Flow
<1>2. \A e \in CPU : pc'[e].at \notin {"switch", "resume"} => loop'[exec'[e]] = {}
  BY <1>1 DEF LoopOK
<1>3. ASSUME NEW t \in Threads, loop'[t] # {}
      PROVE  /\ k'.state[t] # "NONE"
             /\ context'[t] # Null /\ context'[t].fresh => \E e \in CPU : exec'[e] = t /\ pc'[e].at = "switch"
  <2>1. k.state[t] # "NONE"
    BY <1>3 DEF LoopOK
  <2>2. k'.state[t] # "NONE" /\ context'[t] = context[t]
    BY <2>1 DEF Did, Aged
  <2>3. context'[t] # Null /\ context'[t].fresh => \E e \in CPU : exec[e] = t /\ pc[e].at = "switch"
    BY <1>3, <2>2 DEF LoopOK
  <2>4. QED
    BY <1>1, <2>2, <2>3
<1>4. QED
  BY <1>2, <1>3 DEF LoopOK

(* An operation outside wakeup_all() that tells whom it has to             *)
LEMMA ToldStep ==
  ASSUME SInv, VInv, NEW c \in CPU, pc[c].at \notin {"waking", "resume"}, Did(c), loop' = loop,
         Told(k', Owed), SMP => \A t \in Threads : joining'[t] = Null
  PROVE  VInv'
<1>1. \A d \in CPU : d \in Owed => d \in Owed'
  BY OwedKept DEF Did
<1>2. PICK M : M = Owed'
  OBVIOUS
<1>3. PICK N : N = Owed
  OBVIOUS
<1>4. Told(k', N) /\ \A d \in CPU : d \in N => d \in M
  BY <1>1, <1>2, <1>3
<1>5. Told(k', M)
  BY <1>4, ToldWeaken
<1>6. LoopOK'
  BY LoopKept DEF VInv
<1>7. QED
  BY <1>2, <1>5, <1>6 DEF VInv

(* Who enters an operation is at work.                                     *)
LEMMA EnteringPlace ==
  ASSUME NEW c \in CPU, Entering(c)
  PROVE  pc[c].at \notin {"waking", "resume", "switch"}
BY PlaceFacts DEF Entering

(* The operations of Thread                                                *)
LEMMA OperationTells ==
  ASSUME Preemptive, SInv, LInv, VInv, NEW c \in CPU, Operation(c)
  PROVE  VInv'
<1>2. PICK N : N = Owed
  OBVIOUS
<1>3. Disciplined /\ Told(k, N)
  BY <1>2 DEF Preemptive, VInv
<1>4. ASSUME Entering(c), Did(c), Told(k', N), loop' = loop, SMP => \A t \in Threads : joining'[t] = Null
      PROVE  VInv'
  BY <1>2, <1>4, EnteringPlace, ToldStep
<1>5. SMP => \A t \in Threads : joining[t] = Null
  BY DEF VInv
<1>6. CASE \E t \in App, st \in {"READY", "SUSPENDED"}, cpu \in CPU : Create(c, t, st, cpu)
  <2>1. PICK t \in App, st \in {"READY", "SUSPENDED"}, cpu \in CPU : Create(c, t, st, cpu)
    BY <1>6
  <2>2. Did(c)
    BY <1>3, <2>1, CreateStep DEF LInv
  <2>3. Told(k', N)
    BY <1>3, <2>1, ToldCreate DEF LInv
  <2>4. Entering(c) /\ loop' = loop /\ joining' = joining
    BY <2>1 DEF Create, Calling
  <2>5. QED
    BY <1>4, <1>5, <2>2, <2>3, <2>4
<1>7. ASSUME NEW t \in App, Join(c, t) PROVE VInv'
  <2>1. ~SMP
    BY <1>7 DEF Join, Calling, Preemptive
  <2>2. Did(c)
    BY <1>7, JoinStep
  <2>3. Told(k', N)
    BY <1>3, <1>7, ToldJoin
  <2>4. Entering(c) /\ loop' = loop
    BY <1>7 DEF Join, Calling
  <2>5. QED
    BY <1>4, <2>1, <2>2, <2>3, <2>4
<1>8. ASSUME NEW t \in App, Pass(c, t) PROVE VInv'
  BY <1>8 DEF Pass, Calling, Preemptive, Disciplined
<1>9. ASSUME NEW t \in App, Suspend(c, t) PROVE VInv'
  <2>1. Did(c)
    BY <1>3, <1>9, SuspendStep
  <2>2. Told(k', N)
    BY <1>3, <1>9, ToldSuspend
  <2>3. Entering(c) /\ loop' = loop /\ joining' = joining
    BY <1>9 DEF Suspend, Calling
  <2>4. QED
    BY <1>4, <1>5, <2>1, <2>2, <2>3
<1>10. ASSUME NEW t \in App, Resume(c, t) PROVE VInv'
  <2>1. Did(c)
    BY <1>3, <1>10, ResumeStep
  <2>2. Told(k', N)
    BY <1>3, <1>10, ToldResume
  <2>3. Entering(c) /\ loop' = loop /\ joining' = joining
    BY <1>10 DEF Resume, Calling
  <2>4. QED
    BY <1>4, <1>5, <2>1, <2>2, <2>3
<1>11. ASSUME NEW t \in App, Delete(c, t) PROVE VInv'
  <2>1. Did(c)
    BY <1>3, <1>11, DeleteStep
  <2>2. Told(k', N)
    BY <1>3, <1>11, ToldDelete
  <2>3. Entering(c) /\ loop' = loop /\ joining' = joining
    BY <1>11 DEF Delete, Calling
  <2>4. QED
    BY <1>4, <1>5, <2>1, <2>2, <2>3
<1>12. ASSUME NEW t \in App, NEW r \in Ranks, NEW cpu \in CPU, Priority(c, t, r, cpu) PROVE VInv'
  <2>1. Did(c)
    BY <1>3, <1>12, PriorityStep
  <2>2. Told(k', N)
    BY <1>3, <1>12, ToldPriority
  <2>3. Entering(c) /\ loop' = loop /\ joining' = joining
    BY <1>12 DEF Priority, Calling
  <2>4. QED
    BY <1>4, <1>5, <2>1, <2>2, <2>3
<1>13. CASE Yield(c)
  BY <1>13 DEF Yield, Calling, Preemptive
<1>14. CASE Exit(c)
  <2>1. Did(c)
    BY <1>14, ExitStep
  <2>2. Told(k', N)
    BY <1>3, <1>5, <1>14, ToldExit
  <2>3. Entering(c) /\ loop' = loop
    BY <1>14 DEF Exit, Calling
  <2>4. SMP => \A t \in Threads : joining'[t] = Null
    <3>1. joining' = [joining EXCEPT ![k.chosen[c]] = Null]
      BY <1>14 DEF Exit, Running
    <3>2. joining \in [Threads -> App \cup {Null}]
      BY DEF SInv, JoinOK
    <3>3. QED
      BY <1>5, <3>1, <3>2
  <2>5. QED
    BY <1>4, <2>1, <2>2, <2>3, <2>4
<1>15. QED
  BY <1>6, <1>7, <1>8, <1>9, <1>10, <1>11, <1>12, <1>13, <1>14 DEF Operation

(* The calls that the synchronizers make                                   *)
LEMMA CallTells ==
  ASSUME SInv, LInv, VInv, NEW c \in CPU, NEW q \in Sync, Entering(c),
         Sleep(c, q) \/ Wakeup(c, q) \/ WakeupAll(c, q)
  PROVE  VInv'
<1>1. PICK N : N = Owed
  OBVIOUS
<1>2. Told(k, N)
  BY <1>1 DEF VInv
<1>3. Did(c)
  BY SleepStep, WakeupStep, WakeupAllStep
<1>4. loop' = loop /\ joining' = joining
  BY DEF Sleep, Wakeup, WakeupAll
<1>5. Told(k', N)
  <2>1. CASE WakeupAll(c, q)
    BY <1>2, <2>1 DEF WakeupAll
  <2>2. QED
    BY <1>2, <2>1, ToldSleep, ToldWakeup
<1>6. QED
  BY <1>1, <1>3, <1>4, <1>5, EnteringPlace, ToldStep DEF VInv

(* wakeup_all() making a thread ready owes its CPU an interrupt.           *)
LEMMA WakeTells ==
  ASSUME SInv, VInv, NEW c \in CPU, Wake(c)
  PROVE  VInv'
<1>1. PICK q \in Sync : q = pc[c].q
  BY PlaceFacts DEF Wake, SInv, Flow
<1>2. PICK t : t = Head(waitq[q])
  OBVIOUS
<1>3. /\ pc[c].at = "waking" /\ waitq[q] # <<>> /\ loop' = loop /\ joining' = joining
      /\ k' = SchedulerInsert([k EXCEPT !.state[t] = "READY"], t)
      /\ pc' = [pc EXCEPT ![c] = Waking(q, pc[c].cpus \cup {k.queue[t]})]
  BY <1>1, <1>2 DEF Wake
<1>4. t \in App
  BY <1>2, <1>3, WaitTail DEF SInv
<1>5. t \in Threads /\ k.state \in [Threads -> State] /\ pc \in [CPU -> Places]
  BY <1>4, IdleFacts DEF SInv, KInv, Core, Flow
<1>6. PICK N : N = Owed
  OBVIOUS
<1>7. Told(k', N \cup {k.queue[t]})
  BY <1>3, <1>5, <1>6, ToldWoken DEF VInv
<1>8. pc'[c].at = "waking" /\ pc'[c].cpus = pc[c].cpus \cup {k.queue[t]} /\ \A e \in CPU : e # c => pc'[e] = pc[e]
  BY <1>3, <1>5 DEF Waking
<1>9. \A d \in CPU : d \in N \cup {k.queue[t]} => d \in Owed'
  BY <1>3, <1>6, <1>8 DEF Owed
<1>10. PICK M : M = Owed'
  OBVIOUS
<1>11. Told(k', M)
  BY <1>7, <1>9, <1>10, ToldWeaken
<1>12. Did(c)
  BY WakeAllStep
<1>13. LoopOK'
  BY <1>3, <1>12, LoopKept DEF VInv
<1>14. QED
  BY <1>3, <1>10, <1>11, <1>13 DEF VInv

(* Its last loop pays what is owed, or leaves it to be paid.               *)
LEMMA NotifyTells ==
  ASSUME SInv, LInv, VInv, NEW c \in CPU, NEW cpus \in SUBSET CPU, NotifyFrom(k, c, exec[c], cpus),
         \/ pc[c].at = "waking" /\ cpus = pc[c].cpus
         \/ pc[c].at = "resume" /\ cpus = loop[exec[c]],
         Did(c), joining' = joining, context' = context
  PROVE  VInv'
<1>1. PICK t \in Threads : t = exec[c]
  BY DEF SInv, Flow
<1>2. /\ pc \in [CPU -> Places] /\ loop \in [Threads -> SUBSET CPU] /\ KInv(k)
      /\ exec \in [CPU -> Threads]
  BY DEF SInv, Flow
<1>3. PICK N : N = Owed
  OBVIOUS
<1>4. Told(k', (N \ cpus) \cup loop'[t])
  BY <1>1, <1>2, <1>3, ToldNotify DEF VInv
<1>5. /\ \A u \in Threads : u # t => loop'[u] = loop[u]
      /\ \A e \in CPU : e # c => pc'[e] = pc[e]
      /\ exec' = exec
      /\ \/ pc'[c] = AtWork /\ loop'[t] = {}
         \/ pc'[c].at = "switch"
  <2>1. \/ pc' = [pc EXCEPT ![c] = AtWork] /\ loop' = [loop EXCEPT ![t] = {}]
        \/ \E s, L : /\ Dispatch(s, c, k.chosen[c]) /\ s.chosen[c] # k.chosen[c]
                     /\ loop' = [loop EXCEPT ![t] = L]
    BY <1>1, Zenon DEF NotifyFrom
  <2>2. CASE pc' = [pc EXCEPT ![c] = AtWork] /\ loop' = [loop EXCEPT ![t] = {}]
    BY <1>2, <2>2 DEF Did
  <2>3. CASE \E s, L : /\ Dispatch(s, c, k.chosen[c]) /\ s.chosen[c] # k.chosen[c]
                       /\ loop' = [loop EXCEPT ![t] = L]
    <3>1. PICK s, L : /\ Dispatch(s, c, k.chosen[c]) /\ s.chosen[c] # k.chosen[c]
                      /\ loop' = [loop EXCEPT ![t] = L]
      BY <2>3
    <3>2. s.chosen[c] # Null
      <4>1. DOMAIN k' = Fields /\ k'.intact = TRUE
        BY <1>1, <1>2, NotifyStep DEF KInv, Core, Shape, Placed
      <4>2. ASSUME s.chosen[c] = Null PROVE k' = [s EXCEPT !.intact = FALSE]
        BY <3>1, <4>2 DEF Dispatch, Dispatched
      <4>3. ASSUME s.chosen[c] = Null PROVE FALSE
        BY <4>1, <4>2, <4>3 DEF Fields
      <4>4. QED
        BY <4>3
    <3>3. pc' = [pc EXCEPT ![c] = Switching(k.chosen[c], s.chosen[c])]
      BY <3>1, <3>2 DEF Dispatch
    <3>4. pc'[c].at = "switch" /\ \A e \in CPU : e # c => pc'[e] = pc[e]
      BY <1>2, <3>3 DEF Switching
    <3>5. \A u \in Threads : u # t => loop'[u] = loop[u]
      BY <1>2, <3>1
    <3>6. QED
      BY <3>4, <3>5 DEF Did
  <2>4. QED
    BY <2>1, <2>2, <2>3
<1>6. pc'[c].at # "waking"
  BY <1>5, PlaceFacts
<1>7. \A d \in CPU : d \in (N \ cpus) \cup loop'[t] => d \in Owed'
  <2>1. ASSUME NEW d \in CPU, d \in loop'[t] PROVE d \in Owed'
    BY <2>1 DEF Owed
  <2>2. ASSUME NEW d \in CPU, d \in N, d \notin cpus PROVE d \in Owed'
    <3>1. CASE \E u \in Threads : d \in loop[u]
      <4>1. PICK u \in Threads : d \in loop[u]
        BY <3>1
      <4>2. u # t
        <5>1. pc[c].at = "waking" => loop[t] = {}
          BY <1>1 DEF VInv, LoopOK
        <5>2. QED
          BY <1>1, <2>2, <4>1, <5>1
      <4>3. d \in loop'[u]
        BY <1>5, <4>1, <4>2
      <4>4. QED
        BY <4>3 DEF Owed
    <3>2. CASE \E e \in CPU : pc[e].at = "waking" /\ d \in pc[e].cpus
      <4>1. PICK e \in CPU : pc[e].at = "waking" /\ d \in pc[e].cpus
        BY <3>2
      <4>2. e # c
        BY <2>2, <4>1
      <4>3. pc'[e].at = "waking" /\ d \in pc'[e].cpus
        BY <1>5, <4>1, <4>2
      <4>4. QED
        BY <4>3 DEF Owed
    <3>3. QED
      BY <1>3, <2>2, <3>1, <3>2 DEF Owed
  <2>3. QED
    BY <2>1, <2>2
<1>8. PICK M : M = Owed'
  OBVIOUS
<1>9. Told(k', M)
  BY <1>4, <1>7, <1>8, ToldWeaken
<1>10. \A e \in CPU : e # c => exec[e] # t
  BY <1>1 DEF LInv, StackOK
<1>11. \A e \in CPU : pc'[e].at \notin {"switch", "resume"} => loop'[exec'[e]] = {}
  <2>1. ASSUME NEW e \in CPU, pc'[e].at \notin {"switch", "resume"} PROVE loop'[exec'[e]] = {}
    <3>1. CASE e = c
      BY <1>1, <1>5, <2>1, <3>1
    <3>2. CASE e # c
      <4>1. exec[e] \in Threads /\ exec[e] # t /\ loop[exec[e]] = {}
        BY <1>2, <1>5, <1>10, <2>1, <3>2 DEF VInv, LoopOK
      <4>2. QED
        BY <1>5, <4>1
    <3>3. QED
      BY <3>1, <3>2
  <2>2. QED
    BY <2>1
<1>12. ASSUME NEW u \in Threads, loop'[u] # {}
       PROVE  /\ k'.state[u] # "NONE"
              /\ context'[u] # Null /\ context'[u].fresh => \E e \in CPU : exec'[e] = u /\ pc'[e].at = "switch"
  <2>1. CASE u = t
    <3>1. k.state[t] # "NONE"
      BY <1>1 DEF LInv, StackOK
    <3>2. k'.state[t] # "NONE"
      BY <3>1 DEF Did, Aged
    <3>3. exec'[c] = t /\ pc'[c].at = "switch"
      BY <1>1, <1>5, <1>12, <2>1
    <3>4. QED
      BY <2>1, <3>2, <3>3
  <2>2. CASE u # t
    <3>1. loop[u] # {}
      BY <1>5, <1>12, <2>2
    <3>2. /\ k.state[u] # "NONE"
          /\ context[u] # Null /\ context[u].fresh => \E e \in CPU : exec[e] = u /\ pc[e].at = "switch"
      BY <3>1 DEF VInv, LoopOK
    <3>3. k'.state[u] # "NONE"
      BY <3>2 DEF Did, Aged
    <3>4. \A e \in CPU : exec[e] = u => e # c
      BY <1>1, <2>2
    <3>5. QED
      BY <1>5, <3>2, <3>3, <3>4
  <2>3. QED
    BY <2>1, <2>2
<1>13. LoopOK'
  BY <1>11, <1>12 DEF LoopOK
<1>14. QED
  BY <1>8, <1>9, <1>13 DEF VInv

(* The end of wakeup_all(), at once or after a switch                      *)
LEMMA NotifyReenterTells ==
  ASSUME SInv, LInv, VInv, NEW c \in CPU, Notify(c) \/ Reenter(c)
  PROVE  VInv'
<1>1. Did(c) /\ joining' = joining /\ context' = context
  BY NotifyReenterStep DEF Notify, Reenter
<1>2. CASE Notify(c)
  <2>1. pc[c].at = "waking" /\ NotifyFrom(k, c, exec[c], pc[c].cpus)
    BY <1>2 DEF Notify
  <2>2. pc[c].cpus \in SUBSET CPU
    BY <2>1, PlaceFacts DEF SInv, Flow
  <2>3. QED
    BY <1>1, <2>1, <2>2, NotifyTells
<1>3. CASE Reenter(c)
  <2>1. pc[c].at = "resume" /\ NotifyFrom(k, c, exec[c], loop[exec[c]])
    BY <1>3 DEF Reenter
  <2>2. loop[exec[c]] \in SUBSET CPU
    BY DEF SInv, Flow
  <2>3. QED
    BY <1>1, <2>1, <2>2, NotifyTells
<1>4. QED
  BY <1>2, <1>3

(* A step that changes no scheduler                                        *)
LEMMA SameTells ==
  ASSUME SInv, VInv, UNCHANGED <<k, loop, joining>>, LoopOK', NEW c \in CPU, pc[c].at # "waking",
         \A e \in CPU : e # c => pc'[e] = pc[e]
  PROVE  VInv'
<1>1. \A d \in CPU : d \in Owed => d \in Owed'
  BY DEF Owed
<1>2. PICK M : M = Owed'
  OBVIOUS
<1>3. Told(k', M)
  BY <1>1, <1>2, ToldWeaken DEF VInv
<1>4. QED
  BY <1>2, <1>3 DEF VInv

(* The switch: a thread comes back to what it had left, and one that has   *)
(* not run has left nothing.                                               *)
LEMMA SwitchTells ==
  ASSUME SInv, LInv, VInv, NEW c \in CPU, Switch(c)
  PROVE  VInv'
<1>1. PICK prev \in Threads, next \in Threads : prev = pc[c].prev /\ next = pc[c].next
  BY PlaceFacts DEF Switch, SInv, Flow
<1>2. PICK ctx : ctx = context[next]
  OBVIOUS
<1>3. /\ pc[c].at = "switch" /\ ctx # Null
      /\ context' = [context EXCEPT ![next] = Null, ![prev] = Context(exec[c], FALSE)]
      /\ exec' = [exec EXCEPT ![c] = ctx.flow]
      /\ pc' = [pc EXCEPT ![c] = IF ctx.fresh THEN AtWork ELSE [at |-> "resume"]]
      /\ UNCHANGED <<k, loop, joining>>
  BY <1>1, <1>2 DEF Switch
<1>4. /\ pc \in [CPU -> Places] /\ exec \in [CPU -> Threads] /\ DOMAIN context = Threads
      /\ exec[c] = prev /\ k.chosen[c] = next /\ ctx.flow = next
  BY <1>1, <1>2, <1>3 DEF SInv, Flow, RunningIsExecuting, ContextOK
<1>5. prev # next
  BY <1>1, <1>3 DEF LInv, StackOK
<1>6. /\ pc'[c] = IF ctx.fresh THEN AtWork ELSE [at |-> "resume"]
      /\ exec'[c] = next /\ \A e \in CPU : e # c => pc'[e] = pc[e] /\ exec'[e] = exec[e]
      /\ context'[next] = Null /\ context'[prev].fresh = FALSE
      /\ \A u \in Threads : u \notin {prev, next} => context'[u] = context[u]
  BY <1>1, <1>3, <1>4, <1>5 DEF Context
<1>7. ctx.fresh => loop[next] = {}
  <2>1. SUFFICES ASSUME ctx.fresh, loop[next] # {} PROVE FALSE
    OBVIOUS
  <2>2. PICK e \in CPU : exec[e] = next /\ pc[e].at = "switch"
    BY <1>2, <1>3, <2>1 DEF VInv, LoopOK
  <2>3. e # c
    BY <1>4, <1>5, <2>2
  <2>4. next = Idle[e] \/ (next = Main /\ e = BSP)
    <3>1. \A d \in CPU : \/ context[exec[d]] = Null
                         \/ exec[d] = Idle[d]
                         \/ exec[d] = Main /\ d = BSP
      BY DEF LInv, StackOK
    <3>2. context[exec[e]] # Null
      BY <1>2, <1>3, <2>2
    <3>3. QED
      BY <2>2, <3>1, <3>2
  <2>5. Core(k)
    BY DEF SInv, KInv
  <2>6. k.queue[next] = e
    BY <2>4, <2>5 DEF Core, AtHome
  <2>7. k.queue[next] = c
    BY <1>4, <2>5, NullIsNoThread DEF Core, Placed
  <2>8. QED
    BY <2>3, <2>6, <2>7
<1>8. \A e \in CPU : pc'[e].at \notin {"switch", "resume"} => loop'[exec'[e]] = {}
  <2>1. ASSUME NEW e \in CPU, pc'[e].at \notin {"switch", "resume"} PROVE loop'[exec'[e]] = {}
    <3>1. CASE e = c
      BY <1>3, <1>6, <1>7, <2>1, <3>1
    <3>2. CASE e # c
      BY <1>3, <1>6, <2>1, <3>2 DEF VInv, LoopOK
    <3>3. QED
      BY <3>1, <3>2
  <2>2. QED
    BY <2>1
<1>9. ASSUME NEW u \in Threads, loop'[u] # {}
      PROVE  /\ k'.state[u] # "NONE"
             /\ context'[u] # Null /\ context'[u].fresh => \E e \in CPU : exec'[e] = u /\ pc'[e].at = "switch"
  <2>1. loop[u] # {}
    BY <1>3, <1>9
  <2>2. /\ k'.state[u] # "NONE"
        /\ context[u] # Null /\ context[u].fresh => \E e \in CPU : exec[e] = u /\ pc[e].at = "switch"
    BY <1>3, <2>1 DEF VInv, LoopOK
  <2>3. CASE u \in {prev, next}
    BY <1>6, <2>2, <2>3
  <2>4. CASE u \notin {prev, next}
    BY <1>4, <1>6, <2>2, <2>4
  <2>5. QED
    BY <2>3, <2>4
<1>10. LoopOK'
  BY <1>8, <1>9 DEF LoopOK
<1>11. QED
  BY <1>3, <1>6, <1>10, SameTells

(* A CPU leaving idle()                                                    *)
LEMMA LeaveTells ==
  ASSUME SInv, VInv, NEW c \in CPU, Leave(c)
  PROVE  VInv'
<1>1. /\ UNCHANGED <<k, loop, joining, exec, context>> /\ pc[c] = AtWork
      /\ pc' = [pc EXCEPT ![c] = [at |-> "barrier"]]
  BY DEF Leave
<1>2. \A e \in CPU : e # c => pc'[e] = pc[e]
  BY <1>1 DEF SInv, Flow
<1>3. pc[c].at \notin {"switch", "resume", "waking"}
  BY <1>1, PlaceFacts
<1>4. LoopOK'
  BY <1>1, <1>2, <1>3 DEF VInv, LoopOK
<1>5. QED
  BY <1>1, <1>2, <1>3, <1>4, SameTells

(* Nothing happens.                                                        *)
LEMMA StutterTells ==
  ASSUME VInv, UNCHANGED vars
  PROVE  VInv'
<1>1. UNCHANGED <<k, loop, joining, exec, context, pc>>
  BY DEF vars
<1>2. Owed' = Owed
  BY <1>1 DEF Owed
<1>3. LoopOK'
  BY <1>1 DEF VInv, LoopOK
<1>4. QED
  BY <1>1, <1>2, <1>3 DEF VInv

(* What a CPU does by itself                                               *)
LEMMA KernelTells ==
  ASSUME Disciplined, SInv, LInv, VInv, NEW c \in CPU, Kernel(c)
  PROVE  VInv'
<1>1. PICK N : N = Owed
  OBVIOUS
<1>2. Told(k, N)
  BY <1>1 DEF VInv
<1>3. ASSUME pc[c] = AtWork, Did(c), Told(k', N), loop' = loop, joining' = joining
      PROVE  VInv'
  <2>1. pc[c].at \notin {"waking", "resume"}
    BY <1>3, PlaceFacts
  <2>2. QED
    BY <1>1, <1>3, <2>1, ToldStep DEF VInv
<1>4. CASE Rescheduler(c) \/ TimeSlicer(c)
  <2>1. Did(c) /\ Told(k', N)
    BY <1>2, <1>4, InterruptStep, ToldInterrupt
  <2>2. pc[c] = AtWork /\ loop' = loop /\ joining' = joining
    BY <1>4 DEF Rescheduler, TimeSlicer
  <2>3. QED
    BY <1>3, <2>1, <2>2
<1>5. CASE IdleYield(c)
  <2>1. pc[c] = AtWork /\ loop' = loop /\ joining' = joining /\ YieldAt(c)
    BY <1>5 DEF IdleYield, YieldAt
  <2>2. Did(c)
    BY <2>1, PlaceFacts, YieldStep
  <2>3. Told(k', N)
    BY <1>2, <1>5, ToldIdleYield
  <2>4. QED
    BY <1>3, <2>1, <2>2, <2>3
<1>6. QED
  BY <1>4, <1>5, WakeTells, NotifyReenterTells, SwitchTells, LeaveTells DEF Kernel

(* Every step keeps the invariant.                                         *)
LEMMA NextTells ==
  ASSUME Preemptive, SInv, LInv, VInv, [Next]_vars
  PROVE  VInv'
<1>1. Disciplined
  BY DEF Preemptive
<1>2. CASE UNCHANGED vars
  BY <1>2, StutterTells
<1>3. CASE Reboot
  BY <1>3, StutterTells DEF Reboot
<1>4. ASSUME NEW c \in CPU, Operation(c) PROVE VInv'
  BY <1>4, OperationTells
<1>5. ASSUME NEW c \in CPU, Synchronize(c) PROVE VInv'
  BY <1>5, CallTells DEF Synchronize, Calling
<1>6. ASSUME NEW c \in CPU, Kernel(c) PROVE VInv'
  BY <1>1, <1>6, KernelTells
<1>7. QED
  BY <1>2, <1>3, <1>4, <1>5, <1>6 DEF Next

(* At the beginning only idle threads are ready.                           *)
LEMMA InitTells ==
  ASSUME Disciplined, Init
  PROVE  VInv
<1>1. SInv
  BY InitKeeps
<1>2. Shape(k)
  BY <1>1 DEF SInv, KInv, Core
<1>3. /\ k.rank = Rank
      /\ k.chosen = [c \in CPU |-> IF c = BSP THEN Main ELSE Idle[c]]
      /\ k.ready = [c \in CPU |-> IF c = BSP THEN <<Idle[c]>> ELSE <<>>]
  BY DEF Init
<1>4. Rank \in [Threads -> 0..IdleRank] /\ \A d \in CPU : Rank[Idle[d]] = IdleRank
  BY ThreadAssumption, IdleFacts
<1>5. ASSUME NEW d \in CPU PROVE Sorted(k.ready[d], k.rank) /\ \A t \in ToSet(k.ready[d]) : k.rank[k.chosen[d]] <= k.rank[t]
  <2>1. k.chosen[d] \in Threads
    BY <1>1 DEF SInv, KInv, Core
  <2>2. k.ready[d] = <<Idle[d]>> \/ k.ready[d] = <<>>
    BY <1>3
  <2>3. DOMAIN k.ready[d] \subseteq {1} /\ \A i \in DOMAIN k.ready[d] : k.ready[d][i] = Idle[d]
    BY <2>2
  <2>4. IdleRank \in Nat
    BY ThreadAssumption
  <2>5. Sorted(k.ready[d], k.rank)
    BY <2>3 DEF Sorted
  <2>6. \A t \in ToSet(k.ready[d]) : t = Idle[d]
    BY <2>3 DEF ToSet
  <2>7. QED
    BY <1>3, <1>4, <2>1, <2>4, <2>5, <2>6
<1>6. Told(k, Owed)
  BY <1>2, <1>3, <1>4, <1>5 DEF Told, Fit
<1>7. LoopOK
  BY <1>1 DEF Init, LoopOK, SInv, Flow
<1>8. QED
  BY <1>6, <1>7 DEF Init, VInv

(* A ready thread that is more urgent than the one its CPU runs has that   *)
(* CPU told, whatever operations wake, create, move, block and end threads *)
(* on whichever CPU.                                                       *)
THEOREM PreemptionIsNotified == ASSUME Preemptive PROVE Spec => []PreemptionNotified
<1>1. Disciplined
  BY DEF Preemptive
<1>2. Init => VInv
  BY <1>1, InitTells
<1>3. SInv /\ LInv /\ VInv /\ [Next]_vars => VInv'
  BY NextTells
<1>4. SInv /\ VInv => PreemptionNotified
  <2>1. ASSUME SInv, VInv, NEW c \in CPU, NEW i \in DOMAIN k.ready[c],
               k.rank[k.ready[c][i]] < k.rank[k.chosen[c]]
        PROVE  \/ c \in k.ipi
               \/ \E t \in Threads : c \in loop[t]
               \/ \E d \in CPU : pc[d].at = "waking" /\ c \in pc[d].cpus
    <3>1. k.ready[c][i] \in ToSet(k.ready[c])
      BY <2>1 DEF ToSet
    <3>2. k.ready[c] \in Seq(Threads) /\ k.chosen[c] \in Threads /\ k.rank \in [Threads -> 0..IdleRank]
      BY <2>1 DEF SInv, KInv, Core, Shape
    <3>3. k.ready[c][i] \in Threads
      BY <3>2, ElementOfSeq, LenProperties
    <3>4. ~(k.rank[k.chosen[c]] <= k.rank[k.ready[c][i]])
      BY <2>1, <3>2, <3>3, ThreadAssumption
    <3>5. c \in Owed \cup k.ipi
      BY <2>1, <3>1, <3>4 DEF VInv, Told, Fit
    <3>6. QED
      BY <3>5 DEF Owed
  <2>2. QED
    BY <2>1 DEF PreemptionNotified
<1>5. QED
  BY <1>1, <1>2, <1>3, <1>4, Invariance, PTL DEF Spec

-----------------------------------------------------------------------------
(***************************************************************************)
(* The synchronizers.                                                      *)
(***************************************************************************)

(* The application keeps to the uses Thread handles, deletes no thread that*)
(* may be waiting (~Thread() takes it out of the queue without telling the *)
(* synchronizer), and constructs no semaphore with a negative value.       *)
Orderly ==
    /\ Disciplined
    /\ "delete_live" \notin Calls /\ "delete_joined" \notin Calls
    /\ \A s \in Semaphores : Value[s] >= 0

(* Only the queues of conditions and of dead synchronizers are emptied by  *)
(* wakeup_all().                                                           *)
WakingOK == \A c \in CPU : pc[c].at = "waking" => pc[c].q \in Conditions \/ pc[c].q \notin alive

(* The waiting queues are in the order of the threads' ranks.              *)
QueuesSorted == \A q \in Sync : Sorted(waitq[q], k.rank)

(* Who waits for a mutex has called its lock(), and the threads that have  *)
(* passed it are one or none.                                              *)
MutexOK ==
    /\ \A x \in Mutexes : \A t \in ToSet(waitq[x]) : section[t] = x
    /\ \A x \in Mutexes \cap alive :
         /\ locked[x] => \E t \in Threads : Holders(x) = {t}
         /\ ~locked[x] => Holders(x) = {}

(* The inductive invariant of the synchronizers                            *)
QInv == /\ value \in [Semaphores -> Int]
        /\ locked \in [Mutexes -> BOOLEAN]
        /\ section \in [Threads -> Mutexes \cup {Null}]
        /\ alive \in SUBSET Sync
        /\ WakingOK
        /\ QueuesSorted
        /\ SemaphoreExact
        /\ MutexOK

(* No CPU begins to empty a queue.                                         *)
NoNewWaking == \A d \in CPU : pc'[d].at = "waking" => pc[d].at = "waking" /\ pc'[d].q = pc[d].q

(* A dispatch on c leaves it at work or about to switch.                   *)
LEMMA DispatchPlaces ==
  ASSUME NEW c \in CPU, pc \in [CPU -> Places], NEW s, NEW prev, NEW cpu
  PROVE  /\ Dispatch(s, c, prev) => NoNewWaking
         /\ Reschedule(s, c) => NoNewWaking
         /\ RescheduleCPU(s, c, cpu) => NoNewWaking
<1>1. ASSUME NEW x, NEW p, Dispatch(x, c, p) PROVE NoNewWaking
  <2>1. PICK z : z = IF x.chosen[c] \in {p, Null} THEN AtWork ELSE Switching(p, x.chosen[c])
    OBVIOUS
  <2>2. z.at # "waking"
    BY <2>1 DEF AtWork, Switching
  <2>3. pc' = [pc EXCEPT ![c] = z]
    BY <1>1, <2>1 DEF Dispatch
  <2>4. QED
    BY <2>2, <2>3 DEF NoNewWaking
<1>2. Reschedule(s, c) => NoNewWaking
  BY <1>1 DEF Reschedule
<1>3. RescheduleCPU(s, c, cpu) => NoNewWaking
  <2>1. pc' = pc => NoNewWaking
    BY DEF NoNewWaking
  <2>2. QED
    BY <1>2, <2>1 DEF RescheduleCPU
<1>4. QED
  BY <1>1, <1>2, <1>3

(* So does the last loop of wakeup_all().                                  *)
LEMMA NotifyPlaces ==
  ASSUME NEW c \in CPU, pc \in [CPU -> Places], NEW s, NEW t, NEW cpus, NotifyFrom(s, c, t, cpus)
  PROVE  NoNewWaking
<1>1. ASSUME pc' = [pc EXCEPT ![c] = AtWork] PROVE NoNewWaking
  BY <1>1 DEF NoNewWaking, AtWork
<1>2. \/ pc' = [pc EXCEPT ![c] = AtWork]
      \/ \E n, p : Dispatch(n, c, p)
  BY DEF NotifyFrom
<1>3. QED
  BY <1>1, <1>2, DispatchPlaces

(* What an operation that concerns no synchronizer does to their queues.   *)
Quiet == /\ waitq' = waitq
         /\ \A q \in Sync : \A t \in ToSet(waitq[q]) : k'.rank[t] = k.rank[t]
         /\ NoNewWaking

(* It is enough that the ranks stay and no CPU begins to empty a queue.    *)
LEMMA QuietRanks ==
  ASSUME SameRank(k, k'), NoNewWaking, waitq' = waitq
  PROVE  Quiet
  BY DEF SameRank, Quiet

(* So it is with any dispatch from a scheduler with the same ranks.        *)
LEMMA DispatchQuiet ==
  ASSUME NEW c \in CPU, pc \in [CPU -> Places], NEW s, SameRank(k, s), NEW prev, NEW cpu,
         Dispatch(s, c, prev) \/ Reschedule(s, c) \/ RescheduleCPU(s, c, cpu)
  PROVE  SameRank(k, k') /\ NoNewWaking
<1>1. DOMAIN s = Fields
  BY DEF SameRank
<1>2. SameRank(s, k')
  BY <1>1, RescheduleRanks
<1>3. NoNewWaking
  BY DispatchPlaces
<1>4. QED
  BY <1>2, <1>3 DEF SameRank

(* Changing a state and entering or leaving the scheduler change no rank.  *)
LEMMA MoveRanks ==
  ASSUME DOMAIN k = Fields, NEW t, NEW st, NEW s, s = [k EXCEPT !.state[t] = st], NEW u
  PROVE  SameRank(k, SchedulerInsert(s, u)) /\ SameRank(k, SchedulerRemove(s, u))
<1>1. DOMAIN s = Fields /\ s.rank = k.rank
  BY DEF Fields
<1>2. SameRank(s, SchedulerInsert(s, u)) /\ SameRank(s, SchedulerRemove(s, u))
  BY <1>1, SchedulerRanks
<1>3. QED
  BY <1>1, <1>2 DEF SameRank

(* The operations of Thread leave the synchronizers' queues alone.         *)
LEMMA OperationQuiet ==
  ASSUME Orderly, SInv, NEW c \in CPU, Operation(c)
  PROVE  Quiet
<1>1. DOMAIN k = Fields /\ pc \in [CPU -> Places] /\ k.rank \in [Threads -> 0..IdleRank]
  BY DEF SInv, KInv, Core, Shape, Flow
<1>2. ASSUME NEW t \in App, NEW st, NEW cpu \in CPU, Create(c, t, st, cpu) PROVE Quiet
  <2>1. PICK target \in Uninit :
         LET n == SchedulerInsert([k EXCEPT !.state[t] = st, !.queue[t] = cpu,
                                            !.target[t] = target], t)
         IN  \/ RescheduleCPU(n, c, cpu)
             \/ k' = SchedulerRemove(n, t) /\ UNCHANGED pc
    BY <1>2 DEF Create
  <2>2. PICK m : m = [k EXCEPT !.state[t] = st, !.queue[t] = cpu, !.target[t] = target]
    OBVIOUS
  <2>3. PICK n : n = SchedulerInsert(m, t)
    OBVIOUS
  <2>4. SameRank(k, m)
    BY <1>1, <2>2 DEF SameRank, Fields
  <2>5. SameRank(m, n)
    BY <2>3, <2>4, SchedulerRanks DEF SameRank
  <2>6. SameRank(k, n) /\ waitq' = waitq
    BY <1>2, <2>4, <2>5 DEF SameRank, Create
  <2>7. CASE RescheduleCPU(n, c, cpu)
    BY <1>1, <2>6, <2>7, DispatchQuiet, QuietRanks
  <2>8. CASE k' = SchedulerRemove(n, t) /\ UNCHANGED pc
    <3>1. SameRank(n, k')
      BY <2>6, <2>8, SchedulerRanks DEF SameRank
    <3>2. SameRank(k, k') /\ NoNewWaking
      BY <2>6, <2>8, <3>1 DEF SameRank, NoNewWaking
    <3>3. QED
      BY <2>6, <3>2, QuietRanks
  <2>9. QED
    BY <2>1, <2>2, <2>3, <2>7, <2>8
<1>3. ASSUME UNCHANGED <<k, pc, waitq>> PROVE Quiet
  BY <1>3 DEF Quiet, NoNewWaking
<1>4. ASSUME NEW t \in App, Join(c, t) PROVE Quiet
  <2>1. PICK o : o = SchedulerRemove([k EXCEPT !.state[Running(c)] = "SUSPENDED"], Running(c))
    OBVIOUS
  <2>2. SameRank(k, o)
    BY <1>1, <2>1, MoveRanks
  <2>3. waitq' = waitq /\ (UNCHANGED <<k, pc>> \/ Dispatch(o, c, Running(c)))
    BY <1>4, <2>1 DEF Join
  <2>4. QED
    BY <1>1, <1>3, <2>2, <2>3, DispatchQuiet, QuietRanks
<1>5. ASSUME NEW t \in App, Pass(c, t) PROVE Quiet
  <2>1. PICK s : s = ChooseThis(k, c, t)
    OBVIOUS
  <2>2. SameRank(k, s)
    BY <1>1, <2>1, SchedulerRanks
  <2>3. SameRank(s, k')
    <3>1. DOMAIN s = Fields /\ k' = Dispatched(s, Running(c), t)
      BY <1>5, <2>1, <2>2 DEF Pass, SameRank
    <3>2. QED
      BY <3>1, DispatchRanks
  <2>4. NoNewWaking
    <3>1. PICK z : z = IF t = Running(c) THEN AtWork ELSE Switching(Running(c), t)
      OBVIOUS
    <3>2. z.at # "waking"
      BY <3>1 DEF AtWork, Switching
    <3>3. pc' = [pc EXCEPT ![c] = z]
      BY <1>5, <3>1 DEF Pass
    <3>4. QED
      BY <1>1, <3>2, <3>3 DEF NoNewWaking
  <2>5. waitq' = waitq /\ SameRank(k, k')
    BY <1>5, <2>2, <2>3 DEF Pass, SameRank
  <2>6. QED
    BY <2>4, <2>5, QuietRanks
<1>6. ASSUME NEW t \in App, Suspend(c, t) PROVE Quiet
  <2>1. PICK o : o = SchedulerRemove([k EXCEPT !.state[t] = "SUSPENDED"], t)
    OBVIOUS
  <2>2. SameRank(k, o)
    BY <1>1, <2>1, MoveRanks
  <2>3. waitq' = waitq /\ Dispatch(o, c, Running(c))
    BY <1>6, <2>1 DEF Suspend
  <2>4. QED
    BY <1>1, <2>2, <2>3, DispatchQuiet, QuietRanks
<1>7. ASSUME NEW t \in App, Resume(c, t) PROVE Quiet
  <2>1. PICK n : n = SchedulerInsert([k EXCEPT !.state[t] = "READY"], t)
    OBVIOUS
  <2>2. SameRank(k, n)
    BY <1>1, <2>1, MoveRanks
  <2>3. waitq' = waitq /\ (UNCHANGED <<k, pc>> \/ RescheduleCPU(n, c, k.queue[t]))
    BY <1>7, <2>1 DEF Resume
  <2>4. QED
    BY <1>1, <1>3, <2>2, <2>3, DispatchQuiet, QuietRanks
<1>8. ASSUME Yield(c) PROVE Quiet
  <2>1. PICK s : s = ChooseAnother(k, c)
    OBVIOUS
  <2>2. SameRank(k, s)
    BY <1>1, <2>1, SchedulerRanks
  <2>3. waitq' = waitq /\ Dispatch(s, c, Running(c))
    BY <1>8, <2>1 DEF Yield, YieldAt
  <2>4. QED
    BY <1>1, <2>2, <2>3, DispatchQuiet, QuietRanks
<1>9. ASSUME Exit(c) PROVE Quiet
  <2>1. PICK prev : prev = Running(c)
    OBVIOUS
  <2>2. PICK j : j = joining[prev]
    OBVIOUS
  <2>3. PICK r : r = SchedulerRemove(k, prev)
    OBVIOUS
  <2>4. PICK out : out = [r EXCEPT !.state[prev] = "FINISHING"]
    OBVIOUS
  <2>5. PICK m : m = [out EXCEPT !.state[j] = "READY"]
    OBVIOUS
  <2>6. PICK in : in = IF j = Null THEN out ELSE SchedulerInsert(m, j)
    OBVIOUS
  <2>7. PICK s : s = IF in.chosen[c] = Null THEN in ELSE Choose(in, c)
    OBVIOUS
  <2>8. waitq' = waitq /\ Dispatch(s, c, prev)
    BY <1>9, <2>1, <2>2, <2>3, <2>4, <2>5, <2>6, <2>7 DEF Exit
  <2>9. SameRank(k, r)
    BY <1>1, <2>3, SchedulerRanks
  <2>10. SameRank(r, out)
    BY <2>4, <2>9 DEF SameRank, Fields
  <2>11. SameRank(out, m)
    BY <2>5, <2>10 DEF SameRank, Fields
  <2>12. SameRank(m, SchedulerInsert(m, j))
    BY <2>11, SchedulerRanks DEF SameRank
  <2>13. SameRank(k, in)
    BY <2>6, <2>9, <2>10, <2>11, <2>12 DEF SameRank
  <2>14. SameRank(in, Choose(in, c))
    BY <2>13, SchedulerRanks DEF SameRank
  <2>15. SameRank(k, s)
    BY <2>7, <2>13, <2>14 DEF SameRank
  <2>16. QED
    BY <1>1, <2>8, <2>15, DispatchQuiet, QuietRanks
<1>10. ASSUME NEW t \in App, Delete(c, t) PROVE Quiet
  <2>1. k.state[t] = "FINISHING" /\ t \in Threads
    BY <1>10, IdleFacts DEF Delete, Calling, Orderly, Disciplined
  <2>2. PICK gone : gone = [k EXCEPT !.state[t] = "DELETED"]
    OBVIOUS
  <2>3. PICK m : m = [gone EXCEPT !.state[joining[t]] = "READY"]
    OBVIOUS
  <2>4. PICK n : n = SchedulerInsert(m, joining[t])
    OBVIOUS
  <2>5. (k' = gone /\ pc' = pc) \/ RescheduleCPU(n, c, k.queue[joining[t]])
    BY <1>10, <2>1, <2>2, <2>3, <2>4 DEF Delete
  <2>6. SameRank(k, gone)
    BY <1>1, <2>2 DEF SameRank, Fields
  <2>7. SameRank(gone, m)
    BY <2>3, <2>6 DEF SameRank, Fields
  <2>8. SameRank(m, n)
    BY <2>4, <2>7, SchedulerRanks DEF SameRank
  <2>9. SameRank(k, n)
    BY <2>6, <2>7, <2>8 DEF SameRank
  <2>10. SameRank(k, k') /\ NoNewWaking
    <3>1. CASE k' = gone /\ pc' = pc
      BY <2>6, <3>1 DEF NoNewWaking
    <3>2. CASE RescheduleCPU(n, c, k.queue[joining[t]])
      BY <1>1, <2>9, <3>2, DispatchQuiet
    <3>3. QED
      BY <2>5, <3>1, <3>2
  <2>11. waitq' = waitq
    <3>1. waitq \in [Sync -> Seq(Threads)] /\ \A q \in Sync : t \notin ToSet(waitq[q])
      BY <2>1 DEF SInv, WaitOK
    <3>2. ASSUME NEW q \in Sync PROVE RemoveFirst(waitq[q], t) = waitq[q]
      <4>1. ~ \E i \in 1..Len(waitq[q]) : waitq[q][i] = t
        <5>1. waitq[q] \in Seq(Threads)
          BY <3>1
        <5>2. DOMAIN waitq[q] = 1..Len(waitq[q])
          BY <5>1, LenProperties
        <5>3. QED
          BY <3>1, <5>2 DEF ToSet
      <4>2. QED
        BY <4>1, Zenon DEF RemoveFirst
    <3>3. waitq' = [q \in Sync |-> RemoveFirst(waitq[q], t)]
      BY <1>10 DEF Delete
    <3>4. QED
      BY <3>1, <3>2, <3>3
  <2>12. QED
    BY <2>10, <2>11, QuietRanks
<1>11. ASSUME NEW t \in App, NEW r \in Ranks, NEW cpu \in CPU, Priority(c, t, r, cpu) PROVE Quiet
  <2>1. k.state[t] \in {"RUNNING", "READY"} /\ t \in Threads
    BY <1>11, IdleFacts DEF Priority, Calling, Orderly, Disciplined
  <2>2. \A q \in Sync : t \notin ToSet(waitq[q]) /\ ToSet(waitq[q]) \subseteq Threads
    BY <2>1, IdleFacts DEF SInv, WaitOK
  <2>3. PICK o : o = SchedulerRemove(k, t)
    OBVIOUS
  <2>4. PICK m : m = [o EXCEPT !.rank[t] = r, !.queue[t] = cpu]
    OBVIOUS
  <2>5. PICK s : s = IF k.state[t] = "RUNNING" THEN [k EXCEPT !.rank[t] = r, !.queue[t] = cpu]
                     ELSE SchedulerInsert(m, t)
    OBVIOUS
  <2>6. waitq' = waitq /\ ((k' = [s EXCEPT !.ipi = @ \cup ({k.queue[t], cpu} \ {c})] /\ pc' = pc)
                           \/ Reschedule(s, c))
    BY <1>11, <2>3, <2>4, <2>5 DEF Priority
  <2>7. SameRank(k, o)
    BY <1>1, <2>3, SchedulerRanks
  <2>8. DOMAIN m = Fields /\ m.rank = [k.rank EXCEPT ![t] = r]
    BY <2>4, <2>7 DEF SameRank, Fields
  <2>9. SameRank(m, SchedulerInsert(m, t))
    BY <2>8, SchedulerRanks
  <2>10. DOMAIN s = Fields /\ s.rank = [k.rank EXCEPT ![t] = r]
    <3>1. CASE k.state[t] = "RUNNING"
      BY <1>1, <2>5, <3>1 DEF Fields
    <3>2. CASE k.state[t] # "RUNNING"
      BY <2>5, <2>8, <2>9, <3>2 DEF SameRank
    <3>3. QED
      BY <3>1, <3>2
  <2>11. SameRank(s, k') /\ NoNewWaking
    <3>1. CASE k' = [s EXCEPT !.ipi = @ \cup ({k.queue[t], cpu} \ {c})] /\ pc' = pc
      BY <2>10, <3>1 DEF SameRank, NoNewWaking, Fields
    <3>2. CASE Reschedule(s, c)
      BY <1>1, <2>10, <3>2, RescheduleRanks, DispatchPlaces
    <3>3. QED
      BY <2>6, <3>1, <3>2
  <2>12. \A u \in Threads : u # t => k'.rank[u] = k.rank[u]
    BY <1>1, <2>10, <2>11 DEF SameRank
  <2>13. QED
    BY <2>2, <2>6, <2>11, <2>12 DEF Quiet
<1>12. QED
  BY <1>2, <1>4, <1>5, <1>6, <1>7, <1>8, <1>9, <1>10, <1>11 DEF Operation

(* So does what a CPU does by itself, but for wakeup_all() in its first    *)
(* loop.                                                                   *)
LEMMA KernelQuiet ==
  ASSUME SInv, NEW c \in CPU, Kernel(c), ~Wake(c)
  PROVE  Quiet
<1>1. DOMAIN k = Fields /\ pc \in [CPU -> Places]
  BY DEF SInv, KInv, Core, Shape, Flow
<1>2. SameRank(k, k)
  BY <1>1 DEF SameRank
<1>3. CASE Notify(c) \/ Reenter(c)
  <2>1. waitq' = waitq /\ \E t, cpus : NotifyFrom(k, c, t, cpus)
    BY <1>3 DEF Notify, Reenter
  <2>2. SameRank(k, k') /\ NoNewWaking
    BY <1>1, <2>1, NotifyRanks, NotifyPlaces
  <2>3. QED
    BY <2>1, <2>2, QuietRanks
<1>4. CASE Switch(c)
  <2>1. PICK z : z = IF context[pc[c].next].fresh THEN AtWork ELSE [at |-> "resume"]
    OBVIOUS
  <2>2. z.at # "waking"
    BY <2>1 DEF AtWork
  <2>3. pc' = [pc EXCEPT ![c] = z] /\ k' = k /\ waitq' = waitq
    BY <1>4, <2>1 DEF Switch
  <2>4. NoNewWaking
    BY <1>1, <2>2, <2>3 DEF NoNewWaking
  <2>5. QED
    BY <1>2, <2>3, <2>4, QuietRanks
<1>5. CASE Rescheduler(c)
  <2>1. PICK s : s = [k EXCEPT !.ipi = @ \ {c}]
    OBVIOUS
  <2>2. SameRank(k, s)
    BY <1>1, <2>1 DEF SameRank, Fields
  <2>3. Reschedule(s, c) /\ waitq' = waitq
    BY <1>5, <2>1 DEF Rescheduler
  <2>4. QED
    BY <1>1, <2>2, <2>3, DispatchQuiet, QuietRanks
<1>6. CASE TimeSlicer(c)
  <2>1. PICK s \in Balanced(c) : Reschedule(s, c)
    BY <1>6 DEF TimeSlicer
  <2>2. SameRank(k, s) /\ waitq' = waitq
    BY <1>1, <1>6, BalancerRanks DEF TimeSlicer
  <2>3. QED
    BY <1>1, <2>1, <2>2, DispatchQuiet, QuietRanks
<1>7. CASE IdleYield(c)
  <2>1. PICK s : s = ChooseAnother(k, c)
    OBVIOUS
  <2>2. SameRank(k, s)
    BY <1>1, <2>1, SchedulerRanks
  <2>3. waitq' = waitq /\ Dispatch(s, c, Running(c))
    BY <1>7, <2>1 DEF IdleYield, YieldAt
  <2>4. QED
    BY <1>1, <2>2, <2>3, DispatchQuiet, QuietRanks
<1>8. CASE Leave(c)
  <2>1. pc' = [pc EXCEPT ![c] = [at |-> "barrier"]] /\ k' = k /\ waitq' = waitq
    BY <1>8 DEF Leave
  <2>2. NoNewWaking
    BY <1>1, <2>1 DEF NoNewWaking
  <2>3. QED
    BY <1>2, <2>1, <2>2, QuietRanks
<1>9. QED
  BY <1>3, <1>4, <1>5, <1>6, <1>7, <1>8 DEF Kernel
-----------------------------------------------------------------------------
(* The queue of q has lost its first thread, the most urgent one.          *)
HeadGone(q) ==
    /\ Head(waitq[q]) \in ToSet(waitq[q])
    /\ \A t \in ToSet(waitq[q]) : k.rank[Head(waitq[q])] <= k.rank[t]
    /\ Len(waitq'[q]) = Len(waitq[q]) - 1
    /\ ToSet(waitq'[q]) = ToSet(waitq[q]) \ {Head(waitq[q])}

(* What taking the head of a queue that is in order does to it.            *)
LEMMA HeadTaken ==
  ASSUME SInv, QueuesSorted, NEW q \in Sync, waitq[q] # <<>>,
         waitq' = [waitq EXCEPT ![q] = Tail(@)], k'.rank = k.rank
  PROVE  /\ HeadGone(q) /\ \A r \in Sync : r # q => waitq'[r] = waitq[r]
         /\ QueuesSorted'
<1>1. /\ waitq \in [Sync -> Seq(Threads)] /\ \A r \in Sync : Distinct(waitq[r])
      /\ k.rank \in [Threads -> 0..IdleRank]
  BY DEF SInv, WaitOK, KInv, Core
<1>2. k.rank \in [Threads -> Int]
  BY <1>1, ThreadAssumption
<1>3. PICK w : w = waitq[q]
  OBVIOUS
<1>4. w \in Seq(Threads) /\ w # <<>> /\ Distinct(w) /\ Sorted(w, k.rank)
  BY <1>1, <1>3 DEF QueuesSorted
<1>5. /\ Head(w) \in ToSet(w) /\ ToSet(Tail(w)) = ToSet(w) \ {Head(w)}
  BY <1>4, HeadTailElements
<1>6. /\ Len(Tail(w)) = Len(w) - 1 /\ Sorted(Tail(w), k.rank)
      /\ \A t \in ToSet(w) : k.rank[Head(w)] <= k.rank[t]
  BY <1>2, <1>4, TailSorted
<1>7. waitq'[q] = Tail(w) /\ \A r \in Sync : r # q => waitq'[r] = waitq[r]
  BY <1>1, <1>3
<1>8. HeadGone(q)
  BY <1>3, <1>5, <1>6, <1>7, Zenon DEF HeadGone
<1>9. ASSUME NEW r \in Sync PROVE Sorted(waitq'[r], k'.rank)
  <2>1. CASE r = q
    BY <1>6, <1>7, <2>1
  <2>2. CASE r # q
    BY <1>7, <2>2 DEF QueuesSorted
  <2>3. QED
    BY <2>1, <2>2
<1>10. QED
  BY <1>7, <1>8, <1>9 DEF QueuesSorted

(* sleep() puts the running thread in the queue.                           *)
LEMMA SleepEffect ==
  ASSUME SInv, QueuesSorted, NEW c \in CPU, NEW q \in Sync, Entering(c), Sleep(c, q)
  PROVE  /\ exec[c] \in Threads /\ \A r \in Sync : exec[c] \notin ToSet(waitq[r])
         /\ Len(waitq'[q]) = Len(waitq[q]) + 1
         /\ ToSet(waitq'[q]) = ToSet(waitq[q]) \cup {exec[c]}
         /\ \A r \in Sync : r # q => waitq'[r] = waitq[r]
         /\ k'.rank = k.rank /\ NoNewWaking /\ QueuesSorted'
<1>1. /\ DOMAIN k = Fields /\ pc \in [CPU -> Places] /\ k.rank \in [Threads -> 0..IdleRank]
      /\ waitq \in [Sync -> Seq(Threads)]
  BY DEF SInv, KInv, Core, Shape, Flow, WaitOK
<1>2. k.rank \in [Threads -> Int]
  BY <1>1, ThreadAssumption
<1>3. PICK t : t = exec[c]
  OBVIOUS
<1>4. t \in Threads /\ Running(c) = t /\ k.state[t] = "RUNNING"
  BY <1>3, Caller DEF Running
<1>5. \A r \in Sync : t \notin ToSet(waitq[r])
  BY <1>4 DEF SInv, WaitOK
<1>6. SameRank(k, k') /\ NoNewWaking
  <2>1. PICK o : o = SchedulerRemove(k, t)
    OBVIOUS
  <2>2. PICK s : s = [o EXCEPT !.state[t] = "WAITING"]
    OBVIOUS
  <2>3. SameRank(k, o)
    BY <1>1, <2>1, SchedulerRanks
  <2>4. SameRank(k, s)
    BY <2>2, <2>3 DEF SameRank, Fields
  <2>5. Dispatch(s, c, t)
    BY <1>4, <2>1, <2>2 DEF Sleep
  <2>6. QED
    BY <1>1, <2>4, <2>5, DispatchQuiet
<1>7. PICK w, x : w = waitq[q] /\ x = OrderedInsert(w, k.rank, t)
  OBVIOUS
<1>8. waitq' = [waitq EXCEPT ![q] = x]
  BY <1>4, <1>7 DEF Sleep
<1>9. waitq'[q] = x /\ \A r \in Sync : r # q => waitq'[r] = waitq[r]
  BY <1>1, <1>8
<1>10. w \in Seq(Threads) /\ Sorted(w, k.rank)
  BY <1>1, <1>7 DEF QueuesSorted
<1>11. ToSet(x) = ToSet(w) \cup {t}
  BY <1>4, <1>7, <1>10, OrderedInsertElements
<1>12. Len(x) = Len(w) + 1 /\ Sorted(x, k.rank)
  BY <1>2, <1>4, <1>7, <1>10, OrderedInsertSorted
<1>13. k'.rank = k.rank
  BY <1>6 DEF SameRank
<1>14. ASSUME NEW r \in Sync PROVE Sorted(waitq'[r], k'.rank)
  <2>1. CASE r = q
    BY <1>9, <1>12, <1>13, <2>1
  <2>2. CASE r # q
    BY <1>9, <1>13, <2>2 DEF QueuesSorted
  <2>3. QED
    BY <2>1, <2>2
<1>15. Len(waitq'[q]) = Len(waitq[q]) + 1 /\ ToSet(waitq'[q]) = ToSet(waitq[q]) \cup {t}
  BY <1>7, <1>9, <1>11, <1>12, Zenon
<1>16. QED
  BY <1>3, <1>4, <1>5, <1>6, <1>9, <1>13, <1>14, <1>15 DEF QueuesSorted

(* wakeup() takes the first thread, if there is one, out of the queue.     *)
LEMMA WakeupEffect ==
  ASSUME SInv, QueuesSorted, NEW c \in CPU, NEW q \in Sync, Entering(c), Wakeup(c, q)
  PROVE  /\ IF waitq[q] = <<>> THEN waitq' = waitq ELSE HeadGone(q)
         /\ \A r \in Sync : r # q => waitq'[r] = waitq[r]
         /\ k'.rank = k.rank /\ NoNewWaking /\ QueuesSorted'
<1>1. DOMAIN k = Fields /\ pc \in [CPU -> Places]
  BY DEF SInv, KInv, Core, Shape, Flow
<1>2. CASE waitq[q] = <<>>
  <2>1. UNCHANGED <<k, pc, waitq>>
    BY <1>2 DEF Wakeup
  <2>2. QED
    BY <1>2, <2>1 DEF NoNewWaking, QueuesSorted
<1>3. CASE waitq[q] # <<>>
  <2>1. PICK t : t = Head(waitq[q])
    OBVIOUS
  <2>2. PICK n : n = SchedulerInsert([k EXCEPT !.state[t] = "READY"], t)
    OBVIOUS
  <2>3. waitq' = [waitq EXCEPT ![q] = Tail(@)] /\ RescheduleCPU(n, c, k.queue[t])
    BY <1>3, <2>1, <2>2 DEF Wakeup
  <2>4. SameRank(k, n)
    BY <1>1, <2>2, MoveRanks
  <2>5. SameRank(k, k') /\ NoNewWaking
    BY <1>1, <2>3, <2>4, DispatchQuiet
  <2>6. k'.rank = k.rank
    BY <2>5 DEF SameRank
  <2>7. QED
    BY <1>3, <2>3, <2>5, <2>6, HeadTaken
<1>4. QED
  BY <1>2, <1>3

(* wakeup_all() begins to empty the queue.                                 *)
LEMMA WakeupAllEffect ==
  ASSUME SInv, QueuesSorted, NEW c \in CPU, NEW q \in Sync, WakeupAll(c, q)
  PROVE  /\ waitq' = waitq /\ QueuesSorted'
         /\ \A d \in CPU : pc'[d].at = "waking" =>
                             (pc[d].at = "waking" /\ pc'[d].q = pc[d].q) \/ pc'[d].q = q
<1>1. pc \in [CPU -> Places] /\ waitq' = waitq /\ k' = k
  BY DEF SInv, Flow, WakeupAll
<1>2. PICK z : z = Waking(q, {})
  OBVIOUS
<1>3. z.q = q
  BY <1>2 DEF Waking
<1>4. pc' = pc \/ pc' = [pc EXCEPT ![c] = z]
  BY <1>2 DEF WakeupAll
<1>5. ASSUME NEW d \in CPU, pc'[d].at = "waking"
      PROVE  (pc[d].at = "waking" /\ pc'[d].q = pc[d].q) \/ pc'[d].q = q
  BY <1>1, <1>3, <1>4, <1>5
<1>6. QED
  BY <1>1, <1>5 DEF QueuesSorted

(* Its first loop takes a thread out of the same queue.                    *)
LEMMA WakeEffect ==
  ASSUME SInv, QueuesSorted, NEW c \in CPU, Wake(c)
  PROVE  /\ pc[c].at = "waking" /\ pc[c].q \in Sync
         /\ HeadGone(pc[c].q) /\ \A r \in Sync : r # pc[c].q => waitq'[r] = waitq[r]
         /\ NoNewWaking /\ QueuesSorted'
<1>1. PICK q : q = pc[c].q
  OBVIOUS
<1>2. /\ DOMAIN k = Fields /\ pc \in [CPU -> Places] /\ pc[c].at = "waking" /\ q \in Sync
      /\ waitq[q] # <<>>
  BY <1>1, PlaceFacts DEF SInv, KInv, Core, Shape, Flow, Wake
<1>3. PICK t : t = Head(waitq[q])
  OBVIOUS
<1>4. PICK n : n = SchedulerInsert([k EXCEPT !.state[t] = "READY"], t)
  OBVIOUS
<1>5. PICK z : z = Waking(q, pc[c].cpus \cup {k.queue[t]})
  OBVIOUS
<1>6. waitq' = [waitq EXCEPT ![q] = Tail(@)] /\ k' = n /\ pc' = [pc EXCEPT ![c] = z]
  BY <1>1, <1>3, <1>4, <1>5 DEF Wake
<1>7. z.at = "waking" /\ z.q = q
  BY <1>5 DEF Waking
<1>8. k'.rank = k.rank
  <2>1. SameRank(k, n)
    BY <1>2, <1>4, MoveRanks
  <2>2. QED
    BY <1>6, <2>1 DEF SameRank
<1>9. NoNewWaking
  BY <1>1, <1>2, <1>6, <1>7 DEF NoNewWaking
<1>10. QED
  BY <1>1, <1>2, <1>6, <1>8, <1>9, HeadTaken
-----------------------------------------------------------------------------
(* What a step may do to the semaphores and mutexes: nothing, but for the  *)
(* queue of one that is being destroyed,                                   *)
Aside ==
    /\ UNCHANGED <<value, locked, section>> /\ alive' \in SUBSET alive
    /\ \A q \in Semaphores \cup Mutexes : q \in alive' => waitq'[q] = waitq[q]
    /\ \A x \in Mutexes : ToSet(waitq'[x]) \subseteq ToSet(waitq[x])

(* or what an operation on q does,                                         *)
Only(q) == /\ q \in alive /\ alive' = alive /\ k'.rank = k.rank
           /\ \A r \in Sync : r # q => waitq'[r] = waitq[r]

(* be it to put the caller in its queue,                                   *)
Queued(c, q) ==
    /\ exec[c] \in Threads /\ exec[c] \notin ToSet(waitq[q])
    /\ Len(waitq'[q]) = Len(waitq[q]) + 1
    /\ ToSet(waitq'[q]) = ToSet(waitq[q]) \cup {exec[c]}

(* as p(), v(), lock() and unlock() do or do not.                          *)
PDone(c, s) ==
    /\ Only(s) /\ value' = [value EXCEPT ![s] = @ - 1] /\ UNCHANGED <<locked, section>>
    /\ \/ value[s] >= 1 /\ waitq'[s] = waitq[s]
       \/ value[s] < 1 /\ Queued(c, s)

VDone(s) ==
    /\ Only(s) /\ value' = [value EXCEPT ![s] = @ + 1] /\ UNCHANGED <<locked, section>>
    /\ \/ value[s] >= 0 /\ waitq'[s] = waitq[s]
       \/ value[s] < 0 /\ HeadGone(s)

LockDone(c, x) ==
    /\ Only(x) /\ UNCHANGED value
    /\ exec[c] \in Threads /\ section[exec[c]] = Null
    /\ section' = [section EXCEPT ![exec[c]] = x]
    /\ locked' = [locked EXCEPT ![x] = TRUE]
    /\ exec[c] \notin ToSet(waitq[x])
    /\ \/ locked[x] /\ Queued(c, x)
       \/ ~locked[x] /\ waitq'[x] = waitq[x]

UnlockDone(c, x) ==
    /\ Only(x) /\ UNCHANGED value
    /\ exec[c] \in Threads /\ section[exec[c]] = x /\ exec[c] \notin ToSet(waitq[x])
    /\ section' = [section EXCEPT ![exec[c]] = Null]
    /\ \/ waitq[x] = <<>> /\ waitq'[x] = <<>> /\ locked' = [locked EXCEPT ![x] = FALSE]
       \/ HeadGone(x) /\ UNCHANGED locked

(* p() and v()                                                             *)
LEMMA SemaphoreStep ==
  ASSUME SInv, QInv, NEW c \in CPU, NEW s \in Semaphores, P(c, s) \/ V(c, s)
  PROVE  /\ PDone(c, s) \/ VDone(s)
         /\ WakingOK' /\ QueuesSorted'
<1>1. /\ s \in Sync /\ s \in alive /\ Entering(c) /\ QueuesSorted /\ value \in [Semaphores -> Int]
      /\ UNCHANGED <<locked, section, alive>>
  BY SynchronizerAssumption DEF P, V, CallingSync, QInv
<1>2. ASSUME UNCHANGED vars PROVE k' = k /\ waitq' = waitq /\ NoNewWaking /\ QueuesSorted'
  BY <1>1, <1>2 DEF vars, NoNewWaking, QueuesSorted
<1>3. NoNewWaking /\ QueuesSorted' /\ (PDone(c, s) \/ VDone(s))
  <2>1. CASE P(c, s)
    <3>1. value' = [value EXCEPT ![s] = @ - 1]
      BY <2>1 DEF P
    <3>2. CASE value[s] < 1 /\ Sleep(c, s)
      BY <1>1, <3>1, <3>2, SleepEffect DEF PDone, Only, Queued
    <3>3. CASE value[s] >= 1 /\ UNCHANGED vars
      BY <1>1, <1>2, <3>1, <3>3 DEF PDone, Only
    <3>4. QED
      BY <2>1, <3>2, <3>3 DEF P
  <2>2. CASE V(c, s)
    <3>1. value' = [value EXCEPT ![s] = @ + 1]
      BY <2>2 DEF V
    <3>2. CASE value[s] < 0 /\ Wakeup(c, s)
      <4>1. waitq[s] # <<>>
        <5>1. Len(waitq[s]) = -value[s] /\ value[s] \in Int
          BY <1>1, <3>2 DEF QInv, SemaphoreExact
        <5>2. Len(waitq[s]) # 0
          BY <3>2, <5>1
        <5>3. QED
          BY <5>2
      <4>2. HeadGone(s)
        BY <1>1, <3>2, <4>1, WakeupEffect
      <4>3. /\ \A r \in Sync : r # s => waitq'[r] = waitq[r]
            /\ k'.rank = k.rank /\ NoNewWaking /\ QueuesSorted'
        BY <1>1, <3>2, WakeupEffect
      <4>4. QED
        BY <1>1, <3>1, <3>2, <4>2, <4>3 DEF VDone, Only
    <3>3. CASE value[s] >= 0 /\ UNCHANGED vars
      BY <1>1, <1>2, <3>1, <3>3 DEF VDone, Only
    <3>4. QED
      BY <2>2, <3>2, <3>3 DEF V
  <2>3. QED
    BY <2>1, <2>2
<1>4. WakingOK'
  BY <1>1, <1>3 DEF QInv, WakingOK, NoNewWaking
<1>5. QED
  BY <1>3, <1>4

(* lock() and unlock()                                                     *)
LEMMA MutexStep ==
  ASSUME SInv, QInv, NEW c \in CPU, NEW x \in Mutexes, Lock(c, x) \/ Unlock(c, x)
  PROVE  /\ LockDone(c, x) \/ UnlockDone(c, x)
         /\ WakingOK' /\ QueuesSorted'
<1>1. /\ x \in Sync /\ x \in alive /\ Entering(c) /\ QueuesSorted
      /\ UNCHANGED <<value, alive>>
  BY SynchronizerAssumption DEF Lock, Unlock, CallingSync, QInv
<1>2. ASSUME UNCHANGED vars PROVE k' = k /\ waitq' = waitq /\ NoNewWaking /\ QueuesSorted'
  BY <1>1, <1>2 DEF vars, NoNewWaking, QueuesSorted
<1>3. exec[c] \in Threads /\ exec[c] \notin ToSet(waitq[x])
  <2>1. exec[c] \in Threads /\ k.state[exec[c]] = "RUNNING"
    BY <1>1, Caller
  <2>2. QED
    BY <1>1, <2>1 DEF SInv, WaitOK
<1>4. NoNewWaking /\ QueuesSorted' /\ (LockDone(c, x) \/ UnlockDone(c, x))
  <2>1. CASE Lock(c, x)
    <3>1. /\ section[exec[c]] = Null /\ section' = [section EXCEPT ![exec[c]] = x]
          /\ locked' = [locked EXCEPT ![x] = TRUE]
      BY <2>1 DEF Lock
    <3>2. CASE locked[x] /\ Sleep(c, x)
      <4>1. /\ Queued(c, x) /\ \A r \in Sync : r # x => waitq'[r] = waitq[r]
            /\ k'.rank = k.rank /\ NoNewWaking /\ QueuesSorted'
        BY <1>1, <3>2, SleepEffect DEF Queued
      <4>2. Only(x)
        BY <1>1, <4>1 DEF Only
      <4>3. QED
        BY <1>1, <1>3, <3>1, <3>2, <4>1, <4>2 DEF LockDone
    <3>3. CASE ~locked[x] /\ UNCHANGED vars
      BY <1>1, <1>2, <1>3, <3>1, <3>3 DEF LockDone, Only
    <3>4. QED
      BY <2>1, <3>2, <3>3 DEF Lock
  <2>2. CASE Unlock(c, x)
    <3>1. section[exec[c]] = x /\ section' = [section EXCEPT ![exec[c]] = Null]
      BY <2>2 DEF Unlock
    <3>2. CASE waitq[x] = <<>> /\ locked' = [locked EXCEPT ![x] = FALSE] /\ UNCHANGED vars
      BY <1>1, <1>2, <1>3, <3>1, <3>2 DEF UnlockDone, Only
    <3>3. CASE waitq[x] # <<>> /\ Wakeup(c, x) /\ UNCHANGED locked
      <4>1. HeadGone(x)
        BY <1>1, <3>3, WakeupEffect
      <4>2. /\ \A r \in Sync : r # x => waitq'[r] = waitq[r]
            /\ k'.rank = k.rank /\ NoNewWaking /\ QueuesSorted'
        BY <1>1, <3>3, WakeupEffect
      <4>3. QED
        BY <1>1, <1>3, <3>1, <3>3, <4>1, <4>2 DEF UnlockDone, Only
    <3>4. QED
      BY <2>2, <3>2, <3>3 DEF Unlock
  <2>3. QED
    BY <2>1, <2>2
<1>5. WakingOK'
  BY <1>1, <1>4 DEF QInv, WakingOK, NoNewWaking
<1>6. QED
  BY <1>4, <1>5

(* A step of Thread that is quiet                                          *)
LEMMA QuietAside ==
  ASSUME QInv, SInv, Quiet, UNCHANGED sync
  PROVE  Aside /\ WakingOK' /\ QueuesSorted'
<1>1. UNCHANGED <<value, locked, section, alive>> /\ waitq' = waitq
  BY DEF Quiet, sync
<1>2. Aside
  BY <1>1 DEF Aside
<1>3. WakingOK'
  BY <1>1 DEF QInv, WakingOK, Quiet, NoNewWaking
<1>4. ASSUME NEW q \in Sync PROVE Sorted(waitq'[q], k'.rank)
  <2>1. \A t \in ToSet(waitq[q]) : k'.rank[t] = k.rank[t]
    BY DEF Quiet
  <2>2. Sorted(waitq[q], k'.rank)
    BY <2>1, SortedSame DEF QInv, QueuesSorted
  <2>3. QED
    BY <1>1, <2>2
<1>5. QED
  BY <1>2, <1>3, <1>4 DEF QueuesSorted

(* A thread less in the queue of a condition or of a dead synchronizer     *)
LEMMA WakeAside ==
  ASSUME QInv, SInv, NEW c \in CPU, Wake(c), UNCHANGED sync
  PROVE  Aside /\ WakingOK' /\ QueuesSorted'
<1>1. UNCHANGED <<value, locked, section, alive>> /\ QueuesSorted
  BY DEF sync, QInv
<1>2. PICK q : q = pc[c].q
  OBVIOUS
<1>3. /\ pc[c].at = "waking" /\ q \in Sync
      /\ HeadGone(q) /\ \A r \in Sync : r # q => waitq'[r] = waitq[r]
      /\ NoNewWaking /\ QueuesSorted'
  BY <1>1, <1>2, WakeEffect
<1>4. q \in Conditions \/ q \notin alive
  BY <1>2, <1>3 DEF QInv, WakingOK
<1>5. \A r \in Semaphores \cup Mutexes : r \in alive => r # q /\ r \in Sync
  BY <1>4, SynchronizerAssumption
<1>6. ASSUME NEW x \in Mutexes PROVE ToSet(waitq'[x]) \subseteq ToSet(waitq[x])
  <2>1. x \in Sync
    BY SynchronizerAssumption
  <2>2. CASE x = q
    BY <1>3, <2>2 DEF HeadGone
  <2>3. CASE x # q
    BY <1>3, <2>1, <2>3
  <2>4. QED
    BY <2>2, <2>3
<1>7. Aside
  BY <1>1, <1>3, <1>5, <1>6 DEF Aside
<1>8. WakingOK'
  BY <1>1, <1>3 DEF QInv, WakingOK, NoNewWaking
<1>9. QED
  BY <1>3, <1>7, <1>8

(* The operations of a condition                                           *)
LEMMA ConditionStep ==
  ASSUME QInv, SInv, NEW c \in CPU, NEW d \in Conditions, Wait(c, d) \/ Signal(c, d) \/ Broadcast(c, d)
  PROVE  Aside /\ WakingOK' /\ QueuesSorted'
<1>1. /\ UNCHANGED <<value, locked, section, alive>> /\ QueuesSorted /\ Entering(c)
      /\ d \in Sync /\ \A q \in Semaphores \cup Mutexes : q # d /\ q \in Sync
  BY SynchronizerAssumption DEF Wait, Signal, Broadcast, CallingSync, sync, QInv
<1>2. /\ QueuesSorted' /\ \A r \in Sync : r # d => waitq'[r] = waitq[r]
      /\ \A e \in CPU : pc'[e].at = "waking" =>
           (pc[e].at = "waking" /\ pc'[e].q = pc[e].q) \/ pc'[e].q = d
  <2>1. CASE Wait(c, d)
    BY <1>1, <2>1, SleepEffect DEF Wait, NoNewWaking
  <2>2. CASE Signal(c, d)
    BY <1>1, <2>2, WakeupEffect DEF Signal, NoNewWaking
  <2>3. CASE Broadcast(c, d)
    BY <1>1, <2>3, WakeupAllEffect DEF Broadcast
  <2>4. QED
    BY <2>1, <2>2, <2>3
<1>3. WakingOK'
  BY <1>1, <1>2 DEF QInv, WakingOK
<1>4. Aside
  BY <1>1, <1>2 DEF Aside
<1>5. QED
  BY <1>2, <1>3, <1>4

(* The end of a synchronizer                                               *)
LEMMA DestroyStep ==
  ASSUME QInv, SInv, NEW c \in CPU, NEW q \in Sync, Destroy(c, q)
  PROVE  Aside /\ WakingOK' /\ QueuesSorted'
<1>1. /\ UNCHANGED <<value, locked, section>> /\ alive' = alive \ {q} /\ QueuesSorted
      /\ WakeupAll(c, q)
  BY DEF Destroy, QInv
<1>2. /\ waitq' = waitq /\ QueuesSorted'
      /\ \A d \in CPU : pc'[d].at = "waking" =>
           (pc[d].at = "waking" /\ pc'[d].q = pc[d].q) \/ pc'[d].q = q
  BY <1>1, WakeupAllEffect
<1>3. WakingOK'
  BY <1>1, <1>2 DEF QInv, WakingOK
<1>4. Aside
  BY <1>1, <1>2 DEF Aside
<1>5. QED
  BY <1>2, <1>3, <1>4

(* Every step is aside of the semaphores and mutexes or one of theirs.     *)
LEMMA SyncSteps ==
  ASSUME Orderly, SInv, QInv, [SyncNext]_syncVars
  PROVE  /\ \/ Aside
            \/ \E c \in CPU, s \in Semaphores : PDone(c, s) \/ VDone(s)
            \/ \E c \in CPU, x \in Mutexes : LockDone(c, x) \/ UnlockDone(c, x)
         /\ WakingOK' /\ QueuesSorted'
<1>1. ASSUME UNCHANGED vars, UNCHANGED sync PROVE Aside /\ WakingOK' /\ QueuesSorted'
  <2>1. Quiet
    BY <1>1 DEF vars, Quiet, NoNewWaking
  <2>2. QED
    BY <1>1, <2>1, QuietAside
<1>2. CASE UNCHANGED syncVars
  BY <1>1, <1>2 DEF syncVars
<1>3. CASE Reboot /\ UNCHANGED sync
  BY <1>1, <1>3 DEF Reboot
<1>4. ASSUME NEW c \in CPU, Operation(c) \/ Kernel(c), UNCHANGED sync
      PROVE  Aside /\ WakingOK' /\ QueuesSorted'
  <2>1. CASE Operation(c)
    BY <1>4, <2>1, OperationQuiet, QuietAside
  <2>2. CASE Wake(c)
    BY <1>4, <2>2, WakeAside
  <2>3. CASE Kernel(c) /\ ~Wake(c)
    BY <1>4, <2>3, KernelQuiet, QuietAside
  <2>4. QED
    BY <1>4, <2>1, <2>2, <2>3
<1>5. ASSUME NEW c \in CPU, SyncOperation(c)
      PROVE  /\ \/ Aside
                \/ \E s \in Semaphores : PDone(c, s) \/ VDone(s)
                \/ \E x \in Mutexes : LockDone(c, x) \/ UnlockDone(c, x)
             /\ WakingOK' /\ QueuesSorted'
  BY <1>5, SemaphoreStep, MutexStep, ConditionStep, DestroyStep DEF SyncOperation
<1>6. QED
  BY <1>2, <1>3, <1>4, <1>5 DEF SyncNext
-----------------------------------------------------------------------------
(* A thread waiting for a mutex that is not alive or not touched stays one.*)
LEMMA AsideKeeps ==
  ASSUME QInv, Aside, WakingOK', QueuesSorted'
  PROVE  QInv'
<1>1. UNCHANGED <<value, locked, section>> /\ alive' \in SUBSET alive /\ alive \in SUBSET Sync
  BY DEF Aside, QInv
<1>2. SemaphoreExact'
  BY <1>1 DEF QInv, SemaphoreExact, Aside
<1>3. \A x \in Mutexes \cap alive' : Holders(x)' = Holders(x)
  BY <1>1 DEF Aside, Holders
<1>4. MutexOK'
  BY <1>1, <1>3 DEF QInv, MutexOK, Aside
<1>5. QED
  BY <1>1, <1>2, <1>4 DEF QInv

(* p() and v() keep the count exact.                                       *)
LEMMA SemaphoreKeeps ==
  ASSUME SInv, QInv, NEW c \in CPU, NEW s \in Semaphores, PDone(c, s) \/ VDone(s),
         WakingOK', QueuesSorted'
  PROVE  QInv'
<1>1. /\ Only(s) /\ UNCHANGED <<locked, section>> /\ alive' = alive
      /\ value \in [Semaphores -> Int] /\ s \in alive
  BY DEF PDone, VDone, Only, QInv
<1>2. waitq[s] \in Seq(Threads) /\ Len(waitq[s]) = IF value[s] < 0 THEN -value[s] ELSE 0
  BY <1>1, SynchronizerAssumption DEF QInv, SemaphoreExact, SInv, WaitOK
<1>3. PICK v \in Int : v = value[s]
  BY <1>1
<1>4. PICK m \in Nat : m = Len(waitq[s])
  BY <1>2
<1>5. m = IF v < 0 THEN -v ELSE 0
  BY <1>2, <1>3, <1>4
<1>6. /\ value' \in [Semaphores -> Int] /\ \A r \in Semaphores : r # s => value'[r] = value[r]
      /\ Len(waitq'[s]) = IF value'[s] < 0 THEN -value'[s] ELSE 0
  <2>1. CASE PDone(c, s)
    <3>1. /\ value' = [value EXCEPT ![s] = v - 1]
          /\ \/ v >= 1 /\ Len(waitq'[s]) = m
             \/ v < 1 /\ Len(waitq'[s]) = m + 1
      BY <1>3, <1>4, <2>1 DEF PDone, Queued
    <3>2. value' \in [Semaphores -> Int] /\ value'[s] = v - 1
      BY <1>1, <3>1
    <3>3. \A r \in Semaphores : r # s => value'[r] = value[r]
      BY <1>1, <3>1
    <3>4. QED
      BY <1>5, <3>1, <3>2, <3>3
  <2>2. CASE VDone(s)
    <3>1. /\ value' = [value EXCEPT ![s] = v + 1]
          /\ \/ v >= 0 /\ Len(waitq'[s]) = m
             \/ v < 0 /\ Len(waitq'[s]) = m - 1
      BY <1>3, <1>4, <2>2 DEF VDone, HeadGone
    <3>2. value' \in [Semaphores -> Int] /\ value'[s] = v + 1
      BY <1>1, <3>1
    <3>3. \A r \in Semaphores : r # s => value'[r] = value[r]
      BY <1>1, <3>1
    <3>4. QED
      BY <1>5, <3>1, <3>2, <3>3
  <2>3. QED
    BY <2>1, <2>2
<1>7. SemaphoreExact'
  <2>1. ASSUME NEW r \in Semaphores \cap alive, r # s
        PROVE  Len(waitq'[r]) = IF value'[r] < 0 THEN -value'[r] ELSE 0
    <3>1. waitq'[r] = waitq[r]
      BY <1>1, <2>1, SynchronizerAssumption DEF Only
    <3>2. QED
      BY <1>6, <2>1, <3>1 DEF QInv, SemaphoreExact
  <2>2. QED
    BY <1>1, <1>6, <2>1 DEF SemaphoreExact
<1>8. \A x \in Mutexes : waitq'[x] = waitq[x]
  BY <1>1, SynchronizerAssumption DEF Only
<1>9. \A x \in Mutexes : Holders(x)' = Holders(x)
  BY <1>1, <1>8 DEF Holders
<1>10. MutexOK'
  BY <1>1, <1>8, <1>9 DEF QInv, MutexOK
<1>11. QED
  BY <1>1, <1>6, <1>7, <1>10 DEF QInv

(* What lock() and unlock() do to the holders of the mutex.                *)
LEMMA MutexHolders ==
  ASSUME SInv, QInv, NEW c \in CPU, NEW x \in Mutexes
  PROVE  /\ LockDone(c, x) => IF locked[x] THEN Holders(x)' = Holders(x)
                                           ELSE Holders(x) = {} /\ Holders(x)' = {exec[c]}
         /\ UnlockDone(c, x) =>
              /\ locked[x] /\ Holders(x) = {exec[c]}
              /\ IF waitq[x] = <<>> THEN Holders(x)' = {}
                                    ELSE HeadGone(x) /\ Holders(x)' = {Head(waitq[x])}
<1>1. /\ section \in [Threads -> Mutexes \cup {Null}] /\ x # Null /\ locked \in [Mutexes -> BOOLEAN]
      /\ \A t \in ToSet(waitq[x]) : section[t] = x
  BY SynchronizerAssumption DEF QInv, MutexOK
<1>2. x \in alive =>
        (locked[x] => \E t \in Threads : Holders(x) = {t}) /\ (~locked[x] => Holders(x) = {})
  BY DEF QInv, MutexOK
<1>3. Holders(x)' = {t \in Threads : section'[t] = x /\ t \notin ToSet(waitq'[x])}
  BY DEF Holders
<1>4. ASSUME LockDone(c, x)
      PROVE  IF locked[x] THEN Holders(x)' = Holders(x)
                          ELSE Holders(x) = {} /\ Holders(x)' = {exec[c]}
  <2>1. /\ exec[c] \in Threads /\ section[exec[c]] = Null /\ x \in alive
        /\ section' = [section EXCEPT ![exec[c]] = x] /\ exec[c] \notin ToSet(waitq[x])
    BY <1>4 DEF LockDone, Only
  <2>2. section'[exec[c]] = x /\ \A t \in Threads : t # exec[c] => section'[t] = section[t]
    BY <1>1, <2>1
  <2>3. CASE locked[x]
    <3>1. ToSet(waitq'[x]) = ToSet(waitq[x]) \cup {exec[c]}
      BY <1>4, <2>3 DEF LockDone, Queued
    <3>2. QED
      BY <1>1, <1>3, <2>1, <2>2, <2>3, <3>1 DEF Holders
  <2>4. CASE ~locked[x]
    <3>1. waitq'[x] = waitq[x] /\ Holders(x) = {}
      BY <1>2, <1>4, <2>1, <2>4 DEF LockDone
    <3>2. QED
      BY <1>1, <1>3, <2>1, <2>2, <2>4, <3>1 DEF Holders
  <2>5. QED
    BY <2>3, <2>4
<1>5. ASSUME UnlockDone(c, x)
      PROVE  /\ locked[x] /\ Holders(x) = {exec[c]}
             /\ IF waitq[x] = <<>> THEN Holders(x)' = {}
                                   ELSE HeadGone(x) /\ Holders(x)' = {Head(waitq[x])}
  <2>1. /\ exec[c] \in Threads /\ section[exec[c]] = x /\ x \in alive
        /\ section' = [section EXCEPT ![exec[c]] = Null] /\ exec[c] \notin ToSet(waitq[x])
    BY <1>5 DEF UnlockDone, Only
  <2>2. section'[exec[c]] = Null /\ \A t \in Threads : t # exec[c] => section'[t] = section[t]
    BY <1>1, <2>1
  <2>3. exec[c] \in Holders(x)
    BY <2>1 DEF Holders
  <2>4. locked[x] /\ Holders(x) = {exec[c]}
    BY <1>2, <2>1, <2>3
  <2>5. \A t \in Threads : section[t] = x /\ t # exec[c] => t \in ToSet(waitq[x])
    BY <2>4 DEF Holders
  <2>6. CASE waitq[x] = <<>>
    <3>1. ~HeadGone(x)
      BY <2>6 DEF HeadGone, ToSet
    <3>2. waitq'[x] = waitq[x]
      BY <1>5, <2>6, <3>1 DEF UnlockDone
    <3>3. Holders(x)' = {}
      BY <1>1, <1>3, <2>2, <2>5, <3>2
    <3>4. QED
      BY <2>4, <2>6, <3>3
  <2>7. CASE waitq[x] # <<>>
    <3>1. HeadGone(x)
      BY <1>5, <2>7 DEF UnlockDone
    <3>2. /\ Head(waitq[x]) \in ToSet(waitq[x])
          /\ ToSet(waitq'[x]) = ToSet(waitq[x]) \ {Head(waitq[x])}
      BY <3>1 DEF HeadGone
    <3>3. ToSet(waitq[x]) \subseteq Threads
      BY SynchronizerAssumption DEF SInv, WaitOK, ToSet
    <3>4. Holders(x)' = {Head(waitq[x])}
      BY <1>1, <1>3, <2>1, <2>2, <2>5, <3>2, <3>3
    <3>5. QED
      BY <2>4, <2>7, <3>1, <3>4
  <2>8. QED
    BY <2>6, <2>7
<1>6. QED
  BY <1>4, <1>5

(* lock() and unlock() keep one holder or none.                            *)
LEMMA MutexKeeps ==
  ASSUME SInv, QInv, NEW c \in CPU, NEW x \in Mutexes, LockDone(c, x) \/ UnlockDone(c, x),
         WakingOK', QueuesSorted'
  PROVE  QInv'
<1>1. /\ Only(x) /\ UNCHANGED value /\ alive' = alive /\ x \in alive
      /\ section \in [Threads -> Mutexes \cup {Null}] /\ locked \in [Mutexes -> BOOLEAN]
      /\ exec[c] \in Threads /\ section[exec[c]] \in {x, Null} /\ x # Null
  BY SynchronizerAssumption DEF LockDone, UnlockDone, Only, QInv
<1>2. \A r \in Sync : r # x => waitq'[r] = waitq[r]
  BY <1>1 DEF Only
<1>3. SemaphoreExact'
  BY <1>1, <1>2, SynchronizerAssumption DEF QInv, SemaphoreExact
<1>4. /\ section' \in [Threads -> Mutexes \cup {Null}] /\ section'[exec[c]] \in {x, Null}
      /\ \A t \in Threads : t # exec[c] => section'[t] = section[t]
  BY <1>1 DEF LockDone, UnlockDone
<1>5. locked' \in [Mutexes -> BOOLEAN] /\ \A y \in Mutexes : y # x => locked'[y] = locked[y]
  <2>1. CASE LockDone(c, x)
    BY <1>1, <2>1 DEF LockDone
  <2>2. CASE UnlockDone(c, x)
    BY <1>1, <2>2 DEF UnlockDone
  <2>3. QED
    BY <2>1, <2>2
<1>6. ASSUME NEW y \in Mutexes, y # x
      PROVE  /\ Holders(y)' = Holders(y)
             /\ \A t \in ToSet(waitq'[y]) : section'[t] = y
  <2>1. waitq'[y] = waitq[y] /\ y # Null
    BY <1>2, <1>6, SynchronizerAssumption
  <2>2. \A t \in Threads : section'[t] = y <=> section[t] = y
    BY <1>1, <1>4, <1>6, <2>1
  <2>3. ToSet(waitq[y]) \subseteq Threads
    BY SynchronizerAssumption DEF SInv, WaitOK, ToSet
  <2>4. QED
    BY <2>1, <2>2, <2>3 DEF Holders, QInv, MutexOK
<1>7. /\ locked'[x] => \E t \in Threads : Holders(x)' = {t}
      /\ ~locked'[x] => Holders(x)' = {}
      /\ \A t \in ToSet(waitq'[x]) : section'[t] = x
  <2>1. /\ \A t \in ToSet(waitq[x]) : section[t] = x
        /\ locked[x] => \E t \in Threads : Holders(x) = {t}
    BY <1>1 DEF QInv, MutexOK
  <2>2. ToSet(waitq[x]) \subseteq Threads
    BY SynchronizerAssumption DEF SInv, WaitOK, ToSet
  <2>3. CASE LockDone(c, x)
    <3>1. locked'[x] = TRUE /\ section'[exec[c]] = x
      BY <1>1, <2>3 DEF LockDone
    <3>2. \E t \in Threads : Holders(x)' = {t}
      BY <1>1, <2>1, <2>3, MutexHolders
    <3>3. ToSet(waitq'[x]) \subseteq ToSet(waitq[x]) \cup {exec[c]}
      BY <2>3 DEF LockDone, Queued
    <3>4. QED
      BY <1>4, <2>1, <2>2, <3>1, <3>2, <3>3
  <2>4. CASE UnlockDone(c, x)
    <3>1. exec[c] \notin ToSet(waitq[x])
      BY <2>4 DEF UnlockDone
    <3>2. CASE waitq[x] = <<>>
      <4>1. Holders(x)' = {}
        BY <2>4, <3>2, MutexHolders
      <4>2. ToSet(waitq[x]) = {}
        BY <3>2 DEF ToSet
      <4>3. ~HeadGone(x)
        BY <4>2 DEF HeadGone
      <4>4. waitq'[x] = waitq[x] /\ locked' = [locked EXCEPT ![x] = FALSE]
        BY <2>4, <3>2, <4>3 DEF UnlockDone
      <4>5. locked'[x] = FALSE
        BY <1>1, <4>4
      <4>6. QED
        BY <4>1, <4>2, <4>4, <4>5
    <3>3. CASE waitq[x] # <<>>
      <4>1. locked[x] /\ HeadGone(x) /\ Holders(x)' = {Head(waitq[x])}
        BY <2>4, <3>3, MutexHolders
      <4>2. locked' = locked
        BY <2>4, <3>3 DEF UnlockDone
      <4>3. ToSet(waitq'[x]) \subseteq ToSet(waitq[x]) /\ Head(waitq[x]) \in Threads
        BY <2>2, <4>1 DEF HeadGone
      <4>4. QED
        BY <1>4, <2>1, <2>2, <3>1, <4>1, <4>2, <4>3
    <3>4. QED
      BY <3>2, <3>3
  <2>5. QED
    BY <2>3, <2>4
<1>8. MutexOK'
  <2>1. ASSUME NEW y \in Mutexes
        PROVE  /\ \A t \in ToSet(waitq'[y]) : section'[t] = y
               /\ y \in alive' => /\ locked'[y] => \E t \in Threads : Holders(y)' = {t}
                                  /\ ~locked'[y] => Holders(y)' = {}
    <3>1. CASE y = x
      BY <1>7, <3>1
    <3>2. CASE y # x
      BY <1>1, <1>5, <1>6, <3>2 DEF QInv, MutexOK
    <3>3. QED
      BY <3>1, <3>2
  <2>2. QED
    BY <2>1 DEF MutexOK
<1>9. QED
  BY <1>1, <1>3, <1>4, <1>5, <1>8 DEF QInv
-----------------------------------------------------------------------------
(* The invariant holds at first: nobody waits and nothing is locked.       *)
LEMMA SyncInitKeeps ==
  ASSUME Orderly, SyncInit
  PROVE  SInv /\ LInv /\ QInv
<1>1. SInv /\ LInv
  BY InitKeeps, InitLives DEF Orderly, SyncInit
<1>2. /\ waitq = [q \in Sync |-> <<>>] /\ pc = [c \in CPU |-> AtWork]
      /\ value = Value /\ locked = [x \in Mutexes |-> FALSE]
      /\ section = [t \in Threads |-> Null] /\ alive = Sync
  BY DEF SyncInit, Init
<1>3. \A q \in Sync : waitq[q] = <<>>
  BY <1>2
<1>4. \A q \in Sync : ToSet(waitq[q]) = {} /\ Len(waitq[q]) = 0 /\ Sorted(waitq[q], k.rank)
  BY <1>3 DEF ToSet, Sorted
<1>5. /\ value \in [Semaphores -> Int] /\ locked \in [Mutexes -> BOOLEAN]
      /\ section \in [Threads -> Mutexes \cup {Null}] /\ alive \in SUBSET Sync
  BY <1>2, SynchronizerAssumption
<1>6. WakingOK
  BY <1>2, PlaceFacts DEF WakingOK
<1>7. SemaphoreExact
  <2>1. ASSUME NEW s \in Semaphores PROVE Len(waitq[s]) = IF value[s] < 0 THEN -value[s] ELSE 0
    <3>1. s \in Sync /\ value[s] \in Int /\ value[s] >= 0
      BY <1>2, <1>5, SynchronizerAssumption DEF Orderly
    <3>2. QED
      BY <1>4, <3>1
  <2>2. QED
    BY <2>1 DEF SemaphoreExact
<1>8. MutexOK
  <2>1. \A x \in Mutexes : x \in Sync /\ x # Null /\ locked[x] = FALSE
    BY <1>2, SynchronizerAssumption
  <2>2. \A x \in Mutexes : Holders(x) = {}
    BY <1>2, <2>1 DEF Holders
  <2>3. QED
    BY <1>4, <2>1, <2>2 DEF MutexOK
<1>9. QED
  BY <1>1, <1>4, <1>5, <1>6, <1>7, <1>8 DEF QInv, QueuesSorted

(* Every step keeps the three invariants.                                  *)
LEMMA SyncNextKeeps ==
  ASSUME Orderly, SInv, LInv, QInv, [SyncNext]_syncVars
  PROVE  SInv' /\ LInv' /\ QInv'
<1>1. QInv'
  BY SyncSteps, AsideKeeps, SemaphoreKeeps, MutexKeeps
<1>2. Disciplined
  BY DEF Orderly
<1>3. ASSUME NEW c \in CPU, SyncOperation(c)
      PROVE  \/ UNCHANGED vars
             \/ \E q \in Sync : Entering(c) /\ (Sleep(c, q) \/ Wakeup(c, q) \/ WakeupAll(c, q))
  <2>1. Semaphores \subseteq Sync /\ Mutexes \subseteq Sync /\ Conditions \subseteq Sync
    BY SynchronizerAssumption
  <2>2. CASE \E s \in Semaphores : P(c, s) \/ V(c, s)
    BY <2>1, <2>2 DEF P, V, CallingSync
  <2>3. CASE \E x \in Mutexes : Lock(c, x) \/ Unlock(c, x)
    BY <2>1, <2>3 DEF Lock, Unlock, CallingSync
  <2>4. CASE \E d \in Conditions : Wait(c, d) \/ Signal(c, d) \/ Broadcast(c, d)
    BY <2>1, <2>4 DEF Wait, Signal, Broadcast, CallingSync
  <2>5. CASE \E q \in Sync : Destroy(c, q)
    BY <2>5 DEF Destroy, CallingSync
  <2>6. QED
    BY <1>3, <2>2, <2>3, <2>4, <2>5 DEF SyncOperation
<1>4. ASSUME NEW c \in CPU, SyncOperation(c) \/ Operation(c) \/ Kernel(c) PROVE SInv' /\ LInv'
  BY <1>2, <1>3, <1>4, StutterKeeps, CallKeeps, OperationKeeps, KernelKeeps
<1>5. CASE UNCHANGED vars
  BY <1>1, <1>5, StutterKeeps
<1>6. QED
  BY <1>1, <1>4, <1>5 DEF SyncNext, syncVars, Reboot

(* The invariants of the threads and of the synchronizers hold of every    *)
(* state the two reach together.                                           *)
THEOREM SyncInvariance == ASSUME Orderly PROVE SyncSpec => [](SInv /\ LInv /\ QInv)
<1>1. SyncInit => SInv /\ LInv /\ QInv
  BY SyncInitKeeps
<1>2. SInv /\ LInv /\ QInv /\ [SyncNext]_syncVars => SInv' /\ LInv' /\ QInv'
  BY SyncNextKeeps
<1>3. QED
  BY <1>1, <1>2, PTL DEF SyncSpec

(* A negative value of a semaphore counts its blocked threads, however p(),*)
(* v(), preemption, migration and the end of threads interleave.           *)
THEOREM SemaphoresAreExact == ASSUME Orderly PROVE SyncSpec => []SemaphoreExact
<1>1. QInv => SemaphoreExact
  BY DEF QInv
<1>2. QED
  BY <1>1, SyncInvariance, PTL

(* A mutex has one holder while _locked is set, and none while it is not,  *)
(* whom unlock() has woken up and who has not run since counted in.        *)
THEOREM OneHolder == ASSUME Orderly PROVE SyncSpec => []MutualExclusion
<1>1. QInv => MutualExclusion
  <2>1. ASSUME QInv, NEW x \in Mutexes \cap alive
        PROVE  Cardinality(Holders(x)) = IF locked[x] THEN 1 ELSE 0
    <3>1. CASE locked[x]
      <4>1. PICK t \in Threads : Holders(x) = {t}
        BY <2>1, <3>1 DEF QInv, MutexOK
      <4>2. QED
        BY <3>1, <4>1, FS_Singleton
    <3>2. CASE ~locked[x]
      <4>1. Holders(x) = {}
        BY <2>1, <3>2 DEF QInv, MutexOK
      <4>2. QED
        BY <3>2, <4>1, FS_EmptySet
    <3>3. QED
      BY <3>1, <3>2
  <2>2. QED
    BY <2>1 DEF MutualExclusion
<1>2. QED
  BY <1>1, SyncInvariance, PTL
-----------------------------------------------------------------------------
(* What the store of permits sees of a step                                *)
LEMMA PermitStep ==
  ASSUME Orderly, SInv, QInv, [SyncNext]_syncVars, NEW s \in Semaphores \cap alive'
  PROVE  [Permits(s)!Next]_(Permits(s)!vars)
<1>1. value \in [Semaphores -> Int] /\ s \in Semaphores /\ s \in Sync
  BY SynchronizerAssumption DEF QInv
<1>2. ASSUME waitq'[s] = waitq[s], value'[s] = value[s] PROVE [Permits(s)!Next]_(Permits(s)!vars)
  BY <1>2 DEF Permits!vars
<1>3. ASSUME NEW c \in CPU, PDone(c, s) \/ VDone(s) PROVE Permits(s)!Next
  <2>1. s \in alive /\ k'.rank = k.rank
    BY <1>3 DEF PDone, VDone, Only
  <2>2. Len(waitq[s]) = (IF value[s] < 0 THEN -value[s] ELSE 0) /\ waitq[s] \in Seq(Threads)
    BY <1>1, <2>1 DEF QInv, SemaphoreExact, SInv, WaitOK
  <2>3. CASE PDone(c, s)
    <3>1. value'[s] = value[s] - 1
      BY <1>1, <2>3 DEF PDone
    <3>2. CASE value[s] >= 1 /\ waitq'[s] = waitq[s]
      <4>1. Permits(s)!Take
        BY <1>1, <3>1, <3>2 DEF Permits!Take
      <4>2. QED
        BY <2>1, <4>1 DEF Permits!Next
    <3>3. CASE value[s] < 1 /\ Queued(c, s)
      <4>1. /\ exec[c] \in Threads /\ exec[c] \notin ToSet(waitq[s])
            /\ ToSet(waitq'[s]) = ToSet(waitq[s]) \cup {exec[c]}
        BY <3>3 DEF Queued
      <4>2. Permits(s)!Block(exec[c])
        BY <1>1, <3>1, <3>3, <4>1 DEF Permits!Block
      <4>3. QED
        BY <2>1, <4>1, <4>2 DEF Permits!Next
    <3>4. QED
      BY <2>3, <3>2, <3>3 DEF PDone
  <2>4. CASE VDone(s)
    <3>1. value'[s] = value[s] + 1
      BY <1>1, <2>4 DEF VDone
    <3>2. CASE value[s] >= 0 /\ waitq'[s] = waitq[s]
      <4>1. Len(waitq[s]) = 0
        BY <1>1, <2>2, <3>2
      <4>2. ToSet(waitq[s]) = {}
        BY <2>2, <4>1 DEF ToSet
      <4>3. Permits(s)!Give
        BY <1>1, <3>1, <3>2, <4>2 DEF Permits!Give
      <4>4. QED
        BY <2>1, <4>3 DEF Permits!Next
    <3>3. CASE value[s] < 0 /\ HeadGone(s)
      <4>1. /\ Head(waitq[s]) \in ToSet(waitq[s])
            /\ \A t \in ToSet(waitq[s]) : k.rank[Head(waitq[s])] <= k.rank[t]
            /\ ToSet(waitq'[s]) = ToSet(waitq[s]) \ {Head(waitq[s])}
        BY <3>3 DEF HeadGone
      <4>2. Permits(s)!Grant(Head(waitq[s]))
        BY <1>1, <3>1, <3>3, <4>1 DEF Permits!Grant
      <4>3. Head(waitq[s]) \in Threads
        BY <2>2, <4>1 DEF ToSet
      <4>4. QED
        BY <2>1, <4>2, <4>3 DEF Permits!Next
    <3>4. QED
      BY <2>4, <3>2, <3>3 DEF VDone
  <2>5. QED
    BY <1>3, <2>3, <2>4
<1>4. ASSUME NEW c \in CPU, NEW r \in Semaphores, r # s, PDone(c, r) \/ VDone(r)
      PROVE  waitq'[s] = waitq[s] /\ value'[s] = value[s]
  BY <1>1, <1>4 DEF PDone, VDone, Only
<1>5. ASSUME NEW c \in CPU, NEW x \in Mutexes, LockDone(c, x) \/ UnlockDone(c, x)
      PROVE  waitq'[s] = waitq[s] /\ value'[s] = value[s]
  BY <1>1, <1>5, SynchronizerAssumption DEF LockDone, UnlockDone, Only
<1>6. ASSUME Aside PROVE waitq'[s] = waitq[s] /\ value'[s] = value[s]
  BY <1>6 DEF Aside
<1>7. QED
  BY <1>2, <1>3, <1>4, <1>5, <1>6, SyncSteps

(* Each semaphore implements the store of permits: what its threads, the   *)
(* scheduler, the balancer and the other synchronizers do between them is, *)
(* step by step, what the store allows, and a permit that v() gives back   *)
(* goes to the most urgent of the threads that sleep in p().               *)
THEOREM SemaphoreRefinement == ASSUME Orderly PROVE SyncSpec => SemaphoreImplementsPermits
<1>1. SyncInit => \A s \in Semaphores : Permits(s)!Init
  <2>1. ASSUME SyncInit, NEW s \in Semaphores PROVE Permits(s)!Init
    <3>1. /\ value = Value /\ Value[s] \in Int /\ Value[s] >= 0
          /\ s \in Sync /\ waitq = [q \in Sync |-> <<>>]
      BY <2>1, SynchronizerAssumption DEF SyncInit, Init, Orderly
    <3>2. k.rank \in [Threads -> Nat]
      <4>1. k.rank \in [Threads -> 0..IdleRank]
        BY <2>1, SyncInitKeeps DEF SInv, KInv, Core
      <4>2. QED
        BY <4>1, ThreadAssumption
    <3>3. ToSet(waitq[s]) = {}
      BY <3>1 DEF ToSet
    <3>4. QED
      BY <3>1, <3>2, <3>3 DEF Permits!Init
  <2>2. QED
    BY <2>1
<1>2. SInv /\ LInv /\ QInv /\ [SyncNext]_syncVars =>
        [\A s \in Semaphores \cap alive' : [Permits(s)!Next]_(Permits(s)!vars)]_syncVars
  BY PermitStep
<1>3. QED
  BY <1>1, <1>2, SyncInvariance, PTL DEF SyncSpec, SemaphoreImplementsPermits
-----------------------------------------------------------------------------
(* The owner that the refinement mapping names                             *)
Owner(x) == IF Holders(x) = {} THEN Null ELSE CHOOSE t \in Holders(x) : TRUE

(* It is the one holder there is, if there is one.                         *)
LEMMA OwnerIs ==
  ASSUME NEW H
  PROVE  /\ H = {} => (IF H = {} THEN Null ELSE CHOOSE t \in H : TRUE) = Null
         /\ \A u : H = {u} => (IF H = {} THEN Null ELSE CHOOSE t \in H : TRUE) = u
<1>1. ASSUME NEW u, H = {u} PROVE (IF H = {} THEN Null ELSE CHOOSE t \in H : TRUE) = u
  <2>1. H # {}
    BY <1>1
  <2>2. (CHOOSE t \in H : TRUE) \in H
    BY <2>1
  <2>3. QED
    BY <1>1, <2>1, <2>2
<1>2. QED
  BY <1>1

(* What the mutex that hands itself over sees of a step                    *)
LEMMA HandOverStep ==
  ASSUME Orderly, SInv, QInv, [SyncNext]_syncVars, NEW x \in Mutexes \cap alive'
  PROVE  [Handing(x)!Next]_(Handing(x)!vars)
<1>1. /\ section \in [Threads -> Mutexes \cup {Null}] /\ x \in Mutexes /\ x \in Sync /\ x # Null
      /\ Null \notin Threads /\ waitq[x] \in Seq(Threads) /\ ToSet(waitq[x]) \subseteq Threads
  BY SynchronizerAssumption, ThreadAssumption DEF QInv, SInv, WaitOK, ToSet
<1>2. ASSUME Holders(x)' = Holders(x), ToSet(waitq'[x]) = ToSet(waitq[x])
      PROVE  [Handing(x)!Next]_(Handing(x)!vars)
  BY <1>2 DEF Handing!vars
<1>3. ASSUME NEW c \in CPU, LockDone(c, x) PROVE Handing(x)!Next
  <2>1. /\ k'.rank = k.rank /\ exec[c] \in Threads /\ exec[c] \notin ToSet(waitq[x])
        /\ section[exec[c]] = Null /\ x \in alive
    BY <1>3 DEF LockDone, Only
  <2>2. CASE locked[x]
    <3>1. PICK t \in Threads : Holders(x) = {t} /\ Holders(x)' = {t}
      BY <1>3, <2>1, <2>2, MutexHolders DEF QInv, MutexOK
    <3>2. exec[c] # t
      BY <1>1, <2>1, <3>1 DEF Holders
    <3>3. ToSet(waitq'[x]) = ToSet(waitq[x]) \cup {exec[c]}
      BY <1>3, <2>2 DEF LockDone, Queued
    <3>4. Owner(x) = t /\ Owner(x)' = t
      BY <3>1, OwnerIs DEF Owner
    <3>5. Handing(x)!Contend(exec[c])
      BY <1>1, <2>1, <3>1, <3>2, <3>3, <3>4 DEF Handing!Contend, Owner
    <3>6. QED
      BY <2>1, <3>5 DEF Handing!Next
  <2>3. CASE ~locked[x]
    <3>1. Holders(x) = {} /\ Holders(x)' = {exec[c]}
      BY <1>3, <2>3, MutexHolders
    <3>2. ToSet(waitq'[x]) = ToSet(waitq[x])
      BY <1>3, <2>3 DEF LockDone
    <3>3. Owner(x) = Null /\ Owner(x)' = exec[c]
      BY <3>1, OwnerIs DEF Owner
    <3>4. Handing(x)!Obtain(exec[c])
      BY <3>2, <3>3 DEF Handing!Obtain, Owner
    <3>5. QED
      BY <2>1, <3>4 DEF Handing!Next
  <2>4. QED
    BY <2>2, <2>3
<1>4. ASSUME NEW c \in CPU, UnlockDone(c, x) PROVE Handing(x)!Next
  <2>1. k'.rank = k.rank /\ exec[c] \in Threads /\ Holders(x) = {exec[c]}
    BY <1>4, MutexHolders DEF UnlockDone, Only
  <2>2. Owner(x) = exec[c] /\ exec[c] # Null
    BY <1>1, <2>1, OwnerIs DEF Owner
  <2>3. CASE waitq[x] = <<>>
    <3>1. Holders(x)' = {}
      BY <1>4, <2>3, MutexHolders
    <3>2. ToSet(waitq[x]) = {} /\ ~HeadGone(x)
      BY <2>3 DEF ToSet, HeadGone
    <3>3. waitq'[x] = waitq[x]
      BY <1>4, <2>3, <3>2 DEF UnlockDone
    <3>4. Owner(x)' = Null
      BY <3>1, OwnerIs DEF Owner
    <3>5. Handing(x)!Free
      BY <2>2, <3>2, <3>3, <3>4 DEF Handing!Free, Owner
    <3>6. QED
      BY <2>1, <3>5 DEF Handing!Next
  <2>4. CASE waitq[x] # <<>>
    <3>1. HeadGone(x) /\ Holders(x)' = {Head(waitq[x])}
      BY <1>4, <2>4, MutexHolders
    <3>2. /\ Head(waitq[x]) \in ToSet(waitq[x])
          /\ \A t \in ToSet(waitq[x]) : k.rank[Head(waitq[x])] <= k.rank[t]
          /\ ToSet(waitq'[x]) = ToSet(waitq[x]) \ {Head(waitq[x])}
      BY <3>1 DEF HeadGone
    <3>3. Owner(x)' = Head(waitq[x])
      BY <3>1, OwnerIs DEF Owner
    <3>4. Handing(x)!HandOver(Head(waitq[x]))
      BY <2>2, <3>2, <3>3 DEF Handing!HandOver, Owner
    <3>5. Head(waitq[x]) \in Threads
      BY <1>1, <3>2
    <3>6. QED
      BY <2>1, <3>4, <3>5 DEF Handing!Next
  <2>5. QED
    BY <2>3, <2>4
<1>5. ASSUME NEW c \in CPU, NEW y \in Mutexes, y # x, LockDone(c, y) \/ UnlockDone(c, y)
      PROVE  Holders(x)' = Holders(x) /\ ToSet(waitq'[x]) = ToSet(waitq[x])
  <2>1. waitq'[x] = waitq[x] /\ exec[c] \in Threads /\ y # Null /\ section[exec[c]] \in {y, Null}
    BY <1>1, <1>5, SynchronizerAssumption DEF LockDone, UnlockDone, Only
  <2>2. section' = [section EXCEPT ![exec[c]] = y] \/ section' = [section EXCEPT ![exec[c]] = Null]
    BY <1>5 DEF LockDone, UnlockDone
  <2>3. \A t \in Threads : section'[t] = x <=> section[t] = x
    BY <1>1, <1>5, <2>1, <2>2
  <2>4. QED
    BY <2>1, <2>3 DEF Holders
<1>6. ASSUME NEW c \in CPU, NEW s \in Semaphores, PDone(c, s) \/ VDone(s)
      PROVE  Holders(x)' = Holders(x) /\ ToSet(waitq'[x]) = ToSet(waitq[x])
  <2>1. waitq'[x] = waitq[x] /\ section' = section
    BY <1>1, <1>6, SynchronizerAssumption DEF PDone, VDone, Only
  <2>2. QED
    BY <2>1 DEF Holders
<1>7. ASSUME Aside PROVE Holders(x)' = Holders(x) /\ ToSet(waitq'[x]) = ToSet(waitq[x])
  BY <1>7 DEF Aside, Holders
<1>8. QED
  BY <1>2, <1>3, <1>4, <1>5, <1>6, <1>7, SyncSteps

(* Each mutex implements the one that hands itself over: unlock() makes the*)
(* most urgent of the waiting threads its holder at once, and no thread    *)
(* that calls lock() before that one runs gets in between.                 *)
THEOREM MutexRefinement == ASSUME Orderly PROVE SyncSpec => MutexImplementsHandOver
<1>1. SyncInit => \A x \in Mutexes : Handing(x)!Init
  <2>1. ASSUME SyncInit, NEW x \in Mutexes PROVE Handing(x)!Init
    <3>1. /\ x \in Sync /\ x # Null /\ waitq = [q \in Sync |-> <<>>]
          /\ section = [t \in Threads |-> Null]
      BY <2>1, SynchronizerAssumption DEF SyncInit, Init
    <3>2. k.rank \in [Threads -> Nat]
      <4>1. k.rank \in [Threads -> 0..IdleRank]
        BY <2>1, SyncInitKeeps DEF SInv, KInv, Core
      <4>2. QED
        BY <4>1, ThreadAssumption
    <3>3. ToSet(waitq[x]) = {} /\ Holders(x) = {}
      BY <3>1 DEF ToSet, Holders
    <3>4. QED
      BY <3>2, <3>3 DEF Handing!Init
  <2>2. QED
    BY <2>1
<1>2. SInv /\ LInv /\ QInv /\ [SyncNext]_syncVars =>
        [\A x \in Mutexes \cap alive' : [Handing(x)!Next]_(Handing(x)!vars)]_syncVars
  BY HandOverStep
<1>3. QED
  BY <1>1, <1>2, SyncInvariance, PTL DEF SyncSpec, MutexImplementsHandOver
=============================================================================
