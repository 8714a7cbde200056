--------------------------------- MODULE Alarm ---------------------------------
(***************************************************************************)
(* Alarms: src/api/alarm.cc on a Relative_List (include/utility/list.h), in*)
(* which every element's rank is an offset to its predecessor's.           *)
(*                                                                         *)
(* Threads, the flows, construct, reset and destroy alarms; the timer      *)
(* interrupt calls handler() on the bootstrap CPU.  All of them work on    *)
(* _request with Thread::_lock held, but handler() calls the alarm's own   *)
(* handler after releasing it, with interrupts enabled, and reset() and    *)
(* period() take the lock only if Thread::locked() says nobody has it.     *)
(* _elapsed, which no alarm depends on, is left out.                       *)
(***************************************************************************)
EXTENDS Integers, Sequences, SequencesExt, FiniteSets

CONSTANTS Flow,       \* the threads that use alarms
          Alarms,     \* the alarm objects
          Periods,    \* the periods, in ticks, that are given to them
          Times,      \* the numbers of times they are told to go off
          SMP,        \* Traits<Thread>::smp
          MaxRank,    \* a bound on the offset of an alarm whose period is changed
          MaxNested,  \* a bound on the handlers called but not yet entered
          Calls,      \* the operations the threads use
          INFINITE,   \* -1U, the number of times of an alarm that never stops
          Null, Off

ASSUME AlarmAssumption ==
    /\ Periods \subseteq Nat \ {0}
    /\ Times \subseteq (Nat \ {0}) \cup {INFINITE}
    /\ SMP \in BOOLEAN /\ MaxRank \in Nat /\ MaxNested \in Nat \ {0}
    /\ Calls \subseteq {"construct", "destroy", "reset", "period", "restart_finite"}

VARIABLES request,    \* _request, head first
          rank,       \* rank[a]: a->_link.rank()
          ticks,      \* ticks[a]: a->_ticks
          times,      \* times[a]: a->_times
          exists,     \* the alarms that are constructed
          lock,       \* the flow that has Thread::_lock, or Null
          at,         \* at[f]: where flow f is
          pending     \* the alarms whose handler handler() is about to call

vars == <<request, rank, ticks, times, exists, lock, at, pending>>

Idling == [op |-> "none"]

Init == /\ request = <<>>
        /\ rank = [a \in Alarms |-> 0]
        /\ ticks = [a \in Alarms |-> 0]
        /\ times = [a \in Alarms |-> 0]
        /\ exists = {}
        /\ lock = Null
        /\ at = [f \in Flow |-> Idling]
        /\ pending = <<>>
-----------------------------------------------------------------------------
(* The ticks until the i-th request is due: the sum of the offsets.        *)
Due(q, r, i) ==
    LET sum[n \in 0 .. Len(q)] == IF n = 0 THEN 0 ELSE sum[n - 1] + r[q[n]]
    IN  sum[i]

(* Ordered_List::insert() of a relative list: a's rank comes in as a time  *)
(* from now and is reduced by every offset passed.                         *)
Inserted(s, a) ==
    LET pos == Min({i \in 1..Len(s.q) + 1 : i <= Len(s.q) => Due(s.q, s.r, i) > s.r[a]})
        own == s.r[a] - Due(s.q, s.r, pos - 1)
    IN  [q |-> InsertAt(s.q, pos, a),
         r |-> IF pos > Len(s.q) THEN [s.r EXCEPT ![a] = own]
               ELSE [s.r EXCEPT ![a] = own, ![s.q[pos]] = @ - own]]

(* Ordered_List::remove() of an element or of an object, which may not be  *)
(* there: the successor takes over the offset.                             *)
Removed(s, a) ==
    IF a \notin ToSet(s.q) THEN s ELSE
    LET pos == CHOOSE i \in DOMAIN s.q : s.q[i] = a
    IN  [q |-> RemoveAt(s.q, pos),
         r |-> IF pos = Len(s.q) THEN s.r ELSE [s.r EXCEPT ![s.q[pos + 1]] = @ + s.r[a]]]

Queue == [q |-> request, r |-> rank]
Becomes(s) == request' = s.q /\ rank' = s.r
-----------------------------------------------------------------------------
(* A single processor runs no other flow while one has the lock, which is  *)
(* to say while it has interrupts disabled.                                *)
Runs(f) == SMP \/ lock \in {Null, f}

(* lock()                                                                  *)
Enter(f, op) ==
    /\ at[f] = Idling /\ lock = Null
    /\ op.op \in Calls \ {"reset", "period"}
    /\ op.a \in exists <=> op.op = "destroy"
    /\ \A g \in Flow : at[g] # Idling => at[g].a # op.a
    /\ lock' = f
    /\ at' = [at EXCEPT ![f] = op]
    /\ UNCHANGED <<request, rank, ticks, times, exists, pending>>

(* Alarm(): times that round to zero ticks, whose handler is called at     *)
(* once and which never get into the queue, are left out.                  *)
Construct(f) ==
    /\ at[f].op = "construct"
    /\ LET a == at[f].a
           t == at[f].t
       IN  /\ ticks' = [ticks EXCEPT ![a] = t]
           /\ times' = [times EXCEPT ![a] = at[f].n]
           /\ exists' = exists \cup {a}
           /\ Becomes(Inserted([Queue EXCEPT !.r[a] = t], a))
    /\ lock' = Null
    /\ at' = [at EXCEPT ![f] = Idling]
    /\ UNCHANGED pending

(* ~Alarm(): the attributes, gone with the object, read zero afterwards.   *)
Destroy(f) ==
    /\ at[f].op = "destroy"
    /\ LET a == at[f].a
       IN  /\ Becomes([Removed(Queue, a) EXCEPT !.r[a] = 0])
           /\ exists' = exists \ {a}
           /\ ticks' = [ticks EXCEPT ![a] = 0]
           /\ times' = [times EXCEPT ![a] = 0]
    /\ lock' = Null
    /\ at' = [at EXCEPT ![f] = Idling]
    /\ UNCHANGED pending
-----------------------------------------------------------------------------
(* An alarm that goes off a limited number of times may have done so by the*)
(* time it is reset, and would never stop: handler() decrements its _times *)
(* of zero.  restart_finite is that use.  period() is called with another  *)
(* period than the alarm has, by one thread at a time; the offset an alarm *)
(* has may grow with each call when the first of the queue is late.        *)
Restartable(op) == /\ op.op \in Calls /\ op.a \in exists
                   /\ times[op.a] = INFINITE \/ "restart_finite" \in Calls
                   /\ op.op = "period" =>
                        /\ op.t # ticks[op.a] /\ rank[op.a] <= MaxRank
                        /\ \A g \in Flow : at[g] # Idling => at[g].a # op.a

(* A slip: the caller is taken to have the lock.                           *)
AskNobody(f, op) ==
    /\ at[f] = Idling /\ Runs(f)
    /\ Restartable(op)
    /\ at' = [at EXCEPT ![f] = [op EXCEPT !.step = "work"]]
    /\ UNCHANGED <<request, rank, ticks, times, exists, lock, pending>>

(* reset() and period(p) ask Thread::locked() first, which tells on a      *)
(* multiprocessor whether some CPU has the lock.                           *)
Ask(f, op) ==
    /\ at[f] = Idling /\ Runs(f)
    /\ Restartable(op)
    /\ at' = [at EXCEPT ![f] = [op EXCEPT !.step = IF lock = Null THEN "lock" ELSE "work"]]
    /\ UNCHANGED <<request, rank, ticks, times, exists, lock, pending>>

Acquire(f) ==
    /\ at[f].op \in {"reset", "period"} /\ at[f].step = "lock"
    /\ lock = Null
    /\ lock' = f
    /\ at' = [at EXCEPT ![f].step = "work"]
    /\ UNCHANGED <<request, rank, ticks, times, exists, pending>>

(* The body: remove, a new rank or a new period, and insert.  After        *)
(* reset() an alarm is due a period from now; period() inserts it with the *)
(* offset it had.                                                          *)
Finish(f) ==
    /\ lock' = IF lock = f THEN Null ELSE lock
    /\ at' = [at EXCEPT ![f] = Idling]
    /\ UNCHANGED <<times, exists, pending>>

(* A slip: reset() forgets the new rank.                                   *)
ResetStale(f) ==
    /\ at[f].op = "reset" /\ at[f].step = "work" /\ Runs(f)
    /\ Becomes(Inserted(Removed(Queue, at[f].a), at[f].a))
    /\ Finish(f) /\ UNCHANGED ticks

Reset(f) ==
    /\ at[f].op = "reset" /\ at[f].step = "work" /\ Runs(f)
    /\ LET a == at[f].a
       IN  Becomes(Inserted([Removed(Queue, a) EXCEPT !.r[a] = ticks[a]], a))
    /\ Finish(f) /\ UNCHANGED ticks

Period(f) ==
    /\ at[f].op = "period" /\ at[f].step = "work" /\ Runs(f)
    /\ Becomes(Inserted(Removed(Queue, at[f].a), at[f].a))
    /\ ticks' = [ticks EXCEPT ![at[f].a] = at[f].t]
    /\ Finish(f)
-----------------------------------------------------------------------------
(* _times--, an unsigned int: zero wraps to INFINITE.                      *)
Less(n) == IF n \in {0, INFINITE} THEN INFINITE ELSE n - 1

(* A slip: an alarm that is late is set for the tick it should have been.  *)
HandlerCatchUp ==
    /\ lock = Null /\ Len(pending) < MaxNested /\ request # <<>>
    /\ LET a    == Head(request)
           tick == [Queue EXCEPT !.r[a] = @ - 1]
       IN  \/ /\ tick.r[a] > 0
              /\ Becomes(tick)
              /\ UNCHANGED pending
           \/ /\ tick.r[a] <= 0
              /\ Becomes(Inserted([Removed(tick, a) EXCEPT !.r[a] = ticks[a] + tick.r[a]], a))
              /\ pending' = Append(pending, a)
    /\ UNCHANGED <<times, ticks, exists, lock, at>>

(* handler(), up to unlock(): at most one alarm goes off in a tick.        *)
Handler ==
    /\ lock = Null /\ Len(pending) < MaxNested
    /\ \/ /\ request = <<>>
          /\ UNCHANGED vars
       \/ /\ request # <<>>
          /\ LET a    == Head(request)
                 tick == [Queue EXCEPT !.r[a] = @ - 1]
                 n    == Less(times[a])
             IN  \/ /\ tick.r[a] > 0
                    /\ Becomes(tick)
                    /\ UNCHANGED <<times, pending>>
                 \/ /\ tick.r[a] <= 0
                    /\ times' = [times EXCEPT ![a] = n]
                    /\ Becomes(IF n = 0 THEN Removed(tick, a)
                               ELSE Inserted([Removed(tick, a) EXCEPT !.r[a] = ticks[a]], a))
                    /\ pending' = Append(pending, a)
          /\ UNCHANGED <<ticks, exists, lock, at>>

(* The call of the alarm's own handler, after unlock()                     *)
Call == /\ pending # <<>>
        /\ pending' = Tail(pending)
        /\ UNCHANGED <<request, rank, ticks, times, exists, lock, at>>
-----------------------------------------------------------------------------
Next ==
    \/ \E f \in Flow, a \in Alarms :
         \/ \E t \in Periods, n \in Times : Enter(f, [op |-> "construct", a |-> a, t |-> t, n |-> n])
         \/ Enter(f, [op |-> "destroy", a |-> a])
         \/ Ask(f, [op |-> "reset", a |-> a, step |-> "ask"])
         \/ \E t \in Periods : Ask(f, [op |-> "period", a |-> a, t |-> t, step |-> "ask"])
    \/ \E f \in Flow : Construct(f) \/ Destroy(f) \/ Acquire(f) \/ Reset(f) \/ Period(f)
    \/ Handler \/ Call

Spec == Init /\ [][Next]_vars
-----------------------------------------------------------------------------
TypeOK == /\ request \in Seq(Alarms)
          /\ rank \in [Alarms -> Int] /\ ticks \in [Alarms -> Periods \cup {0}]
          /\ times \in [Alarms -> Nat \cup {INFINITE}]
          /\ exists \subseteq Alarms
          /\ lock \in Flow \cup {Null}
          /\ pending \in Seq(Alarms)

(* The offsets stand for absolute times: construct, destroy, reset and the *)
(* one-alarm-per-tick handler do to the queue of offsets what AlarmClock   *)
(* does to the number of ticks each alarm has left, whatever alarms are due*)
(* at the same tick.                                                       *)
Left == [a \in Alarms |-> IF a \in ToSet(request)
                          THEN Due(request, rank, CHOOSE i \in DOMAIN request : request[i] = a)
                          ELSE Off]
Clock == INSTANCE AlarmClock WITH Counts <- Times \ {INFINITE}, Endless <- INFINITE,
                                  left <- Left, period <- ticks, calls <- times
ImplementsClock == Clock!Spec

(* Although only one alarm goes off in a tick, none is late by more ticks  *)
(* than there are other alarms: the backlog does not grow.                 *)
LatenessBounded ==
    \A i \in DOMAIN request : Due(request, rank, i) + Cardinality(Alarms) >= 2

(* Whoever works on _request has the lock: "locking handled by caller".    *)
Working(f) == \/ at[f].op \in {"construct", "destroy"}
              \/ at[f].op \in {"reset", "period"} /\ at[f].step = "work"
QueueLocked == \A f \in Flow : Working(f) => lock = f
=============================================================================
