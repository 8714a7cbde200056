------------------------------ MODULE Scheduling ------------------------------
(***************************************************************************)
(* The scheduler's data structure: Ordered_List, Scheduling_List and       *)
(* Scheduling_Multilist (include/utility/list.h) behind Scheduler<Thread>  *)
(* (include/utility/scheduling.h), as used by partitioned criteria: one    *)
(* list per CPU, the chosen thread of a CPU kept outside its list.         *)
(*                                                                         *)
(* Every operator takes the scheduler's state and returns the new one.     *)
(* The state is a record s with the fields                                 *)
(*   chosen[c]  _list[c]._chosen, or Null                                  *)
(*   ready[c]   the threads linked in _list[c], head first                 *)
(*   rank[t]    the priority in t->_link.rank()                            *)
(*   queue[t]   t->_link.rank().queue()                                    *)
(*   intact     no list operation has been applied to an element that is   *)
(*              not where the operation takes it to be: after one, the     *)
(*              links of the lists are undefined                           *)
(***************************************************************************)
EXTENDS Integers, Sequences, SequencesExt

CONSTANTS Null,       \* no thread
          IdleRank    \* Criterion::IDLE, the rank of the idle threads

(* A slip: the walk stops at the first element of the same rank.           *)
InsertPosBeforeEquals(q, rank, r) ==
    Min({i \in 1..Len(q) + 1 : i <= Len(q) => rank[q[i]] >= r})

(* Where Ordered_List::insert() links an element of rank r: before the     *)
(* first element of a larger rank, so after every element of the same rank.*)
InsertPos(q, rank, r) ==
    Min({i \in 1..Len(q) + 1 : i <= Len(q) => rank[q[i]] > r})

OrderedInsert(q, rank, t) == InsertAt(q, InsertPos(q, rank, rank[t]), t)

IsLinked(s, t, c) == t \in ToSet(s.ready[c])

(* Base::insert(): linking an element that is already linked destroys both *)
(* lists' links.                                                           *)
Link(s, c, t) ==
    [s EXCEPT !.ready[c] = OrderedInsert(@, s.rank, t),
              !.intact = @ /\ \A d \in DOMAIN s.ready : ~IsLinked(s, t, d)]

(* Base::remove(e): does not check that e is linked in this list.          *)
Unlink(s, c, t) ==
    [s EXCEPT !.ready[c] = RemoveFirst(@, t),
              !.intact = @ /\ IsLinked(s, t, c)]

(* _chosen = Base::remove_head(): 0 when the list is empty.                *)
ChooseHead(s, c) ==
    IF s.ready[c] = <<>>
    THEN [s EXCEPT !.chosen[c] = Null]
    ELSE [s EXCEPT !.chosen[c] = Head(s.ready[c]), !.ready[c] = Tail(@)]

(* Scheduler::insert() and resume()                                        *)
SchedulerInsert(s, t) ==
    LET c == s.queue[t]
    IN  IF s.chosen[c] = Null THEN [s EXCEPT !.chosen[c] = t] ELSE Link(s, c, t)

(* Scheduler::remove() and suspend(): removing the chosen thread chooses   *)
(* the head of its list.                                                   *)
SchedulerRemove(s, t) ==
    LET c == s.queue[t]
    IN  IF s.chosen[c] = t THEN ChooseHead(s, c) ELSE Unlink(s, c, t)

(* The first lines of each choose() of the multilist: a chosen thread whose*)
(* criterion has been given another queue is moved there.                  *)
Rehome(s, c) ==
    LET t == s.chosen[c]
    IN  IF s.queue[t] = c THEN s ELSE ChooseHead(SchedulerInsert(s, t), c)

(* Scheduler::choose() on CPU c: the chosen thread goes behind the threads *)
(* of its rank, and the head is chosen.                                    *)
Choose(s, c) ==
    LET r == Rehome(s, c)
    IN  IF r.ready[c] = <<>> THEN r ELSE ChooseHead(Link(r, c, r.chosen[c]), c)

(* A slip: the thread that gives the CPU up is not put back.               *)
ChooseAnotherDrop(s, c) ==
    LET r == Rehome(s, c)
    IN  IF r.ready[c] = <<>> \/ r.rank[Head(r.ready[c])] = IdleRank THEN r ELSE ChooseHead(r, c)

(* Scheduler::choose_another(): the head is chosen, whatever its rank,     *)
(* unless it is the idle thread.                                           *)
ChooseAnother(s, c) ==
    LET r == Rehome(s, c)
    IN  IF r.ready[c] = <<>> \/ r.rank[Head(r.ready[c])] = IdleRank
        THEN r
        ELSE Link(ChooseHead(r, c), c, r.chosen[c])

(* Scheduler::choose(t), on the list of t's queue, whichever CPU calls.    *)
ChooseThis(s, c, t) ==
    LET r == Rehome(s, c)
        q == r.queue[t]
    IN  IF r.chosen[q] = t
        THEN r
        ELSE [Unlink(Link(r, q, r.chosen[q]), q, t) EXCEPT !.chosen[q] = t]
=============================================================================
