-------------------------------- MODULE Spin --------------------------------
(***************************************************************************)
(* The recursive spin lock of include/utility/spin.h, class Spin: the lock *)
(* under which every kernel operation of Thread and of the synchronizers   *)
(* runs.  The lock is two words, _owner and _level, and only the word      *)
(* _owner is changed by an atomic instruction (CPU::cas): every other      *)
(* access is a plain load or store, and a step of this module is one such  *)
(* access.  A process is an executing thread, identified, as in the code,  *)
(* by the address _running() returns; 0 is the address of no thread.       *)
(***************************************************************************)
EXTENDS Integers

CONSTANTS Proc,       \* the threads that contend for the lock
          Null,       \* the value 0 of _owner
          MaxDepth    \* bound on the nesting of acquire()s of one thread

ASSUME SpinAssumption == Null \notin Proc /\ MaxDepth \in Nat \ {0}

VARIABLES _owner,     \* Spin::_owner
          _level,     \* Spin::_level
          pc,         \* pc[p]: where p is in acquire() or release()
          depth       \* depth[p]: the acquires p has completed and not released

vars == <<_owner, _level, pc, depth>>

Loc == {"out", "cas", "inc", "dec", "zero", "free"}

Init == /\ _owner = Null
        /\ _level = 0
        /\ pc = [p \in Proc |-> "out"]
        /\ depth = [p \in Proc |-> 0]

Goto(p, l) == pc' = [pc EXCEPT ![p] = l]

(* The caller enters acquire(): nested calls are legal, the lock is        *)
(* recursive.                                                              *)
Acquire(p) == /\ pc[p] = "out" /\ depth[p] < MaxDepth
              /\ Goto(p, "cas")
              /\ UNCHANGED <<_owner, _level, depth>>

(* One turn of while(CPU::cas(_owner, 0UL, me) != me): cas returns the old *)
(* value, so that the turn that writes me into a free _owner does not      *)
(* leave the loop; the next one, which finds me there, does.               *)
Cas(p) == /\ pc[p] = "cas"
          /\ \/ /\ _owner = Null
                /\ _owner' = p
                /\ UNCHANGED pc
             \/ /\ _owner = p
                /\ Goto(p, "inc")
                /\ UNCHANGED _owner
          /\ UNCHANGED <<_level, depth>>

(* _level++, after which acquire() returns.                                *)
Inc(p) == /\ pc[p] = "inc"
          /\ _level' = _level + 1
          /\ depth' = [depth EXCEPT ![p] = @ + 1]
          /\ Goto(p, "out")
          /\ UNCHANGED _owner

(* The caller, which holds the lock, enters release().                     *)
Release(p) == /\ pc[p] = "out" /\ depth[p] > 0
              /\ depth' = [depth EXCEPT ![p] = @ - 1]
              /\ Goto(p, "dec")
              /\ UNCHANGED <<_owner, _level>>

(* Slips a release() could have, which the properties must tell from it:   *)
(* a flat lock's, that frees at every release; one whose decrement is only *)
(* of the copy tested; and one whose test is < 0.                          *)
DecFlat(p) == /\ pc[p] = "dec"
              /\ _level' = _level - 1
              /\ Goto(p, "zero")
              /\ UNCHANGED <<_owner, depth>>
DecLost(p) == /\ pc[p] = "dec"
              /\ Goto(p, IF _level - 1 <= 0 THEN "zero" ELSE "out")
              /\ UNCHANGED <<_owner, _level, depth>>
DecStrict(p) == /\ pc[p] = "dec"
                /\ _level' = _level - 1
                /\ Goto(p, IF _level - 1 < 0 THEN "zero" ELSE "out")
                /\ UNCHANGED <<_owner, depth>>

(* if(--_level <= 0): the decrement and the test of its result.            *)
Dec(p) == /\ pc[p] = "dec"
          /\ _level' = _level - 1
          /\ Goto(p, IF _level - 1 <= 0 THEN "zero" ELSE "out")
          /\ UNCHANGED <<_owner, depth>>

(* _level = 0                                                              *)
Zero(p) == /\ pc[p] = "zero"
           /\ _level' = 0
           /\ Goto(p, "free")
           /\ UNCHANGED <<_owner, depth>>

(* _owner = 0                                                              *)
Free(p) == /\ pc[p] = "free"
           /\ _owner' = Null
           /\ Goto(p, "out")
           /\ UNCHANGED <<_level, depth>>

Step(p) == Acquire(p) \/ Cas(p) \/ Inc(p) \/ Release(p) \/ Dec(p) \/ Zero(p) \/ Free(p)

Next == \E p \in Proc : Step(p)

(* A processor that runs acquire() or release() with interrupts disabled   *)
(* goes on running it.  Nothing forces a thread into acquire(), but one    *)
(* that holds the lock always releases it: kernel sections end.            *)
Fairness == \A p \in Proc : /\ WF_vars(Inc(p) \/ Dec(p) \/ Zero(p) \/ Free(p))
                            /\ WF_vars(Cas(p))
                            /\ WF_vars(Release(p))

Spec == Init /\ [][Next]_vars
FairSpec == Spec /\ Fairness
-----------------------------------------------------------------------------
TypeOK == /\ _owner \in Proc \cup {Null}
          /\ _level \in 0..MaxDepth
          /\ pc \in [Proc -> Loc]
          /\ depth \in [Proc -> 0..MaxDepth]

(* p is between the cas that made it the owner and the store that frees    *)
(* the lock: the code it runs there is the kernel's critical section.      *)
Holds(p) == depth[p] > 0 \/ pc[p] \in {"inc", "dec", "zero", "free"}

(* At most one thread is inside the sections the lock guards, and it is    *)
(* the one _owner names: acquire() lets nobody else through the cas loop   *)
(* until the outermost release() has stored 0 in _owner.                   *)
Exclusion == \A p \in Proc : Holds(p) => _owner = p

(* _level counts the nested acquires of the owner exactly, whatever the    *)
(* interleaving of its plain loads and stores with the other threads' cas: *)
(* the release of an inner section never frees the lock, and the one of    *)
(* the outermost section always does.                                      *)
LevelCountsNesting ==
    \A p \in Proc : _owner = p =>
        _level = depth[p] + (IF pc[p] = "dec" THEN 1 ELSE 0)

(* A thread waiting in the cas loop is not forgotten while the lock comes  *)
(* free again and again: some thread gets through.                         *)
SomeoneGetsIn == (\E p \in Proc : pc[p] = "cas") ~> (\E p \in Proc : Holds(p))
=============================================================================
