----------------------------- MODULE Spin_proofs -----------------------------
(***************************************************************************)
(* Proof that the recursive spin lock excludes, and that _level counts the *)
(* nesting, for every set of threads and every nesting bound.              *)
(***************************************************************************)
EXTENDS Spin, TLAPS

(* A free lock has its level at 0: the stores of release() are ordered.    *)
FreeIsZero == _owner = Null => _level = 0

(* Where a thread is in acquire() or release() bounds its nesting.         *)
Room == \A p \in Proc : /\ pc[p] \in {"cas", "inc", "dec"} => depth[p] < MaxDepth
                        /\ pc[p] \in {"zero", "free"} => depth[p] = 0

(* Exclusion alone is not inductive: whether the decrement reaches 0       *)
(* depends on _level counting the nesting.                                 *)
IInv == TypeOK /\ Exclusion /\ LevelCountsNesting /\ FreeIsZero /\ Room

(* The constructor establishes the inductive invariant.                    *)
LEMMA InitIInv == Init => IInv
  BY SpinAssumption DEF Init, IInv, TypeOK, Exclusion, Holds, LevelCountsNesting,
                        FreeIsZero, Room, Loc

(* Every access of acquire() and release() keeps it, whoever makes it.     *)
LEMMA NextIInv == IInv /\ [Next]_vars => IInv'
<1> SUFFICES ASSUME IInv, [Next]_vars PROVE IInv'
  OBVIOUS
<1> USE SpinAssumption DEF IInv, TypeOK, Exclusion, Holds, LevelCountsNesting,
                           FreeIsZero, Room, Loc, Goto
<1>1. CASE UNCHANGED vars
  BY <1>1 DEF vars
<1>2. ASSUME NEW p \in Proc, Acquire(p) PROVE IInv'
  BY <1>2 DEF Acquire
<1>3. ASSUME NEW p \in Proc, Cas(p) PROVE IInv'
  BY <1>3 DEF Cas
<1>4. ASSUME NEW p \in Proc, Inc(p) PROVE IInv'
  BY <1>4 DEF Inc
<1>5. ASSUME NEW p \in Proc, Release(p) PROVE IInv'
  BY <1>5 DEF Release
<1>6. ASSUME NEW p \in Proc, Dec(p) PROVE IInv'
  BY <1>6 DEF Dec
<1>7. ASSUME NEW p \in Proc, Zero(p) PROVE IInv'
  BY <1>7 DEF Zero
<1>8. ASSUME NEW p \in Proc, Free(p) PROVE IInv'
  BY <1>8 DEF Free
<1>9. QED
  BY <1>1, <1>2, <1>3, <1>4, <1>5, <1>6, <1>7, <1>8 DEF Next, Step

(* Spin is a lock: at most one thread is in the sections it guards, for    *)
(* any number of threads (acquire() and release() of spin.h).              *)
THEOREM SpinExclusion == Spec => []Exclusion
<1>1. IInv => Exclusion
  BY DEF IInv
<1>2. QED
  BY <1>1, InitIInv, NextIInv, PTL DEF Spec

(* Spin is recursive: _level is the owner's nesting depth in every state,  *)
(* so that only the outermost release() frees the lock.                    *)
THEOREM SpinRecursion == Spec => [](TypeOK /\ LevelCountsNesting)
<1>1. IInv => TypeOK /\ LevelCountsNesting
  BY DEF IInv
<1>2. QED
  BY <1>1, InitIInv, NextIInv, PTL DEF Spec
=============================================================================
