----------------------------- MODULE AbstractMutex -----------------------------
(***************************************************************************)
(* What a mutex promises: one owner at a time, and an owner that leaves    *)
(* hands the mutex over to the most urgent contender: nobody who comes     *)
(* later gets in between.                                                  *)
(***************************************************************************)
EXTENDS Naturals

CONSTANTS Client,     \* the threads
          Nobody      \* the owner of a free mutex

VARIABLES owner,      \* who has it
          contenders, \* who has asked for it and waits
          urgency     \* urgency[t]: the rank of t, the smaller the more urgent

Init == owner = Nobody /\ contenders = {} /\ urgency \in [Client -> Nat]

Obtain(t) == owner = Nobody /\ owner' = t /\ UNCHANGED contenders
Contend(t) == /\ owner # Nobody /\ t \notin contenders \cup {owner}
              /\ contenders' = contenders \cup {t}
              /\ UNCHANGED owner
Free == owner # Nobody /\ contenders = {} /\ owner' = Nobody /\ UNCHANGED contenders
HandOver(t) == /\ owner # Nobody /\ t \in contenders
               /\ \A u \in contenders : urgency[t] <= urgency[u]
               /\ owner' = t
               /\ contenders' = contenders \ {t}

Next == /\ Free \/ \E t \in Client : Obtain(t) \/ Contend(t) \/ HandOver(t)
        /\ UNCHANGED urgency

vars == <<owner, contenders>>
Spec == Init /\ [][Next]_vars
=============================================================================
