--------------------------- MODULE AbstractSemaphore ---------------------------
(***************************************************************************)
(* What a semaphore promises, whatever the scheduler does: a permit that is*)
(* there is taken at once, a permit that is given back goes to the most    *)
(* urgent of the threads that have been waiting for one, and none is       *)
(* created or lost on the way.                                             *)
(***************************************************************************)
EXTENDS Naturals

CONSTANTS Client,     \* the threads
          Permits     \* the permits there are at first

VARIABLES permits,    \* the permits nobody has taken
          blocked,    \* the threads waiting for one
          urgency     \* urgency[t]: the rank of t, the smaller the more urgent

Init == permits = Permits /\ blocked = {} /\ urgency \in [Client -> Nat]

Take == permits > 0 /\ permits' = permits - 1 /\ UNCHANGED blocked
Block(t) == /\ permits = 0 /\ t \notin blocked
            /\ blocked' = blocked \cup {t}
            /\ UNCHANGED permits
Give == blocked = {} /\ permits' = permits + 1 /\ UNCHANGED blocked
Grant(t) == /\ t \in blocked
            /\ \A u \in blocked : urgency[t] <= urgency[u]
            /\ blocked' = blocked \ {t}
            /\ UNCHANGED permits

Next == /\ Take \/ Give \/ \E t \in Client : Block(t) \/ Grant(t)
        /\ UNCHANGED urgency

vars == <<permits, blocked>>
Spec == Init /\ [][Next]_vars
=============================================================================
