------------------------------ MODULE AlarmClock ------------------------------
(***************************************************************************)
(* What the alarms promise, in absolute terms: each armed alarm has a      *)
(* number of ticks left.  A tick takes one from each and serves one alarm  *)
(* that is due, the one that has been due the longest.  An alarm served is *)
(* armed again for a whole period while it has calls left.                 *)
(***************************************************************************)
EXTENDS Integers

CONSTANTS Alarms,     \* the alarm objects
          Periods,    \* the periods, in ticks
          Counts,     \* the numbers of calls an alarm may be given
          Endless,    \* the number of calls of an alarm that never stops
          Off         \* the ticks left of an alarm that is not armed

VARIABLES left,       \* left[a]: ticks until a is due, negative when it is late
          period,     \* period[a]
          calls       \* calls[a]: how often a is still to be called

Init == /\ left = [a \in Alarms |-> Off]
        /\ period \in [Alarms -> Periods \cup {0}]
        /\ calls \in [Alarms -> Counts \cup {Endless, 0}]

Arm(a, t, n) == /\ left[a] = Off
                /\ left' = [left EXCEPT ![a] = t]
                /\ period' = [period EXCEPT ![a] = t]
                /\ calls' = [calls EXCEPT ![a] = n]

Disarm(a) == /\ left' = [left EXCEPT ![a] = Off]
             /\ period' = [period EXCEPT ![a] = 0]
             /\ calls' = [calls EXCEPT ![a] = 0]

(* The alarm starts again, a period from now.                              *)
Restart(a) == left' = [left EXCEPT ![a] = period[a]] /\ UNCHANGED <<period, calls>>

(* Another period: when the alarm next goes off is left open, but no other *)
(* alarm is disturbed.                                                     *)
SetPeriod(a, t) == /\ t # period[a]
                   /\ left' = [left EXCEPT ![a] = left'[a]]
                   /\ period' = [period EXCEPT ![a] = t]
                   /\ UNCHANGED calls

Tick ==
    LET armed == {a \in Alarms : left[a] # Off}
        down  == [a \in Alarms |-> IF a \in armed THEN left[a] - 1 ELSE Off]
        due   == {a \in armed : down[a] <= 0 /\ \A b \in armed : down[a] <= down[b]}
    IN  \/ due = {} /\ left' = down /\ UNCHANGED <<period, calls>>
        \/ \E a \in due :
             LET n == IF calls[a] = Endless THEN Endless ELSE calls[a] - 1
             IN  /\ calls' = [calls EXCEPT ![a] = n]
                 /\ left' = [down EXCEPT ![a] = IF n = 0 THEN Off ELSE period[a]]
                 /\ UNCHANGED period

Next == \/ Tick
        \/ \E a \in Alarms : Disarm(a) \/ Restart(a)
        \/ \E a \in Alarms, t \in Periods : SetPeriod(a, t) \/ \E n \in Counts \cup {Endless} : Arm(a, t, n)

vars == <<left, period, calls>>
Spec == Init /\ [][Next]_vars
=============================================================================
