------------------------------- MODULE MCAlarm -------------------------------
(* Alarm for TLC.  No definition tells one alarm from another, and the     *)
(* properties that are checked are safety properties.                      *)
EXTENDS Alarm, TLC

Symmetry == Permutations(Alarms)
=============================================================================
