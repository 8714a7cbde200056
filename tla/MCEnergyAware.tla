----------------------------- MODULE MCEnergyAware -----------------------------
(* Values for the constants of EnergyAware that a cfg cannot write.        *)
EXTENDS EnergyAware, TLC

CONSTANTS a, b, c

MCThreads == <<a, b, c>>

(* One thread as active as the two others, all different, or all alike     *)
MCActivities == {(a :> 2) @@ (b :> 1) @@ (c :> 1), (a :> 4) @@ (b :> 2) @@ (c :> 1),
                 (a :> 1) @@ (b :> 1) @@ (c :> 1)}
=============================================================================
