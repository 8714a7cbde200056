------------------------------ MODULE MCThread ------------------------------
(* Values for the constants of Thread that a cfg cannot write.             *)
EXTENDS Thread

CONSTANTS t0, a, b, i0, i1

MCIdle == (0 :> i0) @@ (1 :> i1)

(* MAIN is as urgent as the first thread and more than the second; idle    *)
(* threads have the lowest priority.                                       *)
MCRank == (t0 :> 1) @@ (a :> 1) @@ (b :> 2) @@ (i0 :> 3) @@ (i1 :> 3)
MCRankTwo == (t0 :> 1) @@ (a :> 1) @@ (i0 :> 3) @@ (i1 :> 3)

MCNoTarget == {NoTarget}
MCAnyTarget == {NoTarget} \cup CPU
=============================================================================
