---------------------------- MODULE MCSynchronizer ----------------------------
(* Values for the constants of Synchronizer that a cfg cannot write.       *)
EXTENDS Synchronizer

CONSTANTS t0, a, b, i0, i1, sem

MCIdle == (0 :> i0) @@ (1 :> i1)
MCIdleUni == (0 :> i0)
MCRank == (t0 :> 1) @@ (a :> 1) @@ (b :> 2) @@ (i0 :> 3) @@ (i1 :> 3)
MCRankUni == (t0 :> 1) @@ (a :> 1) @@ (b :> 2) @@ (i0 :> 3)
MCNoTarget == {NoTarget}
MCOne == (sem :> 1)
=============================================================================
