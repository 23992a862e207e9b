------------------------------- MODULE MCCores -------------------------------
(***************************************************************************)
(* The six cores of src/leanlift-loom for TLC.  The bounds go past those   *)
(* of tests/loom.rs: the rings fill up and come round, there are two       *)
(* readers and two thieves, and the allocator reuses nodes.                *)
(***************************************************************************)
EXTENDS LoomCores, TLC

CONSTANTS th1, th2

MCRingCalls == [producer |-> 5, consumer |-> 5]
MCQueueCalls == th1 :> 3 @@ th2 :> 3 @@ "consumer" :> 5
MCCellCalls == th1 :> 3 @@ "writer" :> 3
MCSnapshotCalls == th1 :> 2 @@ th2 :> 1 @@ "writer" :> 3
MCStackCalls == th1 :> 2 @@ th2 :> 1 @@ "popper" :> 3
MCDequeCalls == th1 :> 1 @@ th2 :> 1 @@ "owner" :> 5

ASSUME CoreAssumptionsHold == CoreAssumptions
=============================================================================
