------------------------------ MODULE Overlaps ------------------------------
(***************************************************************************)
(* What one transaction after the other keeps of a world, and overlapping   *)
(* ones do not.                                                             *)
(***************************************************************************)
EXTENDS WorldScenes

VARIABLE alone  \* history: no two transactions overlapped so far

Active == {t \in Txns : ~At(t, "idle")}

AloneInit == Init /\ alone = TRUE
AloneNext == Next /\ alone' = (alone /\ \A t, u \in Active' : t = u)
AloneSpec == AloneInit /\ [][AloneNext]_<<vars, alone>>

(* As long as no two transactions overlapped, the numbers of the world's    *)
(* row are those of its deployed scenes after each (recalculateWorldScene-  *)
(* Stats).                                                                  *)
StatsExactAlone == alone => StatsExactWhenQuiet

(* As long as no two transactions overlapped, a world has a spawn point     *)
(* after each exactly when it has a deployed scene.                         *)
SpawnIffDeployedAlone == alone => SpawnIffDeployed

(* As long as no two transactions overlapped, an undeployment that commits, *)
(* or a change of the spawn point, leaves the spawn point inside the        *)
(* rectangle of the scenes there are then.                                  *)
CommitLeavesSpawnInside == [][alone' => CommitKeepsSpawnInside]_<<vars, alone>>
=============================================================================
