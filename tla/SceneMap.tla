------------------------------ MODULE SceneMap ------------------------------
(***************************************************************************)
(* What a world promises its visitors, with no database in sight: a world  *)
(* is a set of scenes deployed on a map of parcels, and a set of areas its  *)
(* builders have asked to clear.  Deploying a scene puts it on the map and  *)
(* takes off, in the same instant, exactly the scenes standing on one of    *)
(* its parcels.  Any other scene that leaves the map stands in an area that *)
(* was asked for.  WorldScenes.tla, the SQL transactions of                 *)
(* worlds-manager.ts, implements this module.                               *)
(***************************************************************************)
CONSTANTS Scenes, Parcels, ParcelsOf

VARIABLES deployed, asked

vars == <<deployed, asked>>

\* The areas a caller can ask to clear: one parcel, or the whole world.
Areas == {{p} : p \in Parcels} \cup {Parcels}

\* The scenes of S standing in an area (the SQL condition  parcels && area).
Standing(area, S) == {e \in S : ParcelsOf[e] \cap area # {}}

Init == deployed = {} /\ asked = {}

Deploy(e) ==
    /\ e \notin deployed
    /\ deployed' = (deployed \ Standing(ParcelsOf[e], deployed)) \cup {e}
    /\ UNCHANGED asked

Ask(area) ==
    /\ asked' = asked \cup {area}
    /\ UNCHANGED deployed

\* Clearing an area, or giving the request up; another caller may still ask for it.
Undeploy(area) ==
    /\ area \in asked
    /\ \E gone \in SUBSET Standing(area, deployed) : deployed' = deployed \ gone
    /\ asked' \in {asked, asked \ {area}}

Next ==
    \/ \E e \in Scenes : Deploy(e)
    \/ \E area \in Areas : Ask(area) \/ Undeploy(area)

Spec == Init /\ [][Next]_vars

=============================================================================
