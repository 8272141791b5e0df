------------------------------ MODULE PeerRooms ------------------------------
(***************************************************************************)
(* What the registry of peers promises: it follows each peer into the last  *)
(* world that the peer joined, and knows the rooms it is in there.  The     *)
(* rooms of one peer are always rooms of one world, and a leave of a world  *)
(* the peer has moved away from changes nothing.                            *)
(***************************************************************************)
CONSTANTS Peers, Rooms,
          WorldOf(_)    \* the world that a room belongs to

VARIABLE rooms          \* the rooms that each peer is known to be in

Init == rooms = [p \in Peers |-> {}]

Join(p, r) ==
    rooms' = [rooms EXCEPT ![p] = {x \in @ : WorldOf(x) = WorldOf(r)} \cup {r}]

Leave(p, r) == rooms' = [rooms EXCEPT ![p] = @ \ {r}]

\* The memory is lost.
Forget == rooms' = [p \in Peers |-> {}]

Next == (\E p \in Peers, r \in Rooms : Join(p, r) \/ Leave(p, r)) \/ Forget

Spec == Init /\ [][Next]_rooms
=============================================================================
