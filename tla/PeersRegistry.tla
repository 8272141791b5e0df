--------------------------- MODULE PeersRegistry ---------------------------
(***************************************************************************)
(* peers-registry.ts: three maps in memory that say which peer is in which  *)
(* world and in which of its rooms.  LiveKit's webhooks write them, and the *)
(* kicks read them.  A map without a key and one with an empty value are    *)
(* the same here, as the code deletes a key with its last element.          *)
(***************************************************************************)
CONSTANTS
    Peers,
    Worlds,
    NoWorld     \* no entry in peerToWorld

ASSUME NoWorldAssumption == NoWorld \notin Worlds

VARIABLES peerToWorld, worldToPeers, peerToRooms

registry == <<peerToWorld, worldToPeers, peerToRooms>>

\* The room of a world, and those of its scenes (one stands for all of them).
Rooms == [kind : {"comms", "scene"}, world : Worlds]

\* The name between the prefix and the "-" of a scene, in lower case.
extractWorldName(room) == room.world

RegistryInit ==
    /\ peerToWorld = [p \in Peers |-> NoWorld]
    /\ worldToPeers = [w \in Worlds |-> {}]
    /\ peerToRooms = [p \in Peers |-> {}]

addToIndex(index, p, w) == [index EXCEPT ![w] = @ \cup {p}]
removeFromIndex(index, p, w) == [index EXCEPT ![w] = @ \ {p}]

\* Mutant: the rooms of the old world are kept.
onPeerConnectedKeeping(p, room) ==
    LET world == extractWorldName(room)
        previous == peerToWorld[p]
    IN  /\ peerToWorld' = [peerToWorld EXCEPT ![p] = world]
        /\ worldToPeers' = addToIndex(IF previous \in Worlds \ {world}
                                        THEN removeFromIndex(worldToPeers, p, previous)
                                        ELSE worldToPeers, p, world)
        /\ peerToRooms' = [peerToRooms EXCEPT ![p] = @ \cup {room}]

\* A peer that comes from another world leaves that world's index and forgets its rooms.
onPeerConnected(p, room) ==
    LET world == extractWorldName(room)
        previous == peerToWorld[p]
        moved == previous \in Worlds \ {world}
    IN  /\ peerToWorld' = [peerToWorld EXCEPT ![p] = world]
        /\ worldToPeers' = addToIndex(IF moved THEN removeFromIndex(worldToPeers, p, previous)
                                               ELSE worldToPeers, p, world)
        /\ peerToRooms' = [peerToRooms EXCEPT ![p] = (IF moved THEN {} ELSE @) \cup {room}]

\* Mutant: a stale leave takes the peer out of the world it is in.
onPeerDisconnectedStale(p, room) ==
    /\ peerToWorld' = [peerToWorld EXCEPT ![p] = NoWorld]
    /\ worldToPeers' = [w \in Worlds |-> worldToPeers[w] \ {p}]
    /\ peerToRooms' = [peerToRooms EXCEPT ![p] = {}]

\* Mutant: the last room of a peer leaves it in the index.
onPeerDisconnectedIndexed(p, room) ==
    LET world == extractWorldName(room)
        left == peerToRooms[p] \ {room}
    IN  \/ peerToWorld[p] # world /\ UNCHANGED registry
        \/ /\ peerToWorld[p] = world
           /\ peerToRooms' = [peerToRooms EXCEPT ![p] = left]
           /\ peerToWorld' = [peerToWorld EXCEPT ![p] = IF left = {} THEN NoWorld ELSE @]
           /\ UNCHANGED worldToPeers

\* The leave of a world where the peer no longer is is stale; the last room takes the
\* peer with it.
onPeerDisconnected(p, room) ==
    LET world == extractWorldName(room)
        left == peerToRooms[p] \ {room}
    IN  \/ /\ peerToWorld[p] # world
           /\ UNCHANGED registry
        \/ /\ peerToWorld[p] = world
           /\ peerToRooms' = [peerToRooms EXCEPT ![p] = left]
           /\ IF left = {}
                THEN /\ peerToWorld' = [peerToWorld EXCEPT ![p] = NoWorld]
                     /\ worldToPeers' = removeFromIndex(worldToPeers, p, world)
                ELSE UNCHANGED <<peerToWorld, worldToPeers>>

getPeerWorld(p) == peerToWorld[p]
getPeersInWorld(w) == worldToPeers[w]
getPeerRooms(p) == peerToRooms[p]

\* The process ends, and its memory with it.
Forgotten ==
    /\ peerToWorld' = [p \in Peers |-> NoWorld]
    /\ worldToPeers' = [w \in Worlds |-> {}]
    /\ peerToRooms' = [p \in Peers |-> {}]

RegistryNext ==
    \/ \E p \in Peers, room \in Rooms : onPeerConnected(p, room) \/ onPeerDisconnected(p, room)
    \/ Forgotten

RegistrySpec == RegistryInit /\ [][RegistryNext]_registry

-----------------------------------------------------------------------------
RegistryTypeOK ==
    /\ peerToWorld \in [Peers -> Worlds \cup {NoWorld}]
    /\ worldToPeers \in [Worlds -> SUBSET Peers]
    /\ peerToRooms \in [Peers -> SUBSET Rooms]

(* The three maps tell the same: a peer is in the index of one world at     *)
(* most, the one it is mapped to, it has rooms there, and no other rooms.   *)
IndexesAgree ==
    \A p \in Peers :
        /\ \A w \in Worlds : p \in worldToPeers[w] <=> peerToWorld[p] = w
        /\ peerToRooms[p] = {} <=> peerToWorld[p] = NoWorld
        /\ \A room \in peerToRooms[p] : extractWorldName(room) = peerToWorld[p]

Abstract == INSTANCE PeerRooms WITH WorldOf <- extractWorldName, rooms <- peerToRooms

(* The registry is one that follows each peer into the last world that a    *)
(* webhook said it joined, whatever the order of the webhooks: no stale     *)
(* leave takes a room away, no room of an old world stays.                  *)
ImplementsPeerRooms == Abstract!Spec
=============================================================================
