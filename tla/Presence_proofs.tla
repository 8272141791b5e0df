-------------------------- MODULE Presence_proofs --------------------------
(***************************************************************************)
(* Nobody without access is forgotten in a room, a change of an allow-list  *)
(* changes nothing else, and the registry follows LiveKit, for any number   *)
(* of peers, worlds, communities, requests and webhooks.                    *)
(***************************************************************************)
EXTENDS Presence, SequenceTheorems, TLAPS

-----------------------------------------------------------------------------
(* The registry alone: its maps agree, and implement PeerRooms, whatever    *)
(* the order, loss or repetition of the webhooks.                           *)

IInv == RegistryTypeOK /\ IndexesAgree

LEMMA Initially == RegistryInit => IInv
  BY NoWorldAssumption DEF RegistryInit, IInv, RegistryTypeOK, IndexesAgree, Rooms

(* A join keeps the maps in agreement: the peer leaves the index of the     *)
(* world it comes from, and its rooms there.                                *)
LEMMA ConnectedKeeps ==
    ASSUME NEW p \in Peers, NEW room \in Rooms, IInv, onPeerConnected(p, room)
    PROVE  IInv'
<1>1. room.world \in Worlds
  BY DEF Rooms
<1>2. RegistryTypeOK'
  BY <1>1, SMT DEF IInv, RegistryTypeOK, onPeerConnected, extractWorldName, addToIndex, removeFromIndex
<1>3. IndexesAgree'
  <2> SUFFICES ASSUME NEW q \in Peers
               PROVE  /\ \A w \in Worlds : q \in worldToPeers'[w] <=> peerToWorld'[q] = w
                      /\ peerToRooms'[q] = {} <=> peerToWorld'[q] = NoWorld
                      /\ \A x \in peerToRooms'[q] : x.world = peerToWorld'[q]
    BY DEF IndexesAgree, extractWorldName
  <2>1. CASE q # p
    <3>1. peerToWorld'[q] = peerToWorld[q] /\ peerToRooms'[q] = peerToRooms[q]
      BY <2>1 DEF onPeerConnected, IInv, RegistryTypeOK
    <3>2. \A w \in Worlds : q \in worldToPeers'[w] <=> q \in worldToPeers[w]
      BY <2>1, <1>1, SMT DEF onPeerConnected, extractWorldName, addToIndex, removeFromIndex, IInv, RegistryTypeOK
    <3> QED BY <3>1, <3>2 DEF IInv, IndexesAgree, extractWorldName
  <2>2. CASE q = p
    <3>1. peerToWorld'[p] = room.world
      BY DEF onPeerConnected, extractWorldName, IInv, RegistryTypeOK
    <3>2. \A w \in Worlds : p \in worldToPeers'[w] <=> w = room.world
      BY <1>1, NoWorldAssumption, SMT
         DEF onPeerConnected, extractWorldName, addToIndex, removeFromIndex, IInv, RegistryTypeOK, IndexesAgree
    <3>3. peerToRooms'[p] # {} /\ \A x \in peerToRooms'[p] : x.world = room.world
      BY <1>1, NoWorldAssumption, SMT
         DEF onPeerConnected, extractWorldName, IInv, RegistryTypeOK, IndexesAgree
    <3> QED BY <2>2, <3>1, <3>2, <3>3, <1>1, NoWorldAssumption
  <2> QED BY <2>1, <2>2
<1> QED BY <1>2, <1>3 DEF IInv

(* A leave keeps them in agreement, the stale one because it does nothing.  *)
LEMMA DisconnectedKeeps ==
    ASSUME NEW p \in Peers, NEW room \in Rooms, IInv, onPeerDisconnected(p, room)
    PROVE  IInv'
<1>1. room.world \in Worlds
  BY DEF Rooms
<1>2. CASE peerToWorld[p] # room.world
  BY <1>2 DEF onPeerDisconnected, extractWorldName, IInv, RegistryTypeOK, IndexesAgree, registry
<1>3. CASE peerToWorld[p] = room.world
  <2>1. RegistryTypeOK'
    BY <1>1, <1>3, SMT DEF IInv, RegistryTypeOK, onPeerDisconnected, extractWorldName, removeFromIndex
  <2>2. IndexesAgree'
    BY <1>1, <1>3, NoWorldAssumption, SMT
       DEF IInv, RegistryTypeOK, IndexesAgree, onPeerDisconnected, extractWorldName, removeFromIndex
  <2> QED BY <2>1, <2>2 DEF IInv
<1> QED BY <1>2, <1>3

LEMMA ForgottenKeeps == Forgotten => IInv'
  BY NoWorldAssumption DEF Forgotten, IInv, RegistryTypeOK, IndexesAgree, Rooms

(* The registry's maps tell the same of every peer, whatever the webhooks   *)
(* say (IndexesAgree, with the types).                                      *)
THEOREM MapsAgree == RegistrySpec => [](RegistryTypeOK /\ IndexesAgree)
<1>1. IInv /\ [RegistryNext]_registry => IInv'
  <2> SUFFICES ASSUME IInv, [RegistryNext]_registry
               PROVE  IInv'
    OBVIOUS
  <2>1. CASE UNCHANGED registry
    BY <2>1 DEF IInv, RegistryTypeOK, IndexesAgree, registry
  <2>2. CASE RegistryNext
    BY <2>2, ConnectedKeeps, DisconnectedKeeps, ForgottenKeeps DEF RegistryNext
  <2> QED BY <2>1, <2>2
<1> QED BY <1>1, Initially, PTL DEF RegistrySpec, IInv

-----------------------------------------------------------------------------
(* The registry implements PeerRooms: a join keeps the rooms of its world   *)
(* only, and a leave, stale or not, takes away that room and nothing else.  *)
THEOREM RegistryImplementsPeerRooms == RegistrySpec => ImplementsPeerRooms
<1>1. RegistryInit => Abstract!Init
  BY DEF RegistryInit, Abstract!Init
<1>2. IInv /\ [RegistryNext]_registry => [Abstract!Next]_peerToRooms
  <2> SUFFICES ASSUME IInv, [RegistryNext]_registry
               PROVE  [Abstract!Next]_peerToRooms
    OBVIOUS
  <2>1. CASE UNCHANGED registry
    BY <2>1 DEF registry
  <2>2. ASSUME NEW p \in Peers, NEW room \in Rooms, onPeerConnected(p, room)
        PROVE  Abstract!Next
    <3>1. (IF peerToWorld[p] \in Worlds \ {room.world} THEN {} ELSE peerToRooms[p])
             = {x \in peerToRooms[p] : x.world = room.world}
      BY NoWorldAssumption DEF IInv, RegistryTypeOK, IndexesAgree, extractWorldName
    <3>2. Abstract!Join(p, room)
      BY <2>2, <3>1 DEF Abstract!Join, onPeerConnected, extractWorldName, IInv, RegistryTypeOK
    <3> QED BY <3>2 DEF Abstract!Next
  <2>3. ASSUME NEW p \in Peers, NEW room \in Rooms, onPeerDisconnected(p, room)
        PROVE  Abstract!Next
    <3>1. CASE peerToWorld[p] # room.world
      <4>1. peerToRooms[p] \ {room} = peerToRooms[p]
        BY <3>1 DEF IInv, IndexesAgree, extractWorldName
      <4>2. peerToRooms' = peerToRooms
        BY <2>3, <3>1 DEF onPeerDisconnected, extractWorldName, registry
      <4>3. Abstract!Leave(p, room)
        BY <4>1, <4>2 DEF Abstract!Leave, IInv, RegistryTypeOK
      <4> QED BY <4>3 DEF Abstract!Next
    <3>2. CASE peerToWorld[p] = room.world
      BY <2>3, <3>2 DEF onPeerDisconnected, extractWorldName, Abstract!Leave, Abstract!Next
    <3> QED BY <3>1, <3>2
  <2>4. CASE Forgotten
    BY <2>4 DEF Forgotten, Abstract!Forget, Abstract!Next
  <2> QED BY <2>1, <2>2, <2>3, <2>4 DEF RegistryNext
<1>3. RegistrySpec => []IInv
  BY MapsAgree, PTL DEF IInv
<1> QED BY <1>1, <1>2, <1>3, PTL DEF RegistrySpec, ImplementsPeerRooms, Abstract!Spec

-----------------------------------------------------------------------------
(* The requests                                                             *)

Actions == {"noKick", "kickAll", "kickWithoutAccess"}
Request == [pc : Stages, op : AllOperations \cup Actions \cup {"none"}, world : Worlds \cup {NoWorld},
            prev : Setting, next : Setting, subject : Peers \cup Communities \cup {Nothing}, stale : BOOLEAN,
            todo : SUBSET Peers, lacking : SUBSET Peers, removals : SUBSET (Peers \X Rooms)]

-----------------------------------------------------------------------------
(* The invariant of the changes and the kicks                               *)

Typed ==
    /\ access \in [Worlds -> Setting]
    /\ inRooms \in [Peers -> SUBSET Rooms]
    /\ removedFrom \subseteq Peers
    /\ req \in [Requests -> Request]

Located == \A r \in Requests : req[r].pc # "idle" => req[r].world \in Worlds

\* Who holds the row of a world knows what is in it, and changes one entry.
Holds(q) ==
    /\ access[q.world] = q.prev /\ q.prev.type = "allow-list"
    /\ \/ q.op \in {"addWallet", "removeWallet"} /\ q.subject \in Peers
       \/ q.op \in {"addCommunity", "removeCommunity"} /\ q.subject \in Communities
    /\ q.next = Modified(q.op, q.prev, q.subject)
Holding == \A r \in Requests : At(r, "locked") => Holds(req[r])
OneHolder == \A r, s \in Requests : At(r, "locked") /\ At(s, "locked") /\ req[r].world = req[s].world => r = s

\* A request that will see to a peer in a world: it kicks it, finds it entitled, or excuses it.
Due(q, p, w) ==
    /\ q.world = w
    /\ \/ q.pc = "handle" /\ (q.op # "noKick" \/ q.stale)
       \/ q.pc \in {"filter", "check", "recheck"} /\ p \in q.todo
       \/ q.pc = "type" /\ p \in q.todo /\ access[w].type = "allow-list"
       \/ q.pc \in {"check", "kick"} /\ p \in q.lacking
       \/ q.pc = "kick" /\ <<p, CommsRoom(w)>> \in q.removals

Announced(p, w) == p \in removedFrom /\ access[w].type = "allow-list"

\* Every intruder is excused or will be seen to.
Covered ==
    \A w \in Worlds : \A p \in Intruders(w) \ Privileged(w) :
        <<p, w>> \in excused \/ Announced(p, w) \/ \E r \in Requests : Due(req[r], p, w)

\* An event is about one peer.
OneMember(q) == q.pc \in {"type", "recheck"} => \A x, y \in q.todo : x = y
Members == \A r \in Requests : OneMember(req[r])

KInv == Typed /\ Located /\ Holding /\ OneHolder /\ Members /\ Covered

-----------------------------------------------------------------------------
(* Steps that change no access and no room                                  *)

LEMMA FreshTyped == Fresh \in Request /\ defaultAccess \in Setting
  BY DEF Fresh, Request, defaultAccess, Setting, Stages

\* What the server may do with a request.
Proper(q) ==
    /\ q \in Request
    /\ q.pc # "idle" => q.world \in Worlds
    /\ q.pc = "locked" => Holds(q) /\ RowIsFree(q.world)
    /\ OneMember(q)

(* A request goes on and the accesses stay: who was to be seen to still is. *)
LEMMA RequestKeeps ==
    ASSUME KInv, NEW r \in Requests, NEW q, NEW E, Proper(q), Become(r, q), Excuse(E),
           UNCHANGED <<access, members>>, removedFrom' \subseteq Peers, inRooms' \in [Peers -> SUBSET Rooms],
           \A w \in Worlds : \A p \in Intruders(w)' \ Privileged(w) :
              /\ p \in Intruders(w)
              /\ Announced(p, w) \/ Due(req[r], p, w) => <<p, w>> \in E \/ Announced(p, w)' \/ Due(q, p, w)
    PROVE  KInv'
<1>1. req' = [req EXCEPT ![r] = q]
  BY DEF Become
<1>2. /\ req'[r] = q /\ \A s \in Requests \ {r} : req'[s] = req[s]
      /\ q \in Request
  BY <1>1 DEF KInv, Typed, Proper
<1>3. Typed'
  BY <1>1, <1>2 DEF KInv, Typed
<1>4. Located'
  BY <1>2 DEF KInv, Located, Proper
<1>5. Holding'
  BY <1>1, <1>2 DEF KInv, Holding, Holds, Proper, At
<1>6. OneHolder'
  BY <1>2 DEF KInv, OneHolder, Proper, RowIsFree, At
<1>7. Members'
  BY <1>2 DEF KInv, Members, OneMember, Proper
<1>8. Covered'
  <2> SUFFICES ASSUME NEW w \in Worlds, NEW p \in Intruders(w)' \ Privileged(w)
               PROVE  <<p, w>> \in excused' \/ Announced(p, w)' \/ \E s \in Requests : Due(req[s], p, w)'
    BY DEF Covered, Privileged
  <2>1. \A x \in excused \cup E : x[1] \in Intruders(x[2])' => x \in excused'
    BY DEF Excuse
  <2>2. <<p, w>> \in excused \cup E => <<p, w>> \in excused'
    BY <2>1
  <2>3. Due(q, p, w) => Due(req[r], p, w)'
    BY <1>2 DEF Due
  <2>4. CASE Announced(p, w) \/ Due(req[r], p, w)
    BY <2>2, <2>3, <2>4
  <2>5. ASSUME NEW s \in Requests, s # r, Due(req[s], p, w) PROVE Due(req[s], p, w)'
    BY <1>2, <2>5 DEF Due
  <2>6. p \in Intruders(w) \ Privileged(w)
    OBVIOUS
  <2> QED BY <2>2, <2>4, <2>5, <2>6 DEF KInv, Covered
<1> QED BY <1>3, <1>4, <1>5, <1>6, <1>7, <1>8 DEF KInv

\* A step that reads only.
Moves(r, q, E) ==
    /\ Proper(q)
    /\ \A w \in Worlds : \A p \in Intruders(w) \ Privileged(w) :
          Due(req[r], p, w) => <<p, w>> \in E \/ Due(q, p, w)

LEMMA MovesKeep ==
    ASSUME KInv, NEW r \in Requests, NEW q, NEW E, Moves(r, q, E), Steps(r, q, E)
    PROVE  KInv'
<1>1. /\ UNCHANGED <<access, removedFrom, inRooms, members>>
      /\ Become(r, q) /\ Excuse(E)
  BY DEF Steps, external
<1>2. ASSUME NEW w \in Worlds PROVE Intruders(w)' = Intruders(w) /\ \A p : Announced(p, w)' = Announced(p, w)
  BY <1>1 DEF Intruders, Entitled, checkAccess, IsMember, Announced
<1>3. removedFrom' \subseteq Peers /\ inRooms' \in [Peers -> SUBSET Rooms]
  BY <1>1 DEF KInv, Typed
<1> QED BY <1>1, <1>2, <1>3, RequestKeeps DEF Moves

(* setAccess reads the setting; nothing is due to it yet.                   *)
LEMMA SetAccessKeeps ==
    ASSUME KInv, NEW r \in Requests, NEW w \in Changing, NEW setting \in Settings, SetAccess(r, w, setting)
    PROVE  KInv'
<1> DEFINE q == [Fresh EXCEPT !.pc = "store", !.op = "set", !.world = w, !.prev = access[w], !.next = setting]
<1>1. Steps(r, q, {}) /\ At(r, "idle")
  BY DEF SetAccess
<1>2. w \in Worlds /\ setting \in Setting /\ access[w] \in Setting
  BY PresenceAssumption, SettingsAssumption DEF KInv, Typed
<1>3. q \in Request /\ q.pc = "store" /\ q.world = w
  BY <1>2, FreshTyped DEF Fresh, Request, AllOperations, Stages
<1> HIDE DEF q
<1>4. Moves(r, q, {})
  BY <1>1, <1>2, <1>3 DEF Moves, Proper, OneMember, Due, At
<1> QED BY <1>1, <1>4, MovesKeep

(* The modifier of an operation returns an access setting.                  *)
LEMMA ModifiedTyped ==
    ASSUME NEW a \in Setting, NEW op, NEW x,
           \/ op \in {"addWallet", "removeWallet"} /\ x \in Peers
           \/ op \in {"addCommunity", "removeCommunity"} /\ x \in Communities
    PROVE  Modified(op, a, x) \in Setting /\ Modified(op, a, x).type = a.type
<1>1. CASE op = "addWallet"
  BY <1>1 DEF Modified, Setting
<1>2. CASE op = "removeWallet"
  BY <1>2 DEF Modified, Setting
<1>3. CASE op = "addCommunity"
  BY <1>3 DEF Modified, Setting
<1>4. CASE op = "removeCommunity"
  BY <1>4 DEF Modified, Setting
<1> QED BY <1>1, <1>2, <1>3, <1>4

(* Who takes the row of a world has read what it holds.                     *)
LEMMA LockKeeps ==
    ASSUME KInv, NEW r \in Requests, NEW w \in Changing, NEW op \in AllOperations,
           NEW x \in Peers \cup Communities, Lock(r, w, op, x)
    PROVE  KInv'
<1> DEFINE a == access[w]
           next == Modified(op, a, x)
           q == [Fresh EXCEPT !.pc = "locked", !.op = op, !.world = w, !.subject = x, !.prev = a, !.next = next]
<1>1. Steps(r, q, {}) /\ At(r, "idle") /\ RowIsFree(w) /\ access[w].type = "allow-list"
  BY DEF Lock
<1>2. w \in Worlds /\ a \in Setting
  BY PresenceAssumption DEF KInv, Typed
<1>3. \/ op \in {"addWallet", "removeWallet"} /\ x \in Peers
      \/ op \in {"addCommunity", "removeCommunity"} /\ x \in Communities
  BY DEF Lock, AllOperations
<1>4. next \in Setting
  BY <1>2, <1>3, ModifiedTyped
<1> HIDE DEF next, a
<1>5. /\ q \in Request /\ q.pc = "locked" /\ q.world = w /\ q.prev = a /\ q.next = next
      /\ q.op = op /\ q.subject = x
  BY <1>2, <1>4, FreshTyped DEF Fresh, Request, Stages
<1> HIDE DEF q
<1>6. Holds(q)
  BY <1>1, <1>3, <1>5 DEF Holds, a, next
<1>7. Moves(r, q, {})
  BY <1>1, <1>2, <1>5, <1>6 DEF Moves, Proper, OneMember, Due, At
<1> QED BY <1>1, <1>7, MovesKeep

LEMMA FailKeeps ==
    ASSUME KInv, NEW r \in Requests, Fail(r)
    PROVE  KInv'
<1>1. Steps(r, Fresh, {}) /\ req[r].pc \in {"store", "locked"}
  BY DEF Fail
<1>2. Moves(r, Fresh, {})
  BY <1>1, FreshTyped DEF Moves, Proper, OneMember, Due, Fresh
<1> QED BY <1>1, <1>2, MovesKeep

(* Whoever is not known to the registry is excused; the others are to be    *)
(* filtered, or have nothing to fear from what changed.                     *)
LEMMA HandleKeeps ==
    ASSUME KInv, NEW r \in Requests, Handle(r), worldToPeers \in [Worlds -> SUBSET Peers]
    PROVE  KInv'
<1> DEFINE w == req[r].world
           peers == worldToPeers[w]
           missed == IF req[r].stale THEN Intruders(w) ELSE Intruders(w) \ peers
           q == [Fresh EXCEPT !.pc = "filter", !.world = w, !.todo = peers, !.op = req[r].op]
           next == IF peers = {} \/ req[r].op = "noKick" THEN Fresh ELSE q
<1>1. At(r, "handle") /\ Steps(r, next, missed \X {w})
  BY DEF Handle, getPeersInWorld
<1>2. req[r] \in Request /\ w \in Worlds
  BY <1>1 DEF KInv, Typed, Located, At
<1>3. peers \subseteq Peers
  BY <1>2
<1>4. q \in Request /\ q.pc = "filter" /\ q.world = w /\ q.todo = peers
  BY <1>2, <1>3, FreshTyped DEF Fresh, Request, Stages
<1>5. next \in Request /\ next.pc \in {"idle", "filter"} /\ (next.pc # "idle" => next = q)
  BY <1>4, FreshTyped DEF Fresh
<1>6. ASSUME NEW v \in Worlds, NEW p \in Intruders(v) \ Privileged(v), Due(req[r], p, v)
      PROVE  <<p, v>> \in missed \X {w} \/ Due(next, p, v)
  <2>1. v = w /\ (req[r].op # "noKick" \/ req[r].stale)
    BY <1>1, <1>6 DEF Due, At
  <2>2. CASE p \in missed
    BY <2>1, <2>2
  <2>3. CASE p \notin missed
    <3>1. p \in peers /\ ~req[r].stale
      BY <1>6, <2>1, <2>3
    <3>2. next = q
      BY <2>1, <3>1
    <3> QED BY <1>4, <2>1, <3>1, <3>2 DEF Due
  <2> QED BY <2>2, <2>3
<1> HIDE DEF q, next, missed
<1>7. Moves(r, next, missed \X {w})
  BY <1>2, <1>4, <1>5, <1>6 DEF Moves, Proper, OneMember
<1> QED BY <1>1, <1>7, MovesKeep

(* The filter leaves out the privileged only.                               *)
LEMMA FilterKeeps ==
    ASSUME KInv, NEW r \in Requests, Filter(r)
    PROVE  KInv'
<1> DEFINE w == req[r].world
           todo == req[r].todo
           left == todo \ Privileged(w)
           kick == [Fresh EXCEPT !.pc = "kick", !.world = w, !.lacking = left]
           check == [Fresh EXCEPT !.pc = "check", !.world = w, !.todo = left]
           next == IF req[r].op = "kickAll" THEN kick ELSE check
           done == IF left = {} THEN Fresh ELSE next
<1>1. At(r, "filter") /\ (Steps(r, done, {}) \/ Steps(r, Fresh, (todo \cap Intruders(w)) \X {w}))
  BY DEF Filter
<1>2. req[r] \in Request /\ w \in Worlds /\ left \subseteq Peers
  BY <1>1 DEF KInv, Typed, Located, At, Request
<1>3. /\ kick \in Request /\ kick.pc = "kick" /\ kick.world = w /\ kick.lacking = left
      /\ check \in Request /\ check.pc = "check" /\ check.world = w /\ check.todo = left
  BY <1>2, FreshTyped DEF Fresh, Request, Stages
<1>4. \A v \in Worlds : \A p \in Intruders(v) \ Privileged(v) : Due(req[r], p, v) => v = w /\ p \in left
  BY <1>1 DEF Due, At
<1>5. CASE Steps(r, done, {})
  <2> HIDE DEF kick, check
  <2>1. Moves(r, done, {})
    BY <1>2, <1>3, <1>4, FreshTyped DEF Moves, Proper, OneMember, Due, Fresh
  <2> HIDE DEF done
  <2> QED BY <1>5, <2>1, MovesKeep
<1>6. CASE Steps(r, Fresh, (todo \cap Intruders(w)) \X {w})
  <2>1. Moves(r, Fresh, (todo \cap Intruders(w)) \X {w})
    BY <1>4, FreshTyped DEF Moves, Proper, OneMember, Fresh
  <2> QED BY <1>6, <2>1, MovesKeep
<1> QED BY <1>1, <1>5, <1>6

(* When every peer is checked, those without access are kicked.             *)
LEMMA CheckedKeeps ==
    ASSUME NEW q \in Request, q.pc = "check", NEW w, q.world = w
    PROVE  /\ Checked(q) \in Request
           /\ \A x \in q.todo \cup q.lacking : Due(Checked(q), x, w)
           /\ Checked(q).pc \in {"check", "idle", "kick"} /\ (Checked(q).pc # "idle" => Checked(q).world = w)
<1>1. CASE q.todo # {}
  BY <1>1 DEF Checked, Due
<1>2. CASE q.todo = {} /\ q.lacking = {}
  BY <1>2, FreshTyped DEF Checked, Fresh
<1>3. CASE q.todo = {} /\ q.lacking # {}
  <2> DEFINE k == [q EXCEPT !.pc = "kick"]
  <2>1. k \in Request /\ k.pc = "kick" /\ k.world = w /\ k.lacking = q.lacking
    BY DEF Request, Stages
  <2>2. Checked(q) = k
    BY <1>3 DEF Checked
  <2> HIDE DEF k
  <2> QED BY <1>3, <2>1, <2>2 DEF Due
<1> QED BY <1>1, <1>2, <1>3

(* A peer leaves what is left to check when it is found entitled, found     *)
(* wanting, or excused.                                                     *)
LEMMA CheckKeeps ==
    ASSUME KInv, NEW r \in Requests, NEW p \in Peers, Check(r, p)
    PROVE  KInv'
<1> DEFINE w == req[r].world
           q == [req[r] EXCEPT !.todo = @ \ {p}]
           lack == [q EXCEPT !.lacking = @ \cup {p}]
           E == ({p} \cap Intruders(w)) \X {w}
<1>1. /\ At(r, "check")
      /\ \/ \E hasAccess \in checkAccess(p, w) : Steps(r, Checked(IF hasAccess THEN q ELSE lack), {})
         \/ Steps(r, Checked(q), E)
  BY DEF Check
<1>2. req[r] \in Request /\ w \in Worlds
  BY <1>1 DEF KInv, Typed, Located, At
<1>3. /\ q \in Request /\ q.pc = "check" /\ q.world = w
      /\ q.todo = req[r].todo \ {p} /\ q.lacking = req[r].lacking
  BY <1>1, <1>2 DEF Request, At
<1>4. /\ lack \in Request /\ lack.pc = "check" /\ lack.world = w
      /\ lack.todo = req[r].todo \ {p} /\ lack.lacking = req[r].lacking \cup {p}
  BY <1>3 DEF Request
<1> HIDE DEF q, lack
<1>5. \A v \in Worlds : \A x \in Intruders(v) \ Privileged(v) :
          Due(req[r], x, v) => v = w /\ x \in req[r].todo \cup req[r].lacking
  BY <1>1 DEF Due, At
<1>6. CASE Steps(r, Checked(q), E)
  <2>1. /\ Checked(q) \in Request
        /\ \A x \in q.todo \cup q.lacking : Due(Checked(q), x, w)
        /\ Checked(q).pc \in {"check", "idle", "kick"} /\ (Checked(q).pc # "idle" => Checked(q).world = w)
    BY <1>2, <1>3, CheckedKeeps
  <2>2. Moves(r, Checked(q), E)
    BY <1>2, <1>3, <1>5, <2>1 DEF Moves, Proper, OneMember
  <2> QED BY <1>6, <2>2, MovesKeep
<1>7. ASSUME Steps(r, Checked(lack), {}) PROVE KInv'
  <2>1. /\ Checked(lack) \in Request
        /\ \A x \in lack.todo \cup lack.lacking : Due(Checked(lack), x, w)
        /\ Checked(lack).pc \in {"check", "idle", "kick"} /\ (Checked(lack).pc # "idle" => Checked(lack).world = w)
    BY <1>2, <1>4, CheckedKeeps
  <2>2. Moves(r, Checked(lack), {})
    BY <1>2, <1>4, <1>5, <2>1 DEF Moves, Proper, OneMember
  <2> QED BY <1>7, <2>2, MovesKeep
<1>8. ASSUME TRUE \in checkAccess(p, w), Steps(r, Checked(q), {}) PROVE KInv'
  <2>1. /\ Checked(q) \in Request
        /\ \A x \in q.todo \cup q.lacking : Due(Checked(q), x, w)
        /\ Checked(q).pc \in {"check", "idle", "kick"} /\ (Checked(q).pc # "idle" => Checked(q).world = w)
    BY <1>2, <1>3, CheckedKeeps
  <2>2. p \notin Intruders(w)
    BY <1>8 DEF Intruders, Entitled
  <2>3. Moves(r, Checked(q), {})
    BY <1>2, <1>3, <1>5, <2>1, <2>2 DEF Moves, Proper, OneMember
  <2> QED BY <1>8, <2>3, MovesKeep
<1>9. checkAccess(p, w) \subseteq BOOLEAN
  BY DEF checkAccess, IsMember
<1> QED BY <1>1, <1>6, <1>7, <1>8, <1>9

(* An event is looked at where the registry says that the member is.        *)
LEMMA MemberTypeKeeps ==
    ASSUME KInv, NEW r \in Requests, MemberType(r)
    PROVE  KInv'
<1> DEFINE w == req[r].world
           q == [req[r] EXCEPT !.pc = "recheck"]
           E == (req[r].todo \cap Intruders(w)) \X {w}
           next == IF access[w].type = "allow-list" THEN q ELSE Fresh
<1>1. At(r, "type") /\ (Steps(r, next, {}) \/ Steps(r, Fresh, E))
  BY DEF MemberType
<1>2. req[r] \in Request /\ w \in Worlds
  BY <1>1 DEF KInv, Typed, Located, At
<1>3. q \in Request /\ q.pc = "recheck" /\ q.world = w /\ q.todo = req[r].todo
  BY <1>2 DEF Request, Stages
<1>4. \A v \in Worlds : \A x \in Intruders(v) \ Privileged(v) :
          Due(req[r], x, v) => v = w /\ x \in req[r].todo /\ access[w].type = "allow-list"
  BY <1>1 DEF Due, At
<1>7. \A x, y \in req[r].todo : x = y
  BY <1>1 DEF KInv, Members, OneMember, At
<1> HIDE DEF q
<1>5. CASE Steps(r, next, {})
  <2>1. Moves(r, next, {})
    BY <1>2, <1>3, <1>4, <1>7, FreshTyped DEF Moves, Proper, OneMember, Due, Fresh
  <2> QED BY <1>5, <2>1, MovesKeep
<1>6. CASE Steps(r, Fresh, E)
  <2>1. Moves(r, Fresh, E)
    BY <1>4, FreshTyped DEF Moves, Proper, OneMember, Fresh
  <2> QED BY <1>6, <2>1, MovesKeep
<1> QED BY <1>1, <1>5, <1>6

LEMMA MemberCheckKeeps ==
    ASSUME KInv, NEW r \in Requests, MemberCheck(r)
    PROVE  KInv'
<1> DEFINE w == req[r].world
           q(p) == [req[r] EXCEPT !.pc = "kick", !.todo = {}, !.lacking = {p}]
           E == (req[r].todo \cap Intruders(w)) \X {w}
<1>1. /\ At(r, "recheck")
      /\ \/ \E p \in req[r].todo : \E hasAccess \in checkAccess(p, w) :
               Steps(r, IF hasAccess THEN Fresh ELSE q(p), {})
         \/ Steps(r, Fresh, E)
  BY DEF MemberCheck
<1>2. req[r] \in Request /\ w \in Worlds
  BY <1>1 DEF KInv, Typed, Located, At
<1>3. \A v \in Worlds : \A x \in Intruders(v) \ Privileged(v) :
          Due(req[r], x, v) => v = w /\ x \in req[r].todo
  BY <1>1 DEF Due, At
<1>8. \A x, y \in req[r].todo : x = y
  BY <1>1 DEF KInv, Members, OneMember, At
<1>4. CASE Steps(r, Fresh, E)
  <2>1. Moves(r, Fresh, E)
    BY <1>3, FreshTyped DEF Moves, Proper, OneMember, Fresh
  <2> QED BY <1>4, <2>1, MovesKeep
<1>5. ASSUME NEW p \in req[r].todo, TRUE \in checkAccess(p, w), Steps(r, Fresh, {}) PROVE KInv'
  <2>1. p \notin Intruders(w)
    BY <1>5 DEF Intruders, Entitled
  <2>2. Moves(r, Fresh, {})
    BY <1>3, <1>5, <1>8, <2>1, FreshTyped DEF Moves, Proper, OneMember, Fresh
  <2> QED BY <1>5, <2>2, MovesKeep
<1>6. ASSUME NEW p \in req[r].todo, Steps(r, q(p), {}) PROVE KInv'
  <2>1. p \in Peers
    BY <1>2 DEF Request
  <2>2. q(p) \in Request /\ q(p).pc = "kick" /\ q(p).world = w /\ q(p).lacking = {p}
    BY <1>2, <2>1 DEF Request, Stages
  <2> DEFINE k == q(p)
  <2> HIDE DEF q
  <2>3. Moves(r, k, {})
    BY <1>2, <1>3, <1>6, <1>8, <2>2 DEF Moves, Proper, OneMember, Due
  <2> HIDE DEF k
  <2>4. Steps(r, k, {})
    BY <1>6 DEF k
  <2> QED BY <2>3, <2>4, MovesKeep
<1>7. \A p : checkAccess(p, w) \subseteq BOOLEAN
  BY DEF checkAccess, IsMember
<1> QED BY <1>1, <1>4, <1>5, <1>6, <1>7

(* The rooms of a batch are to be left, or the peer is excused.             *)
LEMMA StartBatchKeeps ==
    ASSUME KInv, NEW r \in Requests, StartBatch(r), peerToRooms \in [Peers -> SUBSET Rooms]
    PROVE  KInv'
<1> DEFINE w == req[r].world
           removals(B) == {x \in B \X Rooms : x[2] \in getPeerRooms(x[1])}
           rest(B) == req[r].lacking \ B
           kept(B) == {p \in B : CommsRoom(w) \notin getPeerRooms(p)}
           q(B) == [req[r] EXCEPT !.lacking = rest(B), !.removals = removals(B)]
<1>1. At(r, "kick")
  BY DEF StartBatch
<1>2. PICK B \in SUBSET req[r].lacking :
         Steps(r, IF removals(B) = {} /\ rest(B) = {} THEN Fresh ELSE q(B), (kept(B) \cap Intruders(w)) \X {w})
  BY DEF StartBatch
<1>3. req[r] \in Request /\ w \in Worlds
  BY <1>1 DEF KInv, Typed, Located, At
<1> DEFINE R == removals(B)
           L == rest(B)
           E == (kept(B) \cap Intruders(w)) \X {w}
           k == [req[r] EXCEPT !.lacking = L, !.removals = R]
           next == IF R = {} /\ L = {} THEN Fresh ELSE k
<1>4. R \in SUBSET (Peers \X Rooms) /\ L \in SUBSET Peers
  BY <1>3 DEF Request
<1>5. ASSUME NEW v \in Worlds, NEW p \in Intruders(v) \ Privileged(v), Due(req[r], p, v)
      PROVE  v = w /\ (<<p, w>> \in E \/ p \in L \/ <<p, CommsRoom(w)>> \in R)
  <2>1. v = w /\ p \in Peers
    BY <1>5 DEF Due, Intruders
  <2>2. p \in req[r].lacking
    BY <1>1, <1>5 DEF Due, At, StartBatch
  <2>3. CASE p \in B /\ CommsRoom(w) \in getPeerRooms(p)
    BY <2>1, <2>3, <1>3 DEF CommsRoom, Rooms
  <2>4. CASE p \in B /\ CommsRoom(w) \notin getPeerRooms(p)
    BY <1>5, <2>1, <2>4
  <2> QED BY <2>1, <2>2, <2>3, <2>4
<1>6. Steps(r, next, E)
  BY <1>2
<1> HIDE DEF R, L, E
<1>7. /\ k \in Request /\ k.pc = "kick" /\ k.world = w /\ k.lacking = L /\ k.removals = R
  BY <1>1, <1>3, <1>4 DEF Request, At
<1> HIDE DEF k
<1>8. Moves(r, next, E)
  BY <1>3, <1>5, <1>7, FreshTyped DEF Moves, Proper, OneMember, Due, Fresh
<1> HIDE DEF next
<1> QED BY <1>6, <1>8, MovesKeep

-----------------------------------------------------------------------------
(* Steps that change the rooms                                              *)

(* Who leaves a room is no intruder there any more.                         *)
LEMMA LeavesOut ==
    ASSUME KInv, NEW p \in Peers, NEW room, Leaves(p, room), UNCHANGED <<access, members>>
    PROVE  /\ inRooms' \in [Peers -> SUBSET Rooms]
           /\ \A w \in Worlds : Intruders(w)' \subseteq Intruders(w)
           /\ \A w \in Worlds : CommsRoom(w) = room => p \notin Intruders(w)'
<1>1. inRooms' = [inRooms EXCEPT ![p] = @ \ {room}]
  BY DEF Leaves
<1>2. inRooms' \in [Peers -> SUBSET Rooms] /\ inRooms'[p] = inRooms[p] \ {room}
      /\ \A x \in Peers \ {p} : inRooms'[x] = inRooms[x]
  BY <1>1 DEF KInv, Typed
<1>3. \A x, w : Entitled(x, w)' = Entitled(x, w)
  BY DEF Entitled, checkAccess, IsMember
<1> QED BY <1>2, <1>3 DEF Intruders, CommsRoom

(* A kick takes the peer out of the room, or excuses it.                    *)
LEMMA RemoveParticipantKeeps ==
    ASSUME KInv, NEW r \in Requests, NEW p \in Peers, NEW room \in Rooms, RemoveParticipant(r, p, room)
    PROVE  KInv'
<1> DEFINE left == req[r].removals \ {<<p, room>>}
           q == IF left = {} /\ req[r].lacking = {} THEN Fresh ELSE [req[r] EXCEPT !.removals = left]
           k == [req[r] EXCEPT !.removals = left]
           E == {p} \X {w \in Worlds : CommsRoom(w) = room /\ p \in Intruders(w)}
<1>1. /\ At(r, "kick")
      /\ \/ /\ Leaves(p, room) /\ Become(r, q) /\ Excuse({})
            /\ UNCHANGED <<access, members, removedFrom>>
         \/ Steps(r, q, E)
  BY DEF RemoveParticipant
<1>2. req[r] \in Request /\ req[r].world \in Worlds
  BY <1>1 DEF KInv, Typed, Located, At
<1>3. /\ k \in Request /\ k.pc = "kick" /\ k.world = req[r].world /\ k.removals = left
      /\ k.lacking = req[r].lacking
  BY <1>1, <1>2 DEF Request, At
<1> HIDE DEF k
<1>4. q = IF left = {} /\ req[r].lacking = {} THEN Fresh ELSE k
  BY DEF k
<1> HIDE DEF q
<1>5. Proper(q)
  BY <1>2, <1>3, <1>4, FreshTyped DEF Proper, OneMember, Fresh
<1>6. ASSUME NEW w \in Worlds, NEW x \in Peers, Due(req[r], x, w), ~(x = p /\ CommsRoom(w) = room)
      PROVE  Due(q, x, w)
  <2>1. w = req[r].world /\ (x \in req[r].lacking \/ <<x, CommsRoom(w)>> \in left)
    BY <1>1, <1>6 DEF Due, At
  <2>2. q = k
    BY <1>4, <2>1
  <2> QED BY <1>3, <2>1, <2>2 DEF Due
<1>7. CASE Steps(r, q, E)
  <2>1. Moves(r, q, E)
    BY <1>5, <1>6 DEF Moves, Intruders
  <2> HIDE DEF E
  <2> QED BY <1>7, <2>1, MovesKeep
<1>8. CASE /\ Leaves(p, room) /\ Become(r, q) /\ Excuse({})
           /\ UNCHANGED <<access, members, removedFrom>>
  <2>1. /\ inRooms' \in [Peers -> SUBSET Rooms]
        /\ \A w \in Worlds : Intruders(w)' \subseteq Intruders(w)
        /\ \A w \in Worlds : CommsRoom(w) = room => p \notin Intruders(w)'
    BY <1>8, LeavesOut
  <2>2. ASSUME NEW w \in Worlds, NEW x \in Intruders(w)' \ Privileged(w)
        PROVE  /\ x \in Intruders(w)
               /\ Announced(x, w) \/ Due(req[r], x, w) => Announced(x, w)' \/ Due(q, x, w)
    <3>1. x \in Intruders(w) /\ x \in Peers /\ ~(x = p /\ CommsRoom(w) = room)
      BY <2>1 DEF Intruders
    <3>2. Announced(x, w)' = Announced(x, w)
      BY <1>8 DEF Announced
    <3> QED BY <1>6, <3>1, <3>2
  <2>3. removedFrom' \subseteq Peers
    BY <1>8 DEF KInv, Typed
  <2> QED BY <1>5, <1>8, <2>1, <2>2, <2>3, RequestKeeps
<1> QED BY <1>1, <1>7, <1>8

(* No request goes on, and who intrudes is excused or intruded before.      *)
LEMMA RoomsKeep ==
    ASSUME KInv, NEW E, Excuse(E), UNCHANGED <<access, members, removedFrom, req>>,
           inRooms' \in [Peers -> SUBSET Rooms],
           \A w \in Worlds : \A p \in Intruders(w)' : p \in Intruders(w) \/ <<p, w>> \in E
    PROVE  KInv'
<1>1. Typed' /\ Located' /\ Holding' /\ OneHolder' /\ Members'
  BY DEF KInv, Typed, Located, Holding, Holds, OneHolder, Members, OneMember, At
<1>2. Covered'
  <2> SUFFICES ASSUME NEW w \in Worlds, NEW p \in Intruders(w)' \ Privileged(w)
               PROVE  <<p, w>> \in excused' \/ Announced(p, w)' \/ \E s \in Requests : Due(req[s], p, w)'
    BY DEF Covered, Privileged
  <2>1. \A x \in excused \cup E : x[1] \in Intruders(x[2])' => x \in excused'
    BY DEF Excuse
  <2>2. <<p, w>> \in excused \cup E => <<p, w>> \in excused'
    BY <2>1
  <2>3. p \in Intruders(w) => <<p, w>> \in excused \/ Announced(p, w) \/ \E s \in Requests : Due(req[s], p, w)
    BY DEF KInv, Covered
  <2>4. Announced(p, w)' = Announced(p, w) /\ \A s \in Requests : Due(req[s], p, w)' = Due(req[s], p, w)
    BY DEF Announced, Due
  <2> QED BY <2>2, <2>3, <2>4
<1> QED BY <1>1, <1>2 DEF KInv

LEMMA DisconnectKeeps ==
    ASSUME KInv, NEW p \in Peers, NEW room \in Joinable, Disconnect(p, room)
    PROVE  KInv'
<1>1. Leaves(p, room) /\ Excuse({}) /\ UNCHANGED <<access, members, removedFrom, req>>
  BY DEF Disconnect
<1> QED BY <1>1, LeavesOut, RoomsKeep

(* Who comes in with a token that outlived its access is excused.           *)
LEMMA ConnectKeeps ==
    ASSUME KInv, NEW p \in Peers, NEW room \in Joinable, Connect(p, room)
    PROVE  KInv'
<1> DEFINE E == {p} \X {w \in Worlds : CommsRoom(w) = room}
<1>1. /\ inRooms' = [inRooms EXCEPT ![p] = @ \cup {room}] /\ Excuse(E)
      /\ UNCHANGED <<access, members, removedFrom, req>>
  BY DEF Connect
<1>2. /\ inRooms' \in [Peers -> SUBSET Rooms] /\ inRooms'[p] = inRooms[p] \cup {room}
      /\ \A x \in Peers \ {p} : inRooms'[x] = inRooms[x]
  BY <1>1, PresenceAssumption DEF KInv, Typed
<1>3. \A x, w : Entitled(x, w)' = Entitled(x, w)
  BY <1>1 DEF Entitled, checkAccess, IsMember
<1>4. \A w \in Worlds : \A x \in Intruders(w)' : x \in Intruders(w) \/ <<x, w>> \in E
  BY <1>2, <1>3 DEF Intruders
<1> HIDE DEF E
<1> QED BY <1>1, <1>2, <1>4, RoomsKeep

(* An event goes to the world of the registry; elsewhere the peer is        *)
(* excused.                                                                 *)
LEMMA MemberRemovedKeeps ==
    ASSUME KInv, NEW r \in Requests, NEW p \in Peers, MemberRemoved(r, p),
           peerToWorld \in [Peers -> Worlds \cup {NoWorld}]
    PROVE  KInv'
<1> DEFINE w == peerToWorld[p]
           elsewhere == {v \in Worlds : v # w /\ p \in Intruders(v)}
           k == [Fresh EXCEPT !.pc = "type", !.world = w, !.todo = {p}]
           q == IF w = NoWorld THEN Fresh ELSE k
           E == {p} \X elsewhere
<1>1. /\ At(r, "idle") /\ removedFrom' = removedFrom \ {p} /\ Become(r, q) /\ Excuse(E)
      /\ UNCHANGED <<access, members, inRooms>>
  BY DEF MemberRemoved, getPeerWorld, external
<1>2. w \in Worlds \cup {NoWorld}
  OBVIOUS
<1>3. k \in Request /\ k.pc = "type" /\ k.world = w /\ k.todo = {p}
  BY <1>2, FreshTyped DEF Fresh, Request, Stages
<1> HIDE DEF k
<1>4. Proper(q)
  BY <1>2, <1>3, FreshTyped DEF Proper, OneMember, Fresh
<1>5. ASSUME NEW v \in Worlds PROVE Intruders(v)' = Intruders(v)
  BY <1>1 DEF Intruders, Entitled, checkAccess, IsMember
<1>6. ASSUME NEW v \in Worlds, NEW x \in Intruders(v), Announced(x, v) \/ Due(req[r], x, v)
      PROVE  <<x, v>> \in E \/ Announced(x, v)' \/ Due(q, x, v)
  <2>1. Announced(x, v) /\ ~Due(req[r], x, v)
    BY <1>1, <1>6 DEF Due, At
  <2>2. CASE x # p
    BY <1>1, <2>1, <2>2 DEF Announced
  <2>3. CASE x = p /\ v # w
    BY <1>6, <2>3
  <2>4. CASE x = p /\ v = w
    BY <1>3, <2>1, <2>4, NoWorldAssumption DEF Announced, Due
  <2> QED BY <2>2, <2>3, <2>4
<1>7. removedFrom' \subseteq Peers /\ inRooms' \in [Peers -> SUBSET Rooms]
  BY <1>1 DEF KInv, Typed
<1> HIDE DEF q, E
<1> QED BY <1>1, <1>4, <1>5, <1>6, <1>7, RequestKeeps

(* Who loses its access with a community is announced.                      *)
LEMMA LeaveCommunityKeeps ==
    ASSUME KInv, NEW p \in Peers, NEW c \in Communities, LeaveCommunity(p, c)
    PROVE  KInv'
<1>1. /\ members' = members \ {<<p, c>>} /\ removedFrom' = removedFrom \cup {p}
      /\ UNCHANGED <<access, inRooms, req, excused>>
  BY DEF LeaveCommunity
<1>2. Typed' /\ Located' /\ Holding' /\ OneHolder' /\ Members'
  BY <1>1 DEF KInv, Typed, Located, Holding, Holds, OneHolder, Members, OneMember, At
<1>3. ASSUME NEW w \in Worlds, NEW x \in Intruders(w)'
      PROVE  x \in Intruders(w) \/ (x = p /\ access[w].type = "allow-list")
  <2>1. CASE access[w].type # "allow-list"
    BY <1>1, <1>3, <2>1 DEF Intruders, Entitled, checkAccess
  <2>2. CASE x # p
    <3>1. \A d : <<x, d>> \in members' <=> <<x, d>> \in members
      BY <1>1, <2>2
    <3>2. checkAccess(x, w)' = checkAccess(x, w)
      BY <1>1, <3>1 DEF checkAccess, IsMember
    <3> QED BY <1>1, <1>3, <3>2 DEF Intruders, Entitled
  <2> QED BY <2>1, <2>2
<1>4. Covered'
  <2> SUFFICES ASSUME NEW w \in Worlds, NEW x \in Intruders(w)' \ Privileged(w)
               PROVE  <<x, w>> \in excused' \/ Announced(x, w)' \/ \E s \in Requests : Due(req[s], x, w)'
    BY DEF Covered, Privileged
  <2>1. Announced(x, w) => Announced(x, w)'
    BY <1>1 DEF Announced
  <2>2. \A s \in Requests : Due(req[s], x, w) = Due(req[s], x, w)'
    BY <1>1 DEF Due
  <2>3. CASE x \in Intruders(w)
    BY <1>1, <2>1, <2>2, <2>3 DEF KInv, Covered
  <2>4. CASE x = p /\ access[w].type = "allow-list"
    BY <1>1, <2>4 DEF Announced
  <2> QED BY <1>3, <2>3, <2>4
<1> QED BY <1>2, <1>4 DEF KInv

(* A webhook, and one that is lost, change the registry only.               *)
LEMMA WebhooksKeep ==
    ASSUME KInv, UNCHANGED <<access, members, inRooms, removedFrom, req, excused>>
    PROVE  KInv'
<1>1. Typed' /\ Located' /\ Holding' /\ OneHolder' /\ Members'
  BY DEF KInv, Typed, Located, Holding, Holds, OneHolder, Members, OneMember, At
<1>2. ASSUME NEW w \in Worlds PROVE Intruders(w)' = Intruders(w)
  BY DEF Intruders, Entitled, checkAccess, IsMember
<1>3. Covered'
  <2> SUFFICES ASSUME NEW w \in Worlds, NEW p \in Intruders(w) \ Privileged(w)
               PROVE  <<p, w>> \in excused' \/ Announced(p, w)' \/ \E s \in Requests : Due(req[s], p, w)'
    BY <1>2 DEF Covered, Privileged
  <2>1. Announced(p, w)' = Announced(p, w) /\ \A s \in Requests : Due(req[s], p, w)' = Due(req[s], p, w)
    BY DEF Announced, Due
  <2> QED BY <2>1 DEF KInv, Covered
<1> QED BY <1>1, <1>3 DEF KInv

(* A restart excuses everyone.                                              *)
LEMMA RestartKeeps ==
    ASSUME KInv, Restart
    PROVE  KInv'
<1>1. /\ req' = [r \in Requests |-> Fresh]
      /\ UNCHANGED <<access, members, inRooms, removedFrom>>
      /\ Excuse({x \in Peers \X Worlds : x[1] \in Intruders(x[2])})
  BY DEF Restart
<1>2. Typed' /\ Located' /\ Holding' /\ OneHolder' /\ Members'
  BY <1>1, FreshTyped DEF KInv, Typed, Located, Holding, Holds, OneHolder, Members, OneMember, At, Fresh
<1>3. ASSUME NEW w \in Worlds PROVE Intruders(w)' = Intruders(w)
  BY <1>1 DEF Intruders, Entitled, checkAccess, IsMember
<1>4. ASSUME NEW w \in Worlds, NEW p \in Intruders(w)' PROVE <<p, w>> \in excused'
  <2>1. p \in Intruders(w) /\ <<p, w>> \in Peers \X Worlds
    BY <1>3 DEF Intruders
  <2>2. <<p, w>>[1] = p /\ <<p, w>>[2] = w
    OBVIOUS
  <2> QED BY <1>1, <2>1, <2>2 DEF Excuse
<1>5. Covered'
  BY <1>4 DEF Covered, Privileged
<1> QED BY <1>2, <1>5 DEF KInv

-----------------------------------------------------------------------------
(* Steps that store an access                                               *)

(* What calls for no kick takes nobody's access.                            *)
LEMMA NoKickNoHarm ==
    ASSUME NEW w \in Worlds, access[w] \in Setting, access'[w] \in Setting, members' = members,
           resolveAction(access[w], access'[w]) = "noKick", NEW p \in Peers
    PROVE  Entitled(p, w)' \/ (~Entitled(p, w) /\ access'[w].type = access[w].type)
<1> DEFINE a == access[w]
           b == access'[w]
<1>1. CASE b.type = "unrestricted"
  BY <1>1 DEF Entitled, checkAccess
<1>2. CASE b.type # "unrestricted"
  <2>1. a.type = b.type /\ ~secretChanged(a, b)
    BY <1>2 DEF resolveAction
  <2>2. ~allowListChanged(a, b)
    BY <1>2, <2>1 DEF resolveAction
  <2>3. b.type = "allow-list" \/ b.type = "nft-ownership"
    BY <1>2, <2>1 DEF secretChanged, Setting
  <2>4. CASE b.type = "allow-list"
    <3>1. a.wallets = b.wallets /\ a.communities = b.communities
      BY <2>1, <2>2, <2>4 DEF allowListChanged
    <3> QED BY <2>1, <2>4, <3>1 DEF Entitled, checkAccess, IsMember
  <2>5. CASE b.type = "nft-ownership"
    BY <2>1, <2>5 DEF Entitled, checkAccess
  <2> QED BY <2>1, <2>3, <2>4, <2>5
<1> QED BY <1>1, <1>2

(* What is stored is looked at by the same request, unless it harms nobody. *)
LEMMA StoreKeeps ==
    ASSUME KInv, NEW r \in Requests, NEW action \in Actions \cup {"none"}, NEW stale \in BOOLEAN,
           req[r].pc \in {"store", "locked"}, StoreAccess(r, action, stale),
           NEW w \in Worlds, req[r].world = w,
           \A s \in Requests \ {r} : ~(At(s, "locked") /\ req[s].world = w),
           \/ action # "none" /\ (action # "noKick" \/ stale)
           \/ \A p \in Peers : Entitled(p, w)' \/ (~Entitled(p, w) /\ access'[w].type = access[w].type)
    PROVE  KInv'
<1> DEFINE k == [Fresh EXCEPT !.pc = "handle", !.op = action, !.world = w, !.stale = stale]
           q == IF action = "none" THEN Fresh ELSE k
<1>1. /\ access' = [access EXCEPT ![w] = req[r].next] /\ Become(r, q) /\ Excuse({})
      /\ UNCHANGED <<members, inRooms, removedFrom>>
  BY DEF StoreAccess, external
<1>2. req[r] \in Request /\ w \in Worlds /\ req[r].next \in Setting
  BY DEF KInv, Typed, Located, Request
<1>3. /\ access' \in [Worlds -> Setting] /\ \A v \in Worlds \ {w} : access'[v] = access[v]
  BY <1>1, <1>2 DEF KInv, Typed
<1>4. k \in Request /\ k.pc = "handle" /\ k.world = w /\ k.op = action /\ k.stale = stale
  BY <1>2, FreshTyped DEF Fresh, Request, Stages
<1> HIDE DEF k
<1>5. q \in Request /\ q.pc \in {"idle", "handle"} /\ (q.pc # "idle" => q.world \in Worlds)
  BY <1>2, <1>4, FreshTyped DEF Fresh
<1>6. req'[r] = q /\ \A s \in Requests \ {r} : req'[s] = req[s]
  BY <1>1 DEF Become, KInv, Typed
<1>7. Typed'
  BY <1>1, <1>3, <1>5 DEF Become, KInv, Typed
<1>8. Located' /\ OneHolder' /\ Members'
  BY <1>5, <1>6 DEF KInv, Located, OneHolder, Members, OneMember, At
<1>9. Holding'
  <2> SUFFICES ASSUME NEW s \in Requests, req'[s].pc = "locked" PROVE Holds(req[s])'
    BY DEF Holding, At
  <2>1. s # r /\ req'[s] = req[s] /\ req[s].world \in Worlds \ {w}
    BY <1>5, <1>6 DEF KInv, Located, At
  <2> QED BY <1>3, <2>1 DEF KInv, Holding, Holds, At
<1>10. Covered'
  <2> SUFFICES ASSUME NEW v \in Worlds, NEW p \in Intruders(v)' \ Privileged(v)
               PROVE  <<p, v>> \in excused' \/ Announced(p, v)' \/ \E s \in Requests : Due(req[s], p, v)'
    BY DEF Covered, Privileged
  <2>1. CASE v = w /\ action # "none" /\ (action # "noKick" \/ stale)
    <3>1. Due(req[r], p, v)'
      BY <1>4, <1>6, <2>1 DEF Due
    <3> QED BY <3>1
  <2>2. CASE ~(v = w /\ action # "none" /\ (action # "noKick" \/ stale))
    <3>1. access'[v].type = access[v].type /\ p \in Intruders(v)
      <4>1. CASE v = w
        BY <1>1, <2>2, <4>1 DEF Intruders
      <4>2. CASE v # w
        BY <1>1, <1>3, <4>2 DEF Intruders, Entitled, checkAccess, IsMember
      <4> QED BY <4>1, <4>2
    <3>2. Announced(p, v)' = Announced(p, v)
      BY <1>1, <3>1 DEF Announced
    <3>3. ASSUME NEW s \in Requests, Due(req[s], p, v) PROVE Due(req[s], p, v)'
      <4>1. s # r
        BY <3>3 DEF Due
      <4> QED BY <1>6, <3>1, <3>3, <4>1 DEF Due
    <3>4. <<p, v>> \in excused => <<p, v>> \in excused'
      BY <1>1 DEF Excuse
    <3> QED BY <3>1, <3>2, <3>3, <3>4 DEF KInv, Covered
  <2> QED BY <2>1, <2>2
<1> QED BY <1>7, <1>8, <1>9, <1>10 DEF KInv

LEMMA SettingStoreKeeps ==
    ASSUME KInv, NEW r \in Requests, Store(r)
    PROVE  KInv'
<1>1. PICK w \in Worlds : req[r].world = w
  BY DEF Store, KInv, Located, At
<1> DEFINE action == resolveAction(req[r].prev, req[r].next)
           stale == access[w] # req[r].prev
<1>2. At(r, "store") /\ RowIsFree(w) /\ StoreAccess(r, action, stale)
  BY <1>1 DEF Store
<1>3. req[r].next \in Setting /\ access[w] \in Setting
  BY DEF KInv, Typed, Request
<1>4. action \in Actions
  BY DEF resolveAction, Actions
<1>5. access'[w] = req[r].next /\ members' = members
  BY <1>1, <1>2 DEF StoreAccess, external, KInv, Typed
<1>6. ASSUME action = "noKick", ~stale, NEW p \in Peers
      PROVE  Entitled(p, w)' \/ (~Entitled(p, w) /\ access'[w].type = access[w].type)
  BY <1>3, <1>5, <1>6, NoKickNoHarm
<1>7. \A s \in Requests \ {r} : ~(At(s, "locked") /\ req[s].world = w)
  BY <1>2 DEF RowIsFree
<1>8. req[r].pc \in {"store", "locked"} /\ action # "none"
  BY <1>2, <1>4 DEF At, Actions
<1> HIDE DEF action, stale
<1>11. stale \in BOOLEAN
  BY DEF stale
<1>9. CASE action # "noKick" \/ stale
  BY <1>1, <1>2, <1>4, <1>7, <1>8, <1>9, <1>11, StoreKeeps
<1>10. CASE action = "noKick" /\ ~stale
  BY <1>1, <1>2, <1>4, <1>6, <1>7, <1>8, <1>10, <1>11, StoreKeeps
<1> QED BY <1>9, <1>10

(* An entry that is added takes nobody's access.                            *)
LEMMA AddingHarmsNobody ==
    ASSUME NEW w \in Worlds, NEW op \in {"addWallet", "addCommunity"}, NEW x,
           access[w] \in Setting, access[w].type = "allow-list", access'[w] = Modified(op, access[w], x),
           members' = members, NEW p \in Peers
    PROVE  Entitled(p, w)' \/ (~Entitled(p, w) /\ access'[w].type = access[w].type)
<1>1. CASE op = "addWallet"
  <2>1. /\ access'[w].type = "allow-list" /\ access'[w].wallets = access[w].wallets \cup {x}
        /\ access'[w].communities = access[w].communities
    BY <1>1 DEF Modified, Setting
  <2> QED BY <2>1 DEF Entitled, checkAccess, IsMember
<1>2. CASE op = "addCommunity"
  <2>1. /\ access'[w].type = "allow-list" /\ access'[w].wallets = access[w].wallets
        /\ access'[w].communities = access[w].communities \cup {x}
    BY <1>2 DEF Modified, Setting
  <2> QED BY <2>1 DEF Entitled, checkAccess, IsMember
<1> QED BY <1>1, <1>2

LEMMA CommitKeeps ==
    ASSUME KInv, NEW r \in Requests, Commit(r)
    PROVE  KInv'
<1>1. PICK w \in Worlds : req[r].world = w
  BY DEF Commit, KInv, Located, At
<1>2. At(r, "locked") /\ req[r].pc \in {"store", "locked"} /\ Holds(req[r])
  BY DEF Commit, KInv, Holding, At
<1>3. access[w] = req[r].prev /\ req[r].next = Modified(req[r].op, access[w], req[r].subject)
      /\ access[w].type = "allow-list"
  BY <1>1, <1>2 DEF Holds
<1>4. req[r].next \in Setting /\ access[w] \in Setting
  BY DEF KInv, Typed, Request
<1>5. \A s \in Requests \ {r} : ~(At(s, "locked") /\ req[s].world = w)
  BY <1>1, <1>2 DEF KInv, OneHolder
<1>6. access'[w] = req[r].next /\ members' = members
  BY <1>1 DEF Commit, StoreAccess, external, KInv, Typed
<1> DEFINE stale == FALSE
           none == "none"
<1>9. stale \in BOOLEAN /\ none \in Actions \cup {"none"}
  OBVIOUS
<1> DEFINE action == resolveAction(req[r].prev, req[r].next)
<1>7. CASE StoreAccess(r, action, FALSE)
  <2>1. action \in Actions
    BY DEF resolveAction, Actions
  <2>2. ASSUME action = "noKick", NEW p \in Peers
        PROVE  Entitled(p, w)' \/ (~Entitled(p, w) /\ access'[w].type = access[w].type)
    BY <1>3, <1>4, <1>6, <2>2, NoKickNoHarm
  <2>3. action # "none"
    BY <2>1 DEF Actions
  <2>4. StoreAccess(r, action, stale)
    BY <1>7
  <2> HIDE DEF action, stale, none
  <2>5. \/ action # "none" /\ (action # "noKick" \/ stale)
        \/ \A p \in Peers : Entitled(p, w)' \/ (~Entitled(p, w) /\ access'[w].type = access[w].type)
    BY <2>2, <2>3
  <2> QED BY <1>1, <1>2, <1>5, <1>9, <2>1, <2>4, <2>5, StoreKeeps
<1>8. CASE req[r].op \in {"addWallet", "addCommunity"} /\ StoreAccess(r, "none", FALSE)
  <2>1. ASSUME NEW p \in Peers
        PROVE  Entitled(p, w)' \/ (~Entitled(p, w) /\ access'[w].type = access[w].type)
    BY <1>3, <1>4, <1>6, <1>8, AddingHarmsNobody
  <2>2. StoreAccess(r, none, stale)
    BY <1>8
  <2> HIDE DEF stale, none
  <2> QED BY <1>1, <1>2, <1>5, <1>9, <2>1, <2>2, StoreKeeps
<1> QED BY <1>7, <1>8 DEF Commit

-----------------------------------------------------------------------------
(* The invariant of the registry                                            *)

Event == [event : {"joined", "left"}, room : {x \in Rooms : Tracked(x)}]

\* Where a peer that the registry knows in world g is when the events s have arrived in order.
Leaving(e, w) == e.event = "left" /\ e.room.world # w
EndsIn(s, g, w) ==
    \/ \E j \in 1 .. Len(s) : /\ s[j].event = "joined" /\ s[j].room.world = w
                              /\ \A k \in 1 .. Len(s) : k > j => Leaving(s[k], w)
    \/ g = w /\ \A k \in 1 .. Len(s) : Leaving(s[k], w)

\* What one event makes of that world.
Moved(g, e) == IF e.event = "joined" THEN e.room.world ELSE IF g = e.room.world THEN NoWorld ELSE g

FTyped ==
    /\ webhooks \in [Peers -> Seq(Event)]
    /\ last \in [Peers -> Worlds \cup {NoWorld}]
    /\ inRooms \in [Peers -> SUBSET Rooms]
Known == \A p \in Peers : \A room \in peerToRooms[p] : Tracked(room)
InLast(p) == last[p] # NoWorld => last[p] \in DclNames /\ CommsRoom(last[p]) \in inRooms[p]
Settled(p) == \A w \in Worlds : last[p] = w <=> EndsIn(webhooks[p], peerToWorld[p], w)

FInv == /\ IInv /\ FTyped /\ Known
        /\ \A p \in Peers : InLast(p) /\ (p \notin disordered => Settled(p))

LEMMA WithoutFacts ==
    ASSUME NEW S, NEW s \in Seq(S), NEW i \in 1 .. Len(s)
    PROVE  /\ Without(s, i) \in Seq(S) /\ Len(Without(s, i)) = Len(s) - 1
           /\ \A k \in 1 .. Len(s) - 1 : Without(s, i)[k] = IF k < i THEN s[k] ELSE s[k + 1]
<1> DEFINE a == SubSeq(s, 1, i - 1)
           b == SubSeq(s, i + 1, Len(s))
<1>1. Len(s) \in Nat /\ i \in Nat
  OBVIOUS
<1>2. a \in Seq(S) /\ Len(a) = i - 1 /\ \A k \in 1 .. i - 1 : a[k] = s[k]
  BY <1>1
<1>3. b \in Seq(S) /\ Len(b) = Len(s) - i /\ \A k \in 1 .. Len(s) - i : b[k] = s[i + k]
  BY <1>1
<1> HIDE DEF a, b
<1>4. a \o b \in Seq(S) /\ Len(a \o b) = Len(s) - 1
  <2>1. a \o b \in Seq(S) /\ Len(a \o b) = Len(a) + Len(b)
    BY <1>2, <1>3, ConcatProperties
  <2> QED BY <1>1, <1>2, <1>3, <2>1
<1>5. ASSUME NEW k \in 1 .. Len(s) - 1
      PROVE  (a \o b)[k] = IF k < i THEN s[k] ELSE s[k + 1]
  <2>1. k \in 1 .. Len(a) + Len(b)
    BY <1>1, <1>2, <1>3
  <2>2. (a \o b)[k] = IF k <= Len(a) THEN a[k] ELSE b[k - Len(a)]
    BY <1>2, <1>3, <2>1, ConcatProperties
  <2>3. CASE k < i
    BY <1>1, <1>2, <2>2, <2>3
  <2>4. CASE i <= k
    <3> DEFINE m == k - (i - 1)
               l == i + m
    <3>1. m \in 1 .. Len(s) - i /\ l = k + 1 /\ ~(k < i)
      BY <1>1, <2>4
    <3>2. (a \o b)[k] = b[m]
      BY <1>1, <1>2, <2>2, <2>4
    <3> HIDE DEF m
    <3>3. b[m] = s[l]
      BY <1>3, <3>1
    <3> HIDE DEF l
    <3> QED BY <3>1, <3>2, <3>3
  <2>5. k < i \/ i <= k
    BY <1>1
  <2> QED BY <2>3, <2>4, <2>5
<1> QED BY <1>4, <1>5 DEF Without, a, b

LEMMA AppendEnds ==
    ASSUME NEW s \in Seq(Event), NEW e \in Event, NEW g, NEW w
    PROVE  EndsIn(Append(s, e), g, w) <=> IF e.event = "joined" THEN e.room.world = w
                                          ELSE EndsIn(s, g, w) /\ e.room.world # w
<1> DEFINE t == Append(s, e)
           n == Len(s) + 1
<1>1. Len(s) \in Nat /\ Len(t) = n /\ t[n] = e /\ \A k \in 1 .. Len(s) : t[k] = s[k]
  OBVIOUS
<1>2. e.event \in {"joined", "left"}
  BY DEF Event
<1> HIDE DEF t
<1>3. CASE e.event = "joined"
  <2>1. ~Leaving(t[n], w) /\ n \in 1 .. Len(t)
    BY <1>1, <1>3 DEF Leaving
  <2>2. EndsIn(t, g, w) => e.room.world = w
    BY <1>1, <2>1 DEF EndsIn
  <2>3. e.room.world = w => EndsIn(t, g, w)
    BY <1>1, <1>3, <2>1 DEF EndsIn
  <2> QED BY <1>3, <2>2, <2>3 DEF t
<1>4. CASE e.event = "left"
  <2>1. EndsIn(s, g, w) /\ e.room.world # w => EndsIn(t, g, w)
    <3> SUFFICES ASSUME EndsIn(s, g, w), e.room.world # w PROVE EndsIn(t, g, w)
      OBVIOUS
    <3>1. Leaving(t[n], w)
      BY <1>1, <1>4 DEF Leaving
    <3>2. 1 .. Len(t) = 1 .. Len(s) \cup {n}
      BY <1>1
    <3> QED BY <1>1, <3>1, <3>2 DEF EndsIn
  <2>2. EndsIn(t, g, w) => EndsIn(s, g, w) /\ e.room.world # w
    <3> SUFFICES ASSUME EndsIn(t, g, w) PROVE EndsIn(s, g, w) /\ e.room.world # w
      OBVIOUS
    <3>1. n \in 1 .. Len(t) /\ 1 .. Len(s) \subseteq 1 .. Len(t) /\ \A j \in 1 .. Len(t) : j # n => j \in 1 .. Len(s) /\ n > j
      BY <1>1
    <3>2. t[n].event # "joined"
      BY <1>1, <1>4
    <3> QED BY <1>1, <3>1, <3>2 DEF EndsIn, Leaving
  <2> QED BY <1>4, <2>1, <2>2 DEF t
<1> QED BY <1>2, <1>3, <1>4

(* An event that arrives again while it is the oldest changes nothing.      *)
LEMMA RepeatedEnds ==
    ASSUME NEW s \in Seq(Event), s # <<>>, NEW g, NEW w, w # NoWorld
    PROVE  EndsIn(s, Moved(g, s[1]), w) <=> EndsIn(s, g, w)
<1>1. 1 \in 1 .. Len(s) /\ s[1] \in Event
  OBVIOUS
<1>2. (Moved(g, s[1]) = w /\ Leaving(s[1], w)) <=> (g = w /\ Leaving(s[1], w))
  BY DEF Moved, Leaving
<1> QED BY <1>1, <1>2 DEF EndsIn

(* One that arrives, in order or early without harm, moves the peer.        *)
LEMMA ArrivedEnds ==
    ASSUME NEW s \in Seq(Event), NEW i \in 1 .. Len(s), Overtakes(s, i), NEW g, NEW w, w # NoWorld
    PROVE  EndsIn(Without(s, i), Moved(g, s[i]), w) <=> EndsIn(s, g, w)
<1> DEFINE t == Without(s, i)
           n == Len(s)
           e == s[i]
           h == Moved(g, e)
<1>1. /\ Len(t) = n - 1 /\ n \in Nat /\ i \in 1 .. n
      /\ \A k \in 1 .. n - 1 : t[k] = IF k < i THEN s[k] ELSE s[k + 1]
  <2>1. Len(s) \in Nat
    OBVIOUS
  <2> QED BY <2>1, WithoutFacts
<1>2. /\ e.event \in {"joined", "left"}
      /\ \A k \in 1 .. i - 1 : s[k].event = "left" /\ e.event = "joined" /\ s[k].room.world # e.room.world
  <2>1. e \in Event
    OBVIOUS
  <2> QED BY <2>1 DEF Event, Overtakes
<1> HIDE DEF t, n, e, h
<1>3. ASSUME EndsIn(s, g, w) PROVE EndsIn(t, h, w)
  <2>1. CASE g = w /\ \A k \in 1 .. n : Leaving(s[k], w)
    <3>1. h = w
      BY <1>1, <2>1 DEF h, Moved, Leaving, e
    <3>2. \A k \in 1 .. n - 1 : Leaving(t[k], w)
      BY <1>1, <2>1
    <3> QED BY <1>1, <3>1, <3>2 DEF EndsIn
  <2>2. ASSUME NEW j \in 1 .. n, s[j].event = "joined", s[j].room.world = w,
               \A k \in 1 .. n : k > j => Leaving(s[k], w)
        PROVE  EndsIn(t, h, w)
    <3>1. i <= j
      <4>1. CASE j < i
        <5>1. j \in 1 .. i - 1
          BY <1>1, <4>1
        <5> QED BY <1>2, <2>2, <5>1
      <4> QED BY <1>1, <4>1
    <3>2. CASE i = j
      <4>1. h = w
        BY <2>2, <3>2 DEF h, Moved, e
      <4>2. \A k \in 1 .. n - 1 : Leaving(t[k], w)
        BY <1>1, <1>2, <2>2, <3>2 DEF Leaving, e
      <4> QED BY <1>1, <4>1, <4>2 DEF EndsIn
    <3>3. CASE i < j
      <4>1. j - 1 \in 1 .. n - 1 /\ t[j - 1] = s[j]
        BY <1>1, <3>3
      <4>2. \A k \in 1 .. n - 1 : k > j - 1 => Leaving(t[k], w)
        BY <1>1, <2>2, <3>3
      <4> QED BY <1>1, <2>2, <4>1, <4>2 DEF EndsIn
    <3> QED BY <1>1, <3>1, <3>2, <3>3
  <2> QED BY <1>3, <2>1, <2>2 DEF EndsIn, n
<1>4. ASSUME EndsIn(t, h, w) PROVE EndsIn(s, g, w)
  <2>1. CASE h = w /\ \A k \in 1 .. n - 1 : Leaving(t[k], w)
    <3>1. \A k \in 1 .. n : k > i => Leaving(s[k], w)
      <4> SUFFICES ASSUME NEW k \in 1 .. n, k > i PROVE Leaving(s[k], w)
        OBVIOUS
      <4>1. k - 1 \in 1 .. n - 1 /\ t[k - 1] = s[k]
        BY <1>1
      <4> QED BY <2>1, <4>1
    <3>2. CASE e.event = "joined"
      BY <1>1, <2>1, <3>1, <3>2 DEF EndsIn, n, e, h, Moved
    <3>3. CASE e.event = "left"
      <4>1. g = w /\ Leaving(s[i], w)
        BY <2>1, <3>3 DEF h, Moved, Leaving, e
      <4>2. i = 1
        <5>1. i - 1 \notin 1 .. i - 1
          BY <1>2, <3>3
        <5> QED BY <1>1, <5>1
      <4>3. \A k \in 1 .. n : Leaving(s[k], w)
        BY <1>1, <3>1, <4>1, <4>2
      <4> QED BY <4>1, <4>3 DEF EndsIn, n
    <3> QED BY <1>2, <3>2, <3>3
  <2>2. ASSUME NEW j \in 1 .. n - 1, t[j].event = "joined", t[j].room.world = w,
               \A k \in 1 .. n - 1 : k > j => Leaving(t[k], w)
        PROVE  EndsIn(s, g, w)
    <3>1. i <= j
      <4>1. CASE j < i
        <5>1. j \in 1 .. i - 1 /\ t[j] = s[j]
          BY <1>1, <4>1
        <5> QED BY <1>2, <2>2, <5>1
      <4> QED BY <1>1, <4>1
    <3>2. j + 1 \in 1 .. n /\ s[j + 1] = t[j]
      BY <1>1, <3>1
    <3>3. \A k \in 1 .. n : k > j + 1 => Leaving(s[k], w)
      <4> SUFFICES ASSUME NEW k \in 1 .. n, k > j + 1 PROVE Leaving(s[k], w)
        OBVIOUS
      <4>1. k - 1 \in 1 .. n - 1 /\ t[k - 1] = s[k] /\ k - 1 > j
        BY <1>1, <3>1
      <4> QED BY <2>2, <4>1
    <3> QED BY <2>2, <3>2, <3>3 DEF EndsIn, n
  <2> QED BY <1>1, <1>4, <2>1, <2>2 DEF EndsIn
<1> QED BY <1>3, <1>4 DEF t, h, e

-----------------------------------------------------------------------------
(* Steps of the registry and of LiveKit                                     *)

LEMMA RoomsOfOneWorld ==
    ASSUME NEW x \in Rooms, Tracked(x)
    PROVE  x = CommsRoom(x.world) /\ x.world \in DclNames /\ x.world \in Worlds
  BY DEF Rooms, Tracked, CommsRoom

(* Of a peer of whom nothing is left, nothing is pending.                   *)
LEMMA GoneSettles ==
    ASSUME NEW p \in Peers, NEW D, Disorder(D), p \in D, p \notin disordered', IInv', FTyped', InLast(p)'
    PROVE  Settled(p)'
<1>1. webhooks'[p] = <<>> /\ peerToRooms'[p] = {} /\ inRooms'[p] = {}
  BY DEF Disorder, Gone, getPeerRooms
<1>2. peerToWorld'[p] = NoWorld
  BY <1>1 DEF IInv, IndexesAgree
<1>3. last'[p] = NoWorld
  BY <1>1 DEF InLast
<1>4. Len(webhooks'[p]) = 0
  BY <1>1
<1>5. \A w \in Worlds : ~EndsIn(webhooks'[p], peerToWorld'[p], w)
  BY <1>2, <1>4, NoWorldAssumption DEF EndsIn
<1> QED BY <1>3, <1>5, NoWorldAssumption DEF Settled

LEMMA SameFollows ==
    ASSUME FInv, UNCHANGED <<registry, inRooms, webhooks, disordered, last>>
    PROVE  FInv'
  BY DEF FInv, IInv, RegistryTypeOK, IndexesAgree, registry, FTyped, Known, InLast, Settled

(* A room that is left is told, if it is followed.                          *)
LEMMA LeavesFollows ==
    ASSUME FInv, NEW p \in Peers, NEW room \in Rooms, Leaves(p, room), UNCHANGED <<registry, disordered>>
    PROVE  FInv'
<1>1. /\ inRooms' = [inRooms EXCEPT ![p] = @ \ {room}] /\ Tell(p, "left", room)
      /\ last' = IF Tracked(room) /\ last[p] = room.world THEN [last EXCEPT ![p] = NoWorld] ELSE last
  BY DEF Leaves
<1>2. IInv' /\ Known' /\ peerToWorld' = peerToWorld
  BY DEF FInv, IInv, RegistryTypeOK, IndexesAgree, registry, Known
<1> DEFINE e == [event |-> "left", room |-> room]
<1>3. CASE ~Tracked(room)
  <2>1. webhooks' = webhooks /\ last' = last
    BY <1>1, <1>3 DEF Tell
  <2>2. FTyped'
    BY <1>1, <2>1 DEF FInv, FTyped
  <2>3. ASSUME NEW q \in Peers PROVE InLast(q)'
    <3>1. last[q] \in DclNames => CommsRoom(last[q]) # room
      BY <1>3 DEF Tracked, CommsRoom
    <3> QED BY <1>1, <2>1, <3>1 DEF FInv, FTyped, InLast
  <2>4. ASSUME NEW q \in Peers PROVE Settled(q)' = Settled(q)
    BY <1>2, <2>1 DEF Settled
  <2> QED BY <1>2, <2>2, <2>3, <2>4 DEF FInv
<1>4. CASE Tracked(room)
  <2>1. e \in Event /\ e.event = "left" /\ e.room = room /\ room = CommsRoom(room.world) /\ room.world \in Worlds
    BY <1>4, RoomsOfOneWorld DEF Event
  <2>2. webhooks' = [webhooks EXCEPT ![p] = Append(@, e)]
    BY <1>1, <1>4 DEF Tell
  <2> HIDE DEF e
  <2>3. webhooks[p] \in Seq(Event) /\ Append(webhooks[p], e) \in Seq(Event)
    BY <2>1 DEF FInv, FTyped
  <2>4. FTyped'
    BY <1>1, <2>2, <2>3 DEF FInv, FTyped
  <2>5. last'[p] = IF last[p] = room.world THEN NoWorld ELSE last[p]
    BY <1>1, <1>4 DEF FInv, FTyped
  <2>6. ASSUME NEW q \in Peers, q # p PROVE InLast(q)' /\ Settled(q)' = Settled(q)
    BY <1>1, <1>2, <2>2, <2>6 DEF FInv, FTyped, InLast, Settled
  <2>7. InLast(p)'
    <3>1. last[p] # room.world => CommsRoom(last[p]) # room
      BY DEF CommsRoom
    <3> QED BY <1>1, <2>5, <3>1 DEF FInv, FTyped, InLast
  <2>8. Settled(p) => Settled(p)'
    <3> SUFFICES ASSUME Settled(p), NEW w \in Worlds
                 PROVE  last'[p] = w <=> EndsIn(webhooks'[p], peerToWorld'[p], w)
      BY DEF Settled
    <3>1. EndsIn(Append(webhooks[p], e), peerToWorld[p], w)
             <=> EndsIn(webhooks[p], peerToWorld[p], w) /\ room.world # w
      BY <2>1, <2>3, AppendEnds
    <3>2. webhooks'[p] = Append(webhooks[p], e)
      BY <2>2 DEF FInv, FTyped
    <3> QED BY <1>2, <2>5, <3>1, <3>2, NoWorldAssumption DEF Settled
  <2> QED BY <1>2, <2>4, <2>6, <2>7, <2>8 DEF FInv
<1> QED BY <1>3, <1>4

LEMMA ConnectFollows ==
    ASSUME FInv, NEW p \in Peers, NEW room \in Joinable, Connect(p, room)
    PROVE  FInv'
<1>1. /\ inRooms' = [inRooms EXCEPT ![p] = @ \cup {room}] /\ Tell(p, "joined", room)
      /\ last' = IF Tracked(room) THEN [last EXCEPT ![p] = room.world] ELSE last
      /\ UNCHANGED <<registry, disordered>>
  BY DEF Connect
<1>2. IInv' /\ Known' /\ peerToWorld' = peerToWorld
  BY <1>1 DEF FInv, IInv, RegistryTypeOK, IndexesAgree, registry, Known
<1>3. room \in Rooms
  BY PresenceAssumption
<1> DEFINE e == [event |-> "joined", room |-> room]
<1>4. CASE ~Tracked(room)
  <2>1. webhooks' = webhooks /\ last' = last
    BY <1>1, <1>4 DEF Tell
  <2> QED BY <1>1, <1>2, <1>3, <2>1 DEF FInv, FTyped, InLast, Settled
<1>5. CASE Tracked(room)
  <2>1. /\ e \in Event /\ e.event = "joined" /\ e.room = room /\ room = CommsRoom(room.world)
        /\ room.world \in Worlds /\ room.world \in DclNames
    BY <1>3, <1>5, RoomsOfOneWorld DEF Event
  <2>2. webhooks' = [webhooks EXCEPT ![p] = Append(@, e)]
    BY <1>1, <1>5 DEF Tell
  <2> HIDE DEF e
  <2>3. webhooks[p] \in Seq(Event) /\ Append(webhooks[p], e) \in Seq(Event)
    BY <2>1 DEF FInv, FTyped
  <2>4. last' = [last EXCEPT ![p] = room.world]
    BY <1>1, <1>5
  <2>5. FTyped'
    BY <1>1, <1>3, <2>1, <2>2, <2>3, <2>4 DEF FInv, FTyped
  <2>6. ASSUME NEW q \in Peers, q # p PROVE InLast(q)' /\ Settled(q)' = Settled(q)
    BY <1>1, <1>2, <2>2, <2>4, <2>6 DEF FInv, FTyped, InLast, Settled
  <2>7. InLast(p)'
    BY <1>1, <2>1, <2>4 DEF FInv, FTyped, InLast
  <2>8. Settled(p)'
    <3> SUFFICES ASSUME NEW w \in Worlds
                 PROVE  last'[p] = w <=> EndsIn(webhooks'[p], peerToWorld'[p], w)
      BY DEF Settled
    <3>1. EndsIn(Append(webhooks[p], e), peerToWorld[p], w) <=> room.world = w
      BY <2>1, <2>3, AppendEnds
    <3>2. webhooks'[p] = Append(webhooks[p], e) /\ last'[p] = room.world
      BY <2>2, <2>4 DEF FInv, FTyped
    <3> QED BY <1>2, <3>1, <3>2
  <2> QED BY <1>1, <1>2, <2>5, <2>6, <2>7, <2>8 DEF FInv
<1> QED BY <1>4, <1>5

(* A webhook moves its peer, in the registry, and no other.                 *)
LEMMA WebhookMoves ==
    ASSUME FInv, NEW p \in Peers, NEW e \in Event,
           \/ e.event = "joined" /\ onPeerConnected(p, e.room)
           \/ e.event = "left" /\ onPeerDisconnected(p, e.room)
    PROVE  /\ IInv' /\ Known'
           /\ peerToWorld'[p] = Moved(peerToWorld[p], e)
           /\ \A q \in Peers \ {p} : peerToWorld'[q] = peerToWorld[q]
<1> DEFINE room == e.room
<1>1. room \in Rooms /\ Tracked(room) /\ room = CommsRoom(room.world) /\ room.world \in Worlds
  BY RoomsOfOneWorld DEF Event
<1>2. IInv /\ Known /\ RegistryTypeOK
  BY DEF FInv, IInv
<1>3. CASE e.event = "joined" /\ onPeerConnected(p, room)
  <2>1. IInv'
    BY <1>1, <1>2, <1>3, ConnectedKeeps
  <2>2. peerToWorld' = [peerToWorld EXCEPT ![p] = room.world]
    BY <1>3 DEF onPeerConnected, extractWorldName
  <2>3. \E S \in {{}, peerToRooms[p]} : peerToRooms' = [peerToRooms EXCEPT ![p] = S \cup {room}]
    BY <1>3 DEF onPeerConnected
  <2>4. Known'
    BY <1>1, <1>2, <2>3 DEF Known, RegistryTypeOK
  <2> QED BY <1>2, <1>3, <2>1, <2>2, <2>4 DEF RegistryTypeOK, Moved
<1>4. CASE e.event = "left" /\ onPeerDisconnected(p, room) /\ peerToWorld[p] # room.world
  <2>1. UNCHANGED registry
    BY <1>4 DEF onPeerDisconnected, extractWorldName
  <2> QED BY <1>2, <1>4, <2>1 DEF registry, IInv, RegistryTypeOK, IndexesAgree, Known, Moved
<1>5. CASE e.event = "left" /\ onPeerDisconnected(p, room) /\ peerToWorld[p] = room.world
  <2>1. IInv'
    BY <1>1, <1>2, <1>5, DisconnectedKeeps
  <2>2. peerToRooms[p] \ {room} = {}
    <3>1. \A x \in peerToRooms[p] : x \in Rooms /\ Tracked(x) /\ x.world = room.world
      BY <1>2, <1>5 DEF IInv, RegistryTypeOK, IndexesAgree, Known, extractWorldName
    <3> QED BY <1>1, <3>1, RoomsOfOneWorld
  <2>3. peerToRooms' = [peerToRooms EXCEPT ![p] = {}] /\ peerToWorld' = [peerToWorld EXCEPT ![p] = NoWorld]
    BY <1>5, <2>2 DEF onPeerDisconnected, extractWorldName
  <2>4. Known'
    BY <1>2, <2>3 DEF Known, RegistryTypeOK
  <2> QED BY <1>2, <1>5, <2>1, <2>3, <2>4 DEF RegistryTypeOK, Moved
<1> QED BY <1>3, <1>4, <1>5

LEMMA WebhookFollows ==
    ASSUME FInv, NEW p \in Peers, NEW i \in 1 .. MaxWebhooks, Webhook(p, i)
    PROVE  FInv'
<1> DEFINE s == webhooks[p]
           e == s[i]
           D == IF Overtakes(s, i) THEN disordered ELSE disordered \cup {p}
<1>1. /\ i \in 1 .. Len(s)
      /\ \/ e.event = "joined" /\ onPeerConnected(p, e.room)
         \/ e.event = "left" /\ onPeerDisconnected(p, e.room)
      /\ \/ webhooks' = [webhooks EXCEPT ![p] = Without(@, i)]
         \/ i = 1 /\ UNCHANGED webhooks
      /\ Disorder(D) /\ UNCHANGED <<inRooms, last>>
  BY DEF Webhook
<1>2. s \in Seq(Event) /\ e \in Event
  BY <1>1 DEF FInv, FTyped
<1>3. /\ IInv' /\ Known'
      /\ peerToWorld'[p] = Moved(peerToWorld[p], e)
      /\ \A q \in Peers \ {p} : peerToWorld'[q] = peerToWorld[q]
  BY <1>1, <1>2, WebhookMoves
<1>4. Without(s, i) \in Seq(Event)
  BY <1>1, <1>2, WithoutFacts
<1> HIDE DEF s, e
<1>5. FTyped' /\ \A q \in Peers \ {p} : webhooks'[q] = webhooks[q]
  BY <1>1, <1>4 DEF FInv, FTyped, s
<1>6. \A q \in Peers : InLast(q)'
  BY <1>1 DEF FInv, InLast
<1>7. ASSUME NEW q \in Peers, q \notin disordered' PROVE Settled(q)'
  <2>1. CASE q \in D
    BY <1>1, <1>3, <1>5, <1>6, <1>7, <2>1, GoneSettles
  <2>2. CASE q \notin D /\ q # p
    BY <1>1, <1>3, <1>5, <2>2 DEF FInv, Settled
  <2>3. CASE q \notin D /\ q = p
    <3>1. Overtakes(s, i) /\ Settled(p)
      BY <2>3 DEF FInv
    <3>2. ASSUME NEW w \in Worlds
          PROVE  EndsIn(webhooks'[p], Moved(peerToWorld[p], e), w) <=> EndsIn(s, peerToWorld[p], w)
      <4>1. w # NoWorld
        BY NoWorldAssumption
      <4>2. CASE webhooks' = [webhooks EXCEPT ![p] = Without(@, i)]
        <5>1. webhooks'[p] = Without(s, i)
          BY <4>2 DEF FInv, FTyped, s
        <5> QED BY <1>1, <1>2, <3>1, <4>1, <5>1, ArrivedEnds DEF e
      <4>3. CASE i = 1 /\ UNCHANGED webhooks
        <5>1. s # <<>> /\ e = s[1] /\ webhooks'[p] = s
          BY <1>1, <4>3 DEF e, s
        <5> QED BY <1>2, <4>1, <5>1, RepeatedEnds
      <4> QED BY <1>1, <4>2, <4>3
    <3> QED BY <1>1, <1>3, <2>3, <3>1, <3>2 DEF Settled, s
  <2> QED BY <2>1, <2>2, <2>3
<1> QED BY <1>3, <1>5, <1>6, <1>7 DEF FInv

LEMMA LoseFollows ==
    ASSUME FInv, NEW p \in Peers, Lose(p)
    PROVE  FInv'
<1>1. /\ webhooks[p] # <<>> /\ webhooks' = [webhooks EXCEPT ![p] = Tail(@)]
      /\ Disorder(disordered \cup {p}) /\ UNCHANGED <<registry, inRooms, last>>
  BY DEF Lose
<1>2. Tail(webhooks[p]) \in Seq(Event)
  BY <1>1 DEF FInv, FTyped
<1>3. FTyped' /\ \A q \in Peers \ {p} : webhooks'[q] = webhooks[q]
  BY <1>1, <1>2 DEF FInv, FTyped
<1>4. IInv' /\ Known'
  BY <1>1 DEF FInv, IInv, RegistryTypeOK, IndexesAgree, registry, Known
<1>5. \A q \in Peers : InLast(q)'
  BY <1>1 DEF FInv, InLast
<1>6. ASSUME NEW q \in Peers, q \notin disordered' PROVE Settled(q)'
  <2>1. CASE q \in disordered \cup {p}
    BY <1>1, <1>3, <1>4, <1>5, <1>6, <2>1, GoneSettles
  <2>2. CASE q \notin disordered \cup {p}
    BY <1>1, <1>3, <2>2 DEF FInv, Settled, registry
  <2> QED BY <2>1, <2>2
<1> QED BY <1>3, <1>4, <1>5, <1>6 DEF FInv

LEMMA RestartFollows ==
    ASSUME FInv, Restart
    PROVE  FInv'
<1>1. Forgotten /\ Disorder(Peers) /\ UNCHANGED <<inRooms, webhooks, last>>
  BY DEF Restart
<1>2. IInv'
  BY <1>1, ForgottenKeeps
<1>3. Known' /\ FTyped' /\ \A p \in Peers : InLast(p)'
  BY <1>1 DEF FInv, FTyped, InLast, Known, Forgotten
<1>4. ASSUME NEW p \in Peers, p \notin disordered' PROVE Settled(p)'
  BY <1>1, <1>2, <1>3, <1>4, GoneSettles
<1> QED BY <1>2, <1>3, <1>4 DEF FInv

-----------------------------------------------------------------------------
(* The invariant holds                                                      *)

PInv == KInv /\ FInv

LEMMA PresenceInitially == Init => PInv
<1> SUFFICES ASSUME Init PROVE PInv
  OBVIOUS
<1>1. IInv
  BY Initially DEF Init
<1>2. Typed /\ Located /\ Holding /\ OneHolder /\ Members
  BY FreshTyped DEF Init, Typed, Located, Holding, OneHolder, Members, OneMember, At, Fresh
<1>3. Covered
  BY DEF Init, Covered, Intruders
<1>4. FTyped /\ Known /\ \A p \in Peers : InLast(p)
  BY DEF Init, FTyped, Known, InLast, RegistryInit
<1>5. ASSUME NEW p \in Peers PROVE Settled(p)
  <2>1. Len(webhooks[p]) = 0 /\ peerToWorld[p] = NoWorld /\ last[p] = NoWorld
    BY DEF Init, RegistryInit
  <2> QED BY <2>1, NoWorldAssumption DEF Settled, EndsIn
<1> QED BY <1>1, <1>2, <1>3, <1>4, <1>5 DEF PInv, KInv, FInv

(* One step of the server.                                                  *)
LEMMA ServerKeeps ==
    ASSUME PInv, NEW r \in Requests, Server(r)
    PROVE  PInv'
<1>1. worldToPeers \in [Worlds -> SUBSET Peers] /\ peerToRooms \in [Peers -> SUBSET Rooms]
      /\ peerToWorld \in [Peers -> Worlds \cup {NoWorld}]
  BY DEF PInv, FInv, IInv, RegistryTypeOK
<1>2. KInv'
  <2>1. ASSUME NEW p \in Peers, NEW room \in Rooms, RemoveParticipant(r, p, room) PROVE KInv'
    BY <2>1, RemoveParticipantKeeps DEF PInv
  <2>2. ASSUME NEW p \in Peers, Check(r, p) \/ MemberRemoved(r, p) PROVE KInv'
    BY <1>1, <2>2, CheckKeeps, MemberRemovedKeeps DEF PInv
  <2>3. ASSUME NEW w \in Changing, NEW setting \in Settings, SetAccess(r, w, setting) PROVE KInv'
    BY <2>3, SetAccessKeeps DEF PInv
  <2>4. ASSUME NEW w \in Changing, NEW op \in AllOperations, NEW x \in Peers \cup Communities, Lock(r, w, op, x)
        PROVE  KInv'
    BY <2>4, LockKeeps DEF PInv
  <2>5. CASE Store(r) \/ Commit(r) \/ Fail(r) \/ Handle(r) \/ Filter(r) \/ MemberType(r) \/ MemberCheck(r) \/ StartBatch(r)
    BY <1>1, <2>5, SettingStoreKeeps, CommitKeeps, FailKeeps, HandleKeeps, FilterKeeps, MemberTypeKeeps,
       MemberCheckKeeps, StartBatchKeeps DEF PInv
  <2> QED BY <2>1, <2>2, <2>3, <2>4, <2>5 DEF Server
<1>3. FInv'
  <2>1. ASSUME NEW p \in Peers, NEW room \in Rooms, RemoveParticipant(r, p, room) PROVE FInv'
    <3>1. CASE Leaves(p, room) /\ UNCHANGED <<registry, disordered>>
      BY <3>1, LeavesFollows DEF PInv
    <3>2. CASE UNCHANGED <<registry, inRooms, webhooks, disordered, last>>
      BY <3>2, SameFollows DEF PInv
    <3> QED BY <2>1, <3>1, <3>2 DEF RemoveParticipant, Steps, external
  <2>2. ASSUME NEW p \in Peers, Check(r, p) \/ MemberRemoved(r, p) PROVE FInv'
    <3>1. UNCHANGED <<registry, inRooms, webhooks, disordered, last>>
      BY <2>2 DEF Check, MemberRemoved, Steps, external
    <3> QED BY <3>1, SameFollows DEF PInv
  <2>3. ASSUME NEW w \in Changing, NEW setting \in Settings, SetAccess(r, w, setting) PROVE FInv'
    <3>1. UNCHANGED <<registry, inRooms, webhooks, disordered, last>>
      BY <2>3 DEF SetAccess, Steps, external
    <3> QED BY <3>1, SameFollows DEF PInv
  <2>4. ASSUME NEW w \in Changing, NEW op \in AllOperations, NEW x \in Peers \cup Communities, Lock(r, w, op, x)
        PROVE  FInv'
    <3>1. UNCHANGED <<registry, inRooms, webhooks, disordered, last>>
      BY <2>4 DEF Lock, Steps, external
    <3> QED BY <3>1, SameFollows DEF PInv
  <2>5. CASE Store(r) \/ Commit(r) \/ Fail(r) \/ Handle(r) \/ Filter(r) \/ MemberType(r) \/ MemberCheck(r) \/ StartBatch(r)
    <3>1. UNCHANGED <<registry, inRooms, webhooks, disordered, last>>
      BY <2>5 DEF Store, Commit, StoreAccess, Fail, Handle, Filter, MemberType, MemberCheck, StartBatch, Steps, external
    <3> QED BY <3>1, SameFollows DEF PInv
  <2> QED BY <2>1, <2>2, <2>3, <2>4, <2>5 DEF Server
<1> QED BY <1>2, <1>3 DEF PInv

(* One step of LiveKit, the clients or the social service.                  *)
LEMMA EnvironmentKeeps ==
    ASSUME PInv, Environment
    PROVE  PInv'
<1>1. ASSUME NEW p \in Peers, NEW room \in Joinable, Connect(p, room) PROVE PInv'
  BY <1>1, ConnectKeeps, ConnectFollows DEF PInv
<1>2. ASSUME NEW p \in Peers, NEW room \in Joinable, Disconnect(p, room) PROVE PInv'
  <2>1. Leaves(p, room) /\ UNCHANGED <<registry, disordered>> /\ room \in Rooms
    BY <1>2, PresenceAssumption DEF Disconnect
  <2> QED BY <1>2, <2>1, DisconnectKeeps, LeavesFollows DEF PInv
<1>3. ASSUME NEW p \in Peers, Lose(p) PROVE PInv'
  <2>1. UNCHANGED <<access, members, inRooms, removedFrom, req, excused>>
    BY <1>3 DEF Lose
  <2> QED BY <1>3, <2>1, WebhooksKeep, LoseFollows DEF PInv
<1>4. ASSUME NEW p \in Peers, NEW i \in 1 .. MaxWebhooks, Webhook(p, i) PROVE PInv'
  <2>1. UNCHANGED <<access, members, inRooms, removedFrom, req, excused>>
    BY <1>4 DEF Webhook
  <2> QED BY <1>4, <2>1, WebhooksKeep, WebhookFollows DEF PInv
<1>5. ASSUME NEW p \in Peers, NEW c \in Communities, LeaveCommunity(p, c) PROVE PInv'
  <2>1. UNCHANGED <<registry, inRooms, webhooks, disordered, last>>
    BY <1>5 DEF LeaveCommunity
  <2> QED BY <1>5, <2>1, LeaveCommunityKeeps, SameFollows DEF PInv
<1> QED BY <1>1, <1>2, <1>3, <1>4, <1>5 DEF Environment

LEMMA PresenceInvariant == Spec => []PInv
<1>1. PInv /\ [Next]_vars => PInv'
  <2> SUFFICES ASSUME PInv, [Next]_vars PROVE PInv'
    OBVIOUS
  <2>1. CASE UNCHANGED vars
    BY <2>1, WebhooksKeep, SameFollows DEF PInv, vars
  <2>2. CASE Restart
    BY <2>2, RestartKeeps, RestartFollows DEF PInv
  <2> QED BY <2>1, <2>2, ServerKeeps, EnvironmentKeeps DEF Next
<1> QED BY <1>1, PresenceInitially, PTL DEF Spec

-----------------------------------------------------------------------------
(* The theorems                                                             *)

(* IntrudersHaveAReason, for any peers, worlds, batches and webhooks: who   *)
(* has no access is excused, or some request or event has still to see to   *)
(* it, so that when all is quiet only the excused are left.                 *)
THEOREM NobodyIsForgotten == Spec => []IntrudersHaveAReason
<1>1. PInv => IntrudersHaveAReason
  <2> SUFFICES ASSUME PInv, Quiet, NEW w \in DclNames, NEW p \in Intruders(w) \ Privileged(w)
               PROVE  <<p, w>> \in excused
    BY DEF IntrudersHaveAReason
  <2>1. ~Announced(p, w)
    BY DEF Quiet, Announced
  <2>2. \A r \in Requests : ~Due(req[r], p, w)
    BY DEF Quiet, At, Due
  <2> QED BY <2>1, <2>2, PresenceAssumption DEF PInv, KInv, Covered
<1> QED BY <1>1, PresenceInvariant, PTL

(* RegistryFollowsLastJoin, however the webhooks of a peer are delayed,     *)
(* repeated or overtaken without harm: what is still to arrive leads the    *)
(* registry to the world the peer joined last.                              *)
THEOREM RegistryCatchesUp == Spec => []RegistryFollowsLastJoin
<1>1. PInv => RegistryFollowsLastJoin
  <2> SUFFICES ASSUME PInv, NEW p \in Peers, webhooks[p] = <<>>, p \notin disordered
               PROVE  peerToRooms[p] = {room \in inRooms[p] : Tracked(room) /\ room.world = last[p]}
    BY DEF RegistryFollowsLastJoin, Told, getPeerRooms
  <2>1. Len(webhooks[p]) = 0
    OBVIOUS
  <2>2. \A w \in Worlds : last[p] = w <=> peerToWorld[p] = w
    BY <2>1 DEF PInv, FInv, Settled, EndsIn
  <2>3. /\ \A x \in peerToRooms[p] : x \in Rooms /\ Tracked(x) /\ x.world = peerToWorld[p]
        /\ peerToRooms[p] = {} <=> peerToWorld[p] = NoWorld
        /\ peerToWorld[p] \in Worlds \cup {NoWorld} /\ last[p] \in Worlds \cup {NoWorld}
        /\ inRooms[p] \subseteq Rooms
    BY DEF PInv, FInv, IInv, RegistryTypeOK, IndexesAgree, Known, FTyped, extractWorldName
  <2>4. \A x \in Rooms : Tracked(x) => x = CommsRoom(x.world) /\ x.world \in Worlds
    BY RoomsOfOneWorld
  <2>5. CASE last[p] = NoWorld
    BY <2>2, <2>3, <2>4, <2>5, NoWorldAssumption
  <2>6. CASE last[p] \in Worlds
    <3>1. CommsRoom(last[p]) \in inRooms[p] /\ last[p] \in DclNames
      BY <2>6, NoWorldAssumption DEF PInv, FInv, InLast
    <3>2. peerToWorld[p] = last[p] /\ peerToRooms[p] # {}
      BY <2>2, <2>3, <2>6, NoWorldAssumption
    <3>3. Tracked(CommsRoom(last[p])) /\ CommsRoom(last[p]).world = last[p]
      BY <3>1 DEF Tracked, CommsRoom
    <3>4. peerToRooms[p] = {CommsRoom(last[p])}
      BY <2>3, <2>4, <3>2
    <3>5. \A x \in inRooms[p] : Tracked(x) /\ x.world = last[p] => x = CommsRoom(last[p])
      BY <2>3, <2>4
    <3> QED BY <3>1, <3>3, <3>4, <3>5
  <2> QED BY <2>3, <2>5, <2>6
<1> QED BY <1>1, PresenceInvariant, PTL

(* What a modifier does to one entry, and that it does nothing else.        *)
LEMMA ModifiedIsLocal ==
    ASSUME NEW a \in Setting, NEW op, NEW x,
           op \in {"addWallet", "removeWallet", "addCommunity", "removeCommunity"}
    PROVE  LET b == Modified(op, a, x)
           IN  /\ b.type = a.type
               /\ a.wallets \cup {x} = b.wallets \cup {x} \/ a.wallets = b.wallets
               /\ a.communities \cup {x} = b.communities \cup {x} \/ a.communities = b.communities
<1>1. CASE op = "addWallet"
  BY <1>1 DEF Modified, Setting
<1>2. CASE op = "removeWallet"
  BY <1>2 DEF Modified, Setting
<1>3. CASE op = "addCommunity"
  BY <1>3 DEF Modified, Setting
<1>4. CASE op = "removeCommunity"
  BY <1>4 DEF Modified, Setting
<1> QED BY <1>1, <1>2, <1>3, <1>4

(* Only Store and Commit write an access, each that of its own request.     *)
LEMMA OnlyStoresWrite ==
    ASSUME PInv, Next, access' # access
    PROVE  \E s \in Requests : /\ Store(s) \/ Commit(s)
                               /\ access' = [access EXCEPT ![req[s].world] = req[s].next]
                               /\ \A r \in Requests \ {s} : req'[r] = req[r]
<1>1. ~Restart
  BY DEF Restart
<1>2. ~Environment
  BY DEF Environment, Connect, Disconnect, Lose, Webhook, LeaveCommunity
<1>3. PICK s \in Requests : Server(s)
  BY <1>1, <1>2 DEF Next
<1>4. Store(s) \/ Commit(s)
  <2>1. ASSUME NEW q, NEW E, Steps(s, q, E) PROVE FALSE
    BY <2>1 DEF Steps
  <2>2. /\ \A p \in Peers, room \in Rooms : ~RemoveParticipant(s, p, room)
        /\ \A p \in Peers : ~MemberRemoved(s, p)
    BY DEF RemoveParticipant, MemberRemoved, Steps
  <2>3. \A w \in Changing, setting \in Settings : ~SetAccess(s, w, setting)
    BY DEF SetAccess, Steps
  <2>4. \A w \in Changing, op \in AllOperations, x \in Peers \cup Communities : ~Lock(s, w, op, x)
    BY DEF Lock, Steps
  <2>5. ~Fail(s) /\ ~Handle(s) /\ ~Filter(s) /\ ~MemberType(s) /\ ~MemberCheck(s) /\ ~StartBatch(s)
    BY DEF Fail, Handle, Filter, MemberType, MemberCheck, StartBatch, Steps
  <2>6. \A p \in Peers : ~Check(s, p)
    BY DEF Check, Steps
  <2> QED BY <1>3, <2>2, <2>3, <2>4, <2>5, <2>6 DEF Server
<1>5. /\ access' = [access EXCEPT ![req[s].world] = req[s].next]
      /\ \A r \in Requests \ {s} : req'[r] = req[r]
  BY <1>4 DEF Store, Commit, StoreAccess, Become, PInv, KInv, Typed
<1> QED BY <1>4, <1>5

(* ChangesAreLocal, for any number of changes in progress: the holder of a  *)
(* world's row knows its access until it writes it, as no other change can  *)
(* write that row meanwhile.                                                *)
THEOREM EachChangeIsLocal == Spec => ChangesAreLocal
<1> DEFINE Local(r) ==
             LET a == access[req[r].world]
                 b == access'[req[r].world]
             IN  At(r, "locked") /\ req'[r] # req[r] /\ access' # access =>
                    /\ a.type = "allow-list" /\ b.type = "allow-list"
                    /\ a.wallets \cup {req[r].subject} = b.wallets \cup {req[r].subject}
                       \/ a.wallets = b.wallets
                    /\ a.communities \cup {req[r].subject} = b.communities \cup {req[r].subject}
                       \/ a.communities = b.communities
<1>1. PInv /\ [Next]_vars => [\A r \in Requests : Local(r)]_vars
  <2> SUFFICES ASSUME PInv, Next, NEW r \in Requests,
                      At(r, "locked"), req'[r] # req[r], access' # access
               PROVE  Local(r)
    OBVIOUS
  <2>1. /\ Commit(r)
        /\ access' = [access EXCEPT ![req[r].world] = req[r].next]
    BY OnlyStoresWrite DEF Store, At
  <2>2. PICK w \in Worlds : req[r].world = w
    BY DEF PInv, KInv, Located, At
  <2>3. /\ access[w] = req[r].prev /\ access[w].type = "allow-list" /\ access[w] \in Setting
        /\ req[r].op \in {"addWallet", "removeWallet", "addCommunity", "removeCommunity"}
        /\ req[r].next = Modified(req[r].op, access[w], req[r].subject)
    BY <2>2 DEF PInv, KInv, Typed, Holding, Holds
  <2>4. access'[w] = Modified(req[r].op, access[w], req[r].subject)
    BY <2>1, <2>2, <2>3 DEF PInv, KInv, Typed
  <2> QED BY <2>2, <2>3, <2>4, ModifiedIsLocal
<1> QED BY <1>1, PresenceInvariant, PTL DEF Spec, ChangesAreLocal

(* The registry is fed by steps of the registry's own specification, and    *)
(* by the restarts.                                                         *)
LEMMA RegistryWithin == Spec => RegistrySpec
<1>1. Init => RegistryInit
  BY DEF Init
<1>2. PInv /\ [Next]_vars => [RegistryNext]_registry
  <2> SUFFICES ASSUME PInv, [Next]_vars, registry' # registry
               PROVE  RegistryNext
    OBVIOUS
  <2>1. Next
    BY DEF vars, registry
  <2>2. CASE Restart
    BY <2>2 DEF Restart, RegistryNext
  <2>3. ASSUME NEW p \in Peers, NEW i \in 1 .. MaxWebhooks, Webhook(p, i) PROVE RegistryNext
    <3>1. webhooks[p] \in Seq(Event) /\ i \in 1 .. Len(webhooks[p])
      BY <2>3 DEF Webhook, PInv, FInv, FTyped
    <3>2. webhooks[p][i] \in Event
      BY <3>1
    <3>3. webhooks[p][i].room \in Rooms
      BY <3>2 DEF Event
    <3> QED BY <2>3, <3>3 DEF Webhook, RegistryNext
  <2>4. CASE Environment
    <3>1. \A p \in Peers, room \in Joinable : ~Connect(p, room) /\ ~Disconnect(p, room)
      BY DEF Connect, Disconnect
    <3>2. \A p \in Peers : ~Lose(p) /\ \A c \in Communities : ~LeaveCommunity(p, c)
      BY DEF Lose, LeaveCommunity
    <3> QED BY <2>3, <2>4, <3>1, <3>2 DEF Environment
  <2>5. ASSUME NEW r \in Requests, Server(r) PROVE FALSE
    <3>1. /\ \A p \in Peers, room \in Rooms : ~RemoveParticipant(r, p, room)
          /\ \A p \in Peers : ~MemberRemoved(r, p)
      BY DEF RemoveParticipant, MemberRemoved, Steps
    <3>2. \A w \in Changing, setting \in Settings : ~SetAccess(r, w, setting)
      BY DEF SetAccess, Steps
    <3>3. \A w \in Changing, op \in AllOperations, x \in Peers \cup Communities : ~Lock(r, w, op, x)
      BY DEF Lock, Steps
    <3>4. ~Fail(r) /\ ~Handle(r) /\ ~Filter(r) /\ ~MemberType(r) /\ ~MemberCheck(r) /\ ~StartBatch(r)
      BY DEF Fail, Handle, Filter, MemberType, MemberCheck, StartBatch, Steps
    <3>5. \A p \in Peers : ~Check(r, p)
      BY DEF Check, Steps
    <3>6. ~Store(r) /\ ~Commit(r)
      BY DEF Store, Commit, StoreAccess
    <3> QED BY <2>5, <3>1, <3>2, <3>3, <3>4, <3>5, <3>6 DEF Server
  <2> QED BY <2>1, <2>2, <2>4, <2>5 DEF Next
<1> QED BY <1>1, <1>2, PresenceInvariant, PTL DEF Spec, RegistrySpec

(* ImplementsPeerRooms, for the registry as the rest of the server and      *)
(* LiveKit use it: it is one that follows each peer into the world that it  *)
(* was last heard to join.                                                  *)
THEOREM PresenceImplementsPeerRooms == Spec => ImplementsPeerRooms
  BY RegistryWithin, RegistryImplementsPeerRooms, PTL
=============================================================================
