------------------------------ MODULE Presence ------------------------------
(***************************************************************************)
(* Who is in the rooms of the worlds, and who should be.  The access of a   *)
(* world is changed by its owner (logic/access), and a peer may lose its    *)
(* access with a community (community-member-removed-handler.ts); the       *)
(* server then finds in its registry the peers of the world and has LiveKit *)
(* remove those without access (access-change-handler, participant-kicker). *)
(* The registry is fed by LiveKit's webhooks, which may be late.            *)
(*                                                                          *)
(* One action is what runs between two awaits.  LiveKit, the clients, the   *)
(* social service and the database are external.                            *)
(***************************************************************************)
EXTENDS PeersRegistry, Integers, Sequences, FiniteSets

CONSTANTS
    DclNames,       \* the worlds whose name ends with .dcl.eth
    Joinable,       \* the rooms that peers join
    Owner(_),       \* the owner of a world
    Deployers,      \* wallets with a deployment permission
    Communities,
    Secrets, Knows, \* the shared secrets, and which peer knows which
    Settings,       \* what setAccess is asked for
    Changing,       \* the worlds whose access changes
    MaxWallets, MaxCommunities, kickBatchSize,
    Requests,       \* requests and events in progress
    Operations,     \* what they are for
    Nothing,        \* no ticket, no secret, no subject
    MaxWebhooks     \* bound: webhooks of one peer in flight

AllOperations == {"set", "addWallet", "removeWallet", "addCommunity", "removeCommunity"}

ASSUME PresenceAssumption ==
    /\ Joinable \subseteq Rooms
    /\ DclNames \subseteq Worlds /\ Changing \subseteq Worlds
    /\ kickBatchSize \in Nat \ {0} /\ MaxWebhooks \in Nat \ {0}
    /\ Operations \subseteq AllOperations

VARIABLES
    access,     \* worlds.access, committed
    members,    \* the social service: who is in which community
    inRooms,    \* LiveKit: the rooms each peer is in
    webhooks,   \* for each peer, what LiveKit has to tell of it, oldest first
    removedFrom,\* events of the queue: peers that left, or were removed from, a community
    req,        \* the requests
    excused,    \* history: why a peer without access is still in a world's room
    disordered, \* history: the peers whose webhooks were lost or came in a wrong order
    last        \* history: the world each peer joined last, if it is still there

external == <<members, inRooms, webhooks, disordered, last>>
vars == <<registry, access, members, inRooms, webhooks, removedFrom, req,
          excused, disordered, last>>

CommsRoom(w) == [kind |-> "comms", world |-> w]

Setting == [type : {"unrestricted", "allow-list", "shared-secret", "nft-ownership"},
            wallets : SUBSET Peers, communities : SUBSET Communities,
            secret : Secrets \cup {Nothing}]

ASSUME SettingsAssumption == Settings \subseteq Setting

defaultAccess == [type |-> "unrestricted", wallets |-> {}, communities |-> {}, secret |-> Nothing]

Privileged(w) == Deployers \cup {Owner(w)}

-----------------------------------------------------------------------------
(* Access                                                                   *)

IsMember(p, cs) == \E c \in cs : <<p, c>> \in members

\* What checkAccess may answer without a secret: the social service that fails is read as
\* "in no community".
checkAccess(p, w) ==
    LET a == access[w]
    IN  CASE a.type = "unrestricted" -> {TRUE}
          [] a.type = "allow-list" /\ p \in a.wallets -> {TRUE}
          [] a.type = "allow-list" /\ p \notin a.wallets -> {FALSE, IsMember(p, a.communities)}
          [] OTHER -> {FALSE}

\* Whether a peer that tells the secret it knows may enter.
Entitled(p, w) ==
    \/ p = Owner(w)
    \/ TRUE \in checkAccess(p, w)
    \/ access[w].type = "shared-secret" /\ <<p, access[w].secret>> \in Knows

\* A secret is hashed with a new salt each time: no two hashes are equal.
secretChanged(prev, next) == prev.type = "shared-secret" /\ next.type = "shared-secret"

allowListChanged(prev, next) ==
    /\ prev.type = "allow-list" /\ next.type = "allow-list"
    /\ prev.wallets # next.wallets \/ prev.communities # next.communities

\* The first rule that matches.
resolveAction(prev, next) ==
    CASE next.type = "unrestricted" -> "noKick"
      [] next.type # "unrestricted" /\ (prev.type # next.type \/ secretChanged(prev, next)) -> "kickAll"
      [] next.type = prev.type /\ allowListChanged(prev, next) -> "kickWithoutAccess"
      [] OTHER -> "noKick"

-----------------------------------------------------------------------------
Stages == {"idle", "store", "locked", "handle", "filter", "check", "type", "recheck", "kick"}

Fresh == [pc |-> "idle", op |-> "none", world |-> NoWorld, prev |-> defaultAccess, next |-> defaultAccess,
          subject |-> Nothing, stale |-> FALSE, todo |-> {}, lacking |-> {}, removals |-> {}]

TypeOK ==
    /\ RegistryTypeOK
    /\ access \in [Worlds -> Setting]
    /\ members \subseteq Peers \X Communities
    /\ inRooms \in [Peers -> SUBSET Joinable]
    /\ \A p \in Peers : Len(webhooks[p]) <= MaxWebhooks
    /\ removedFrom \subseteq Peers
    /\ \A r \in Requests : req[r].pc \in Stages /\ req[r].todo \cup req[r].lacking \subseteq Peers
                           /\ req[r].removals \subseteq Peers \X Rooms

At(r, pc) == req[r].pc = pc
Become(r, q) == req' = [req EXCEPT ![r] = q]


\* The peers in the room of a world that they have no access to.
Intruders(w) == {p \in Peers : CommsRoom(w) \in inRooms[p] /\ ~Entitled(p, w)}

\* E are the peers that from now on have a reason to be where they have no access; a
\* reason ends when the peer leaves or has access again.
Excuse(E) == excused' = {x \in excused \cup E : x[1] \in Intruders(x[2])'}

\* A step of the server that reads only.
Steps(r, q, E) ==
    /\ Become(r, q)
    /\ UNCHANGED <<registry, access, removedFrom, external>>
    /\ Excuse(E)


-----------------------------------------------------------------------------
(* setAccess, and the changes of an allow-list                              *)

SetAccess(r, w, setting) ==
    /\ At(r, "idle") /\ "set" \in Operations
    /\ Cardinality(setting.wallets) <= MaxWallets
    /\ Cardinality(setting.communities) <= MaxCommunities
    /\ Steps(r, [Fresh EXCEPT !.pc = "store", !.op = "set", !.world = w,
                              !.prev = access[w], !.next = setting], {})

RowIsFree(w) == \A s \in Requests : ~(At(s, "locked") /\ req[s].world = w)

\* Stored: what the kicks will do follows from the two settings the request holds.
StoreAccess(r, action, stale) ==
    LET q == req[r]
    IN  /\ access' = [access EXCEPT ![q.world] = q.next]
        /\ Become(r, IF action = "none" THEN Fresh
                     ELSE [Fresh EXCEPT !.pc = "handle", !.op = action, !.world = q.world, !.stale = stale])
        /\ UNCHANGED <<registry, removedFrom, external>>
        /\ Excuse({})

\* Mutant: the rules take the stored setting for the previous one as well.
StoreForgetful(r) ==
    LET q == req[r]
    IN  /\ At(r, "store") /\ RowIsFree(q.world)
        /\ StoreAccess(r, resolveAction(q.next, q.next), access[q.world] # q.prev)

Store(r) ==
    LET q == req[r]
    IN  /\ At(r, "store") /\ RowIsFree(q.world)
        /\ StoreAccess(r, resolveAction(q.prev, q.next), access[q.world] # q.prev)

\* What the modifier of an operation makes of an allow-list.
Modified(op, a, x) ==
    CASE op = "addWallet" -> [a EXCEPT !.wallets = @ \cup {x}]
      [] op = "removeWallet" -> [a EXCEPT !.wallets = @ \ {x}]
      [] op = "addCommunity" -> [a EXCEPT !.communities = @ \cup {x}]
      [] op = "removeCommunity" -> [a EXCEPT !.communities = @ \ {x}]

\* Mutant: a SELECT that does not wait for the row.
LockUnlocked(r, w, op, x) ==
    LET next == Modified(op, access[w], x)
    IN  /\ At(r, "idle") /\ op \in Operations \ {"set"}
        /\ x \in (IF op \in {"addWallet", "removeWallet"} THEN Peers ELSE Communities)
        /\ access[w].type = "allow-list"
        /\ Cardinality(next.wallets) <= MaxWallets
        /\ Cardinality(next.communities) <= MaxCommunities
        /\ Steps(r, [Fresh EXCEPT !.pc = "locked", !.op = op, !.world = w, !.subject = x,
                                  !.prev = access[w], !.next = next], {})

\* SELECT ... FOR UPDATE, and the modifier: it throws unless the access is an allow-list
\* that stays within its limits.
Lock(r, w, op, x) ==
    LET next == Modified(op, access[w], x)
    IN  /\ At(r, "idle") /\ op \in Operations \ {"set"}
        /\ x \in (IF op \in {"addWallet", "removeWallet"} THEN Peers ELSE Communities)
        /\ RowIsFree(w)
        /\ access[w].type = "allow-list"
        /\ Cardinality(next.wallets) <= MaxWallets
        /\ Cardinality(next.communities) <= MaxCommunities
        /\ Steps(r, [Fresh EXCEPT !.pc = "locked", !.op = op, !.world = w, !.subject = x,
                                  !.prev = access[w], !.next = next], {})
\* Only the removals are followed by kicks.
Commit(r) ==
    LET q == req[r]
    IN  /\ At(r, "locked")
        /\ \/ /\ q.op \in {"removeWallet", "removeCommunity"}
              /\ StoreAccess(r, resolveAction(q.prev, q.next), FALSE)
           \/ /\ q.op \in {"addWallet", "addCommunity"}
              /\ StoreAccess(r, "none", FALSE)

\* A query fails before anything is stored.
Fail(r) == req[r].pc \in {"store", "locked"} /\ Steps(r, Fresh, {})

-----------------------------------------------------------------------------
(* handleAccessChange                                                       *)

\* The peers are read at once; only kicks have to wait for the list of the privileged.
\* Who is in the world and is missed here stays in it.
Handle(r) ==
    LET q == req[r]
        w == q.world
        peers == getPeersInWorld(w)
        missed == IF q.stale THEN Intruders(w) ELSE Intruders(w) \ peers
    IN  /\ At(r, "handle")
        /\ Steps(r, IF peers = {} \/ q.op = "noKick" THEN Fresh
                    ELSE [Fresh EXCEPT !.pc = "filter", !.world = w, !.todo = peers, !.op = q.op],
                 missed \X {w})
\* filterOutPrivilegedUsers, whose queries may fail: the access is stored, and nobody is kicked.
Filter(r) ==
    LET q == req[r]
        left == q.todo \ Privileged(q.world)
        next == IF q.op = "kickAll" THEN [Fresh EXCEPT !.pc = "kick", !.world = q.world, !.lacking = left]
                                    ELSE [Fresh EXCEPT !.pc = "check", !.world = q.world, !.todo = left]
    IN  /\ At(r, "filter")
        /\ \/ Steps(r, IF left = {} THEN Fresh ELSE next, {})
           \/ Steps(r, Fresh, (q.todo \cap Intruders(q.world)) \X {q.world})

\* The kicks start when every peer is checked.
Checked(q) ==
    IF q.todo # {} THEN q
    ELSE IF q.lacking = {} THEN Fresh ELSE [q EXCEPT !.pc = "kick"]

\* The peers are checked side by side; one that cannot be checked is not kicked.
Check(r, p) ==
    LET q == [req[r] EXCEPT !.todo = @ \ {p}]
    IN  /\ At(r, "check") /\ p \in req[r].todo
        /\ \/ \E hasAccess \in checkAccess(p, q.world) :
                 Steps(r, Checked(IF hasAccess THEN q ELSE [q EXCEPT !.lacking = @ \cup {p}]), {})
           \/ Steps(r, Checked(q), ({p} \cap Intruders(q.world)) \X {q.world})

-----------------------------------------------------------------------------
(* communityMemberRemovedHandler                                            *)

\* The member is looked for in the one world it is known to be in.
MemberRemoved(r, p) ==
    LET w == getPeerWorld(p)
        elsewhere == {v \in Worlds : v # w /\ p \in Intruders(v)}
    IN  /\ At(r, "idle") /\ p \in removedFrom
        /\ removedFrom' = removedFrom \ {p}
        /\ Become(r, IF w = NoWorld THEN Fresh
                     ELSE [Fresh EXCEPT !.pc = "type", !.world = w, !.todo = {p}])
        /\ UNCHANGED <<registry, access, external>>
        /\ Excuse({p} \X elsewhere)

\* getWorldAccess, then checkAccess: two readings.  A failure ends the handler.
MemberType(r) ==
    /\ At(r, "type")
    /\ \/ Steps(r, IF access[req[r].world].type = "allow-list" THEN [req[r] EXCEPT !.pc = "recheck"]
                                                               ELSE Fresh, {})
       \/ Steps(r, Fresh, (req[r].todo \cap Intruders(req[r].world)) \X {req[r].world})

MemberCheck(r) ==
    LET q == req[r]
    IN  /\ At(r, "recheck")
        /\ \/ \E p \in q.todo : \E hasAccess \in checkAccess(p, q.world) :
                 Steps(r, IF hasAccess THEN Fresh ELSE [q EXCEPT !.pc = "kick", !.todo = {}, !.lacking = {p}], {})
           \/ Steps(r, Fresh, (q.todo \cap Intruders(q.world)) \X {q.world})

-----------------------------------------------------------------------------
(* kickParticipants                                                         *)

\* The rooms of a batch are read at once, whatever world they are of.
StartBatch(r) ==
    LET q == req[r]
    IN  /\ At(r, "kick") /\ q.removals = {} /\ q.lacking # {}
        /\ \E batch \in SUBSET q.lacking :
              LET removals == {x \in batch \X Rooms : x[2] \in getPeerRooms(x[1])}
                  rest == q.lacking \ batch
                  kept == {p \in batch : CommsRoom(q.world) \notin getPeerRooms(p)}
              IN  /\ \/ Cardinality(batch) = kickBatchSize
                     \/ batch = q.lacking /\ Cardinality(batch) < kickBatchSize
                  /\ Steps(r, IF removals = {} /\ rest = {} THEN Fresh
                              ELSE [q EXCEPT !.lacking = rest, !.removals = removals],
                           (kept \cap Intruders(q.world)) \X {q.world})

Tracked(room) == room.kind = "comms" /\ room.world \in DclNames

\* livekit-webhook-handler.ts takes no other event: LiveKit's are not even queued here.
Tell(p, event, room) ==
    webhooks' = IF Tracked(room) THEN [webhooks EXCEPT ![p] = Append(@, [event |-> event, room |-> room])]
                                 ELSE webhooks
CanTell(p) == Len(webhooks[p]) < MaxWebhooks

Leaves(p, room) ==
    /\ room \in inRooms[p] /\ CanTell(p)
    /\ inRooms' = [inRooms EXCEPT ![p] = @ \ {room}]
    /\ Tell(p, "left", room)
    /\ last' = IF Tracked(room) /\ last[p] = room.world THEN [last EXCEPT ![p] = NoWorld] ELSE last

\* removeParticipant: LiveKit removes the peer, which may be gone, or fails.
RemoveParticipant(r, p, room) ==
    LET left == req[r].removals \ {<<p, room>>}
        q == IF left = {} /\ req[r].lacking = {} THEN Fresh ELSE [req[r] EXCEPT !.removals = left]
    IN  /\ At(r, "kick") /\ <<p, room>> \in req[r].removals
        /\ \/ /\ Leaves(p, room)
              /\ Become(r, q)
              /\ UNCHANGED <<registry, access, members, removedFrom, disordered>>
              /\ Excuse({})
           \/ Steps(r, q, {p} \X {w \in Worlds : CommsRoom(w) = room /\ p \in Intruders(w)})

-----------------------------------------------------------------------------
(* Tokens, LiveKit and the webhooks                                         *)

\* What LiveKit has still to tell of a peer, what the server knows of it and where it is
\* are all empty: what happened to its webhooks does not matter any more.
Gone(p) == webhooks[p] = <<>> /\ getPeerRooms(p) = {} /\ inRooms[p] = {}
Disorder(D) == disordered' = {p \in D : ~Gone(p)'}

\* LiveKit knows the token only, and tokens outlive the access they were given for.  Every
\* world was open once, so a peer may hold one for any room; Handshake.tla is about who
\* gets one.
Connect(p, room) ==
    /\ room \in Joinable \ inRooms[p] /\ CanTell(p)
    /\ inRooms' = [inRooms EXCEPT ![p] = @ \cup {room}]
    /\ Tell(p, "joined", room)
    /\ last' = IF Tracked(room) THEN [last EXCEPT ![p] = room.world] ELSE last
    /\ UNCHANGED <<registry, access, members, removedFrom, req, disordered>>
    /\ Excuse({p} \X {w \in Worlds : CommsRoom(w) = room})

Disconnect(p, room) ==
    /\ Leaves(p, room)
    /\ UNCHANGED <<registry, access, members, removedFrom, req, disordered>>
    /\ Excuse({})

\* A leave may come after a join of another world without harm: nothing else may.
Overtakes(events, i) ==
    \A j \in 1 .. i - 1 : /\ events[j].event = "left" /\ events[i].event = "joined"
                          /\ events[j].room.world # events[i].room.world

Without(events, i) == SubSeq(events, 1, i - 1) \o SubSeq(events, i + 1, Len(events))

\* livekitWebhookHandler, for any event in flight.  LiveKit may send it once more.
Webhook(p, i) ==
    LET e == webhooks[p][i]
    IN  /\ i \in 1 .. Len(webhooks[p])
        /\ \/ e.event = "joined" /\ onPeerConnected(p, e.room)
           \/ e.event = "left" /\ onPeerDisconnected(p, e.room)
        /\ \/ webhooks' = [webhooks EXCEPT ![p] = Without(@, i)]
           \/ i = 1 /\ UNCHANGED webhooks
        /\ UNCHANGED <<access, members, inRooms, removedFrom, req, excused, last>>
        /\ Disorder(IF Overtakes(webhooks[p], i) THEN disordered ELSE disordered \cup {p})

Lose(p) ==
    /\ webhooks[p] # <<>>
    /\ webhooks' = [webhooks EXCEPT ![p] = Tail(@)]
    /\ UNCHANGED <<registry, access, members, inRooms, removedFrom, req, excused, last>>
    /\ Disorder(disordered \cup {p})

LeaveCommunity(p, c) ==
    /\ <<p, c>> \in members
    /\ members' = members \ {<<p, c>>}
    /\ removedFrom' = removedFrom \cup {p}
    /\ UNCHANGED <<registry, access, inRooms, webhooks, req, excused, disordered, last>>

\* The process ends and starts again: who was in a room is forgotten, kicks are cut.
Restart ==
    /\ Forgotten
    /\ req' = [r \in Requests |-> Fresh]
    /\ UNCHANGED <<access, members, inRooms, webhooks, removedFrom, last>>
    /\ Disorder(Peers)
    /\ Excuse({x \in Peers \X Worlds : x[1] \in Intruders(x[2])})

-----------------------------------------------------------------------------
Init ==
    /\ RegistryInit
    /\ access \in [Worlds -> {defaultAccess}]
    /\ members \in SUBSET (Peers \X Communities)
    /\ inRooms = [p \in Peers |-> {}]
    /\ webhooks = [p \in Peers |-> <<>>]
    /\ removedFrom = {}
    /\ req = [r \in Requests |-> Fresh]
    /\ excused = {}
    /\ disordered = {}
    /\ last = [p \in Peers |-> NoWorld]

Server(r) ==
    \/ \E w \in Changing, setting \in Settings : SetAccess(r, w, setting)
    \/ \E w \in Changing, op \in AllOperations, x \in Peers \cup Communities : Lock(r, w, op, x)
    \/ Store(r) \/ Commit(r) \/ Fail(r)
    \/ Handle(r) \/ Filter(r)
    \/ \E p \in Peers : Check(r, p) \/ MemberRemoved(r, p)
    \/ MemberType(r) \/ MemberCheck(r)
    \/ StartBatch(r)
    \/ \E p \in Peers, room \in Rooms : RemoveParticipant(r, p, room)

Environment ==
    \/ \E p \in Peers, room \in Joinable : Connect(p, room) \/ Disconnect(p, room)
    \/ \E p \in Peers : Lose(p)
    \/ \E p \in Peers, i \in 1 .. MaxWebhooks : Webhook(p, i)
    \/ \E p \in Peers, c \in Communities : LeaveCommunity(p, c)

Next == (\E r \in Requests : Server(r)) \/ Environment \/ Restart

Spec == Init /\ [][Next]_vars

-----------------------------------------------------------------------------
Quiet == removedFrom = {} /\ \A r \in Requests : At(r, "idle")
Told(p) == webhooks[p] = <<>>

(* Who has no access to a world and is in its room, once every change is    *)
(* handled, is there for one of the reasons that Excuse was given: it       *)
(* came in with an old token, the registry did not know it (a webhook that  *)
(* is late or lost, a restart, another world), a query or LiveKit failed,   *)
(* or the change was decided on a setting that was replaced meanwhile.      *)
(* Nobody else is ever forgotten by setAccess, the removals from an         *)
(* allow-list or communityMemberRemovedHandler.                             *)
IntrudersHaveAReason ==
    Quiet => \A w \in DclNames : \A p \in Intruders(w) \ Privileged(w) : <<p, w>> \in excused

(* When all that LiveKit had to tell of a peer has arrived, and nothing of  *)
(* it was lost or came in an order that matters, the registry knows the     *)
(* peer's rooms in the world it joined last, as LiveKit does, and no other: *)
(* a leave that comes after the join of the next world does no harm         *)
(* (onPeerDisconnected).                                                    *)
RegistryFollowsLastJoin ==
    \A p \in Peers : Told(p) /\ p \notin disordered =>
        getPeerRooms(p) = {room \in inRooms[p] : Tracked(room) /\ room.world = last[p]}

(* A change of one entry of an allow-list changes nothing else of the       *)
(* access, whatever other changes are in progress (modifyAccessAtomically). *)
ChangesAreLocal ==
    [][\A r \in Requests :
         LET a == access[req[r].world]
             b == access'[req[r].world]
         IN  At(r, "locked") /\ req'[r] # req[r] /\ access' # access =>
                /\ a.type = "allow-list" /\ b.type = "allow-list"
                /\ a.wallets \cup {req[r].subject} = b.wallets \cup {req[r].subject}
                   \/ a.wallets = b.wallets
                /\ a.communities \cup {req[r].subject} = b.communities \cup {req[r].subject}
                   \/ a.communities = b.communities]_vars
=============================================================================
