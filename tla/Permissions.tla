---------------------------- MODULE Permissions ----------------------------
(***************************************************************************)
(* The deployment, or streaming, permissions of one world: the rows of      *)
(* world_permissions, one for each wallet, and of world_permission_parcels  *)
(* that restrict them (none: the whole world).  permissions-manager.ts      *)
(* writes them in transactions, logic/permissions/component.ts strings      *)
(* these together and announces what they did, and undeploySceneHandler     *)
(* reads them, query by query, before it takes scenes off the map.          *)
(*                                                                          *)
(* A statement of PostgreSQL is one action, at READ COMMITTED; what a       *)
(* transaction wrote is in its request's record until it commits.  The      *)
(* scenes are those of SceneMap, which WorldScenes.tla implements.          *)
(***************************************************************************)
EXTENDS Integers, FiniteSets

CONSTANTS
    Requests,   \* requests in progress; a finished one stands for a new one
    Wallets,
    Scenes, Parcels, ParcelsOf, \* as in SceneMap
    Operations  \* what the owner and the others ask for

\* "deploy" is not a request: it lets others deploy scenes beside the requests.
AllOperations == {"grant", "revoke", "set", "add", "remove", "undeploy", "deploy"}

ASSUME PermissionsAssumption ==
    /\ IsFiniteSet(Requests)
    /\ ParcelsOf \in [Scenes -> (SUBSET Parcels) \ {{}}]
    /\ Operations \subseteq AllOperations

VARIABLES
    exists,     \* the wallets with a committed row in world_permissions
    parcelRows, \* the committed rows of world_permission_parcels
    req,        \* each request
    announced,  \* history: for each wallet, "granted" events less "revoked" ones
    deployed    \* the scenes on the map

vars == <<exists, parcelRows, req, announced, deployed>>
grants == <<exists, parcelRows>>

Map == INSTANCE SceneMap WITH asked <- {}

Of(rows) == {row[1] : row \in rows}
ParcelsOfRow(w, rows) == {row[2] : row \in {x \in rows : x[1] = w}}

\* getWorldPermissionRecords: is_world_wide
WorldWide(w) == w \in exists /\ ParcelsOfRow(w, parcelRows) = {}

\* Whether the rows allow a wallet all of an area.
Allows(ws, rows, w, area) ==
    w \in ws /\ (ParcelsOfRow(w, rows) = {} \/ area \subseteq ParcelsOfRow(w, rows))

-----------------------------------------------------------------------------
Stages == {"idle", "read", "revoke", "cascade", "revoked", "insert", "clear", "commit", "granted",
           "select", "write", "parcels", "delete", "touch",
           "footprint", "wide", "record", "count", "undeploy"}

Fresh == [op |-> "none", pc |-> "idle", wallets |-> {}, list |-> {}, area |-> {}, row |-> "none",
          inserted |-> {}, locked |-> {}, removed |-> {}, added |-> {}, deleted |-> {},
          told |-> {}, target |-> {}, seen |-> {}, held |-> FALSE]

Request ==
    [op : AllOperations \cup {"none"}, pc : Stages,
     wallets : SUBSET Wallets,  \* whom the next statement is about
     list : SUBSET Wallets,     \* the wallets still to be granted
     area : SUBSET Parcels,
     row : {"none", "live", "gone"},    \* the row whose id was read; a deleted id never returns
     inserted : SUBSET Wallets, locked : SUBSET Wallets, removed : SUBSET Wallets,
     added : SUBSET (Wallets \X Parcels), deleted : SUBSET (Wallets \X Parcels),
     told : SUBSET Wallets,     \* whom it has to tell
     target : SUBSET Parcels,   \* the parcel to clear
     seen : SUBSET Scenes,      \* history: the scenes that stood there when they were read
     held : BOOLEAN]            \* history: the area was allowed since it was read

TypeOK ==
    /\ exists \subseteq Wallets
    /\ parcelRows \subseteq exists \X Parcels
    /\ req \in [Requests -> Request]
    /\ announced \in [Wallets -> Int]
    /\ deployed \subseteq Scenes

At(r, pc) == req[r].pc = pc
Become(r, q) == req' = [req EXCEPT ![r] = q]
Only(r, q) == Become(r, q) /\ UNCHANGED <<grants, announced, deployed>>

\* What a change of the grants means to a request: its row may be gone, and what it
\* checks may be allowed now.
Noticed(q, gone, ws, rows) ==
    [q EXCEPT !.row = IF @ = "live" /\ q.wallets \cap gone # {} THEN "gone" ELSE @,
              !.held = @ \/ (q.op = "undeploy" /\ \E w \in q.wallets : Allows(ws, rows, w, q.area))]

\* The committed rows become ws and rows, and r becomes q.
Change(r, q, ws, rows) ==
    /\ exists' = ws
    /\ parcelRows' = rows
    /\ req' = [s \in Requests |-> IF s = r THEN q ELSE Noticed(req[s], exists \ ws, ws, rows)]
    /\ UNCHANGED <<announced, deployed>>

-----------------------------------------------------------------------------
(* PostgreSQL's row locks                                                   *)

\* The rows of world_permission_parcels that a DELETE matches.
Matched(r) == {row \in parcelRows : row[1] \in req[r].wallets
                                    /\ (At(r, "delete") => row[2] \in req[r].area /\ req[r].row = "live")}

\* The requests whose transactions the next statement of r waits for.
Waits(r) ==
    LET q == req[r]
        Blocks(s) ==
            \/ q.pc = "insert" /\ q.wallets \cap (s.inserted \cup s.removed) # {}
            \/ q.pc = "revoke" /\ q.wallets \cap exists \cap (s.locked \cup Of(s.added) \cup s.removed) # {}
            \/ q.pc = "cascade" /\ q.removed \cap Of(s.deleted) # {}
            \/ q.pc \in {"clear", "delete"} /\ Matched(r) \cap s.deleted # {}
            \/ q.pc = "write" /\ q.row = "none" /\ q.wallets \cap (s.inserted \cup s.removed) # {}
            \/ q.pc \in {"write", "touch"} /\ q.row = "live" /\ q.wallets \cap (s.locked \cup s.removed) # {}
            \/ q.pc = "parcels" /\ (q.wallets \X q.area) \cap (s.added \cup s.deleted) # {}
    IN  {s \in Requests \ {r} : Blocks(req[s])}

\* A statement of r is executed; it waits until its rows are free.
Ready(r, pc) == At(r, pc) /\ Waits(r) = {}

Abort(r) == Only(r, Fresh)

Fail(r) == req[r].pc \notin {"idle", "revoked", "granted"} /\ Abort(r)

\* A deadlock is resolved by the failure of one of the transactions in it.
DeadlockVictim(r) ==
    /\ \E S \in SUBSET Requests :
          r \in S /\ \A s \in S : Waits(s) \cap S # {} /\ \E t \in S : s \in Waits(t)
    /\ Abort(r)

-----------------------------------------------------------------------------
(* Announcements, and what comes after a statement                          *)

\* setDeploymentPermission, setStreamingPermission: the wallets to add, if any, come last.
Then(q) ==
    IF q.list = {} THEN Fresh
    ELSE [q EXCEPT !.pc = "insert", !.wallets = q.list, !.list = {}]

Tell(q) == IF q.told = {} THEN Then(q) ELSE q

Announce(r, pc, sign) ==
    /\ At(r, pc)
    /\ announced' = [w \in Wallets |-> announced[w] + (IF w \in req[r].told THEN sign ELSE 0)]
    /\ \/ Become(r, Then([req[r] EXCEPT !.told = {}]))
       \/ Become(r, Fresh)
    /\ UNCHANGED <<grants, deployed>>

\* sendPermissionGrantedNotifications and sendPermissionRevokedNotifications: events that
\* SNS does not take are lost, and end the request.
AnnounceGranted(r) == Announce(r, "granted", 1)
AnnounceRevoked(r) == Announce(r, "revoked", -1)

\* COMMIT
Commit(r) ==
    LET q == req[r] IN
    /\ At(r, "commit")
    /\ Change(r, Tell([q EXCEPT !.pc = "granted", !.told = q.inserted, !.inserted = {},
                                 !.locked = {}, !.added = {}, !.deleted = {}]),
              exists \cup q.inserted, (parcelRows \ q.deleted) \cup q.added)

-----------------------------------------------------------------------------
(* Granting the world, revoking, and replacing a list                       *)

BeginGrant(r) ==
    /\ At(r, "idle") /\ "grant" \in Operations
    /\ \E w \in Wallets : Only(r, [Fresh EXCEPT !.op = "grant", !.pc = "insert", !.wallets = {w}])

\* INSERT ... ON CONFLICT DO NOTHING RETURNING address
InsertAddresses(r) ==
    /\ Ready(r, "insert")
    /\ Only(r, [req[r] EXCEPT !.pc = "clear", !.inserted = req[r].wallets \ exists])

\* DELETE FROM world_permission_parcels, of all the addresses
ClearParcels(r) ==
    /\ Ready(r, "clear")
    /\ Only(r, [req[r] EXCEPT !.pc = "commit", !.deleted = Matched(r)])

BeginRevoke(r) ==
    /\ At(r, "idle") /\ "revoke" \in Operations
    /\ \E w \in Wallets : Only(r, [Fresh EXCEPT !.op = "revoke", !.pc = "revoke", !.wallets = {w}])

\* Mutant: all the addresses are returned, whether they had a row or not.
RevokeAllAsked(r) ==
    /\ Ready(r, "revoke")
    /\ Only(r, [req[r] EXCEPT !.pc = "cascade", !.removed = req[r].wallets])

\* DELETE FROM world_permissions ... RETURNING address: the rows, ...
RevokeRows(r) ==
    /\ Ready(r, "revoke")
    /\ Only(r, [req[r] EXCEPT !.pc = "cascade", !.removed = req[r].wallets \cap exists])

\* ... and the rows that refer to them; the statement is its own transaction.
Cascade(r) ==
    LET gone == req[r].removed IN
    /\ Ready(r, "cascade")
    /\ Change(r, Tell([req[r] EXCEPT !.pc = "revoked", !.told = gone, !.removed = {}]),
              exists \ gone, {row \in parcelRows : row[1] \notin gone})

\* The list of wallets replaces the current one; no list makes streaming unrestricted.
BeginSet(r) ==
    /\ At(r, "idle") /\ "set" \in Operations
    /\ \E list \in SUBSET Wallets : Only(r, [Fresh EXCEPT !.op = "set", !.pc = "read", !.list = list])

ReadCurrent(r) ==
    LET q == [req[r] EXCEPT !.wallets = exists \ req[r].list, !.list = @ \ exists] IN
    /\ At(r, "read")
    /\ Only(r, IF q.wallets = {} THEN Then(q) ELSE [q EXCEPT !.pc = "revoke"])

-----------------------------------------------------------------------------
(* Adding and removing parcels                                              *)

BeginParcels(r) ==
    /\ At(r, "idle")
    /\ \E op \in {"add", "remove"} \cap Operations, w \in Wallets, area \in (SUBSET Parcels) \ {{}} :
          Only(r, [Fresh EXCEPT !.op = op, !.pc = "select", !.wallets = {w}, !.area = area])

\* The id of the wallet's row; without one there is nothing to remove from.
SelectRow(r) ==
    LET q == [req[r] EXCEPT !.row = IF req[r].wallets \subseteq exists THEN "live" ELSE "none"] IN
    /\ At(r, "select")
    /\ CASE q.op = "add" -> Only(r, [q EXCEPT !.pc = "write"])
         [] q.op = "remove" -> IF q.row = "none" THEN Abort(r) ELSE Only(r, [q EXCEPT !.pc = "delete"])

\* Mutant: there is no transaction around the two insertions.
WriteRowAlone(r) ==
    LET q == req[r] IN
    /\ Ready(r, "write")
    /\ IF q.row = "none" /\ q.wallets \cap exists = {}
       THEN Change(r, [q EXCEPT !.pc = "parcels", !.row = "live"], exists \cup q.wallets, parcelRows)
       ELSE Only(r, [q EXCEPT !.pc = "parcels", !.locked = q.wallets \cap exists])

\* INSERT of a new row, which fails if there is one by now, or UPDATE of updated_at.
WriteRow(r) ==
    LET q == req[r] IN
    /\ Ready(r, "write")
    /\ CASE q.row = "none" -> IF q.wallets \subseteq exists THEN Abort(r)
                              ELSE Only(r, [q EXCEPT !.pc = "parcels", !.inserted = q.wallets])
         [] q.row = "live" -> Only(r, [q EXCEPT !.pc = "parcels", !.locked = q.wallets])
         [] q.row = "gone" -> Only(r, [q EXCEPT !.pc = "parcels"])

\* INSERT INTO world_permission_parcels ... ON CONFLICT DO NOTHING, of a row that exists
AddParcels(r) ==
    LET q == req[r] IN
    /\ Ready(r, "parcels")
    /\ IF q.row = "gone" THEN Abort(r)
       ELSE Only(r, [q EXCEPT !.pc = "commit", !.added = (q.wallets \X q.area) \ parcelRows])

\* DELETE FROM world_permission_parcels, of the parcels
DeleteParcels(r) ==
    /\ Ready(r, "delete")
    /\ Only(r, [req[r] EXCEPT !.pc = "touch", !.deleted = Matched(r)])

\* UPDATE of updated_at
TouchRow(r) ==
    /\ Ready(r, "touch")
    /\ Only(r, [req[r] EXCEPT !.pc = "commit",
                              !.locked = IF req[r].row = "live" THEN req[r].wallets ELSE {}])

-----------------------------------------------------------------------------
(* The undeployment of a parcel by a wallet that does not own the name      *)

BeginUndeploy(r) ==
    /\ At(r, "idle") /\ "undeploy" \in Operations
    /\ \E w \in Wallets, p \in Parcels :
          Only(r, [Fresh EXCEPT !.op = "undeploy", !.pc = "footprint", !.wallets = {w}, !.target = {p}])

\* Mutant: only the parcel that was asked for counts.
TargetOnly(p) == {p}

\* The parcels of the scenes that stand there.
Footprint(p) ==
    LET all == UNION {ParcelsOf[e] : e \in Map!Standing({p}, deployed)}
    IN  IF all = {} THEN {p} ELSE all

ReadFootprint(r) ==
    /\ At(r, "footprint")
    /\ \E w \in req[r].wallets, p \in req[r].target :
          Only(r, [req[r] EXCEPT !.pc = "wide", !.area = Footprint(p),
                                 !.seen = Map!Standing({p}, deployed),
                                 !.held = Allows(exists, parcelRows, w, Footprint(p))])

\* hasWorldWidePermission
CheckWide(r) ==
    /\ At(r, "wide")
    /\ \E w \in req[r].wallets :
          Only(r, [req[r] EXCEPT !.pc = IF WorldWide(w) THEN "undeploy" ELSE "record"])

\* hasPermissionForParcels reads the records again
FindRecord(r) ==
    /\ At(r, "record")
    /\ IF req[r].wallets \subseteq exists
       THEN Only(r, [req[r] EXCEPT !.pc = "count", !.row = "live"])
       ELSE Abort(r)

\* checkParcelsAllowed
CountParcels(r) ==
    /\ At(r, "count")
    /\ \E w \in req[r].wallets :
          IF req[r].row = "live" /\ req[r].area \subseteq ParcelsOfRow(w, parcelRows)
          THEN Only(r, [req[r] EXCEPT !.pc = "undeploy"])
          ELSE Abort(r)

\* undeployWorldScenes, one step of the map
Undeploy(r) ==
    /\ At(r, "undeploy")
    /\ deployed' = deployed \ Map!Standing(req[r].target, deployed)
    /\ Become(r, Fresh)
    /\ UNCHANGED <<grants, announced>>

\* Somebody else deploys a scene.
Deploy(e) ==
    /\ "deploy" \in Operations
    /\ e \notin deployed
    /\ deployed' = (deployed \ Map!Standing(ParcelsOf[e], deployed)) \cup {e}
    /\ UNCHANGED <<grants, req, announced>>

-----------------------------------------------------------------------------
Init ==
    /\ exists = {}
    /\ parcelRows = {}
    /\ req = [r \in Requests |-> Fresh]
    /\ announced = [w \in Wallets |-> 0]
    /\ deployed \in {S \in SUBSET Scenes : \A e \in S : Map!Standing(ParcelsOf[e], S) = {e}}

Begin(r) == BeginGrant(r) \/ BeginRevoke(r) \/ BeginSet(r) \/ BeginParcels(r) \/ BeginUndeploy(r)

\* What a request does when it is neither begun nor cut short.
Proceed(r) ==
    \/ InsertAddresses(r) \/ ClearParcels(r) \/ Commit(r) \/ AnnounceGranted(r)
    \/ RevokeRows(r) \/ Cascade(r) \/ AnnounceRevoked(r) \/ ReadCurrent(r)
    \/ SelectRow(r) \/ WriteRow(r) \/ AddParcels(r) \/ DeleteParcels(r) \/ TouchRow(r)
    \/ ReadFootprint(r) \/ CheckWide(r) \/ FindRecord(r) \/ CountParcels(r) \/ Undeploy(r)

Next ==
    \/ \E r \in Requests : Begin(r) \/ Proceed(r) \/ Fail(r) \/ DeadlockVictim(r)
    \/ \E e \in Scenes : Deploy(e)

Spec == Init /\ [][Next]_vars

-----------------------------------------------------------------------------
(* Properties                                                               *)

\* A grant without parcel rows means the whole world, so a wallet whose grant is to be
\* scoped must never be seen without its parcels: not while the row and its parcels
\* are inserted, nor when the rows of others come and go beside it.  A wallet becomes
\* world-wide only by a request to make it so (grant, set) or one that removes parcels.
WidensOnlyOnRequest ==
    [][\A w \in Wallets :
          ~WorldWide(w) /\ WorldWide(w)'
             => \E r \in Requests : /\ req[r].op \in {"grant", "set", "remove"}
                                    /\ w \in req[r].wallets
                                    /\ At(r, "commit") /\ ~At(r, "commit")']_vars

\* Each row that is inserted is announced once and each row that is deleted is revoked
\* once, whoever else asked for the same: the events handed over to SNS, and those still
\* to be, add up to the rows there are.
EventsMatchRows ==
    \A w \in Wallets :
        LET pending(pc) == Cardinality({r \in Requests : At(r, pc) /\ w \in req[r].told})
        IN  announced[w] + pending("granted") - pending("revoked") = IF w \in exists THEN 1 ELSE 0

\* The scenes that leave the map without a deployment in their place.
Taken == IF deployed' \subseteq deployed THEN deployed \ deployed' ELSE {}

\* The check of an undeployment is made of three queries between which the grants
\* change.  Still, the wallet was allowed the whole footprint at one instant since the
\* scenes were read, and every scene read then that is taken lies inside of it.
UndeployWasAllowed ==
    [][\A e \in Taken :
          \E r \in Requests : /\ At(r, "undeploy") /\ req[r].held
                             /\ e \in req[r].seen => ParcelsOf[e] \subseteq req[r].area]_vars

=============================================================================
