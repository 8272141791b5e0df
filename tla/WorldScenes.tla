----------------------------- MODULE WorldScenes -----------------------------
(***************************************************************************)
(* The scenes of one world, as src/src/adapters/worlds-manager.ts keeps     *)
(* them in PostgreSQL: one row of `worlds` and the rows of `world_scenes`,  *)
(* changed by concurrent transactions that interleave statement by          *)
(* statement at READ COMMITTED.  Rows of different worlds never meet in a   *)
(* statement, so one world stands for all of them.                          *)
(*                                                                          *)
(* A row has a committed version, and a version written by the transaction  *)
(* that holds its lock.  A statement reads the committed rows and its own   *)
(* writes as of its start; an UPDATE then waits for the lock of each row it *)
(* matched and evaluates its WHERE clause again on the version it gets.     *)
(***************************************************************************)
EXTENDS Integers, FiniteSets, FiniteSetsExt

CONSTANTS
    Scenes,     \* entity ids, the key of a world_scenes row
    Parcels,    \* coordinates <<x, y>> of the world
    ParcelsOf,  \* the parcels of each scene
    BaseOf,     \* the base parcel of each scene, its proposed spawn point
    Txns,       \* pooled connections, each runs one transaction at a time
    Kinds,      \* the operations this instance of the service receives
    None        \* SQL's NULL

AllKinds == {"deploy", "undeploy", "undeployWorld", "settings", "evict"}
Rectangles == [minX : Int, maxX : Int, minY : Int, maxY : Int]

ASSUME ScenesAssumption ==
    /\ Parcels \subseteq Int \X Int
    /\ IsFiniteSet(Parcels)
    /\ ParcelsOf \in [Scenes -> (SUBSET Parcels) \ {{}}]
    /\ BaseOf \in [Scenes -> Parcels]
    /\ \A e \in Scenes : BaseOf[e] \in ParcelsOf[e]

ASSUME NoneAssumption ==
    /\ None \notin Txns
    /\ None \notin Scenes
    /\ None \notin Int \X Int
    /\ None \notin Rectangles
    /\ None \notin AllKinds

ASSUME KindsAssumption == Kinds \subseteq AllKinds

VARIABLES
    scenes,     \* committed status of each scene's row
    world,      \* committed row of the world
    rowLock,    \* the transaction holding each scene's row, or None
    rowNew,     \* the status its holder wrote
    worldLock,  \* the transaction holding the world's row, or None
    worldNew,   \* the row its holder wrote
    tx          \* the transaction each connection runs

vars == <<scenes, world, rowLock, rowNew, worldLock, worldNew, tx>>
rowVars == <<scenes, rowLock, rowNew>>
worldVars == <<world, worldLock, worldNew>>

-----------------------------------------------------------------------------
(* Rectangles and statistics                                                *)

Cells(S) == UNION {ParcelsOf[e] : e \in S}

\* getWorldBoundingRectangle: the smallest rectangle around the scenes of S.
BoundingRectangle(S) ==
    IF Cells(S) = {} THEN None
    ELSE [minX |-> Min({p[1] : p \in Cells(S)}),
          maxX |-> Max({p[1] : p \in Cells(S)}),
          minY |-> Min({p[2] : p \in Cells(S)}),
          maxY |-> Max({p[2] : p \in Cells(S)})]

Within(p, r) ==
    /\ p[1] \in r.minX .. r.maxX
    /\ p[2] \in r.minY .. r.maxY

\* Division truncates downwards, as Math.floor does.
Center(r) == <<(r.minX + r.maxX) \div 2, (r.minY + r.maxY) \div 2>>

\* The denormalized columns that buildRecalculateWorldSceneStatsQuery writes.
StatsOf(S) == [count |-> Cardinality(S), box |-> BoundingRectangle(S)]

\* Where undeployScene moves a spawn point that was at `spawn`.
MovedSpawn(spawn, S) ==
    LET box == BoundingRectangle(S)
    IN  IF box = None THEN None
        ELSE IF spawn = None \/ Within(spawn, box) THEN spawn
        ELSE Center(box)

-----------------------------------------------------------------------------
(* Types                                                                    *)

Status == {"ABSENT", "DEPLOYED", "UNDEPLOYED"}
Spawns == Parcels \cup {None} \cup {Center(BoundingRectangle(S)) : S \in (SUBSET Scenes) \ {{}}}
AllStats == {StatsOf(S) : S \in SUBSET Scenes}
Worlds == [exists : BOOLEAN, spawn : Spawns, stats : AllStats]

PCs == {"idle", "upsert", "readSpawn", "match", "rows", "stats", "storeSpawn",
        "storeStats", "validate", "upsertSettings", "commit"}

Transactions ==
    [pc : PCs, kind : AllKinds \cup {None}, scene : Scenes \cup {None},
     area : SUBSET Parcels, todo : SUBSET Scenes, seen : SUBSET Scenes,
     spawn : Spawns, stats : AllStats]

TypeOK ==
    /\ scenes \in [Scenes -> Status]
    /\ world \in Worlds
    /\ rowLock \in [Scenes -> Txns \cup {None}]
    /\ rowNew \in [Scenes -> Status]
    /\ worldLock \in Txns \cup {None}
    /\ worldNew \in Worlds
    /\ tx \in [Txns -> Transactions]

-----------------------------------------------------------------------------
(* What a transaction reads, and how it writes and ends                     *)

View(t) == [e \in Scenes |-> IF rowLock[e] = t THEN rowNew[e] ELSE scenes[e]]
WorldView(t) == IF worldLock = t THEN worldNew ELSE world
DeployedIn(t) == {e \in Scenes : View(t)[e] = "DEPLOYED"}
Deployed == {e \in Scenes : scenes[e] = "DEPLOYED"}

Idle == [pc |-> "idle", kind |-> None, scene |-> None, area |-> {}, todo |-> {},
         seen |-> {}, spawn |-> None, stats |-> StatsOf({})]

At(t, pc) == tx[t].pc = pc
Goto(t, pc) == tx' = [tx EXCEPT ![t].pc = pc]
Begin(t, request) ==
    /\ At(t, "idle")
    /\ request.kind \in Kinds
    /\ tx' = [tx EXCEPT ![t] = request]
    /\ UNCHANGED <<rowVars, worldVars>>

WriteRow(t, e, status) ==
    /\ rowLock[e] \in {None, t}
    /\ rowLock' = [rowLock EXCEPT ![e] = t]
    /\ rowNew' = [rowNew EXCEPT ![e] = status]
    /\ UNCHANGED <<scenes, worldVars>>

WriteWorld(t, row) ==
    /\ worldLock \in {None, t}
    /\ worldLock' = t
    /\ worldNew' = row
    /\ UNCHANGED <<world, rowVars>>

NewWorld == [exists |-> FALSE, spawn |-> None, stats |-> StatsOf({})]

\* Ending a transaction frees its locks and leaves the given committed rows.
End(t, rows, row) ==
    /\ scenes' = rows
    /\ world' = row
    /\ rowLock' = [e \in Scenes |-> IF rowLock[e] = t THEN None ELSE rowLock[e]]
    /\ rowNew' = [e \in Scenes |-> IF rowLock[e] = t THEN "ABSENT" ELSE rowNew[e]]
    /\ worldLock' = IF worldLock = t THEN None ELSE worldLock
    /\ worldNew' = IF worldLock = t THEN NewWorld ELSE worldNew
    /\ tx' = [tx EXCEPT ![t] = Idle]

\* Mutant: the connection goes back to the pool without ROLLBACK, locks and all.
RollbackForgotten(t) ==
    /\ tx' = [tx EXCEPT ![t] = Idle]
    /\ UNCHANGED <<rowVars, worldVars>>

Rollback(t) == End(t, scenes, world)

-----------------------------------------------------------------------------
(* Statements shared by several operations                                  *)

\* UPDATE world_scenes SET status = 'UNDEPLOYED' ... : the rows it matches.
MatchScenes(t) ==
    /\ At(t, "match")
    /\ LET matched == {e \in DeployedIn(t) : ParcelsOf[e] \cap tx[t].area # {}}
       IN  tx' = [tx EXCEPT ![t].pc = "rows", ![t].todo = matched, ![t].seen = matched]
    /\ UNCHANGED <<rowVars, worldVars>>

\* Mutant: FOR UPDATE SKIP LOCKED, a row another transaction holds is passed over.
UndeployRowSkipLocked(t, e) ==
    /\ At(t, "rows")
    /\ e \in tx[t].todo
    /\ IF rowLock[e] = None /\ scenes[e] = "DEPLOYED"
       THEN WriteRow(t, e, "UNDEPLOYED") ELSE UNCHANGED <<rowVars, worldVars>>
    /\ tx' = [tx EXCEPT ![t].todo = @ \ {e}]

\* Mutant: the UPDATE runs on the pool instead of the transaction's client.
UndeployRowOnPool(t, e) ==
    /\ At(t, "rows")
    /\ e \in tx[t].todo
    /\ rowLock[e] = None
    /\ scenes' = [scenes EXCEPT ![e] = "UNDEPLOYED"]
    /\ UNCHANGED <<rowLock, rowNew, worldVars>>
    /\ tx' = [tx EXCEPT ![t].todo = @ \ {e}]

\* ... and each of them in turn, skipped if it is no longer deployed.
UndeployRow(t, e) ==
    /\ At(t, "rows")
    /\ e \in tx[t].todo
    /\ rowLock[e] = None
    /\ IF scenes[e] = "DEPLOYED" THEN WriteRow(t, e, "UNDEPLOYED")
                                 ELSE UNCHANGED <<rowVars, worldVars>>
    /\ tx' = [tx EXCEPT ![t].todo = @ \ {e}]

\* Mutant: the aggregates are read on the pool, without the transaction's writes.
ComputeStatsOnPool(t) ==
    /\ At(t, "stats")
    /\ tx' = [tx EXCEPT ![t].pc = IF WorldView(t).exists THEN "storeStats" ELSE "commit",
                        ![t].stats = StatsOf(Deployed)]
    /\ UNCHANGED <<rowVars, worldVars>>

\* Mutant: only the count is read on the pool.
CountStatsOnPool(t) ==
    /\ At(t, "stats")
    /\ tx' = [tx EXCEPT ![t].pc = IF WorldView(t).exists THEN "storeStats" ELSE "commit",
                        ![t].stats = [StatsOf(DeployedIn(t)) EXCEPT !.count = Cardinality(Deployed)]]
    /\ UNCHANGED <<rowVars, worldVars>>

\* recalculateWorldSceneStats: the aggregate is taken when the statement starts
\* and is not taken again if the world's row then has to be waited for.
ComputeStats(t) ==
    /\ At(t, "stats")
    /\ tx' = [tx EXCEPT ![t].pc = IF WorldView(t).exists THEN "storeStats" ELSE "commit",
                        ![t].stats = StatsOf(DeployedIn(t))]
    /\ UNCHANGED <<rowVars, worldVars>>

StoreStats(t) ==
    /\ At(t, "storeStats")
    /\ WriteWorld(t, [WorldView(t) EXCEPT !.stats = tx[t].stats])
    /\ Goto(t, "commit")

\* COMMIT publishes every row the transaction wrote.
Commit(t) ==
    /\ At(t, "commit")
    /\ End(t, View(t), WorldView(t))

-----------------------------------------------------------------------------
(* deployScene                                                              *)

BeginDeploy(t, e) ==
    Begin(t, [Idle EXCEPT !.pc = "upsert", !.kind = "deploy", !.scene = e,
                          !.area = ParcelsOf[e]])

\* Mutant: ON CONFLICT DO NOTHING, which locks no row of a world that exists.
UpsertWorldDoNothing(t) ==
    /\ At(t, "upsert")
    /\ IF world.exists
       THEN UNCHANGED <<rowVars, worldVars>>
       ELSE WriteWorld(t, [NewWorld EXCEPT !.exists = TRUE, !.spawn = BaseOf[tx[t].scene]])
    /\ Goto(t, "match")

\* INSERT INTO worlds ... ON CONFLICT DO UPDATE, spawn kept when there is one.
\* It takes the lock of the world's row for the rest of the transaction.
UpsertWorld(t) ==
    /\ At(t, "upsert")
    /\ LET row == WorldView(t)
           base == BaseOf[tx[t].scene]
       IN  WriteWorld(t, [row EXCEPT !.exists = TRUE,
                                     !.spawn = IF row.spawn = None THEN base ELSE row.spawn])
    /\ Goto(t, "match")

\* INSERT INTO world_scenes: the key (world_name, entity_id) must be free; the
\* row of a scene that was undeployed and not yet evicted is not.
InsertScene(t) ==
    LET e == tx[t].scene IN
    /\ At(t, "rows")
    /\ tx[t].kind = "deploy"
    /\ tx[t].todo = {}
    /\ IF View(t)[e] = "ABSENT"
       THEN WriteRow(t, e, "DEPLOYED") /\ Goto(t, "stats")
       ELSE Rollback(t)

-----------------------------------------------------------------------------
(* undeployScene                                                            *)

BeginUndeploy(t, p) ==
    Begin(t, [Idle EXCEPT !.pc = "readSpawn", !.kind = "undeploy", !.area = {p}])

ReadSpawn(t) ==
    /\ At(t, "readSpawn")
    /\ tx' = [tx EXCEPT ![t].pc = "match", ![t].spawn = WorldView(t).spawn]
    /\ UNCHANGED <<rowVars, worldVars>>

\* Mutant: the rectangle is read on the pool, where the scenes are still deployed.
MoveSpawnOnPool(t) ==
    LET moved == MovedSpawn(tx[t].spawn, Deployed) IN
    /\ At(t, "rows")
    /\ tx[t].kind = "undeploy"
    /\ tx[t].todo = {}
    /\ tx' = [tx EXCEPT ![t].pc = IF moved # tx[t].spawn /\ WorldView(t).exists
                                  THEN "storeSpawn" ELSE "stats",
                        ![t].spawn = moved]
    /\ UNCHANGED <<rowVars, worldVars>>

MoveSpawn(t) ==
    LET moved == MovedSpawn(tx[t].spawn, DeployedIn(t)) IN
    /\ At(t, "rows")
    /\ tx[t].kind = "undeploy"
    /\ tx[t].todo = {}
    /\ tx' = [tx EXCEPT ![t].pc = IF moved # tx[t].spawn /\ WorldView(t).exists
                                  THEN "storeSpawn" ELSE "stats",
                        ![t].spawn = moved]
    /\ UNCHANGED <<rowVars, worldVars>>

StoreSpawn(t) ==
    /\ At(t, "storeSpawn")
    /\ WriteWorld(t, [WorldView(t) EXCEPT !.spawn = tx[t].spawn])
    /\ Goto(t, "stats")

-----------------------------------------------------------------------------
(* undeployWorld                                                            *)

BeginUndeployWorld(t) ==
    Begin(t, [Idle EXCEPT !.pc = "match", !.kind = "undeployWorld", !.area = Parcels])

\* Mutant: the spawn point is not reset.
ClearWorldKeepsSpawn(t) ==
    /\ At(t, "rows")
    /\ tx[t].kind = "undeployWorld"
    /\ tx[t].todo = {}
    /\ IF WorldView(t).exists
       THEN WriteWorld(t, [WorldView(t) EXCEPT !.stats = StatsOf({})])
       ELSE UNCHANGED <<rowVars, worldVars>>
    /\ Goto(t, "commit")

ClearWorld(t) ==
    /\ At(t, "rows")
    /\ tx[t].kind = "undeployWorld"
    /\ tx[t].todo = {}
    /\ IF WorldView(t).exists
       THEN WriteWorld(t, [WorldView(t) EXCEPT !.spawn = None, !.stats = StatsOf({})])
       ELSE UNCHANGED <<rowVars, worldVars>>
    /\ Goto(t, "commit")

-----------------------------------------------------------------------------
(* updateWorldSettings, of which only the spawn point concerns the scenes   *)

BeginSettings(t, spawn) ==
    Begin(t, [Idle EXCEPT !.pc = "validate", !.kind = "settings", !.spawn = spawn])

\* NoDeployedScenesError and SpawnCoordinatesOutOfBoundsError roll back.
ValidateSpawn(t) ==
    LET box == BoundingRectangle(DeployedIn(t)) IN
    /\ At(t, "validate")
    /\ IF tx[t].spawn = None \/ (box # None /\ Within(tx[t].spawn, box))
       THEN Goto(t, "upsertSettings") /\ UNCHANGED <<rowVars, worldVars>>
       ELSE Rollback(t)

UpsertSettings(t) ==
    /\ At(t, "upsertSettings")
    /\ LET row == WorldView(t)
       IN  WriteWorld(t, [row EXCEPT !.exists = TRUE,
                                     !.spawn = IF tx[t].spawn = None THEN row.spawn
                                                                     ELSE tx[t].spawn])
    /\ Goto(t, "commit")

-----------------------------------------------------------------------------
(* evictUndeployedScenes, failures and deadlocks                            *)

\* One DELETE of rows that have been undeployed for a week.  The age of a row is
\* abstracted; a statement that still remembers the row is never that old.
Evict ==
    /\ "evict" \in Kinds
    /\ \E gone \in SUBSET {e \in Scenes : scenes[e] = "UNDEPLOYED"} :
        /\ gone # {}
        /\ \A t \in Txns : gone \cap tx[t].seen = {}
        /\ scenes' = [e \in Scenes |-> IF e \in gone THEN "ABSENT" ELSE scenes[e]]
    /\ UNCHANGED <<rowLock, rowNew, worldVars, tx>>

\* Cancellation by the request's signal, the statement timeout, a lost connection
\* or a failed COMMIT: at any point before the commit the work is undone.
Fail(t) ==
    /\ ~At(t, "idle")
    /\ Rollback(t)

\* The transactions that t's next lock may make it wait for.
NeedsWorld(t) ==
    \/ tx[t].pc \in {"upsert", "storeSpawn", "storeStats", "upsertSettings"}
    \/ At(t, "rows") /\ tx[t].kind = "undeployWorld" /\ tx[t].todo = {} /\ WorldView(t).exists

WaitsFor(t) ==
    {u \in Txns \ {t} :
        \/ NeedsWorld(t) /\ worldLock = u
        \/ At(t, "rows") /\ \E e \in tx[t].todo : rowLock[e] = u}

\* PostgreSQL aborts one transaction of a cycle of waiting transactions.
DeadlockVictim(t) ==
    /\ \E cycle \in SUBSET Txns :
        /\ t \in cycle
        /\ \A u \in cycle : WaitsFor(u) \cap cycle # {}
        /\ \A part \in (SUBSET cycle) \ {{}, cycle} :
              \E u \in part : WaitsFor(u) \cap part = {}
    /\ Rollback(t)

-----------------------------------------------------------------------------
Init ==
    /\ scenes = [e \in Scenes |-> "ABSENT"]
    /\ world = NewWorld
    /\ rowLock = [e \in Scenes |-> None]
    /\ rowNew = [e \in Scenes |-> "ABSENT"]
    /\ worldLock = None
    /\ worldNew = NewWorld
    /\ tx = [t \in Txns |-> Idle]

Request(t) ==
    \/ \E e \in Scenes : BeginDeploy(t, e)
    \/ \E p \in Parcels : BeginUndeploy(t, p)
    \/ BeginUndeployWorld(t)
    \/ \E p \in Parcels \cup {None} : BeginSettings(t, p)

\* The next statement of a running transaction.
Statement(t) ==
    \/ UpsertWorld(t)
    \/ MatchScenes(t)
    \/ \E e \in Scenes : UndeployRow(t, e)
    \/ InsertScene(t)
    \/ ReadSpawn(t)
    \/ MoveSpawn(t)
    \/ StoreSpawn(t)
    \/ ClearWorld(t)
    \/ ValidateSpawn(t)
    \/ UpsertSettings(t)
    \/ ComputeStats(t)
    \/ StoreStats(t)
    \/ Commit(t)

Next ==
    \/ \E t \in Txns : Request(t) \/ Statement(t) \/ Fail(t) \/ DeadlockVictim(t)
    \/ Evict

Spec == Init /\ [][Next]_vars

\* PostgreSQL queues the waiters of a lock, so a statement that is enabled again
\* and again is executed; and it looks for deadlocks until one is resolved.
Fairness ==
    /\ \A t \in Txns : SF_vars(Statement(t))
    /\ \A t \in Txns : WF_vars(DeadlockVictim(t))

FairSpec == Spec /\ Fairness

-----------------------------------------------------------------------------
(* Properties                                                               *)

Overlap(d, e) == ParcelsOf[d] \cap ParcelsOf[e] # {}

(* Two deployed scenes never stand on the same parcel, whatever deployments  *)
(* and undeployments run at the same time: deployScene removes "any existing *)
(* scenes that overlap" in a statement whose snapshot must be new enough.    *)
NoOverlap ==
    \A d, e \in Deployed : d # e => ~Overlap(d, e)

(* The visible scenes change only as SceneMap allows: a deployment replaces  *)
(* exactly the overlapping scenes in one instant, and any other scene that   *)
(* comes off the map is covered by an undeployment that is running.          *)
Asked == {tx[t].area : t \in {u \in Txns : tx[u].kind \in {"undeploy", "undeployWorld"}}}
Map == INSTANCE SceneMap WITH deployed <- Deployed, asked <- Asked
ImplementsSceneMap == Map!Spec

(* An undeployment that commits leaves none of the scenes it matched on the  *)
(* map, although it may have waited for rows another transaction was         *)
(* changing and that transaction may have rolled back.                       *)
UndeployIsComplete ==
    [][\A t \in Txns :
         /\ At(t, "commit") /\ tx'[t].pc = "idle"
         /\ tx[t].kind \in {"undeploy", "undeployWorld"}
         => \/ tx[t].seen \cap Deployed' = {}
            \/ UNCHANGED <<scenes, world>>]_vars

Quiet == \A t \in Txns : At(t, "idle")

(* With no transaction running, the denormalized columns of `worlds` are the *)
(* statistics of the deployed scenes.                                        *)
StatsExactWhenQuiet ==
    Quiet => world.stats = StatsOf(Deployed)

(* With no transaction running, a world has a spawn point exactly when it    *)
(* has a deployed scene.                                                     *)
SpawnIffDeployed ==
    Quiet => (world.spawn # None <=> Deployed # {})

SpawnInside ==
    Deployed # {} => world.spawn # None /\ Within(world.spawn, BoundingRectangle(Deployed))

\* A transaction that commits, other than a deployment, leaves the spawn point inside the
\* rectangle of the scenes there are then.
CommitKeepsSpawnInside ==
    \A t \in Txns :
        /\ At(t, "commit") /\ tx'[t].pc = "idle"
        /\ \/ tx[t].kind \in {"undeploy", "undeployWorld"}
           \/ tx[t].kind = "settings" /\ tx[t].spawn # None
        => SpawnInside' \/ UNCHANGED <<scenes, world>>

(* Every transaction ends, although deployments lock the world before its    *)
(* scenes and undeployments the scenes before their world.                   *)
EveryTransactionEnds ==
    \A t \in Txns : ~At(t, "idle") ~> At(t, "idle")

=============================================================================
