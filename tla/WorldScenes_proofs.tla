------------------------- MODULE WorldScenes_proofs -------------------------
(***************************************************************************)
(* Theorems about WorldScenes for any scenes, parcels and number of         *)
(* connections: the types, the disjointness of deployed scenes, and that    *)
(* the transactions implement SceneMap.                                     *)
(***************************************************************************)
EXTENDS WorldScenes, TLAPS

(***************************************************************************)
(* Types                                                                    *)
(***************************************************************************)

\* The operations that take scenes off the map.
Clearing == {"deploy", "undeploy", "undeployWorld"}

(* What the program counter of a transaction says about its request. *)
WellFormed(r) ==
    /\ r.pc = "idle" => r = Idle
    /\ r.pc = "upsert" => r.kind = "deploy"
    /\ r.pc = "readSpawn" => r.kind = "undeploy"
    /\ r.pc \in {"match", "rows"} => r.kind \in Clearing
    /\ r.kind = "deploy" =>
         /\ r.pc \in {"upsert", "match", "rows", "stats", "storeStats", "commit"}
         /\ r.scene \in Scenes
         /\ r.area = ParcelsOf[r.scene]
    /\ r.kind \in {"undeploy", "undeployWorld"} =>
         r.area \in {{p} : p \in Parcels} \cup {Parcels}

Shape == \A t \in Txns : WellFormed(tx[t])

LEMMA StatsType ==
    ASSUME NEW S \in SUBSET Scenes
    PROVE  StatsOf(S) \in AllStats
BY DEF AllStats

LEMMA MovedSpawnType ==
    ASSUME NEW spawn \in Spawns, NEW S \in SUBSET Scenes
    PROVE  MovedSpawn(spawn, S) \in Spawns
<1>1. CASE BoundingRectangle(S) = None
    BY <1>1 DEF MovedSpawn, Spawns
<1>2. CASE BoundingRectangle(S) # None
    <2>1. S # {}
        BY <1>2 DEF BoundingRectangle, Cells
    <2>2. Center(BoundingRectangle(S)) \in Spawns
        BY <2>1 DEF Spawns
    <2> QED
        BY <1>2, <2>2 DEF MovedSpawn
<1> QED
    BY <1>1, <1>2

LEMMA IdleType == Idle \in Transactions
BY StatsType DEF Idle, Transactions, PCs, Spawns

LEMMA NewWorldType == NewWorld \in Worlds
BY StatsType DEF NewWorld, Worlds, Spawns

LEMMA ViewType ==
    ASSUME TypeOK, NEW t \in Txns
    PROVE  /\ View(t) \in [Scenes -> Status]
           /\ WorldView(t) \in Worlds
           /\ DeployedIn(t) \in SUBSET Scenes
BY DEF TypeOK, View, WorldView, DeployedIn

LEMMA EndType ==
    ASSUME TypeOK, NEW t \in Txns, NEW rows \in [Scenes -> Status], NEW row \in Worlds,
           End(t, rows, row)
    PROVE  TypeOK'
BY IdleType, NewWorldType DEF TypeOK, End, Status

LEMMA RollbackType ==
    ASSUME TypeOK, NEW t \in Txns, Rollback(t)
    PROVE  TypeOK'
BY EndType DEF TypeOK, Rollback

LEMMA WriteRowType ==
    ASSUME TypeOK, NEW t \in Txns, NEW e \in Scenes, NEW status \in Status,
           WriteRow(t, e, status), tx' \in [Txns -> Transactions]
    PROVE  TypeOK'
BY DEF TypeOK, WriteRow, worldVars

LEMMA WriteWorldType ==
    ASSUME TypeOK, NEW t \in Txns, NEW row \in Worlds,
           WriteWorld(t, row), tx' \in [Txns -> Transactions]
    PROVE  TypeOK'
BY DEF TypeOK, WriteWorld, rowVars

LEMMA SkipType ==
    ASSUME TypeOK, UNCHANGED <<rowVars, worldVars>>, tx' \in [Txns -> Transactions]
    PROVE  TypeOK'
BY DEF TypeOK, rowVars, worldVars

LEMMA GotoType ==
    ASSUME TypeOK, NEW t \in Txns, NEW pc \in PCs, Goto(t, pc)
    PROVE  tx' \in [Txns -> Transactions]
BY DEF TypeOK, Goto, Transactions

(* A request starts a transaction that has done nothing yet. *)
Requests ==
    {r \in Transactions :
        /\ WellFormed(r)
        /\ r.pc \in {"upsert", "readSpawn", "match", "validate"}
        /\ r.kind = "deploy" => r.pc = "upsert"
        /\ r.todo = {} /\ r.seen = {}}

LEMMA RequestForm ==
    ASSUME TypeOK, NEW t \in Txns, Request(t)
    PROVE  \E request \in Requests : Begin(t, request)
<1> USE IdleType DEF Requests, Transactions, WellFormed, PCs, AllKinds, Idle, Clearing
<1>1. CASE \E e \in Scenes : BeginDeploy(t, e)
    <2>1. PICK e \in Scenes : BeginDeploy(t, e)
        BY <1>1
    <2>2. [Idle EXCEPT !.pc = "upsert", !.kind = "deploy", !.scene = e,
                       !.area = ParcelsOf[e]] \in Requests
        BY ScenesAssumption
    <2> QED
        BY <2>1, <2>2 DEF BeginDeploy
<1>2. CASE \E p \in Parcels : BeginUndeploy(t, p)
    <2>1. PICK p \in Parcels : BeginUndeploy(t, p)
        BY <1>2
    <2>2. [Idle EXCEPT !.pc = "readSpawn", !.kind = "undeploy", !.area = {p}] \in Requests
        OBVIOUS
    <2> QED
        BY <2>1, <2>2 DEF BeginUndeploy
<1>3. CASE BeginUndeployWorld(t)
    <2>1. [Idle EXCEPT !.pc = "match", !.kind = "undeployWorld", !.area = Parcels] \in Requests
        OBVIOUS
    <2> QED
        BY <1>3, <2>1 DEF BeginUndeployWorld
<1>4. CASE \E p \in Parcels \cup {None} : BeginSettings(t, p)
    <2>1. PICK p \in Parcels \cup {None} : BeginSettings(t, p)
        BY <1>4
    <2>2. [Idle EXCEPT !.pc = "validate", !.kind = "settings", !.spawn = p] \in Requests
        BY DEF Spawns
    <2> QED
        BY <2>1, <2>2 DEF BeginSettings
<1> QED
    BY <1>1, <1>2, <1>3, <1>4 DEF Request

(* A statement moves its own transaction on, within the same request, or ends it. *)
Moves(t, r) ==
    /\ tx' = [tx EXCEPT ![t] = r]
    /\ r.kind = tx[t].kind /\ r.scene = tx[t].scene /\ r.area = tx[t].area

LEMMA GotoMoves ==
    ASSUME TypeOK, NEW t \in Txns, NEW pc \in PCs, Goto(t, pc)
    PROVE  /\ [tx[t] EXCEPT !.pc = pc] \in Transactions
           /\ Moves(t, [tx[t] EXCEPT !.pc = pc])
BY DEF TypeOK, Goto, Transactions, Moves

LEMMA MovesType ==
    ASSUME TypeOK, Shape, NEW t \in Txns, NEW r \in Transactions, Moves(t, r),
           r.pc \notin {"idle", "upsert", "readSpawn"}, tx[t].pc # "idle",
           r.pc \in {"match", "rows"} => r.kind \in Clearing,
           r.kind = "deploy" => r.pc \in {"match", "rows", "stats", "storeStats", "commit"}
    PROVE  tx' \in [Txns -> Transactions] /\ Shape'
BY DEF TypeOK, Shape, WellFormed, Moves

LEMMA EndShape ==
    ASSUME TypeOK, Shape, NEW t \in Txns, tx' = [tx EXCEPT ![t] = Idle]
    PROVE  Shape'
BY NoneAssumption DEF TypeOK, Shape, WellFormed, Idle, AllKinds

(* Each statement keeps the types and the shape. *)

Typed == TypeOK /\ Shape

LEMMA GotoTyped ==
    ASSUME Typed, NEW t \in Txns, tx[t].pc # "idle",
           NEW pc \in PCs \ {"idle", "upsert", "readSpawn"}, Goto(t, pc),
           pc \in {"match", "rows"} => tx[t].kind \in Clearing,
           tx[t].kind = "deploy" => pc \in {"match", "rows", "stats", "storeStats", "commit"}
    PROVE  tx' \in [Txns -> Transactions] /\ Shape'
<1>1. [tx[t] EXCEPT !.pc = pc] \in Transactions /\ Moves(t, [tx[t] EXCEPT !.pc = pc])
    BY GotoMoves DEF Typed
<1>2. tx[t] \in Transactions
    BY DEF Typed, TypeOK
<1>3. [tx[t] EXCEPT !.pc = pc].pc = pc /\ [tx[t] EXCEPT !.pc = pc].kind = tx[t].kind
    BY <1>2 DEF Transactions
<1> QED
    BY <1>1, <1>3, MovesType DEF Typed

LEMMA RollbackTyped ==
    ASSUME Typed, NEW t \in Txns, Rollback(t)
    PROVE  Typed'
BY RollbackType, EndShape DEF Typed, Rollback, End

LEMMA RequestTyped ==
    ASSUME Typed, NEW t \in Txns, Request(t)
    PROVE  Typed'
<1>1. PICK request \in Requests : Begin(t, request)
    BY RequestForm DEF Typed
<1>2. tx' \in [Txns -> Transactions] /\ Shape'
    BY <1>1 DEF Typed, TypeOK, Shape, Begin, Requests
<1> QED
    BY <1>1, <1>2, SkipType DEF Typed, Begin

LEMMA UpsertWorldTyped ==
    ASSUME Typed, NEW t \in Txns, UpsertWorld(t)
    PROVE  Typed'
<1> DEFINE row == WorldView(t)
           base == BaseOf[tx[t].scene]
           new == [row EXCEPT !.exists = TRUE,
                              !.spawn = IF row.spawn = None THEN base ELSE row.spawn]
<1>1. base \in Parcels
    BY ScenesAssumption DEF Typed, Shape, WellFormed, UpsertWorld, At
<1>2. new \in Worlds
    BY <1>1, ViewType DEF Worlds, Spawns, Typed
<1>3. /\ WriteWorld(t, new) /\ Goto(t, "match")
      /\ tx[t].pc = "upsert" /\ tx[t].kind \in Clearing
    BY DEF UpsertWorld, At, Typed, Shape, WellFormed, Clearing
<1> HIDE DEF new
<1>4. tx' \in [Txns -> Transactions] /\ Shape'
    BY <1>3, GotoTyped DEF PCs
<1> QED
    BY <1>2, <1>3, <1>4, WriteWorldType DEF Typed

LEMMA MatchScenesTyped ==
    ASSUME Typed, NEW t \in Txns, MatchScenes(t)
    PROVE  Typed'
<1> DEFINE matched == {e \in DeployedIn(t) : ParcelsOf[e] \cap tx[t].area # {}}
           r == [tx[t] EXCEPT !.pc = "rows", !.todo = matched, !.seen = matched]
<1>1. matched \in SUBSET Scenes
    BY ViewType DEF Typed
<1> HIDE DEF matched
<1>2. r \in Transactions /\ Moves(t, r) /\ r.pc = "rows"
    BY <1>1 DEF Typed, TypeOK, Transactions, PCs, Moves, MatchScenes, matched
<1>3. tx' \in [Txns -> Transactions] /\ Shape'
    BY <1>2, MovesType DEF Typed, MatchScenes, At, Moves, Shape, WellFormed
<1> QED
    BY <1>3, SkipType DEF Typed, MatchScenes

LEMMA UndeployRowTyped ==
    ASSUME Typed, NEW t \in Txns, NEW e \in Scenes, UndeployRow(t, e)
    PROVE  Typed'
<1> DEFINE r == [tx[t] EXCEPT !.todo = @ \ {e}]
<1>1. r \in Transactions /\ Moves(t, r) /\ r.pc = "rows"
    BY DEF Typed, TypeOK, Transactions, Moves, UndeployRow, At
<1>2. tx' \in [Txns -> Transactions] /\ Shape'
    BY <1>1, MovesType DEF Typed, UndeployRow, At, Moves, Shape, WellFormed
<1> QED
    BY <1>2, WriteRowType, SkipType DEF Typed, UndeployRow, Status

LEMMA ComputeStatsTyped ==
    ASSUME Typed, NEW t \in Txns, ComputeStats(t)
    PROVE  Typed'
<1> DEFINE pc == IF WorldView(t).exists THEN "storeStats" ELSE "commit"
           stats == StatsOf(DeployedIn(t))
           r == [tx[t] EXCEPT !.pc = pc, !.stats = stats]
<1>1. stats \in AllStats
    BY ViewType, StatsType DEF Typed
<1> HIDE DEF stats
<1>2. r \in Transactions /\ Moves(t, r) /\ r.pc \in {"storeStats", "commit"}
    BY <1>1 DEF Typed, TypeOK, Transactions, PCs, Moves, ComputeStats, stats
<1>3. tx' \in [Txns -> Transactions] /\ Shape'
    BY <1>2, MovesType DEF Typed, ComputeStats, At
<1> QED
    BY <1>3, SkipType DEF Typed, ComputeStats

LEMMA StoreStatsTyped ==
    ASSUME Typed, NEW t \in Txns, StoreStats(t)
    PROVE  Typed'
<1> DEFINE new == [WorldView(t) EXCEPT !.stats = tx[t].stats]
<1>1. new \in Worlds
    BY ViewType DEF Worlds, Typed, TypeOK, Transactions
<1>2. WriteWorld(t, new) /\ Goto(t, "commit") /\ tx[t].pc = "storeStats"
    BY DEF StoreStats, At
<1> HIDE DEF new
<1>3. tx' \in [Txns -> Transactions] /\ Shape'
    BY <1>2, GotoTyped DEF PCs
<1> QED
    BY <1>1, <1>2, <1>3, WriteWorldType DEF Typed

LEMMA CommitTyped ==
    ASSUME Typed, NEW t \in Txns, Commit(t)
    PROVE  Typed'
BY ViewType, EndType, EndShape DEF Typed, Commit, End

LEMMA InsertSceneTyped ==
    ASSUME Typed, NEW t \in Txns, InsertScene(t)
    PROVE  Typed'
<1>1. CASE Rollback(t)
    BY <1>1, RollbackTyped
<1>2. CASE WriteRow(t, tx[t].scene, "DEPLOYED") /\ Goto(t, "stats")
    <2>1. tx[t].scene \in Scenes /\ tx[t].pc = "rows"
        BY DEF Typed, Shape, WellFormed, InsertScene, At
    <2>2. tx' \in [Txns -> Transactions] /\ Shape'
        BY <1>2, <2>1, GotoTyped DEF PCs
    <2> QED
        BY <1>2, <2>1, <2>2, WriteRowType DEF Typed, Status
<1> QED
    BY <1>1, <1>2 DEF InsertScene

LEMMA ReadSpawnTyped ==
    ASSUME Typed, NEW t \in Txns, ReadSpawn(t)
    PROVE  Typed'
<1> DEFINE spawn == WorldView(t).spawn
           r == [tx[t] EXCEPT !.pc = "match", !.spawn = spawn]
<1>1. spawn \in Spawns
    BY ViewType DEF Typed, Worlds
<1> HIDE DEF spawn
<1>2. r \in Transactions /\ Moves(t, r) /\ r.pc = "match"
    BY <1>1 DEF Typed, TypeOK, Transactions, PCs, Moves, ReadSpawn, spawn
<1>3. tx[t].pc = "readSpawn" /\ tx[t].kind = "undeploy"
    BY DEF Typed, Shape, WellFormed, ReadSpawn, At
<1>4. r.kind = "undeploy"
    BY <1>2, <1>3 DEF Moves
<1>5. tx' \in [Txns -> Transactions] /\ Shape'
    BY <1>2, <1>3, <1>4, MovesType DEF Typed, Clearing
<1> QED
    BY <1>5, SkipType DEF Typed, ReadSpawn

LEMMA MoveSpawnTyped ==
    ASSUME Typed, NEW t \in Txns, MoveSpawn(t)
    PROVE  Typed'
<1> DEFINE moved == MovedSpawn(tx[t].spawn, DeployedIn(t))
           pc == IF moved # tx[t].spawn /\ WorldView(t).exists THEN "storeSpawn" ELSE "stats"
           r == [tx[t] EXCEPT !.pc = pc, !.spawn = moved]
<1>1. moved \in Spawns
    BY ViewType, MovedSpawnType DEF Typed, TypeOK, Transactions
<1> HIDE DEF moved
<1>2. r \in Transactions /\ Moves(t, r) /\ r.pc \in {"storeSpawn", "stats"}
    BY <1>1 DEF Typed, TypeOK, Transactions, PCs, Moves, MoveSpawn, moved
<1>3. tx' \in [Txns -> Transactions] /\ Shape'
    BY <1>2, MovesType DEF Typed, MoveSpawn, At, Moves
<1> QED
    BY <1>3, SkipType DEF Typed, MoveSpawn

LEMMA StoreSpawnTyped ==
    ASSUME Typed, NEW t \in Txns, StoreSpawn(t)
    PROVE  Typed'
<1> DEFINE new == [WorldView(t) EXCEPT !.spawn = tx[t].spawn]
<1>1. new \in Worlds
    BY ViewType DEF Worlds, Typed, TypeOK, Transactions
<1>2. WriteWorld(t, new) /\ Goto(t, "stats") /\ tx[t].pc = "storeSpawn"
    BY DEF StoreSpawn, At
<1> HIDE DEF new
<1>3. tx' \in [Txns -> Transactions] /\ Shape'
    BY <1>2, GotoTyped DEF PCs
<1> QED
    BY <1>1, <1>2, <1>3, WriteWorldType DEF Typed

LEMMA ClearWorldTyped ==
    ASSUME Typed, NEW t \in Txns, ClearWorld(t)
    PROVE  Typed'
<1> DEFINE new == [WorldView(t) EXCEPT !.spawn = None, !.stats = StatsOf({})]
<1>1. new \in Worlds
    BY ViewType, StatsType DEF Worlds, Typed, Spawns
<1>2. /\ WriteWorld(t, new) \/ UNCHANGED <<rowVars, worldVars>>
      /\ Goto(t, "commit") /\ tx[t].pc = "rows"
    BY DEF ClearWorld, At
<1> HIDE DEF new
<1>3. tx' \in [Txns -> Transactions] /\ Shape'
    BY <1>2, GotoTyped DEF PCs
<1> QED
    BY <1>1, <1>2, <1>3, WriteWorldType, SkipType DEF Typed

LEMMA ValidateSpawnTyped ==
    ASSUME Typed, NEW t \in Txns, ValidateSpawn(t)
    PROVE  Typed'
<1>1. CASE Rollback(t)
    BY <1>1, RollbackTyped
<1>2. CASE Goto(t, "upsertSettings") /\ UNCHANGED <<rowVars, worldVars>>
    <2>1. tx[t].pc = "validate" /\ tx[t].kind # "deploy"
        BY DEF Typed, Shape, WellFormed, ValidateSpawn, At
    <2>2. tx' \in [Txns -> Transactions] /\ Shape'
        BY <1>2, <2>1, GotoTyped DEF PCs
    <2> QED
        BY <1>2, <2>2, SkipType DEF Typed
<1> QED
    BY <1>1, <1>2 DEF ValidateSpawn

LEMMA UpsertSettingsTyped ==
    ASSUME Typed, NEW t \in Txns, UpsertSettings(t)
    PROVE  Typed'
<1> DEFINE row == WorldView(t)
           new == [row EXCEPT !.exists = TRUE,
                              !.spawn = IF tx[t].spawn = None THEN row.spawn ELSE tx[t].spawn]
<1>1. new \in Worlds
    BY ViewType DEF Worlds, Typed, TypeOK, Transactions
<1>2. WriteWorld(t, new) /\ Goto(t, "commit") /\ tx[t].pc = "upsertSettings"
    BY DEF UpsertSettings, At
<1> HIDE DEF new
<1>3. tx' \in [Txns -> Transactions] /\ Shape'
    BY <1>2, GotoTyped DEF PCs
<1> QED
    BY <1>1, <1>2, <1>3, WriteWorldType DEF Typed

LEMMA EvictTyped ==
    ASSUME Typed, Evict
    PROVE  Typed'
<1>1. scenes' \in [Scenes -> Status]
    BY DEF Typed, TypeOK, Evict, Status
<1> QED
    BY <1>1 DEF Typed, TypeOK, Shape, Evict, worldVars

LEMMA InitTyped == Init => Typed
<1> SUFFICES ASSUME Init PROVE Typed
    OBVIOUS
<1>1. TypeOK
    BY IdleType, NewWorldType DEF Init, TypeOK, Status
<1>2. WellFormed(Idle)
    BY NoneAssumption DEF WellFormed, Idle, AllKinds
<1> QED
    BY <1>1, <1>2 DEF Init, Typed, Shape

LEMMA NextTyped == Typed /\ [Next]_vars => Typed'
<1> SUFFICES ASSUME Typed, [Next]_vars
             PROVE  Typed'
    OBVIOUS
<1>1. ASSUME NEW t \in Txns, Request(t) PROVE Typed'
    BY <1>1, RequestTyped
<1>2. ASSUME NEW t \in Txns, Statement(t) PROVE Typed'
    BY <1>2, UpsertWorldTyped, MatchScenesTyped, UndeployRowTyped, InsertSceneTyped,
       ReadSpawnTyped, MoveSpawnTyped, StoreSpawnTyped, ClearWorldTyped, ValidateSpawnTyped,
       UpsertSettingsTyped, ComputeStatsTyped, StoreStatsTyped, CommitTyped DEF Statement
<1>3. ASSUME NEW t \in Txns, Fail(t) \/ DeadlockVictim(t) PROVE Typed'
    BY <1>3, RollbackTyped DEF Fail, DeadlockVictim
<1>4. CASE Evict
    BY <1>4, EvictTyped
<1>5. CASE UNCHANGED vars
    BY <1>5 DEF vars, Typed, TypeOK, Shape
<1> QED
    BY <1>1, <1>2, <1>3, <1>4, <1>5 DEF Next

LEMMA TypedInvariant == Spec => []Typed
<1> QED
    BY InitTyped, NextTyped, PTL DEF Spec

(* Every row, lock and running transaction keeps its type, for any number of *)
(* scenes and connections.                                                   *)
THEOREM TypeCorrect == Spec => []TypeOK
<1>1. Typed => TypeOK
    BY DEF Typed
<1> QED
    BY <1>1, TypedInvariant, PTL

(***************************************************************************)
(* Disjoint scenes                                                          *)
(***************************************************************************)

(* What a running transaction t knows.  A deployment holds the lock of the   *)
(* world once it has written it, so no other scene can appear while it       *)
(* clears its parcels: each deployed scene standing on them is still to be   *)
(* undeployed or already is, in t's own rows.                                *)
Knows(t) ==
    /\ tx[t].kind = "deploy" /\ ~At(t, "upsert") => worldLock = t
    /\ tx[t].kind = "deploy" /\ tx[t].pc \in {"rows", "stats", "storeStats", "commit"} =>
         \A e \in Deployed :
            ParcelsOf[e] \cap tx[t].area # {} =>
              e \in tx[t].todo \/ (rowLock[e] = t /\ rowNew[e] = "UNDEPLOYED")
    /\ tx[t].kind = "deploy" /\ tx[t].pc \in {"stats", "storeStats", "commit"} =>
         /\ tx[t].todo = {}
         /\ rowLock[tx[t].scene] = t
         /\ rowNew[tx[t].scene] = "DEPLOYED"
         /\ scenes[tx[t].scene] = "ABSENT"
    /\ \A e \in tx[t].todo : ParcelsOf[e] \cap tx[t].area # {}

(* What a lock of t on the row of scene e means. *)
Holds(t, e) ==
    \/ /\ rowNew[e] = "UNDEPLOYED"
       /\ tx[t].kind \in Clearing
       /\ ParcelsOf[e] \cap tx[t].area # {}
    \/ /\ rowNew[e] = "DEPLOYED"
       /\ tx[t].kind = "deploy"
       /\ e = tx[t].scene
       /\ tx[t].pc \in {"stats", "storeStats", "commit"}

IInv ==
    /\ Typed
    /\ NoOverlap
    /\ \A t \in Txns : Knows(t)
    /\ \A t \in Txns, e \in Scenes : rowLock[e] = t => Holds(t, e)

(* A step of t that ends nothing disturbs only what t itself knows and holds. *)
LEMMA LocalStep ==
    ASSUME IInv, Typed', NEW t \in Txns, NEW r, tx' = [tx EXCEPT ![t] = r],
           scenes' = scenes,
           \A e \in Scenes :
             \/ rowLock'[e] = rowLock[e] /\ rowNew'[e] = rowNew[e]
             \/ rowLock[e] \in {None, t} /\ rowLock'[e] = t,
           \/ worldLock' = worldLock
           \/ worldLock \in {None, t} /\ worldLock' = t,
           Knows(t)',
           \A e \in Scenes : rowLock'[e] = t => Holds(t, e)'
    PROVE  IInv'
<1>1. NoOverlap'
    BY DEF IInv, NoOverlap, Deployed
<1>2. ASSUME NEW u \in Txns, u # t
      PROVE  Knows(u)'
    <2>1. tx'[u] = tx[u]
        BY <1>2 DEF IInv, Typed, TypeOK
    <2>2. Knows(u)
        BY DEF IInv
    <2>3. worldLock = u => worldLock' = u
        BY <1>2, NoneAssumption
    <2>4. \A e \in Scenes : rowLock[e] = u => rowLock'[e] = u /\ rowNew'[e] = rowNew[e]
        BY <1>2, NoneAssumption
    <2>5. tx[u].kind = "deploy" => tx[u].scene \in Scenes
        BY DEF IInv, Typed, Shape, WellFormed
    <2> QED
        BY <2>1, <2>2, <2>3, <2>4, <2>5 DEF Knows, Deployed, At
<1>3. ASSUME NEW u \in Txns, u # t, NEW e \in Scenes, rowLock'[e] = u
      PROVE  Holds(u, e)'
    <2>1. tx'[u] = tx[u]
        BY <1>3 DEF IInv, Typed, TypeOK
    <2>2. rowLock[e] = u /\ rowNew'[e] = rowNew[e]
        BY <1>3
    <2>3. Holds(u, e)
        BY <2>2 DEF IInv
    <2> QED
        BY <2>1, <2>2, <2>3 DEF Holds
<1> QED
    BY <1>1, <1>2, <1>3 DEF IInv

(* Ending t keeps the invariant if the rows it leaves suit everyone else. *)
LEMMA EndStep ==
    ASSUME IInv, Typed', NEW t \in Txns, NEW rows, NEW row, End(t, rows, row),
           NoOverlap',
           \A u \in Txns \ {t}, e \in Scenes :
             /\ rowLock[e] = u => rows[e] = scenes[e]
             /\ /\ tx[u].kind = "deploy"
                /\ tx[u].pc \in {"rows", "stats", "storeStats", "commit"}
                /\ rows[e] = "DEPLOYED"
                => scenes[e] = "DEPLOYED"
    PROVE  IInv'
<1>1. tx'[t] = Idle /\ scenes' = rows
    BY DEF End, IInv, Typed, TypeOK
<1>2. Idle.todo = {} /\ Idle.kind # "deploy"
    BY NoneAssumption DEF Idle, AllKinds
<1>3. Knows(t)'
    BY <1>1, <1>2 DEF Knows
<1>4. ASSUME NEW e \in Scenes
      PROVE  /\ rowLock'[e] # t
             /\ \A u \in Txns \ {t} : rowLock'[e] = u <=> rowLock[e] = u
             /\ rowLock[e] # t => rowNew'[e] = rowNew[e]
    BY NoneAssumption DEF End
<1>5. ASSUME NEW u \in Txns, u # t
      PROVE  Knows(u)'
    <2>1. tx'[u] = tx[u]
        BY <1>5 DEF IInv, Typed, TypeOK, End
    <2>2. Knows(u)
        BY DEF IInv
    <2>3. worldLock = u => worldLock' = u
        BY <1>5 DEF End
    <2>4. \A e \in Scenes : rowLock[e] = u => /\ rowLock'[e] = u
                                             /\ rowNew'[e] = rowNew[e]
                                             /\ scenes'[e] = scenes[e]
        BY <1>1, <1>4, <1>5
    <2>5. tx[u].kind = "deploy" => tx[u].scene \in Scenes
        BY DEF IInv, Typed, Shape, WellFormed
    <2>6. ASSUME tx[u].kind = "deploy", tx[u].pc \in {"rows", "stats", "storeStats", "commit"}
          PROVE  Deployed' \subseteq Deployed
        BY <1>1, <1>5, <2>6 DEF Deployed
    <2> QED
        BY <2>1, <2>2, <2>3, <2>4, <2>5, <2>6 DEF Knows, At, Deployed
<1>6. ASSUME NEW u \in Txns, NEW e \in Scenes, rowLock'[e] = u
      PROVE  Holds(u, e)'
    <2>1. u # t /\ rowLock[e] = u /\ rowNew'[e] = rowNew[e]
        BY <1>4, <1>6
    <2>2. tx'[u] = tx[u]
        BY <2>1 DEF IInv, Typed, TypeOK, End
    <2> QED
        BY <2>1, <2>2 DEF Holds, IInv
<1> QED
    BY <1>3, <1>5, <1>6 DEF IInv

LEMMA RollbackSafe ==
    ASSUME IInv, NEW t \in Txns, Rollback(t)
    PROVE  IInv'
<1>1. Typed'
    BY RollbackTyped DEF IInv
<1>2. scenes' = scenes
    BY DEF Rollback, End
<1>3. NoOverlap'
    BY <1>2 DEF IInv, NoOverlap, Deployed
<1> QED
    BY <1>1, <1>2, <1>3, EndStep DEF Rollback

(* What t's rows become when it commits. *)
LEMMA CommitView ==
    ASSUME IInv, NEW t \in Txns, At(t, "commit"), NEW e \in Scenes
    PROVE  /\ rowLock[e] # t => View(t)[e] = scenes[e]
           /\ rowLock[e] = t => View(t)[e] = rowNew[e]
           /\ rowLock[e] = t /\ rowNew[e] = "DEPLOYED" =>
                tx[t].kind = "deploy" /\ e = tx[t].scene
           /\ tx[t].kind = "deploy" /\ e = tx[t].scene => View(t)[e] = "DEPLOYED"
           /\ /\ tx[t].kind = "deploy" /\ e \in Deployed
              /\ ParcelsOf[e] \cap ParcelsOf[tx[t].scene] # {}
              => rowLock[e] = t /\ rowNew[e] = "UNDEPLOYED"
<1>1. rowLock[e] = t => Holds(t, e)
    BY DEF IInv
<1>2. Knows(t) /\ WellFormed(tx[t])
    BY DEF IInv, Typed, Shape
<1> QED
    BY <1>1, <1>2 DEF View, Knows, Holds, At, WellFormed

LEMMA CommitSafe ==
    ASSUME IInv, NEW t \in Txns, Commit(t)
    PROVE  IInv'
<1>1. Typed'
    BY CommitTyped DEF IInv
<1>2. At(t, "commit") /\ scenes' = View(t) /\ End(t, View(t), WorldView(t))
    BY DEF Commit, End
<1>3. NoOverlap'
    <2>1. SUFFICES ASSUME NEW d \in Deployed', NEW e \in Deployed', d # e, Overlap(d, e)
                   PROVE  FALSE
        BY DEF NoOverlap, Overlap
    <2>2. d \in Scenes /\ e \in Scenes /\ View(t)[d] = "DEPLOYED" /\ View(t)[e] = "DEPLOYED"
        BY <1>2 DEF Deployed
    <2>3. CASE rowLock[d] # t /\ rowLock[e] # t
        <3>1. d \in Deployed /\ e \in Deployed
            BY <1>2, <2>2, <2>3, CommitView DEF Deployed
        <3> QED
            BY <2>1, <3>1 DEF IInv, NoOverlap
    <2>4. CASE rowLock[d] = t /\ rowLock[e] # t
        <3>1. tx[t].kind = "deploy" /\ d = tx[t].scene /\ e \in Deployed
            BY <1>2, <2>2, <2>4, CommitView DEF Deployed
        <3> QED
            BY <1>2, <2>1, <2>2, <2>4, <3>1, CommitView DEF Overlap
    <2>5. CASE rowLock[d] # t /\ rowLock[e] = t
        <3>1. tx[t].kind = "deploy" /\ e = tx[t].scene /\ d \in Deployed
            BY <1>2, <2>2, <2>5, CommitView DEF Deployed
        <3> QED
            BY <1>2, <2>1, <2>2, <2>5, <3>1, CommitView DEF Overlap
    <2>6. CASE rowLock[d] = t /\ rowLock[e] = t
        BY <1>2, <2>1, <2>2, <2>6, CommitView
    <2> QED
        BY <2>3, <2>4, <2>5, <2>6
<1>4. ASSUME NEW u \in Txns \ {t}, NEW e \in Scenes,
             tx[u].kind = "deploy", tx[u].pc \in {"rows", "stats", "storeStats", "commit"},
             View(t)[e] = "DEPLOYED"
      PROVE  scenes[e] = "DEPLOYED"
    <2>1. worldLock = u
        BY <1>4 DEF IInv, Knows, At
    <2>2. tx[t].kind # "deploy"
        BY <1>2, <2>1 DEF IInv, Knows, At
    <2> QED
        BY <1>2, <1>4, <2>2, CommitView
<1>5. \A u \in Txns \ {t}, e \in Scenes : rowLock[e] = u => View(t)[e] = scenes[e]
    BY <1>2, CommitView
<1> QED
    BY <1>1, <1>2, <1>3, <1>4, <1>5, EndStep

LEMMA RequestSafe ==
    ASSUME IInv, NEW t \in Txns, Request(t)
    PROVE  IInv'
<1>1. Typed'
    BY RequestTyped DEF IInv
<1>2. PICK request \in Requests : Begin(t, request)
    BY RequestForm DEF IInv, Typed
<1>3. tx' = [tx EXCEPT ![t] = request] /\ tx'[t] = request
    BY <1>2 DEF Begin, IInv, Typed, TypeOK
<1>4. Knows(t)'
    BY <1>2, <1>3 DEF Knows, Requests, At
<1>5. tx[t].pc = "idle" /\ tx[t] = Idle
    BY <1>2 DEF Begin, At, IInv, Typed, Shape, WellFormed
<1>6. \A e \in Scenes : rowLock[e] # t
    BY <1>5, NoneAssumption DEF IInv, Holds, Idle, Clearing, AllKinds
<1> QED
    BY <1>1, <1>2, <1>3, <1>4, <1>6, LocalStep DEF Begin, rowVars, worldVars

(* A statement that touches no scene's row. *)
LEMMA PlainStep ==
    ASSUME IInv, Typed', NEW t \in Txns, NEW r \in Transactions, Moves(t, r),
           UNCHANGED rowVars, r.todo = tx[t].todo,
           \/ worldLock' = worldLock
           \/ worldLock \in {None, t} /\ worldLock' = t,
           tx[t].kind = "deploy" => /\ tx[t].pc \in {"stats", "storeStats"}
                                    /\ r.pc \in {"storeStats", "commit"}
    PROVE  IInv'
<1>1. tx'[t] = r /\ tx' = [tx EXCEPT ![t] = r]
    BY DEF Moves, IInv, Typed, TypeOK
<1>2. Knows(t)'
    BY <1>1, NoneAssumption DEF Moves, IInv, Knows, rowVars, Deployed, At
<1>3. \A e \in Scenes : rowLock'[e] = t => Holds(t, e)'
    BY <1>1 DEF Moves, IInv, Holds, rowVars
<1> QED
    BY <1>1, <1>2, <1>3, LocalStep DEF rowVars

(* ... in particular one that only moves the program counter. *)
LEMMA PlainGoto ==
    ASSUME IInv, Typed', NEW t \in Txns, NEW pc \in PCs, Goto(t, pc), UNCHANGED rowVars,
           \/ worldLock' = worldLock
           \/ worldLock \in {None, t} /\ worldLock' = t,
           tx[t].kind = "deploy" => /\ tx[t].pc \in {"stats", "storeStats"}
                                    /\ pc \in {"storeStats", "commit"}
    PROVE  IInv'
<1> DEFINE r == [tx[t] EXCEPT !.pc = pc]
<1>1. r \in Transactions /\ Moves(t, r)
    BY GotoMoves DEF IInv, Typed
<1>2. tx[t] \in Transactions
    BY DEF IInv, Typed, TypeOK
<1>3. r.todo = tx[t].todo /\ r.pc = pc
    BY <1>2 DEF Transactions
<1> QED
    BY <1>1, <1>3, PlainStep

LEMMA UpsertWorldSafe ==
    ASSUME IInv, NEW t \in Txns, UpsertWorld(t)
    PROVE  IInv'
<1> DEFINE r == [tx[t] EXCEPT !.pc = "match"]
<1>1. Typed'
    BY UpsertWorldTyped DEF IInv
<1>2. tx[t] \in Transactions /\ tx[t].pc = "upsert" /\ Goto(t, "match")
    BY DEF IInv, Typed, TypeOK, UpsertWorld, At
<1>3. /\ worldLock \in {None, t} /\ worldLock' = t
      /\ UNCHANGED rowVars
    BY DEF UpsertWorld, WriteWorld
<1>4. /\ tx' = [tx EXCEPT ![t] = r] /\ tx'[t] = r
      /\ r.pc = "match" /\ r.todo = tx[t].todo /\ r.kind = tx[t].kind
      /\ r.scene = tx[t].scene /\ r.area = tx[t].area
    BY <1>2 DEF Goto, IInv, Typed, TypeOK, Transactions
<1>5. Knows(t)'
    <2>1. Knows(t)
        BY DEF IInv
    <2> QED
        BY <1>3, <1>4, <2>1 DEF Knows, At
<1>6. \A e \in Scenes : rowLock'[e] = t => Holds(t, e)'
    BY <1>2, <1>3, <1>4 DEF IInv, Holds, rowVars
<1> QED
    BY <1>1, <1>3, <1>4, <1>5, <1>6, LocalStep DEF rowVars

LEMMA MatchScenesSafe ==
    ASSUME IInv, NEW t \in Txns, MatchScenes(t)
    PROVE  IInv'
<1> DEFINE matched == {e \in DeployedIn(t) : ParcelsOf[e] \cap tx[t].area # {}}
           r == [tx[t] EXCEPT !.pc = "rows", !.todo = matched, !.seen = matched]
<1>1. Typed'
    BY MatchScenesTyped DEF IInv
<1>2. tx[t] \in Transactions /\ tx[t].pc = "match"
    BY DEF IInv, Typed, TypeOK, MatchScenes, At
<1>3. /\ tx' = [tx EXCEPT ![t] = r] /\ tx'[t] = r
      /\ r.pc = "rows" /\ r.todo = matched /\ r.kind = tx[t].kind
      /\ r.scene = tx[t].scene /\ r.area = tx[t].area
    BY <1>2 DEF MatchScenes, IInv, Typed, TypeOK, Transactions
<1>4. UNCHANGED <<rowVars, worldVars>>
    BY DEF MatchScenes
<1>5. ASSUME NEW e \in Deployed, ParcelsOf[e] \cap tx[t].area # {}
      PROVE  e \in matched \/ (rowLock[e] = t /\ rowNew[e] = "UNDEPLOYED")
    <2>1. CASE rowLock[e] = t
        BY <1>2, <2>1, <1>5 DEF IInv, Holds, Deployed
    <2>2. CASE rowLock[e] # t
        BY <1>5, <2>2 DEF DeployedIn, View, Deployed
    <2> QED
        BY <2>1, <2>2
<1>6. Knows(t)'
    <2>1. Knows(t)
        BY DEF IInv
    <2>2. Deployed' = Deployed
        BY <1>4 DEF Deployed, rowVars
    <2> QED
        BY <1>2, <1>3, <1>4, <1>5, <2>1, <2>2 DEF Knows, At, rowVars, worldVars
<1>7. \A e \in Scenes : rowLock'[e] = t => Holds(t, e)'
    BY <1>2, <1>3, <1>4 DEF IInv, Holds, rowVars
<1> QED
    BY <1>1, <1>3, <1>4, <1>6, <1>7, LocalStep DEF rowVars, worldVars

LEMMA UndeployRowSafe ==
    ASSUME IInv, NEW t \in Txns, NEW e \in Scenes, UndeployRow(t, e)
    PROVE  IInv'
<1> DEFINE r == [tx[t] EXCEPT !.todo = @ \ {e}]
<1>1. Typed'
    BY UndeployRowTyped DEF IInv
<1>2. tx[t] \in Transactions /\ tx[t].pc = "rows" /\ e \in tx[t].todo /\ rowLock[e] = None
    BY DEF IInv, Typed, TypeOK, UndeployRow, At
<1>3. /\ tx' = [tx EXCEPT ![t] = r] /\ tx'[t] = r
      /\ r.pc = "rows" /\ r.todo = tx[t].todo \ {e} /\ r.kind = tx[t].kind
      /\ r.scene = tx[t].scene /\ r.area = tx[t].area
    BY <1>2 DEF UndeployRow, IInv, Typed, TypeOK, Transactions
<1>4. scenes' = scenes /\ worldLock' = worldLock
    BY DEF UndeployRow, WriteRow, rowVars, worldVars
<1>5. \A x \in Scenes :
        \/ rowLock'[x] = rowLock[x] /\ rowNew'[x] = rowNew[x]
        \/ /\ x = e /\ rowLock[x] = None /\ rowLock'[x] = t /\ rowNew'[x] = "UNDEPLOYED"
    BY <1>2 DEF UndeployRow, WriteRow, rowVars, IInv, Typed, TypeOK
<1>6. scenes[e] = "DEPLOYED" => rowLock'[e] = t /\ rowNew'[e] = "UNDEPLOYED"
    BY <1>2 DEF UndeployRow, WriteRow, IInv, Typed, TypeOK
<1>7. Knows(t)'
    <2>1. Knows(t)
        BY DEF IInv
    <2>2. Deployed' = Deployed
        BY <1>4 DEF Deployed
    <2>3. \A x \in Scenes : rowLock[x] = t => rowLock'[x] = t /\ rowNew'[x] = rowNew[x]
        BY <1>5, NoneAssumption
    <2>4. \A x \in Deployed : x \in Scenes /\ scenes[x] = "DEPLOYED"
        BY DEF Deployed
    <2> QED
        BY <1>2, <1>3, <1>4, <1>6, <2>1, <2>2, <2>3, <2>4 DEF Knows, At
<1>8. ASSUME NEW x \in Scenes, rowLock'[x] = t
      PROVE  Holds(t, x)'
    <2>1. CASE rowLock[x] = t
        BY <1>3, <1>5, <2>1, NoneAssumption DEF IInv, Holds
    <2>2. CASE rowLock[x] # t
        <3>1. x = e /\ rowNew'[x] = "UNDEPLOYED"
            BY <1>5, <1>8, <2>2
        <3>2. tx[t].kind \in Clearing /\ ParcelsOf[e] \cap tx[t].area # {}
            BY <1>2 DEF IInv, Typed, Shape, WellFormed, Knows
        <3> QED
            BY <1>3, <3>1, <3>2 DEF Holds
    <2> QED
        BY <2>1, <2>2
<1> QED
    BY <1>1, <1>3, <1>4, <1>5, <1>7, <1>8, LocalStep

LEMMA InsertSceneSafe ==
    ASSUME IInv, NEW t \in Txns, InsertScene(t)
    PROVE  IInv'
<1>1. CASE Rollback(t)
    BY <1>1, RollbackSafe
<1>2. CASE /\ View(t)[tx[t].scene] = "ABSENT"
           /\ WriteRow(t, tx[t].scene, "DEPLOYED") /\ Goto(t, "stats")
    <2> DEFINE e == tx[t].scene
               r == [tx[t] EXCEPT !.pc = "stats"]
    <2>1. Typed'
        BY InsertSceneTyped DEF IInv
    <2>2. /\ tx[t] \in Transactions /\ tx[t].pc = "rows" /\ tx[t].kind = "deploy"
          /\ tx[t].todo = {} /\ e \in Scenes /\ tx[t].area = ParcelsOf[e]
        BY DEF IInv, Typed, TypeOK, Shape, WellFormed, InsertScene, At
    <2>3. /\ tx' = [tx EXCEPT ![t] = r] /\ tx'[t] = r
          /\ r.pc = "stats" /\ r.todo = {} /\ r.kind = "deploy"
          /\ r.scene = e /\ r.area = ParcelsOf[e]
        BY <1>2, <2>2 DEF Goto, IInv, Typed, TypeOK, Transactions
    <2>4. /\ scenes' = scenes /\ worldLock' = worldLock
          /\ rowLock[e] \in {None, t} /\ rowLock'[e] = t /\ rowNew'[e] = "DEPLOYED"
          /\ \A x \in Scenes \ {e} : rowLock'[x] = rowLock[x] /\ rowNew'[x] = rowNew[x]
        BY <1>2, <2>2 DEF WriteRow, worldVars, IInv, Typed, TypeOK
    <2>5. rowLock[e] # t /\ scenes[e] = "ABSENT"
        BY <1>2, <2>2 DEF View, IInv, Holds
    <2>6. Knows(t)'
        <3>1. Knows(t)
            BY DEF IInv
        <3>2. Deployed' = Deployed /\ e \notin Deployed /\ Deployed \subseteq Scenes
            BY <2>4, <2>5 DEF Deployed
        <3> QED
            BY <2>2, <2>3, <2>4, <2>5, <3>1, <3>2 DEF Knows, At
    <2>7. ASSUME NEW x \in Scenes, rowLock'[x] = t
          PROVE  Holds(t, x)'
        <3>1. CASE x = e
            BY <2>3, <2>4, <3>1 DEF Holds
        <3>2. CASE x # e
            BY <2>2, <2>3, <2>4, <2>7, <3>2 DEF IInv, Holds
        <3> QED
            BY <3>1, <3>2
    <2>8. \A x \in Scenes :
            \/ rowLock'[x] = rowLock[x] /\ rowNew'[x] = rowNew[x]
            \/ rowLock[x] \in {None, t} /\ rowLock'[x] = t
        BY <2>4
    <2> HIDE DEF e, r
    <2> QED
        BY <2>1, <2>3, <2>4, <2>6, <2>7, <2>8, LocalStep
<1> QED
    BY <1>1, <1>2 DEF InsertScene

LEMMA ReadSpawnSafe ==
    ASSUME IInv, NEW t \in Txns, ReadSpawn(t)
    PROVE  IInv'
<1> DEFINE spawn == WorldView(t).spawn
           r == [tx[t] EXCEPT !.pc = "match", !.spawn = spawn]
<1>1. tx[t] \in Transactions /\ tx[t].pc = "readSpawn" /\ spawn \in Spawns
    BY ViewType DEF IInv, Typed, TypeOK, ReadSpawn, At, Worlds
<1>2. tx' = [tx EXCEPT ![t] = r] /\ UNCHANGED <<rowVars, worldVars>>
    BY DEF ReadSpawn
<1> HIDE DEF spawn
<1>3. r \in Transactions /\ Moves(t, r) /\ r.todo = tx[t].todo
    BY <1>1, <1>2 DEF Transactions, PCs, Moves
<1>4. Typed' /\ tx[t].kind # "deploy"
    BY <1>1, ReadSpawnTyped DEF IInv, Typed, Shape, WellFormed
<1> QED
    BY <1>2, <1>3, <1>4, PlainStep DEF worldVars

LEMMA MoveSpawnSafe ==
    ASSUME IInv, NEW t \in Txns, MoveSpawn(t)
    PROVE  IInv'
<1> DEFINE moved == MovedSpawn(tx[t].spawn, DeployedIn(t))
           pc == IF moved # tx[t].spawn /\ WorldView(t).exists THEN "storeSpawn" ELSE "stats"
           r == [tx[t] EXCEPT !.pc = pc, !.spawn = moved]
<1>1. tx[t] \in Transactions /\ moved \in Spawns
    BY ViewType, MovedSpawnType DEF IInv, Typed, TypeOK, Transactions
<1>2. tx' = [tx EXCEPT ![t] = r] /\ UNCHANGED <<rowVars, worldVars>> /\ tx[t].kind = "undeploy"
    BY DEF MoveSpawn
<1> HIDE DEF moved
<1>3. r \in Transactions /\ Moves(t, r) /\ r.todo = tx[t].todo
    BY <1>1, <1>2 DEF Transactions, PCs, Moves
<1>4. Typed'
    BY MoveSpawnTyped DEF IInv
<1> QED
    BY <1>2, <1>3, <1>4, PlainStep DEF worldVars

LEMMA ComputeStatsSafe ==
    ASSUME IInv, NEW t \in Txns, ComputeStats(t)
    PROVE  IInv'
<1> DEFINE pc == IF WorldView(t).exists THEN "storeStats" ELSE "commit"
           stats == StatsOf(DeployedIn(t))
           r == [tx[t] EXCEPT !.pc = pc, !.stats = stats]
<1>1. tx[t] \in Transactions /\ stats \in AllStats /\ tx[t].pc = "stats"
    BY ViewType, StatsType DEF IInv, Typed, TypeOK, ComputeStats, At
<1>2. tx' = [tx EXCEPT ![t] = r] /\ UNCHANGED <<rowVars, worldVars>>
    BY DEF ComputeStats
<1> HIDE DEF stats
<1>3. /\ r \in Transactions /\ Moves(t, r) /\ r.todo = tx[t].todo
      /\ r.pc \in {"storeStats", "commit"}
    BY <1>1, <1>2 DEF Transactions, PCs, Moves
<1>4. Typed'
    BY ComputeStatsTyped DEF IInv
<1> QED
    BY <1>1, <1>2, <1>3, <1>4, PlainStep DEF worldVars

LEMMA StoreStatsSafe ==
    ASSUME IInv, NEW t \in Txns, StoreStats(t)
    PROVE  IInv'
<1>1. Typed' /\ tx[t].pc = "storeStats"
    BY StoreStatsTyped DEF IInv, StoreStats, At
<1> QED
    BY <1>1, PlainGoto DEF StoreStats, WriteWorld, PCs

LEMMA StoreSpawnSafe ==
    ASSUME IInv, NEW t \in Txns, StoreSpawn(t)
    PROVE  IInv'
<1>1. Typed' /\ tx[t].kind # "deploy"
    BY StoreSpawnTyped DEF IInv, StoreSpawn, At, Typed, Shape, WellFormed
<1> QED
    BY <1>1, PlainGoto DEF StoreSpawn, WriteWorld, PCs

LEMMA ClearWorldSafe ==
    ASSUME IInv, NEW t \in Txns, ClearWorld(t)
    PROVE  IInv'
<1>1. Typed' /\ tx[t].kind # "deploy"
    BY ClearWorldTyped DEF IInv, ClearWorld
<1> QED
    BY <1>1, PlainGoto DEF ClearWorld, WriteWorld, PCs, worldVars

LEMMA ValidateSpawnSafe ==
    ASSUME IInv, NEW t \in Txns, ValidateSpawn(t)
    PROVE  IInv'
<1>1. Typed' /\ tx[t].kind # "deploy"
    BY ValidateSpawnTyped DEF IInv, ValidateSpawn, At, Typed, Shape, WellFormed
<1>2. CASE Rollback(t)
    BY <1>2, RollbackSafe
<1>3. CASE Goto(t, "upsertSettings") /\ UNCHANGED <<rowVars, worldVars>>
    BY <1>1, <1>3, PlainGoto DEF PCs, worldVars
<1> QED
    BY <1>2, <1>3 DEF ValidateSpawn

LEMMA UpsertSettingsSafe ==
    ASSUME IInv, NEW t \in Txns, UpsertSettings(t)
    PROVE  IInv'
<1>1. Typed' /\ tx[t].kind # "deploy"
    BY UpsertSettingsTyped DEF IInv, UpsertSettings, At, Typed, Shape, WellFormed
<1> QED
    BY <1>1, PlainGoto DEF UpsertSettings, WriteWorld, PCs

LEMMA EvictSafe ==
    ASSUME IInv, Evict
    PROVE  IInv'
<1>1. Typed'
    BY EvictTyped DEF IInv
<1>2. Deployed' = Deployed /\ \A e \in Scenes : scenes[e] = "ABSENT" => scenes'[e] = "ABSENT"
    BY DEF Deployed, Evict
<1>3. UNCHANGED <<rowLock, rowNew, worldLock, tx>>
    BY DEF Evict, worldVars
<1>4. NoOverlap'
    BY <1>2 DEF IInv, NoOverlap
<1>5. ASSUME NEW t \in Txns
      PROVE  Knows(t)'
    <2>1. Knows(t) /\ (tx[t].kind = "deploy" => tx[t].scene \in Scenes)
        BY DEF IInv, Typed, Shape, WellFormed
    <2> QED
        BY <1>2, <1>3, <2>1 DEF Knows, At
<1> QED
    BY <1>1, <1>3, <1>4, <1>5 DEF IInv, Holds

LEMMA InitSafe == Init => IInv
<1> SUFFICES ASSUME Init PROVE IInv
    OBVIOUS
<1>1. Deployed = {}
    BY DEF Init, Deployed
<1>2. \A t \in Txns : Knows(t)
    BY NoneAssumption DEF Init, Knows, Idle, AllKinds
<1>3. \A t \in Txns, e \in Scenes : rowLock[e] # t
    BY NoneAssumption DEF Init
<1> QED
    BY <1>1, <1>2, <1>3, InitTyped DEF IInv, NoOverlap

LEMMA StatementSafe ==
    ASSUME IInv, NEW t \in Txns, Statement(t)
    PROVE  IInv'
BY UpsertWorldSafe, MatchScenesSafe, UndeployRowSafe, InsertSceneSafe, ReadSpawnSafe,
   MoveSpawnSafe, StoreSpawnSafe, ClearWorldSafe, ValidateSpawnSafe, UpsertSettingsSafe,
   ComputeStatsSafe, StoreStatsSafe, CommitSafe DEF Statement

LEMMA NextSafe == IInv /\ [Next]_vars => IInv'
<1> SUFFICES ASSUME IInv, [Next]_vars
             PROVE  IInv'
    OBVIOUS
<1>1. ASSUME NEW t \in Txns, Request(t) \/ Statement(t) PROVE IInv'
    BY <1>1, RequestSafe, StatementSafe
<1>2. ASSUME NEW t \in Txns, Fail(t) \/ DeadlockVictim(t) PROVE IInv'
    BY <1>2, RollbackSafe DEF Fail, DeadlockVictim
<1>3. CASE Evict
    BY <1>3, EvictSafe
<1>4. CASE UNCHANGED vars
    <2>1. Typed' /\ UNCHANGED <<scenes, rowLock, rowNew, worldLock, tx>>
        BY <1>4, NextTyped DEF vars, IInv
    <2> QED
        BY <2>1 DEF IInv, NoOverlap, Knows, Holds, Deployed, At
<1> QED
    BY <1>1, <1>2, <1>3, <1>4 DEF Next

LEMMA Safe == Spec => []IInv
BY InitSafe, NextSafe, PTL DEF Spec

(* However deployments, undeployments, settings, evictions and rollbacks     *)
(* interleave, no two deployed scenes share a parcel.                        *)
THEOREM ScenesDisjoint == Spec => []NoOverlap
<1>1. IInv => NoOverlap
    BY DEF IInv
<1> QED
    BY <1>1, Safe, PTL

(***************************************************************************)
(* The transactions implement SceneMap                                      *)
(***************************************************************************)

\* The operations that ask for an area to be cleared.
Asking == {"undeploy", "undeployWorld"}

(* A step that changes no committed row and no request is invisible. *)
LEMMA Invisible ==
    ASSUME scenes' = scenes,
           \A u \in Txns : tx'[u].kind = tx[u].kind /\ tx'[u].area = tx[u].area
    PROVE  UNCHANGED Map!vars
<1>1. Deployed' = Deployed
    BY DEF Deployed
<1>2. Asked' = Asked
    BY DEF Asked
<1> QED
    BY <1>1, <1>2 DEF Map!vars

(* A request to clear an area is asked for when its transaction begins. *)
LEMMA RequestMaps ==
    ASSUME IInv, NEW t \in Txns, Request(t)
    PROVE  [Map!Next]_Map!vars
<1>1. PICK request \in Requests : Begin(t, request)
    BY RequestForm DEF IInv, Typed
<1>2. /\ tx' = [tx EXCEPT ![t] = request] /\ tx'[t] = request
      /\ \A u \in Txns \ {t} : tx'[u] = tx[u]
      /\ scenes' = scenes
    BY <1>1 DEF Begin, IInv, Typed, TypeOK, rowVars
<1>3. tx[t].kind \notin Asking
    BY <1>1, NoneAssumption DEF Begin, At, IInv, Typed, Shape, WellFormed, Idle, AllKinds, Asking
<1>4. Deployed' = Deployed
    BY <1>2 DEF Deployed
<1>5. CASE request.kind \in Asking
    <2>1. request.area \in Map!Areas
        BY <1>5 DEF Requests, WellFormed, Asking, Map!Areas
    <2>2. Asked' = Asked \cup {request.area}
        BY <1>2, <1>3, <1>5 DEF Asked, Asking
    <2> QED
        BY <1>4, <2>1, <2>2 DEF Map!Next, Map!Ask
<1>6. CASE request.kind \notin Asking
    <2>1. Asked' = Asked
        BY <1>2, <1>3, <1>6 DEF Asked, Asking
    <2> QED
        BY <1>4, <2>1 DEF Map!vars
<1> QED
    BY <1>5, <1>6

(* The end of a transaction, which leaves the committed rows `rows`. *)
LEMMA EndMaps ==
    ASSUME IInv, NEW t \in Txns, NEW rows, NEW row, End(t, rows, row),
           rows = scenes \/ (At(t, "commit") /\ rows = View(t))
    PROVE  [Map!Next]_Map!vars
<1>1. /\ tx'[t] = Idle /\ \A u \in Txns \ {t} : tx'[u] = tx[u]
      /\ scenes' = rows
    BY DEF End, IInv, Typed, TypeOK
<1>2. Idle.kind \notin Asking
    BY NoneAssumption DEF Idle, AllKinds, Asking
<1>3. CASE tx[t].kind \in Asking
    <2> DEFINE area == tx[t].area
    <2>1. area \in Asked /\ area \in Map!Areas
        BY <1>3 DEF Asked, Asking, IInv, Typed, Shape, WellFormed, Map!Areas
    <2>2. Asked' \in {Asked, Asked \ {area}}
        <3>1. \A a : a \in Asked' => a \in Asked
            BY <1>1, <1>2 DEF Asked, Asking
        <3>2. \A a : a \in Asked /\ a # area => a \in Asked'
            BY <1>1 DEF Asked, Asking
        <3> QED
            BY <3>1, <3>2
    <2>3. PICK gone \in SUBSET Map!Standing(area, Deployed) : Deployed' = Deployed \ gone
        <3> DEFINE g == Deployed \ Deployed'
        <3>1. \A e \in Deployed' : e \in Deployed
            BY <1>1, <1>3, CommitView DEF Deployed, Asking
        <3>2. \A e \in g : ParcelsOf[e] \cap area # {}
            <4>1. SUFFICES ASSUME NEW e \in g
                           PROVE  ParcelsOf[e] \cap area # {}
                OBVIOUS
            <4>2. e \in Scenes /\ rows[e] # scenes[e]
                BY <1>1 DEF Deployed
            <4>3. At(t, "commit") /\ rowLock[e] = t
                BY <4>2, CommitView
            <4>4. Holds(t, e)
                BY <4>2, <4>3 DEF IInv
            <4> QED
                BY <1>3, <4>4 DEF Holds, Asking
        <3>3. g \in SUBSET Map!Standing(area, Deployed)
            BY <3>2 DEF Map!Standing
        <3>4. Deployed' = Deployed \ g
            BY <3>1
        <3> QED
            BY <3>3, <3>4
    <2>4. Map!Undeploy(area)
        BY <2>1, <2>2, <2>3 DEF Map!Undeploy
    <2> QED
        BY <2>1, <2>4 DEF Map!Next
<1>4. CASE tx[t].kind \notin Asking
    <2>1. Asked' = Asked
        BY <1>1, <1>2, <1>4 DEF Asked, Asking
    <2>2. CASE rows = scenes
        BY <1>1, <2>1, <2>2 DEF Deployed, Map!vars
    <2>3. CASE At(t, "commit") /\ rows = View(t) /\ tx[t].kind = "deploy"
        <3> DEFINE e == tx[t].scene
        <3>1. e \in Scenes /\ scenes[e] = "ABSENT" /\ View(t)[e] = "DEPLOYED"
            BY <2>3, CommitView DEF IInv, Typed, Shape, WellFormed, Knows, At
        <3>2. ASSUME NEW d \in Scenes, d # e
              PROVE  rows[d] = "DEPLOYED" <=> /\ scenes[d] = "DEPLOYED"
                                              /\ ParcelsOf[d] \cap ParcelsOf[e] = {}
            <4>1. rowLock[d] = t => /\ rowNew[d] = "UNDEPLOYED"
                                    /\ ParcelsOf[d] \cap ParcelsOf[e] # {}
                BY <2>3, <3>2, CommitView DEF IInv, Holds, Typed, Shape, WellFormed
            <4> QED
                BY <2>3, <4>1, CommitView DEF Deployed
        <3>3. Deployed' = (Deployed \ Map!Standing(ParcelsOf[e], Deployed)) \cup {e}
            BY <1>1, <2>3, <3>1, <3>2 DEF Deployed, Map!Standing
        <3>4. e \notin Deployed
            BY <3>1 DEF Deployed
        <3> QED
            BY <2>1, <3>1, <3>3, <3>4 DEF Map!Next, Map!Deploy
    <2>4. CASE At(t, "commit") /\ rows = View(t) /\ tx[t].kind # "deploy"
        <3>1. \A e \in Scenes : rowLock[e] # t
            BY <1>4, <2>4 DEF IInv, Holds, Clearing, Asking
        <3>2. \A e \in Scenes : rows[e] = scenes[e]
            BY <2>4, <3>1 DEF View
        <3>3. Deployed' = Deployed
            BY <1>1, <3>2 DEF Deployed
        <3> QED
            BY <2>1, <3>3 DEF Map!vars
    <2> QED
        BY <2>2, <2>3, <2>4
<1> QED
    BY <1>3, <1>4

LEMMA StatementMaps ==
    ASSUME IInv, NEW t \in Txns, Statement(t)
    PROVE  [Map!Next]_Map!vars
<1> USE DEF Goto, WriteRow, WriteWorld, rowVars, worldVars
<1>0. tx \in [Txns -> Transactions]
    BY DEF IInv, Typed, TypeOK
<1>1. CASE UpsertWorld(t) \/ StoreStats(t) \/ StoreSpawn(t) \/ ClearWorld(t) \/ UpsertSettings(t)
    <2>1. scenes' = scenes /\ \E pc \in PCs : tx' = [tx EXCEPT ![t].pc = pc]
        BY <1>1 DEF UpsertWorld, StoreStats, StoreSpawn, ClearWorld, UpsertSettings, PCs
    <2> QED
        BY <1>0, <2>1, Invisible DEF Transactions
<1>2. CASE MatchScenes(t)
    BY <1>0, <1>2, Invisible DEF MatchScenes, Transactions
<1>3. CASE \E e \in Scenes : UndeployRow(t, e)
    BY <1>0, <1>3, Invisible DEF UndeployRow, Transactions
<1>4. CASE ReadSpawn(t) \/ MoveSpawn(t) \/ ComputeStats(t)
    BY <1>0, <1>4, Invisible DEF ReadSpawn, MoveSpawn, ComputeStats, Transactions
<1>5. CASE InsertScene(t)
    <2>1. CASE Rollback(t)
        BY <2>1, EndMaps DEF Rollback
    <2>2. CASE WriteRow(t, tx[t].scene, "DEPLOYED") /\ Goto(t, "stats")
        BY <1>0, <2>2, Invisible DEF Transactions
    <2> QED
        BY <1>5, <2>1, <2>2 DEF InsertScene
<1>6. CASE ValidateSpawn(t)
    <2>1. CASE Rollback(t)
        BY <2>1, EndMaps DEF Rollback
    <2>2. CASE Goto(t, "upsertSettings") /\ UNCHANGED <<rowVars, worldVars>>
        BY <1>0, <2>2, Invisible DEF Transactions
    <2> QED
        BY <1>6, <2>1, <2>2 DEF ValidateSpawn
<1>7. CASE Commit(t)
    BY <1>7, EndMaps DEF Commit
<1> QED
    BY <1>1, <1>2, <1>3, <1>4, <1>5, <1>6, <1>7 DEF Statement

LEMMA NextMaps == IInv /\ [Next]_vars => [Map!Next]_Map!vars
<1> SUFFICES ASSUME IInv, [Next]_vars
             PROVE  [Map!Next]_Map!vars
    OBVIOUS
<1>1. ASSUME NEW t \in Txns, Request(t) \/ Statement(t) PROVE [Map!Next]_Map!vars
    BY <1>1, RequestMaps, StatementMaps
<1>2. ASSUME NEW t \in Txns, Fail(t) \/ DeadlockVictim(t) PROVE [Map!Next]_Map!vars
    BY <1>2, EndMaps DEF Fail, DeadlockVictim, Rollback
<1>3. CASE Evict
    <2>1. Deployed' = Deployed /\ tx' = tx
        BY <1>3 DEF Deployed, Evict
    <2> QED
        BY <2>1 DEF Map!vars, Asked
<1>4. CASE UNCHANGED vars
    BY <1>4, Invisible DEF vars
<1> QED
    BY <1>1, <1>2, <1>3, <1>4 DEF Next

LEMMA InitMaps == Init => Map!Init
<1> SUFFICES ASSUME Init PROVE Map!Init
    OBVIOUS
<1>1. Deployed = {}
    BY DEF Init, Deployed
<1>2. Asked = {}
    BY NoneAssumption DEF Init, Asked, Idle, AllKinds
<1> QED
    BY <1>1, <1>2 DEF Map!Init

(* The SQL transactions, for any scenes and any number of connections, show  *)
(* the world's visitors only what SceneMap allows: scenes are replaced in    *)
(* one instant, and no scene is lost to a rollback or to somebody else's     *)
(* deployment.                                                               *)
THEOREM TransactionsImplementSceneMap == Spec => ImplementsSceneMap
<1> QED
    BY InitMaps, NextMaps, Safe, PTL DEF Spec, ImplementsSceneMap, Map!Spec

(***************************************************************************)
(* Undeployments are complete                                               *)
(***************************************************************************)

(* What became of the scenes a transaction matched: those that are done are  *)
(* in its own rows or come off the map by another's, and none of them is     *)
(* evicted, which alone could let it be deployed again.                      *)
SeenGone(t) ==
    /\ tx[t].pc # "rows" => tx[t].todo = {}
    /\ tx[t].seen \subseteq Scenes
    /\ \A e \in tx[t].seen : scenes[e] # "ABSENT"
    /\ \A e \in tx[t].seen \ tx[t].todo : rowLock[e] = t \/ scenes[e] = "UNDEPLOYED"

Gone == IInv /\ \A t \in Txns : SeenGone(t)

(* A row that is undeployed stays so for whoever has seen it. *)
LEMMA SeenStays ==
    ASSUME NEW u \in Txns, SeenGone(u), tx'[u] = tx[u],
           \A e \in tx[u].seen : /\ rowLock[e] = u => rowLock'[e] = u
                                 /\ scenes'[e] = scenes[e] \/ (scenes'[e] = "UNDEPLOYED" /\ scenes[e] = "DEPLOYED")
    PROVE  SeenGone(u)'
BY DEF SeenGone

(* A statement that commits nothing. *)
LEMMA SeenLocally ==
    ASSUME Gone, NEW t \in Txns, scenes' = scenes, \A u \in Txns \ {t} : tx'[u] = tx[u],
           \A e \in Scenes : rowLock'[e] = rowLock[e] \/ rowLock[e] \in {None, t},
           SeenGone(t)'
    PROVE  \A u \in Txns : SeenGone(u)'
<1> SUFFICES ASSUME NEW u \in Txns, u # t PROVE SeenGone(u)'
    OBVIOUS
<1>1. \A e \in tx[u].seen : (rowLock[e] = u => rowLock'[e] = u) /\ scenes'[e] = scenes[e]
    BY NoneAssumption DEF Gone, SeenGone
<1> QED
    BY <1>1, SeenStays DEF Gone

LEMMA SeenAtEnd ==
    ASSUME Gone, NEW t \in Txns, NEW rows, NEW row, End(t, rows, row),
           rows = scenes \/ (At(t, "commit") /\ rows = View(t))
    PROVE  \A u \in Txns : SeenGone(u)'
<1>1. /\ tx'[t] = Idle /\ \A u \in Txns \ {t} : tx'[u] = tx[u]
      /\ scenes' = rows
    BY DEF End, Gone, IInv, Typed, TypeOK
<1>2. SeenGone(t)'
    BY <1>1 DEF SeenGone, Idle
<1>3. ASSUME NEW u \in Txns \ {t}, NEW e \in tx[u].seen
      PROVE  /\ rowLock[e] = u => rowLock'[e] = u
             /\ scenes'[e] = scenes[e] \/ (scenes'[e] = "UNDEPLOYED" /\ scenes[e] = "DEPLOYED")
    <2>1. e \in Scenes /\ scenes[e] \in Status \ {"ABSENT"}
        BY DEF Gone, SeenGone, IInv, Typed, TypeOK
    <2>2. rowLock[e] = u => rowLock'[e] = u
        BY <2>1 DEF End
    <2>3. CASE rows = scenes
        BY <1>1, <2>2, <2>3
    <2>4. CASE At(t, "commit") /\ rows = View(t)
        <3>1. rowLock[e] # t => rows[e] = scenes[e]
            BY <2>1, <2>4, CommitView DEF Gone
        <3>2. rowLock[e] = t => rows[e] = rowNew[e] /\ Holds(t, e) /\ Knows(t)
            BY <2>1, <2>4, CommitView DEF Gone, IInv
        <3>3. rowLock[e] = t => rows[e] = "UNDEPLOYED"
            BY <2>1, <3>2 DEF Holds, Knows
        <3> QED
            BY <1>1, <2>1, <2>2, <3>1, <3>3 DEF Status
    <2> QED
        BY <2>3, <2>4
<1>4. \A u \in Txns \ {t} : SeenGone(u)'
    BY <1>1, <1>3, SeenStays DEF Gone
<1> QED
    BY <1>2, <1>4

LEMMA SeenAtRequest ==
    ASSUME Gone, NEW t \in Txns, Request(t)
    PROVE  \A u \in Txns : SeenGone(u)'
<1>1. PICK request \in Requests : Begin(t, request)
    BY RequestForm DEF Gone, IInv, Typed
<1>2. /\ tx'[t] = request /\ \A u \in Txns \ {t} : tx'[u] = tx[u]
      /\ scenes' = scenes /\ rowLock' = rowLock
    BY <1>1 DEF Begin, Gone, IInv, Typed, TypeOK, rowVars
<1>3. SeenGone(t)'
    BY <1>2 DEF SeenGone, Requests
<1> QED
    BY <1>2, <1>3, SeenLocally

(* The statements between, but the ones that match and change rows. *)
LEMMA SeenOnTheWay ==
    ASSUME Gone, NEW t \in Txns, NEW r, tx' = [tx EXCEPT ![t] = r],
           r.todo = tx[t].todo, r.seen = tx[t].seen,
           tx[t].pc = "rows" => tx[t].todo = {},
           scenes' = scenes,
           \A e \in Scenes : rowLock'[e] = rowLock[e] \/ (rowLock[e] \in {None, t} /\ rowLock'[e] = t)
    PROVE  \A u \in Txns : SeenGone(u)'
<1>1. tx'[t] = r /\ \A u \in Txns \ {t} : tx'[u] = tx[u]
    BY DEF Gone, IInv, Typed, TypeOK
<1>2. SeenGone(t)
    BY DEF Gone
<1>3. SeenGone(t)'
    BY <1>1, <1>2 DEF SeenGone
<1> QED
    BY <1>1, <1>3, SeenLocally

LEMMA SeenAtMatch ==
    ASSUME Gone, NEW t \in Txns, MatchScenes(t)
    PROVE  \A u \in Txns : SeenGone(u)'
<1> DEFINE matched == {e \in DeployedIn(t) : ParcelsOf[e] \cap tx[t].area # {}}
<1>1. tx[t] \in Transactions /\ tx[t].pc = "match"
    BY DEF Gone, IInv, Typed, TypeOK, MatchScenes, At
<1>2. /\ tx'[t].todo = matched /\ tx'[t].seen = matched /\ tx'[t].pc = "rows"
      /\ \A u \in Txns \ {t} : tx'[u] = tx[u]
      /\ scenes' = scenes /\ rowLock' = rowLock
    BY <1>1 DEF MatchScenes, Gone, IInv, Typed, TypeOK, Transactions, rowVars
<1>3. \A e \in matched : e \in Scenes /\ scenes[e] = "DEPLOYED"
    BY <1>1 DEF DeployedIn, View, Gone, IInv, Holds
<1> HIDE DEF matched
<1>4. SeenGone(t)'
    BY <1>2, <1>3 DEF SeenGone
<1> QED
    BY <1>2, <1>4, SeenLocally

LEMMA SeenAtRow ==
    ASSUME Gone, NEW t \in Txns, NEW e \in Scenes, UndeployRow(t, e)
    PROVE  \A u \in Txns : SeenGone(u)'
<1>1. tx[t] \in Transactions /\ tx[t].pc = "rows" /\ e \in tx[t].todo /\ rowLock[e] = None
    BY DEF Gone, IInv, Typed, TypeOK, UndeployRow, At
<1>2. /\ tx'[t].todo = tx[t].todo \ {e} /\ tx'[t].seen = tx[t].seen /\ tx'[t].pc = "rows"
      /\ \A u \in Txns \ {t} : tx'[u] = tx[u]
    BY <1>1 DEF UndeployRow, Gone, IInv, Typed, TypeOK, Transactions
<1>3. /\ scenes' = scenes
      /\ \A x \in Scenes \ {e} : rowLock'[x] = rowLock[x]
      /\ scenes[e] = "DEPLOYED" => rowLock'[e] = t
    BY DEF UndeployRow, WriteRow, rowVars, worldVars, Gone, IInv, Typed, TypeOK
<1>4. SeenGone(t)
    BY DEF Gone
<1>5. ASSUME NEW x \in tx[t].seen \ (tx[t].todo \ {e}) PROVE rowLock'[x] = t \/ scenes'[x] = "UNDEPLOYED"
    <2>1. CASE x = e
        BY <1>3, <1>4, <2>1 DEF SeenGone, Gone, IInv, Typed, TypeOK, Status
    <2>2. CASE x # e
        BY <1>3, <1>4, <1>5, <2>2 DEF SeenGone
    <2> QED
        BY <2>1, <2>2
<1>6. SeenGone(t)'
    BY <1>2, <1>3, <1>4, <1>5 DEF SeenGone
<1> QED
    BY <1>1, <1>2, <1>3, <1>6, SeenLocally

LEMMA SeenAtStatement ==
    ASSUME Gone, NEW t \in Txns, Statement(t)
    PROVE  \A u \in Txns : SeenGone(u)'
<1> USE DEF Goto, WriteRow, WriteWorld, rowVars, worldVars
<1>0. tx[t] \in Transactions /\ SeenGone(t) /\ rowLock \in [Scenes -> Txns \cup {None}]
    BY DEF Gone, IInv, Typed, TypeOK
<1>1. CASE UpsertWorld(t) \/ StoreStats(t) \/ StoreSpawn(t) \/ ClearWorld(t) \/ UpsertSettings(t)
    <2>1. PICK pc \in PCs : tx' = [tx EXCEPT ![t] = [tx[t] EXCEPT !.pc = pc]]
        BY <1>1 DEF UpsertWorld, StoreStats, StoreSpawn, ClearWorld, UpsertSettings, PCs
    <2>2. scenes' = scenes /\ rowLock' = rowLock /\ (tx[t].pc = "rows" => tx[t].todo = {})
        BY <1>1 DEF UpsertWorld, StoreStats, StoreSpawn, ClearWorld, UpsertSettings, At
    <2> QED
        BY <1>0, <2>1, <2>2, SeenOnTheWay DEF Transactions
<1>2. CASE MatchScenes(t)
    BY <1>2, SeenAtMatch
<1>3. CASE \E e \in Scenes : UndeployRow(t, e)
    BY <1>3, SeenAtRow
<1>4. CASE ReadSpawn(t) \/ MoveSpawn(t) \/ ComputeStats(t)
    <2>1. PICK r : tx' = [tx EXCEPT ![t] = r] /\ r.todo = tx[t].todo /\ r.seen = tx[t].seen
        BY <1>0, <1>4 DEF ReadSpawn, MoveSpawn, ComputeStats, Transactions
    <2>2. scenes' = scenes /\ rowLock' = rowLock /\ (tx[t].pc = "rows" => tx[t].todo = {})
        BY <1>4 DEF ReadSpawn, MoveSpawn, ComputeStats, At
    <2> QED
        BY <2>1, <2>2, SeenOnTheWay
<1>5. CASE InsertScene(t)
    <2>1. CASE Rollback(t)
        BY <2>1, SeenAtEnd DEF Rollback
    <2>2. CASE WriteRow(t, tx[t].scene, "DEPLOYED") /\ Goto(t, "stats")
        <3>1. /\ tx' = [tx EXCEPT ![t] = [tx[t] EXCEPT !.pc = "stats"]]
              /\ scenes' = scenes /\ tx[t].todo = {}
              /\ \A e \in Scenes : rowLock'[e] = rowLock[e] \/ (rowLock[e] \in {None, t} /\ rowLock'[e] = t)
            BY <1>0, <1>5, <2>2 DEF InsertScene
        <3> QED
            BY <1>0, <3>1, SeenOnTheWay DEF Transactions
    <2> QED
        BY <1>5, <2>1, <2>2 DEF InsertScene
<1>6. CASE ValidateSpawn(t)
    <2>1. CASE Rollback(t)
        BY <2>1, SeenAtEnd DEF Rollback
    <2>2. CASE Goto(t, "upsertSettings") /\ UNCHANGED <<rowVars, worldVars>>
        BY <1>0, <1>6, <2>2, SeenOnTheWay DEF ValidateSpawn, At, Transactions
    <2> QED
        BY <1>6, <2>1, <2>2 DEF ValidateSpawn
<1>7. CASE Commit(t)
    BY <1>7, SeenAtEnd DEF Commit
<1> QED
    BY <1>1, <1>2, <1>3, <1>4, <1>5, <1>6, <1>7 DEF Statement

LEMMA GoneKept == Gone /\ [Next]_vars => Gone'
<1> SUFFICES ASSUME Gone, [Next]_vars PROVE Gone'
    OBVIOUS
<1>1. IInv'
    BY NextSafe DEF Gone
<1>2. ASSUME NEW t \in Txns, Request(t) \/ Statement(t) PROVE \A u \in Txns : SeenGone(u)'
    BY <1>2, SeenAtRequest, SeenAtStatement
<1>3. ASSUME NEW t \in Txns, Fail(t) \/ DeadlockVictim(t) PROVE \A u \in Txns : SeenGone(u)'
    BY <1>3, SeenAtEnd DEF Fail, DeadlockVictim, Rollback
<1>4. CASE Evict
    <2>1. ASSUME NEW u \in Txns, NEW e \in tx[u].seen PROVE rowLock'[e] = rowLock[e] /\ scenes'[e] = scenes[e]
        BY <1>4 DEF Evict, Gone, SeenGone
    <2> QED
        BY <1>1, <1>4, <2>1, SeenStays DEF Evict, Gone
<1>5. CASE UNCHANGED vars
    BY <1>1, <1>5 DEF vars, Gone, SeenGone
<1> QED
    BY <1>1, <1>2, <1>3, <1>4, <1>5 DEF Next, Gone

LEMMA GoneInvariant == Spec => []Gone
<1>1. Init => Gone
    BY InitSafe DEF Init, Gone, SeenGone, Idle
<1> QED
    BY <1>1, GoneKept, PTL DEF Spec

(* What is seen in the rows of an undeployment that commits is undeployed. *)
LEMMA CommitClears ==
    ASSUME Gone, NEW t \in Txns, Commit(t), tx[t].kind \in Asking
    PROVE  tx[t].seen \cap Deployed' = {}
<1> SUFFICES ASSUME NEW e \in tx[t].seen PROVE scenes'[e] # "DEPLOYED"
    BY DEF Deployed
<1>1. At(t, "commit") /\ scenes' = View(t)
    BY DEF Commit, End
<1>2. e \in Scenes /\ (rowLock[e] = t \/ scenes[e] = "UNDEPLOYED")
    BY <1>1 DEF Gone, SeenGone, At
<1>3. CASE rowLock[e] = t
    BY <1>1, <1>2, <1>3, CommitView DEF Gone, IInv, Holds, Asking
<1>4. CASE rowLock[e] # t
    BY <1>1, <1>2, <1>4, CommitView DEF Gone
<1> QED
    BY <1>3, <1>4

(* From the statement before it, a transaction comes to idle by its COMMIT   *)
(* or by a rollback.                                                         *)
LEMMA EndsByCommit ==
    ASSUME Gone, [Next]_vars, NEW t \in Txns, At(t, "commit"), tx'[t].pc = "idle"
    PROVE  Commit(t) \/ UNCHANGED <<scenes, world>>
<1>1. tx'[t] # tx[t] /\ tx \in [Txns -> Transactions]
    BY DEF At, Gone, IInv, Typed, TypeOK
<1>2. ASSUME NEW u \in Txns, Request(u) PROVE FALSE
    BY <1>1, <1>2 DEF Request, BeginDeploy, BeginUndeploy, BeginUndeployWorld, BeginSettings, Begin, At
<1>3. ASSUME NEW u \in Txns, Statement(u) PROVE Commit(t)
    <2>1. u = t
        BY <1>1, <1>3 DEF Statement, UpsertWorld, MatchScenes, UndeployRow, InsertScene, ReadSpawn, MoveSpawn,
             StoreSpawn, ClearWorld, ValidateSpawn, UpsertSettings, ComputeStats, StoreStats, Commit, Goto, Rollback, End
    <2> QED
        BY <1>3, <2>1 DEF Statement, UpsertWorld, MatchScenes, UndeployRow, InsertScene, ReadSpawn, MoveSpawn,
             StoreSpawn, ClearWorld, ValidateSpawn, UpsertSettings, ComputeStats, StoreStats, At
<1>4. ASSUME NEW u \in Txns, Fail(u) \/ DeadlockVictim(u) PROVE UNCHANGED <<scenes, world>>
    BY <1>4 DEF Fail, DeadlockVictim, Rollback, End
<1>5. ~Evict /\ ~UNCHANGED vars
    BY <1>1 DEF Evict, vars
<1> QED
    BY <1>2, <1>3, <1>4, <1>5 DEF Next

(* A transaction that undeploys leaves nothing of what it matched, whatever  *)
(* it had to wait for and whoever rolled back meanwhile.                     *)
THEOREM UndeploymentsAreComplete == Spec => UndeployIsComplete
<1> DEFINE A == \A t \in Txns :
                   /\ At(t, "commit") /\ tx'[t].pc = "idle"
                   /\ tx[t].kind \in {"undeploy", "undeployWorld"}
                   => \/ tx[t].seen \cap Deployed' = {}
                      \/ UNCHANGED <<scenes, world>>
<1>1. Gone /\ [Next]_vars => A
    BY EndsByCommit, CommitClears DEF Asking
<1>2. UndeployIsComplete <=> [][A]_vars
    BY DEF UndeployIsComplete
<1> HIDE DEF A
<1> QED
    BY <1>1, <1>2, GoneInvariant, PTL DEF Spec

=============================================================================
