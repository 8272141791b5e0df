--------------------------- MODULE Overlaps_proofs ---------------------------
(***************************************************************************)
(* What transactions that do not overlap keep of a world, for any scenes    *)
(* and parcels: the denormalized numbers of its row, its having a spawn     *)
(* point, and where the spawn point is.                                     *)
(***************************************************************************)
EXTENDS Overlaps, WorldScenes_proofs, FiniteSetTheorems

-----------------------------------------------------------------------------
(* Rectangles                                                               *)

(* A set of integers that is finite has a smallest and a largest element:   *)
(* the ones with the fewest below, and above, them.                         *)
LEMMA Extremes ==
    ASSUME NEW S \in SUBSET Int, IsFiniteSet(S), S # {}
    PROVE  /\ Min(S) \in S /\ \A y \in S : Min(S) <= y
           /\ Max(S) \in S /\ \A y \in S : y <= Max(S)
<1> DEFINE below(x) == {y \in S : y < x}
           above(x) == {y \in S : x < y}
<1>1. IsWellFoundedOn(StrictSubsetOrdering(S), SUBSET S)
  BY FS_StrictSubsetOrderingWellFounded, FS_FiniteSubsetsOfFinite
<1>2. \E x \in S : \A y \in S : x <= y
  <2> DEFINE T == {below(x) : x \in S}
  <2>1. T \subseteq SUBSET S /\ T # {}
    OBVIOUS
  <2>2. PICK m \in T : \A n \in T : <<n, m>> \notin StrictSubsetOrdering(S)
    BY <1>1, <2>1, WFMin
  <2>3. PICK x \in S : m = below(x)
    BY <2>2
  <2>4. ASSUME NEW y \in S, y < x PROVE FALSE
    <3>1. ASSUME NEW z \in S, z < y PROVE z < x
      BY <2>4, <3>1
    <3>2. below(y) \in SUBSET S /\ below(x) \in SUBSET S /\ below(y) \subseteq below(x)
      BY <3>1
    <3>3. y \in below(x) /\ y \notin below(y)
      BY <2>4
    <3>4. below(y) # below(x)
      BY <3>3
    <3> HIDE DEF below
    <3>5. <<below(y), below(x)>> \in StrictSubsetOrdering(S)
      BY <3>2, <3>4 DEF StrictSubsetOrdering
    <3>6. below(y) \in T
      OBVIOUS
    <3> QED BY <2>2, <2>3, <3>5, <3>6
  <2> QED BY <2>4
<1>3. \E x \in S : \A y \in S : x >= y
  <2> DEFINE T == {above(x) : x \in S}
  <2>1. T \subseteq SUBSET S /\ T # {}
    OBVIOUS
  <2>2. PICK m \in T : \A n \in T : <<n, m>> \notin StrictSubsetOrdering(S)
    BY <1>1, <2>1, WFMin
  <2>3. PICK x \in S : m = above(x)
    BY <2>2
  <2>4. ASSUME NEW y \in S, x < y PROVE FALSE
    <3>1. ASSUME NEW z \in S, y < z PROVE x < z
      BY <2>4, <3>1
    <3>2. above(y) \in SUBSET S /\ above(x) \in SUBSET S /\ above(y) \subseteq above(x)
      BY <3>1
    <3>3. y \in above(x) /\ y \notin above(y)
      BY <2>4
    <3>4. above(y) # above(x)
      BY <3>3
    <3> HIDE DEF above
    <3>5. <<above(y), above(x)>> \in StrictSubsetOrdering(S)
      BY <3>2, <3>4 DEF StrictSubsetOrdering
    <3>6. above(y) \in T
      OBVIOUS
    <3> QED BY <2>2, <2>3, <3>5, <3>6
  <2> QED BY <2>4
<1>4. Min(S) \in S /\ \A y \in S : Min(S) <= y
  BY <1>2 DEF Min
<1>5. Max(S) \in S /\ \A y \in S : Max(S) >= y
  BY <1>3 DEF Max
<1> QED BY <1>4, <1>5

(* The rectangle around some scenes, and its center.                        *)
LEMMA Rectangle ==
    ASSUME NEW S \in SUBSET Scenes, S # {}
    PROVE  /\ BoundingRectangle(S) # None
           /\ Center(BoundingRectangle(S)) # None
           /\ Within(Center(BoundingRectangle(S)), BoundingRectangle(S))
<1> DEFINE xs == {p[1] : p \in Cells(S)}
           ys == {p[2] : p \in Cells(S)}
           box == BoundingRectangle(S)
<1>1. Cells(S) \subseteq Parcels /\ Cells(S) # {}
  BY ScenesAssumption DEF Cells
<1>2. IsFiniteSet(Cells(S))
  BY <1>1, ScenesAssumption, FS_Subset
<1>3. xs \in SUBSET Int /\ ys \in SUBSET Int /\ xs # {} /\ ys # {}
  BY <1>1, ScenesAssumption
<1>4. IsFiniteSet(xs) /\ IsFiniteSet(ys)
  <2> DEFINE f == [p \in Cells(S) |-> p[1]]
             g == [p \in Cells(S) |-> p[2]]
  <2>1. f \in Surjection(Cells(S), xs) /\ g \in Surjection(Cells(S), ys)
    BY DEF Surjection
  <2> HIDE DEF f, g, xs, ys
  <2> QED BY <1>2, <2>1, FS_Surjection
<1>5. /\ Min(xs) \in Int /\ Max(xs) \in Int /\ Min(xs) <= Max(xs)
      /\ Min(ys) \in Int /\ Max(ys) \in Int /\ Min(ys) <= Max(ys)
  BY <1>3, <1>4, Extremes
<1>6. box = [minX |-> Min(xs), maxX |-> Max(xs), minY |-> Min(ys), maxY |-> Max(ys)]
  BY <1>1 DEF BoundingRectangle
<1> HIDE DEF xs, ys, box
<1>7. /\ box \in Rectangles /\ box.minX = Min(xs) /\ box.maxX = Max(xs)
      /\ box.minY = Min(ys) /\ box.maxY = Max(ys)
  BY <1>5, <1>6 DEF Rectangles
<1>8. ASSUME NEW l \in Int, NEW h \in Int, l <= h PROVE (l + h) \div 2 \in l .. h
  BY <1>8
<1>9. /\ Center(box)[1] = (Min(xs) + Max(xs)) \div 2
      /\ Center(box)[2] = (Min(ys) + Max(ys)) \div 2
      /\ Center(box) = <<(Min(xs) + Max(xs)) \div 2, (Min(ys) + Max(ys)) \div 2>>
  BY <1>7 DEF Center
<1>10. Within(Center(box), box)
  BY <1>5, <1>7, <1>8, <1>9 DEF Within
<1>11. Center(box) \in Int \X Int
  BY <1>5, <1>8, <1>9
<1> QED BY <1>7, <1>10, <1>11, NoneAssumption DEF box

(* undeployScene leaves a spawn point exactly if scenes are left, and inside *)
(* of their rectangle.                                                      *)
LEMMA MovedSpawnFacts ==
    ASSUME NEW spawn, NEW S \in SUBSET Scenes, S # {} => spawn # None
    PROVE  /\ MovedSpawn(spawn, S) # None <=> S # {}
           /\ S # {} => Within(MovedSpawn(spawn, S), BoundingRectangle(S))
<1>1. CASE S = {}
  BY <1>1 DEF MovedSpawn, BoundingRectangle, Cells
<1>2. CASE S # {}
  BY <1>2, Rectangle DEF MovedSpawn
<1> QED BY <1>1, <1>2

-----------------------------------------------------------------------------
(* The invariant                                                            *)

\* A world's row that goes with the scenes deployed.
Fits(row, S) ==
    /\ row.stats = StatsOf(S)
    /\ row.spawn # None <=> S # {}
    /\ S # {} => row.exists

Inside(row, S) == S # {} => row.spawn # None /\ Within(row.spawn, BoundingRectangle(S))

(* How far a transaction that nobody disturbs has come, in its own view.    *)
Deploying(t) ==
    tx[t].pc \in {"match", "rows", "stats", "storeStats"} => WorldView(t).exists /\ WorldView(t).spawn # None

Undeploying(t) ==
    /\ tx[t].pc \in {"readSpawn", "match", "rows"} => worldLock # t
    /\ tx[t].pc \in {"match", "rows"} => tx[t].spawn = world.spawn
    /\ tx[t].pc = "storeSpawn" =>
         /\ WorldView(t).exists
         /\ tx[t].spawn # None <=> DeployedIn(t) # {}
         /\ DeployedIn(t) # {} => Within(tx[t].spawn, BoundingRectangle(DeployedIn(t)))
    /\ tx[t].pc \in {"stats", "storeStats", "commit"} => Inside(WorldView(t), DeployedIn(t))

UndeployingWorld(t) ==
    /\ tx[t].pc \in {"match", "rows"} => worldLock # t /\ tx[t].area = Parcels
    /\ tx[t].pc = "match" => \A e \in Scenes : rowLock[e] # t
    /\ tx[t].pc = "rows" => Deployed \subseteq tx[t].seen
    /\ tx[t].pc = "commit" => DeployedIn(t) = {}

Setting(t) ==
    /\ tx[t].pc \in {"validate", "upsertSettings"} => worldLock # t
    /\ tx[t].pc \in {"upsertSettings", "commit"} /\ tx[t].spawn # None => DeployedIn(t) # {}
    /\ tx[t].pc = "upsertSettings" /\ tx[t].spawn # None
         => Within(tx[t].spawn, BoundingRectangle(DeployedIn(t)))
    /\ tx[t].pc = "commit" /\ tx[t].spawn # None => Inside(WorldView(t), DeployedIn(t))

\* The statements of each kind of request.
Belongs(t) ==
    /\ tx[t].pc \in {"stats", "storeStats"} => tx[t].kind \in {"deploy", "undeploy"}
    /\ tx[t].pc = "storeSpawn" => tx[t].kind = "undeploy"
    /\ tx[t].pc \in {"validate", "upsertSettings"} => tx[t].kind = "settings"

Progress(t) ==
    /\ Belongs(t)
    /\ tx[t].kind = "deploy" => Deploying(t)
    /\ tx[t].kind = "undeploy" => Undeploying(t)
    /\ tx[t].kind = "undeployWorld" => UndeployingWorld(t)
    /\ tx[t].kind = "settings" => Setting(t)
    /\ tx[t].pc \in {"stats", "storeStats"} =>
         /\ WorldView(t).spawn # None <=> DeployedIn(t) # {}
         /\ DeployedIn(t) # {} => WorldView(t).exists
         /\ WorldView(t).exists \/ WorldView(t).stats = StatsOf({})
    /\ tx[t].pc = "storeStats" => WorldView(t).exists /\ tx[t].stats = StatsOf(DeployedIn(t))
    /\ tx[t].pc = "commit" => Fits(WorldView(t), DeployedIn(t))

Single == \A t, u \in Active : t = u

Lone ==
    /\ Single
    /\ Fits(world, Deployed)
    /\ \A t \in Txns : worldLock = t => ~At(t, "idle")
    /\ \A t \in Txns : Progress(t)

AInv == Gone /\ (alone => Lone)

-----------------------------------------------------------------------------
(* What a step leaves of the views                                          *)

LEMMA ViewsStay ==
    ASSUME UNCHANGED <<rowVars, worldVars>>, NEW t
    PROVE  /\ DeployedIn(t)' = DeployedIn(t) /\ WorldView(t)' = WorldView(t)
           /\ Deployed' = Deployed /\ world' = world /\ scenes' = scenes /\ worldLock' = worldLock
  BY DEF rowVars, worldVars, DeployedIn, View, WorldView, Deployed

LEMMA WorldWritten ==
    ASSUME NEW t \in Txns, NEW row, WriteWorld(t, row)
    PROVE  /\ DeployedIn(t)' = DeployedIn(t) /\ WorldView(t)' = row
           /\ Deployed' = Deployed /\ world' = world /\ scenes' = scenes /\ worldLock' = t
  BY DEF WriteWorld, rowVars, DeployedIn, View, WorldView, Deployed

(* One that undeploys sees no scene that is not deployed.                   *)
LEMMA SeesFewer ==
    ASSUME Gone, NEW t \in Txns, tx[t].kind # "deploy"
    PROVE  DeployedIn(t) \subseteq Deployed
<1> SUFFICES ASSUME NEW e \in DeployedIn(t), e \notin Deployed PROVE FALSE
  OBVIOUS
<1>1. e \in Scenes /\ rowLock[e] = t /\ rowNew[e] = "DEPLOYED"
  BY DEF DeployedIn, View, Deployed
<1> QED BY <1>1 DEF Gone, IInv, Holds

LEMMA SettingsSeeAll ==
    ASSUME Gone, NEW t \in Txns, tx[t].kind = "settings"
    PROVE  DeployedIn(t) = Deployed
<1>1. \A e \in Scenes : rowLock[e] # t
  BY DEF Gone, IInv, Holds, Clearing
<1> QED BY <1>1 DEF DeployedIn, View, Deployed

LEMMA Unlocked ==
    ASSUME NEW t, worldLock # t
    PROVE  WorldView(t) = world
  BY DEF WorldView

(* A step of t alone, within its request.                                   *)
LEMMA LoneStep ==
    ASSUME Gone, Lone, Single', NEW t \in Txns, NEW r, tx' = [tx EXCEPT ![t] = r], r.pc # "idle",
           scenes' = scenes, world' = world, worldLock' = worldLock \/ worldLock' = t,
           Progress(t)'
    PROVE  Lone'
<1>1. tx'[t] = r /\ \A u \in Txns \ {t} : tx'[u] = tx[u]
  BY DEF Gone, IInv, Typed, TypeOK
<1>2. ASSUME NEW u \in Txns \ {t} PROVE tx'[u].pc = "idle"
  BY <1>1 DEF Single, Active, At
<1>3. ASSUME NEW u \in Txns \ {t} PROVE tx[u] = Idle /\ tx'[u] = Idle
  BY <1>1, <1>2 DEF Gone, IInv, Typed, Shape, WellFormed
<1>4. ASSUME NEW u \in Txns \ {t} PROVE Progress(u)'
  BY <1>3, NoneAssumption DEF Progress, Belongs, Idle, AllKinds
<1>5. Fits(world', Deployed')
  BY DEF Lone, Deployed
<1>6. \A u \in Txns : worldLock' = u => tx'[u].pc # "idle"
  BY <1>1 DEF Lone, At
<1> QED BY <1>4, <1>5, <1>6 DEF Lone, At, Fits

(* The end of the only transaction.                                         *)
LEMMA LoneEnd ==
    ASSUME Gone, Lone, Single', NEW t \in Txns, NEW rows, NEW row, End(t, rows, row), ~At(t, "idle"),
           \/ rows = scenes /\ row = world
           \/ At(t, "commit") /\ rows = View(t) /\ row = WorldView(t)
    PROVE  Lone'
<1>1. /\ tx'[t] = Idle /\ \A u \in Txns \ {t} : tx'[u] = tx[u]
      /\ scenes' = rows /\ world' = row
  BY DEF End, Gone, IInv, Typed, TypeOK
<1>2. ASSUME NEW u \in Txns PROVE tx'[u] = Idle
  BY <1>1 DEF Lone, Single, Active, At, Gone, IInv, Typed, Shape, WellFormed
<1>3. ASSUME NEW u \in Txns PROVE Progress(u)'
  BY <1>2, NoneAssumption DEF Progress, Belongs, Idle, AllKinds
<1>4. Fits(world', Deployed')
  <2>1. CASE rows = scenes /\ row = world
    BY <1>1, <2>1 DEF Lone, Deployed
  <2>2. CASE At(t, "commit") /\ rows = View(t) /\ row = WorldView(t)
    <3>1. Deployed' = DeployedIn(t)
      BY <1>1, <2>2 DEF Deployed, DeployedIn
    <3> QED BY <1>1, <2>2, <3>1 DEF Lone, Progress, At
  <2> QED BY <2>1, <2>2
<1>5. \A u \in Txns : worldLock' # u
  <2> SUFFICES ASSUME NEW u \in Txns, worldLock' = u PROVE FALSE
    OBVIOUS
  <2>1. worldLock = u /\ u # t
    BY NoneAssumption DEF End
  <2> QED BY <2>1 DEF Lone, Single, Active
<1> QED BY <1>3, <1>4, <1>5 DEF Lone, At, Fits

LEMMA LoneRollback ==
    ASSUME Gone, Lone, Single', NEW t \in Txns, Rollback(t), ~At(t, "idle")
    PROVE  Lone'
  BY LoneEnd DEF Rollback

-----------------------------------------------------------------------------
(* Each statement                                                           *)

LEMMA LoneRequest ==
    ASSUME Gone, Lone, Single', NEW t \in Txns, Request(t)
    PROVE  Lone'
<1>1. At(t, "idle") /\ \E q : tx' = [tx EXCEPT ![t] = q] /\ UNCHANGED <<rowVars, worldVars>>
  BY DEF Request, BeginDeploy, BeginUndeploy, BeginUndeployWorld, BeginSettings, Begin
<1>2. tx[t] = Idle /\ worldLock # t /\ tx \in [Txns -> Transactions]
  BY <1>1 DEF At, Gone, IInv, Typed, TypeOK, Shape, WellFormed, Lone
<1>3. \A e \in Scenes : rowLock[e] # t
  BY <1>2, NoneAssumption DEF Gone, IInv, Holds, Idle, Clearing, AllKinds
<1>4. DeployedIn(t) = Deployed /\ WorldView(t) = world
  BY <1>2, <1>3, Unlocked DEF DeployedIn, View, Deployed
<1>5. /\ DeployedIn(t)' = Deployed /\ WorldView(t)' = world
      /\ Deployed' = Deployed /\ world' = world /\ scenes' = scenes /\ worldLock' = worldLock
  BY <1>1, <1>4, ViewsStay
<1>6. ASSUME NEW q, tx' = [tx EXCEPT ![t] = q], q.pc # "idle", Progress(t)' PROVE Lone'
  BY <1>5, <1>6, LoneStep
<1>7. CASE \E e \in Scenes : BeginDeploy(t, e)
  <2>1. PICK e \in Scenes : BeginDeploy(t, e)
    BY <1>7
  <2> DEFINE q == [Idle EXCEPT !.pc = "upsert", !.kind = "deploy", !.scene = e, !.area = ParcelsOf[e]]
  <2>2. tx' = [tx EXCEPT ![t] = q] /\ q.pc = "upsert" /\ q.kind = "deploy"
    BY <2>1 DEF BeginDeploy, Begin, Idle
  <2> HIDE DEF q
  <2>3. tx'[t] = q
    BY <1>2, <2>2
  <2>4. Progress(t)'
    BY <2>2, <2>3 DEF Progress, Belongs, Deploying
  <2> QED BY <1>6, <2>2, <2>4
<1>8. CASE \E p \in Parcels : BeginUndeploy(t, p)
  <2>1. PICK p \in Parcels : BeginUndeploy(t, p)
    BY <1>8
  <2> DEFINE q == [Idle EXCEPT !.pc = "readSpawn", !.kind = "undeploy", !.area = {p}]
  <2>2. tx' = [tx EXCEPT ![t] = q] /\ q.pc = "readSpawn" /\ q.kind = "undeploy"
    BY <2>1 DEF BeginUndeploy, Begin, Idle
  <2> HIDE DEF q
  <2>3. tx'[t] = q
    BY <1>2, <2>2
  <2>4. Progress(t)'
    BY <1>2, <1>5, <2>2, <2>3 DEF Progress, Belongs, Undeploying
  <2> QED BY <1>6, <2>2, <2>4
<1>9. CASE BeginUndeployWorld(t)
  <2> DEFINE q == [Idle EXCEPT !.pc = "match", !.kind = "undeployWorld", !.area = Parcels]
  <2>2. tx' = [tx EXCEPT ![t] = q] /\ q.pc = "match" /\ q.kind = "undeployWorld" /\ q.area = Parcels
    BY <1>9 DEF BeginUndeployWorld, Begin, Idle
  <2> HIDE DEF q
  <2>3. tx'[t] = q
    BY <1>2, <2>2
  <2>4. Progress(t)'
    BY <1>1, <1>2, <1>3, <1>5, <2>2, <2>3 DEF Progress, Belongs, UndeployingWorld, rowVars
  <2> QED BY <1>6, <2>2, <2>4
<1>10. CASE \E p \in Parcels \cup {None} : BeginSettings(t, p)
  <2>1. PICK p \in Parcels \cup {None} : BeginSettings(t, p)
    BY <1>10
  <2> DEFINE q == [Idle EXCEPT !.pc = "validate", !.kind = "settings", !.spawn = p]
  <2>2. tx' = [tx EXCEPT ![t] = q] /\ q.pc = "validate" /\ q.kind = "settings"
    BY <2>1 DEF BeginSettings, Begin, Idle
  <2> HIDE DEF q
  <2>3. tx'[t] = q
    BY <1>2, <2>2
  <2>4. Progress(t)'
    BY <1>2, <1>5, <2>2, <2>3 DEF Progress, Belongs, Setting
  <2> QED BY <1>6, <2>2, <2>4
<1> QED BY <1>7, <1>8, <1>9, <1>10 DEF Request

LEMMA LoneUpsertWorld ==
    ASSUME Gone, Lone, Single', NEW t \in Txns, UpsertWorld(t)
    PROVE  Lone'
<1> DEFINE row == WorldView(t)
           base == BaseOf[tx[t].scene]
           new == [row EXCEPT !.exists = TRUE, !.spawn = IF row.spawn = None THEN base ELSE row.spawn]
           r == [tx[t] EXCEPT !.pc = "match"]
<1>1. /\ tx[t].pc = "upsert" /\ tx[t].kind = "deploy" /\ tx[t].scene \in Scenes
      /\ tx[t] \in Transactions /\ tx \in [Txns -> Transactions] /\ row \in Worlds
  BY ViewType DEF UpsertWorld, At, Gone, IInv, Typed, TypeOK, Shape, WellFormed
<1>2. base # None
  BY <1>1, ScenesAssumption, NoneAssumption
<1>3. new.exists /\ new.spawn # None
  BY <1>1, <1>2 DEF Worlds
<1>4. WriteWorld(t, new) /\ tx' = [tx EXCEPT ![t] = r]
  BY DEF UpsertWorld, Goto
<1> HIDE DEF new
<1>5. r.pc = "match" /\ r.kind = "deploy" /\ tx'[t] = r
  BY <1>1, <1>4 DEF Transactions
<1>6. Progress(t)'
  BY <1>3, <1>4, <1>5, WorldWritten DEF Progress, Belongs, Deploying
<1> QED BY <1>4, <1>5, <1>6, WorldWritten, LoneStep

LEMMA LoneMatchScenes ==
    ASSUME Gone, Lone, Single', NEW t \in Txns, MatchScenes(t)
    PROVE  Lone'
<1> DEFINE matched == {e \in DeployedIn(t) : ParcelsOf[e] \cap tx[t].area # {}}
           r == [tx[t] EXCEPT !.pc = "rows", !.todo = matched, !.seen = matched]
<1>1. /\ tx[t].pc = "match" /\ tx[t].kind \in Clearing /\ Progress(t)
      /\ tx[t] \in Transactions /\ tx \in [Txns -> Transactions]
  BY DEF MatchScenes, At, Gone, IInv, Typed, TypeOK, Shape, WellFormed, Lone
<1>2. tx' = [tx EXCEPT ![t] = r] /\ UNCHANGED <<rowVars, worldVars>>
  BY DEF MatchScenes
<1>3. tx[t].kind = "undeployWorld" => Deployed \subseteq matched
  <2> SUFFICES ASSUME tx[t].kind = "undeployWorld", NEW e \in Deployed PROVE e \in matched
    OBVIOUS
  <2>1. e \in Scenes /\ scenes[e] = "DEPLOYED"
    BY DEF Deployed
  <2>2. rowLock[e] # t /\ tx[t].area = Parcels
    BY <1>1, <2>1 DEF Progress, UndeployingWorld
  <2>3. ParcelsOf[e] \cap Parcels # {}
    BY <2>1, ScenesAssumption
  <2> QED BY <2>1, <2>2, <2>3 DEF DeployedIn, View
<1> HIDE DEF matched
<1>4. /\ r.pc = "rows" /\ r.kind = tx[t].kind /\ r.spawn = tx[t].spawn /\ r.area = tx[t].area /\ r.seen = matched
      /\ tx'[t] = r
  BY <1>1, <1>2 DEF Transactions
<1>5. Progress(t)'
  BY <1>1, <1>2, <1>3, <1>4, ViewsStay
     DEF Progress, Belongs, Deploying, Undeploying, UndeployingWorld, Clearing
<1> QED BY <1>2, <1>4, <1>5, ViewsStay, LoneStep

LEMMA LoneUndeployRow ==
    ASSUME Gone, Lone, Single', NEW t \in Txns, NEW e \in Scenes, UndeployRow(t, e)
    PROVE  Lone'
<1> DEFINE r == [tx[t] EXCEPT !.todo = @ \ {e}]
<1>1. /\ tx[t].pc = "rows" /\ tx[t].kind \in Clearing /\ Progress(t)
      /\ tx[t] \in Transactions /\ tx \in [Txns -> Transactions]
  BY DEF UndeployRow, At, Gone, IInv, Typed, TypeOK, Shape, WellFormed, Lone
<1>2. tx' = [tx EXCEPT ![t] = r]
  BY DEF UndeployRow
<1>3. /\ scenes' = scenes /\ world' = world /\ worldLock' = worldLock /\ worldNew' = worldNew /\ Deployed' = Deployed
      /\ WorldView(t)' = WorldView(t)
  BY DEF UndeployRow, WriteRow, rowVars, worldVars, Deployed, WorldView
<1>4. /\ r.pc = "rows" /\ r.kind = tx[t].kind /\ r.spawn = tx[t].spawn /\ r.area = tx[t].area /\ r.seen = tx[t].seen
      /\ tx'[t] = r
  BY <1>1, <1>2 DEF Transactions
<1> HIDE DEF r
<1>5. Progress(t)'
  BY <1>1, <1>3, <1>4 DEF Progress, Belongs, Deploying, Undeploying, UndeployingWorld, Clearing
<1> QED BY <1>2, <1>3, <1>4, <1>5, LoneStep

LEMMA LoneInsertScene ==
    ASSUME Gone, Lone, Single', NEW t \in Txns, InsertScene(t)
    PROVE  Lone'
<1> DEFINE e == tx[t].scene
           r == [tx[t] EXCEPT !.pc = "stats"]
<1>1. /\ tx[t].pc = "rows" /\ tx[t].kind = "deploy" /\ Progress(t) /\ e \in Scenes
      /\ tx[t] \in Transactions /\ tx \in [Txns -> Transactions] /\ rowLock \in [Scenes -> Txns \cup {None}]
      /\ rowNew \in [Scenes -> Status]
  BY DEF InsertScene, At, Gone, IInv, Typed, TypeOK, Shape, WellFormed, Lone
<1>2. CASE Rollback(t)
  BY <1>1, <1>2, LoneRollback DEF At
<1>3. CASE WriteRow(t, e, "DEPLOYED") /\ Goto(t, "stats")
  <2>1. /\ scenes' = scenes /\ world' = world /\ worldLock' = worldLock /\ WorldView(t)' = WorldView(t)
        /\ rowLock'[e] = t /\ rowNew'[e] = "DEPLOYED"
    BY <1>1, <1>3 DEF WriteRow, worldVars, WorldView
  <2>2. DeployedIn(t)' # {}
    BY <1>1, <2>1 DEF DeployedIn, View
  <2>3. tx' = [tx EXCEPT ![t] = r] /\ tx'[t] = r /\ r.pc = "stats" /\ r.kind = "deploy"
    BY <1>1, <1>3 DEF Goto, Transactions
  <2> HIDE DEF r
  <2>4. WorldView(t).exists /\ WorldView(t).spawn # None
    BY <1>1 DEF Progress, Deploying
  <2>5. Progress(t)'
    BY <2>1, <2>2, <2>3, <2>4 DEF Progress, Belongs, Deploying
  <2> QED BY <2>1, <2>3, <2>5, LoneStep
<1> QED BY <1>2, <1>3 DEF InsertScene

LEMMA LoneReadSpawn ==
    ASSUME Gone, Lone, Single', NEW t \in Txns, ReadSpawn(t)
    PROVE  Lone'
<1> DEFINE r == [tx[t] EXCEPT !.pc = "match", !.spawn = WorldView(t).spawn]
<1>1. /\ tx[t].pc = "readSpawn" /\ tx[t].kind = "undeploy" /\ Progress(t)
      /\ tx[t] \in Transactions /\ tx \in [Txns -> Transactions]
  BY DEF ReadSpawn, At, Gone, IInv, Typed, TypeOK, Shape, WellFormed, Lone
<1>2. tx' = [tx EXCEPT ![t] = r] /\ UNCHANGED <<rowVars, worldVars>>
  BY DEF ReadSpawn
<1>3. worldLock # t /\ WorldView(t) = world
  BY <1>1, Unlocked DEF Progress, Undeploying
<1>4. r.pc = "match" /\ r.kind = "undeploy" /\ r.spawn = world.spawn /\ tx'[t] = r
  BY <1>1, <1>2, <1>3 DEF Transactions
<1> HIDE DEF r
<1>5. Progress(t)'
  BY <1>2, <1>3, <1>4, ViewsStay DEF Progress, Belongs, Undeploying
<1> QED BY <1>2, <1>4, <1>5, ViewsStay, LoneStep

LEMMA LoneMoveSpawn ==
    ASSUME Gone, Lone, Single', NEW t \in Txns, MoveSpawn(t)
    PROVE  Lone'
<1> DEFINE moved == MovedSpawn(tx[t].spawn, DeployedIn(t))
           pc == IF moved # tx[t].spawn /\ WorldView(t).exists THEN "storeSpawn" ELSE "stats"
           r == [tx[t] EXCEPT !.pc = pc, !.spawn = moved]
<1>1. /\ tx[t].pc = "rows" /\ tx[t].kind = "undeploy" /\ Progress(t)
      /\ tx[t] \in Transactions /\ tx \in [Txns -> Transactions] /\ DeployedIn(t) \in SUBSET Scenes
  BY ViewType DEF MoveSpawn, At, Gone, IInv, Typed, TypeOK, Lone
<1>2. tx' = [tx EXCEPT ![t] = r] /\ UNCHANGED <<rowVars, worldVars>>
  BY DEF MoveSpawn
<1>3. worldLock # t /\ WorldView(t) = world /\ tx[t].spawn = world.spawn /\ Fits(world, Deployed)
  BY <1>1, Unlocked DEF Progress, Undeploying, Lone
<1>4. DeployedIn(t) # {} => tx[t].spawn # None /\ world.exists
  BY <1>1, <1>3, SeesFewer DEF Fits
<1>5. /\ moved # None <=> DeployedIn(t) # {}
      /\ DeployedIn(t) # {} => Within(moved, BoundingRectangle(DeployedIn(t)))
  BY <1>1, <1>4, MovedSpawnFacts
<1>6. ~world.exists => world.stats = StatsOf({}) /\ world.spawn = None
  BY <1>3 DEF Fits
<1>7. pc \in {"storeSpawn", "stats"} /\ (pc = "stats" => moved = world.spawn \/ ~world.exists) /\ (pc = "storeSpawn" => world.exists)
  BY <1>3
<1>8. r.pc = pc /\ r.kind = "undeploy" /\ r.spawn = moved /\ tx'[t] = r
  BY <1>1, <1>2 DEF Transactions
<1> HIDE DEF r, moved, pc
<1>9. Progress(t)'
  <2>1. DeployedIn(t)' = DeployedIn(t) /\ WorldView(t)' = world
    BY <1>2, <1>3, ViewsStay
  <2>2. CASE pc = "storeSpawn"
    BY <1>5, <1>7, <1>8, <2>1, <2>2 DEF Progress, Belongs, Undeploying
  <2>3. CASE pc = "stats"
    BY <1>4, <1>5, <1>6, <1>7, <1>8, <2>1, <2>3 DEF Progress, Belongs, Undeploying, Inside
  <2> QED BY <1>7, <2>2, <2>3
<1> QED BY <1>2, <1>7, <1>8, <1>9, ViewsStay, LoneStep

LEMMA LoneStoreSpawn ==
    ASSUME Gone, Lone, Single', NEW t \in Txns, StoreSpawn(t)
    PROVE  Lone'
<1> DEFINE new == [WorldView(t) EXCEPT !.spawn = tx[t].spawn]
           r == [tx[t] EXCEPT !.pc = "stats"]
<1>1. /\ tx[t].pc = "storeSpawn" /\ tx[t].kind = "undeploy" /\ Progress(t)
      /\ tx[t] \in Transactions /\ tx \in [Txns -> Transactions] /\ WorldView(t) \in Worlds
  BY ViewType DEF StoreSpawn, At, Gone, IInv, Typed, TypeOK, Lone, Progress, Belongs
<1>2. tx' = [tx EXCEPT ![t] = r] /\ WriteWorld(t, new)
  BY DEF StoreSpawn, Goto
<1>3. new.spawn = tx[t].spawn /\ new.exists = WorldView(t).exists
  BY <1>1 DEF Worlds
<1>4. r.pc = "stats" /\ r.kind = "undeploy" /\ tx'[t] = r
  BY <1>1, <1>2 DEF Transactions
<1> HIDE DEF r, new
<1>5. Progress(t)'
  BY <1>1, <1>2, <1>3, <1>4, WorldWritten DEF Progress, Belongs, Undeploying, Inside
<1> QED BY <1>2, <1>4, <1>5, WorldWritten, LoneStep

LEMMA LoneClearWorld ==
    ASSUME Gone, Lone, Single', NEW t \in Txns, ClearWorld(t)
    PROVE  Lone'
<1> DEFINE new == [WorldView(t) EXCEPT !.spawn = None, !.stats = StatsOf({})]
           r == [tx[t] EXCEPT !.pc = "commit"]
<1>1. /\ tx[t].pc = "rows" /\ tx[t].kind = "undeployWorld" /\ tx[t].todo = {} /\ Progress(t) /\ SeenGone(t)
      /\ tx[t] \in Transactions /\ tx \in [Txns -> Transactions] /\ WorldView(t) \in Worlds
  BY ViewType DEF ClearWorld, At, Gone, IInv, Typed, TypeOK, Lone
<1>2. tx' = [tx EXCEPT ![t] = r]
  BY DEF ClearWorld, Goto
<1>3. DeployedIn(t) = {}
  <2> SUFFICES ASSUME NEW e \in DeployedIn(t) PROVE FALSE
    OBVIOUS
  <2>1. e \in Deployed /\ Deployed \subseteq tx[t].seen
    BY <1>1, SeesFewer DEF Progress, UndeployingWorld
  <2>2. e \in Scenes /\ rowLock[e] = t
    BY <1>1, <2>1 DEF SeenGone, Deployed
  <2>3. rowNew[e] = "UNDEPLOYED"
    BY <1>1, <2>2 DEF Gone, IInv, Holds
  <2> QED BY <2>2, <2>3 DEF DeployedIn, View
<1>4. worldLock # t /\ WorldView(t) = world /\ Fits(world, Deployed)
  BY <1>1, Unlocked DEF Progress, UndeployingWorld, Lone
<1>5. r.pc = "commit" /\ r.kind = "undeployWorld" /\ tx'[t] = r
  BY <1>1, <1>2 DEF Transactions
<1>6. new.spawn = None /\ new.stats = StatsOf({}) /\ new.exists = world.exists
  BY <1>1, <1>4 DEF Worlds
<1> HIDE DEF r
<1>7. CASE WorldView(t).exists /\ WriteWorld(t, new)
  <2> HIDE DEF new
  <2>1. Fits(new, {})
    BY <1>6 DEF Fits
  <2>2. Progress(t)'
    BY <1>3, <1>5, <1>7, <2>1, WorldWritten DEF Progress, Belongs, UndeployingWorld
  <2> QED BY <1>2, <1>5, <1>7, <2>2, WorldWritten, LoneStep
<1>8. CASE ~WorldView(t).exists /\ UNCHANGED <<rowVars, worldVars>>
  <2>1. Fits(world, {})
    BY <1>4, <1>8 DEF Fits
  <2>2. Progress(t)'
    BY <1>3, <1>4, <1>5, <1>8, <2>1, ViewsStay DEF Progress, Belongs, UndeployingWorld
  <2> QED BY <1>2, <1>5, <1>8, <2>2, ViewsStay, LoneStep
<1> QED BY <1>7, <1>8 DEF ClearWorld

LEMMA LoneValidateSpawn ==
    ASSUME Gone, Lone, Single', NEW t \in Txns, ValidateSpawn(t)
    PROVE  Lone'
<1> DEFINE box == BoundingRectangle(DeployedIn(t))
           r == [tx[t] EXCEPT !.pc = "upsertSettings"]
<1>1. /\ tx[t].pc = "validate" /\ tx[t].kind = "settings" /\ Progress(t)
      /\ tx[t] \in Transactions /\ tx \in [Txns -> Transactions]
  BY DEF ValidateSpawn, At, Gone, IInv, Typed, TypeOK, Lone, Progress, Belongs
<1>2. CASE Rollback(t)
  BY <1>1, <1>2, LoneRollback DEF At
<1>3. CASE /\ tx[t].spawn = None \/ (box # None /\ Within(tx[t].spawn, box))
           /\ Goto(t, "upsertSettings") /\ UNCHANGED <<rowVars, worldVars>>
  <2>1. tx[t].spawn # None => DeployedIn(t) # {} /\ Within(tx[t].spawn, box)
    BY <1>3 DEF BoundingRectangle, Cells
  <2>2. tx' = [tx EXCEPT ![t] = r]
    BY <1>3 DEF Goto
  <2>3. r.pc = "upsertSettings" /\ r.kind = "settings" /\ r.spawn = tx[t].spawn /\ tx'[t] = r
    BY <1>1, <2>2 DEF Transactions
  <2> HIDE DEF r
  <2>4. Progress(t)'
    BY <1>1, <1>3, <2>1, <2>3, ViewsStay DEF Progress, Belongs, Setting
  <2> QED BY <1>3, <2>2, <2>3, <2>4, ViewsStay, LoneStep
<1> QED BY <1>2, <1>3 DEF ValidateSpawn

LEMMA LoneUpsertSettings ==
    ASSUME Gone, Lone, Single', NEW t \in Txns, UpsertSettings(t)
    PROVE  Lone'
<1> DEFINE row == WorldView(t)
           new == [row EXCEPT !.exists = TRUE, !.spawn = IF tx[t].spawn = None THEN row.spawn ELSE tx[t].spawn]
           r == [tx[t] EXCEPT !.pc = "commit"]
<1>1. /\ tx[t].pc = "upsertSettings" /\ tx[t].kind = "settings" /\ Progress(t)
      /\ tx[t] \in Transactions /\ tx \in [Txns -> Transactions] /\ WorldView(t) \in Worlds
  BY ViewType DEF UpsertSettings, At, Gone, IInv, Typed, TypeOK, Lone, Progress, Belongs
<1>2. tx' = [tx EXCEPT ![t] = r] /\ WriteWorld(t, new)
  BY DEF UpsertSettings, Goto
<1>3. WorldView(t) = world /\ Fits(world, DeployedIn(t))
  BY <1>1, Unlocked, SettingsSeeAll DEF Progress, Setting, Lone
<1>4. new.exists /\ new.stats = world.stats /\ new.spawn = IF tx[t].spawn = None THEN world.spawn ELSE tx[t].spawn
  BY <1>1, <1>3 DEF Worlds
<1>5. r.pc = "commit" /\ r.kind = "settings" /\ r.spawn = tx[t].spawn /\ tx'[t] = r
  BY <1>1, <1>2 DEF Transactions
<1> HIDE DEF r, new
<1>6. tx[t].spawn # None => DeployedIn(t) # {} /\ Within(tx[t].spawn, BoundingRectangle(DeployedIn(t)))
  BY <1>1 DEF Progress, Setting
<1>7. Fits(new, DeployedIn(t)) /\ (tx[t].spawn # None => Inside(new, DeployedIn(t)))
  BY <1>3, <1>4, <1>6 DEF Fits, Inside
<1>8. Progress(t)'
  BY <1>2, <1>5, <1>6, <1>7, WorldWritten DEF Progress, Belongs, Setting
<1> QED BY <1>2, <1>5, <1>8, WorldWritten, LoneStep

LEMMA LoneComputeStats ==
    ASSUME Gone, Lone, Single', NEW t \in Txns, ComputeStats(t)
    PROVE  Lone'
<1> DEFINE pc == IF WorldView(t).exists THEN "storeStats" ELSE "commit"
           stats == StatsOf(DeployedIn(t))
           r == [tx[t] EXCEPT !.pc = pc, !.stats = stats]
<1>1. /\ tx[t].pc = "stats" /\ tx[t].kind \in {"deploy", "undeploy"} /\ Progress(t)
      /\ tx[t] \in Transactions /\ tx \in [Txns -> Transactions]
  BY DEF ComputeStats, At, Gone, IInv, Typed, TypeOK, Lone, Progress, Belongs
<1>2. tx' = [tx EXCEPT ![t] = r] /\ UNCHANGED <<rowVars, worldVars>>
  BY DEF ComputeStats
<1>3. r.pc = pc /\ r.kind = tx[t].kind /\ r.stats = stats /\ tx'[t] = r
  BY <1>1, <1>2 DEF Transactions
<1>4. pc \in {"storeStats", "commit"} /\ (pc = "storeStats" <=> WorldView(t).exists)
  OBVIOUS
<1>5. ~WorldView(t).exists => Fits(WorldView(t), DeployedIn(t))
  BY <1>1 DEF Progress, Fits
<1> HIDE DEF r, pc
<1>6. Progress(t)'
  BY <1>1, <1>2, <1>3, <1>4, <1>5, ViewsStay DEF Progress, Belongs, Deploying, Undeploying
<1> QED BY <1>2, <1>3, <1>4, <1>6, ViewsStay, LoneStep

LEMMA LoneStoreStats ==
    ASSUME Gone, Lone, Single', NEW t \in Txns, StoreStats(t)
    PROVE  Lone'
<1> DEFINE new == [WorldView(t) EXCEPT !.stats = tx[t].stats]
           r == [tx[t] EXCEPT !.pc = "commit"]
<1>1. /\ tx[t].pc = "storeStats" /\ tx[t].kind \in {"deploy", "undeploy"} /\ Progress(t)
      /\ tx[t] \in Transactions /\ tx \in [Txns -> Transactions] /\ WorldView(t) \in Worlds
  BY ViewType DEF StoreStats, At, Gone, IInv, Typed, TypeOK, Lone, Progress, Belongs
<1>2. tx' = [tx EXCEPT ![t] = r] /\ WriteWorld(t, new)
  BY DEF StoreStats, Goto
<1>3. new.stats = tx[t].stats /\ new.exists = WorldView(t).exists /\ new.spawn = WorldView(t).spawn
  BY <1>1 DEF Worlds
<1>4. r.pc = "commit" /\ r.kind = tx[t].kind /\ tx'[t] = r
  BY <1>1, <1>2 DEF Transactions
<1> HIDE DEF r, new
<1>5. Fits(new, DeployedIn(t))
  BY <1>1, <1>3 DEF Progress, Fits
<1>6. tx[t].kind = "undeploy" => Inside(new, DeployedIn(t))
  BY <1>1, <1>3 DEF Progress, Undeploying, Inside
<1>7. Progress(t)'
  BY <1>1, <1>2, <1>4, <1>5, <1>6, WorldWritten DEF Progress, Belongs, Deploying, Undeploying
<1> QED BY <1>2, <1>4, <1>7, WorldWritten, LoneStep

LEMMA LoneEvict ==
    ASSUME Gone, Lone, Single', Evict
    PROVE  Lone'
<1>1. /\ \A e \in Scenes : (scenes[e] = "DEPLOYED" <=> scenes'[e] = "DEPLOYED")
      /\ rowLock' = rowLock /\ rowNew' = rowNew /\ tx' = tx
      /\ world' = world /\ worldLock' = worldLock /\ worldNew' = worldNew
  BY DEF Evict, worldVars
<1>2. Deployed' = Deployed
  BY <1>1 DEF Deployed
<1>3. ASSUME NEW t \in Txns PROVE DeployedIn(t)' = DeployedIn(t) /\ WorldView(t)' = WorldView(t)
  BY <1>1 DEF DeployedIn, View, WorldView
<1>4. ASSUME NEW t \in Txns PROVE Progress(t)'
  <2>1. Progress(t)
    BY DEF Lone
  <2> QED BY <1>1, <1>2, <1>3, <2>1 DEF Progress, Belongs, Deploying, Undeploying, UndeployingWorld, Setting
<1> QED BY <1>1, <1>2, <1>4 DEF Lone, At, Fits

LEMMA LoneCommit ==
    ASSUME Gone, Lone, Single', NEW t \in Txns, Commit(t)
    PROVE  Lone'
  BY LoneEnd DEF Commit, At

-----------------------------------------------------------------------------
(* The theorems                                                             *)

LEMMA AloneInvariant == AloneSpec => []AInv
<1>1. AloneInit => AInv
  <2> SUFFICES ASSUME AloneInit PROVE AInv
    OBVIOUS
  <2>1. Gone
    BY InitSafe DEF AloneInit, Init, Gone, SeenGone, Idle
  <2>2. \A t \in Txns : tx[t] = Idle /\ worldLock # t
    BY NoneAssumption DEF AloneInit, Init
  <2>3. \A t \in Txns : Progress(t)
    BY <2>2, NoneAssumption DEF Progress, Belongs, Idle, AllKinds
  <2>4. Deployed = {} /\ world = NewWorld
    BY DEF AloneInit, Init, Deployed
  <2>5. Fits(world, Deployed)
    BY <2>4 DEF Fits, NewWorld
  <2>6. Single
    BY <2>2 DEF Single, Active, At, Idle
  <2> QED BY <2>1, <2>2, <2>3, <2>5, <2>6 DEF AInv, Lone
<1>2. AInv /\ [AloneNext]_<<vars, alone>> => AInv'
  <2> SUFFICES ASSUME AInv, [AloneNext]_<<vars, alone>> PROVE AInv'
    OBVIOUS
  <2>1. [Next]_vars
    BY DEF AloneNext
  <2>2. Gone'
    BY <2>1, GoneKept DEF AInv
  <2>3. CASE UNCHANGED <<vars, alone>>
    <3>1. /\ scenes' = scenes /\ rowLock' = rowLock /\ rowNew' = rowNew /\ tx' = tx
          /\ world' = world /\ worldLock' = worldLock /\ worldNew' = worldNew
          /\ alone' = alone
      BY <2>3 DEF vars, worldVars
    <3>2. ASSUME NEW t \in Txns PROVE DeployedIn(t)' = DeployedIn(t) /\ WorldView(t)' = WorldView(t)
      BY <3>1 DEF DeployedIn, View, WorldView
    <3>3. Deployed' = Deployed
      BY <3>1 DEF Deployed
    <3>4. ASSUME NEW t \in Txns, Progress(t) PROVE Progress(t)'
      BY <3>1, <3>2, <3>3, <3>4 DEF Progress, Belongs, Deploying, Undeploying, UndeployingWorld, Setting
    <3>5. Single' <=> Single
      BY <3>1 DEF Single, Active, At
    <3> QED BY <2>2, <3>1, <3>3, <3>4, <3>5 DEF AInv, Lone, At, Fits
  <2>4. CASE AloneNext
    <3> SUFFICES ASSUME alone' PROVE Lone'
      BY <2>2 DEF AInv
    <3>1. Gone /\ Lone /\ Single' /\ Next
      BY <2>4 DEF AInv, AloneNext, Single
    <3>2. ASSUME NEW t \in Txns, Request(t) PROVE Lone'
      BY <3>1, <3>2, LoneRequest
    <3>3. ASSUME NEW t \in Txns, Statement(t) PROVE Lone'
      BY <3>1, <3>3, LoneUpsertWorld, LoneMatchScenes, LoneUndeployRow, LoneInsertScene, LoneReadSpawn, LoneMoveSpawn,
         LoneStoreSpawn, LoneClearWorld, LoneValidateSpawn, LoneUpsertSettings, LoneComputeStats, LoneStoreStats,
         LoneCommit DEF Statement
    <3>4. ASSUME NEW t \in Txns, Fail(t) PROVE Lone'
      BY <3>1, <3>4, LoneRollback DEF Fail
    <3>5. ASSUME NEW t \in Txns, DeadlockVictim(t) PROVE Lone'
      <4>1. WaitsFor(t) # {}
        BY <3>5 DEF DeadlockVictim
      <4>2. ~At(t, "idle")
        BY <4>1 DEF WaitsFor, NeedsWorld, At
      <4> QED BY <3>1, <3>5, <4>2, LoneRollback DEF DeadlockVictim
    <3>6. CASE Evict
      BY <3>1, <3>6, LoneEvict
    <3> QED BY <3>1, <3>2, <3>3, <3>4, <3>5, <3>6 DEF Next
  <2> QED BY <2>3, <2>4
<1> QED BY <1>1, <1>2, PTL DEF AloneSpec

(* A world whose transactions never overlapped has the statistics of its    *)
(* deployed scenes in its row, whenever no transaction runs.                *)
THEOREM StatsAreExactAlone == AloneSpec => []StatsExactAlone
<1>1. AInv => StatsExactAlone
  BY DEF AInv, Lone, Fits, StatsExactAlone, StatsExactWhenQuiet
<1> QED BY <1>1, AloneInvariant, PTL

(* ... and a spawn point exactly when it has a deployed scene.              *)
THEOREM SpawnGoesWithScenesAlone == AloneSpec => []SpawnIffDeployedAlone
<1>1. AInv => SpawnIffDeployedAlone
  BY DEF AInv, Lone, Fits, SpawnIffDeployedAlone, SpawnIffDeployed
<1> QED BY <1>1, AloneInvariant, PTL

(* An undeployment, or a change of the spawn point, that no other           *)
(* transaction overlaps leaves the spawn point in the scenes' rectangle:    *)
(* where it was, at the center, or where it was asked to be.                *)
THEOREM SpawnStaysInsideAlone == AloneSpec => CommitLeavesSpawnInside
<1>1. AInv /\ [AloneNext]_<<vars, alone>> => (alone' => CommitKeepsSpawnInside)
  <2> SUFFICES ASSUME AInv, [AloneNext]_<<vars, alone>>, alone', NEW t \in Txns,
                      At(t, "commit"), tx'[t].pc = "idle",
                      \/ tx[t].kind \in {"undeploy", "undeployWorld"}
                      \/ tx[t].kind = "settings" /\ tx[t].spawn # None
               PROVE  SpawnInside' \/ UNCHANGED <<scenes, world>>
    BY DEF CommitKeepsSpawnInside
  <2>1. Gone /\ Lone /\ [Next]_vars
    BY DEF AInv, AloneNext, vars
  <2>2. CASE Commit(t)
    <3>1. world' = WorldView(t) /\ Deployed' = DeployedIn(t)
      BY <2>2 DEF Commit, End, Deployed, DeployedIn
    <3>2. Inside(WorldView(t), DeployedIn(t))
      BY <2>1 DEF Lone, Progress, At, Undeploying, UndeployingWorld, Setting, Inside
    <3> QED BY <3>1, <3>2 DEF SpawnInside, Inside
  <2> QED BY <2>1, <2>2, EndsByCommit
<1>2. CommitLeavesSpawnInside <=> [][alone' => CommitKeepsSpawnInside]_<<vars, alone>>
  BY DEF CommitLeavesSpawnInside
<1> QED BY <1>1, <1>2, AloneInvariant, PTL DEF AloneSpec

=============================================================================
