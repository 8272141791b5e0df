---------------------------- MODULE Deployments ----------------------------
(***************************************************************************)
(* POST /entities after its body was parsed: the stages of a deployment     *)
(* (deploy-entity-handler.ts, validator.ts, entity-deployer.ts), the pool   *)
(* of workers each stage runs on (mapWithConcurrency), the cancellation by  *)
(* the client or the deadline (deployment-processing.ts) and the connection *)
(* of the transaction (withDeploymentTransaction); beside them the garbage  *)
(* collector (garbage-collection.ts), the eviction of scenes, and the       *)
(* thumbnails of settings/component.ts, which live in the same storage.     *)
(*                                                                          *)
(* An action is a callback with all the continuations it settles, up to the *)
(* next operation that answers later.  WorldScenes.tla looks inside the     *)
(* transaction; here it is one step and its COMMIT.                         *)
(***************************************************************************)
EXTENDS Integers, FiniteSets, FiniteSetsExt

CONSTANTS
    Requests,       \* deployments in progress; an answered one stands for a new one
    Scenes,         \* entity ids
    ContentOf,      \* the content hashes of each scene
    Uploads,        \* the content files clients send, all of them or only new ones
    AuthOf,         \* the key of each scene's auth chain, `${entity.id}.auth`
    Thumbnail,      \* the hash of a world's thumbnail
    Concurrency,    \* the workers of a stage that handles files
    MaxConnections, \* the connections of the database pool
    BatchSize,      \* the keys the collector deletes at once
    Others          \* what else runs: "thumbnail", "evict", "collect"

Objects(e) == ContentOf[e] \cup {e, AuthOf[e]}
Keys == {Thumbnail} \cup UNION {Objects(e) : e \in Scenes}

\* A thumbnail is named by its SHA-256 in hexadecimal, an entity by its CID.
ASSUME ThumbnailAssumption == Thumbnail \notin Scenes

ASSUME RequestsAssumption ==
    /\ IsFiniteSet(Requests)
    /\ \A e \in Scenes : IsFiniteSet(ContentOf[e])
    /\ Others \subseteq {"thumbnail", "evict", "collect"}
    /\ {Concurrency, MaxConnections, BatchSize} \subseteq Nat \ {0}

VARIABLES
    dep,        \* each request
    storage,    \* the keys in the content storage
    rows,       \* the scenes with a row in world_scenes, deployed or not
    thumbnail,  \* whether the world has a thumbnail, and its update
    gc,         \* the collector
    raced       \* history: what was committed while a collector already ran

vars == <<dep, storage, rows, thumbnail, gc, raced>>

-----------------------------------------------------------------------------
\* The stages that tell the signal's listener at once, ...
Raced == {"validate", "metadata", "size", "entity", "owners", "connect"}
\* ... the stages whose workers read the request's temporary files, ...
Reading == {"read", "hash", "content"}
\* ... and the others.
Stages == Raced \cup Reading \cup {"idle", "tx", "commit", "hooks", "answered"}

Answers == {"none", "ok", "refused", "failed", "cancelled"}

Fresh == [pc |-> "idle", scene |-> Thumbnail, files |-> {}, cancelled |-> FALSE, todo |-> {}, active |-> {}, found |-> {},
          failed |-> FALSE, late |-> {}, conn |-> "none", outcome |-> "none",
          answer |-> "none", beside |-> FALSE]

Deployment ==
    [pc : Stages, scene : Scenes \cup {Thumbnail}, files : SUBSET Keys, cancelled : BOOLEAN,
     todo : SUBSET Keys, active : SUBSET Keys,
     found : SUBSET Keys, failed : BOOLEAN, late : SUBSET Keys,
     conn : {"none", "waiting", "held", "late"},
     outcome : {"none", "committed", "unknown"}, answer : Answers,
     beside : BOOLEAN]  \* history: a collector has run beside this request

Collector == [pc : {"idle", "thumbnails", "sweep"}, active : SUBSET Keys, batch : SUBSET Keys]

TypeOK ==
    /\ dep \in [Requests -> Deployment]
    /\ storage \subseteq Keys
    /\ rows \subseteq Scenes
    /\ thumbnail \in [pc : {"idle", "stored"}, saved : BOOLEAN, beside : BOOLEAN]
    /\ gc \in Collector
    /\ Cardinality(gc.batch) <= BatchSize
    /\ raced \subseteq Scenes \cup {Thumbnail}

At(d, pc) == dep[d].pc = pc
Become(d, r) == dep' = [dep EXCEPT ![d] = r]
Scene(d) == dep[d].scene

\* deployEntity's catch: whatever the error, a cancelled signal decides the answer.
Answered(r, answer) ==
    [r EXCEPT !.pc = "answered", !.todo = {}, !.found = {}, !.failed = FALSE,
              !.files = {}, !.answer = IF r.cancelled THEN "cancelled" ELSE answer]

Only(d, r) ==
    /\ Become(d, r)
    /\ UNCHANGED <<storage, rows, thumbnail, gc, raced>>

-----------------------------------------------------------------------------
(* The pool of workers of a stage                                           *)

Workers(stage) == IF stage = "entity" THEN 2 ELSE Concurrency

\* The records with which a stage can begin: as many workers as there are items
\* for have taken one each.
Begin(r, stage, items) ==
    {[r EXCEPT !.pc = stage, !.todo = items \ first, !.active = first, !.failed = FALSE] :
        first \in kSubset(Min({Workers(stage), Cardinality(items)}), items)}

\* A worker's item is done and it takes another one, unless some item has failed.
Settled(r, item, ok) ==
    LET rest == [r EXCEPT !.active = @ \ {item}, !.failed = @ \/ ~ok]
    IN  IF rest.failed \/ rest.todo = {} THEN {rest}
        ELSE {[rest EXCEPT !.active = @ \cup {next}, !.todo = @ \ {next}] : next \in rest.todo}

\* The stage that follows, once the last worker has stopped.
Missing(r) == ContentOf[r.scene] \ (r.files \cup r.found)

Following(r) ==
    IF r.failed THEN {Answered(r, "failed")}
    ELSE CASE r.pc = "read" -> {[r EXCEPT !.pc = "validate"]}
           [] r.pc = "metadata" -> Begin(r, "hash", r.files \cup {r.scene})
           [] r.pc = "hash" -> {Answered(r, "refused")} \cup
                  (IF Missing(r) = {} THEN {[r EXCEPT !.pc = "size"]} ELSE {})
           [] r.pc = "content" -> Begin(r, "entity", {r.scene, AuthOf[r.scene]})
           [] r.pc = "entity" -> {[r EXCEPT !.pc = "owners", !.found = {}]}

Continue(r) == IF r.active = {} THEN Following(r) ELSE {r}

-----------------------------------------------------------------------------
(* The stages of a deployment                                               *)

Start(d) ==
    /\ At(d, "idle")
    /\ \E e \in Scenes, files \in Uploads :
          /\ files \subseteq ContentOf[e]
          /\ Only(d, [Fresh EXCEPT !.pc = "read", !.active = {e}, !.scene = e,
                                   !.files = files, !.beside = gc.pc # "idle"])

\* The entity's file is read, once: every later use of it takes the buffer.
ReadEntity(d) ==
    /\ At(d, "read")
    /\ \E ok \in BOOLEAN : \E r \in Settled(dep[d], Scene(d), ok) :
          \E s \in Continue(r) : Only(d, s)

\* validateBeforeStorage, without any access to the storage.
Validated(d) ==
    /\ At(d, "validate")
    /\ \/ \E r \in Begin(dep[d], "metadata", ContentOf[Scene(d)]) : \E s \in Continue(r) : Only(d, s)
       \/ Only(d, Answered(dep[d], "refused"))

\* getContentFileInfos: one storage.fileInfo.
FileInfo(d) ==
    /\ At(d, "metadata")
    /\ \E h \in dep[d].active, ok \in BOOLEAN :
         \E r \in Settled([dep[d] EXCEPT !.found = @ \cup ({h} \cap storage)], h, ok) :
            \E s \in Continue(r) : Only(d, s)

\* validateFiles: one hash, or the failure to read the file; whatever the hashes are,
\* they are compared at the end (Following).
HashFile(d) ==
    /\ At(d, "hash")
    /\ \E h \in dep[d].active, ok \in BOOLEAN :
         \E r \in Settled(dep[d], h, ok) :
            \E s \in Continue(r) : Only(d, s)

\* Mutant: the files are taken for stored.
SizeCheckedStoringNothing(d) ==
    /\ At(d, "size")
    /\ \E r \in Begin(dep[d], "entity", {Scene(d), AuthOf[Scene(d)]}) : Only(d, r)

\* createValidateSize against the quota, and then filesToStore.
SizeChecked(d) ==
    LET filesToStore == ContentOf[Scene(d)] \ dep[d].found IN
    /\ At(d, "size")
    /\ \/ Only(d, Answered(dep[d], "refused"))
       \/ \E r \in Begin(dep[d], "content", filesToStore) :
            \E s \in Continue(r) : Only(d, s)

\* storage.storeStream, of a content file and of the entity and its auth chain.
Store(d, stage) ==
    /\ At(d, stage)
    /\ \E k \in dep[d].active, ok \in BOOLEAN :
         /\ storage' = IF ok THEN storage \cup {k} ELSE storage
         /\ \E r \in Settled(dep[d], k, ok) : \E s \in Continue(r) : Become(d, s)
    /\ UNCHANGED <<rows, thumbnail, gc, raced>>

StoreContent(d) == Store(d, "content")
StoreEntity(d) == Store(d, "entity")

\* nameOwnership.findOwners, and the demand for a connection.
OwnersFound(d) ==
    /\ At(d, "owners")
    /\ \/ Only(d, [dep[d] EXCEPT !.pc = "connect", !.conn = "waiting"])
       \/ Only(d, Answered(dep[d], "failed"))

FreeConnection == Cardinality({d \in Requests : dep[d].conn = "held"}) < MaxConnections

Connected(d) ==
    /\ At(d, "connect")
    /\ \/ FreeConnection /\ Only(d, [dep[d] EXCEPT !.pc = "tx", !.conn = "held"])
       \/ Only(d, Answered([dep[d] EXCEPT !.conn = "none"], "failed"))

\* The statements of deployScene: success begins the COMMIT, an error rolls back.
Executed(d) ==
    /\ At(d, "tx")
    /\ ~dep[d].cancelled
    /\ \/ /\ Scene(d) \notin rows
          /\ \A c \in Requests : At(c, "commit") => Scene(c) # Scene(d)
          /\ Only(d, [dep[d] EXCEPT !.pc = "commit"])
       \/ Only(d, Answered([dep[d] EXCEPT !.conn = "none"], "failed"))

\* The row of a scene that is committed, perhaps too late for a collector to see it.
WriteRows(d) ==
    /\ rows' = rows \cup {Scene(d)}
    /\ raced' = IF dep[d].beside THEN raced \cup {Scene(d)} ELSE raced
    /\ UNCHANGED <<storage, thumbnail, gc>>

\* Mutant: the hooks are awaited, whether the request was cancelled or not.
CommittedAwaitingHooks(d) ==
    /\ At(d, "commit")
    /\ WriteRows(d)
    /\ Become(d, [dep[d] EXCEPT !.conn = "none", !.outcome = "committed", !.pc = "hooks"])

\* The hooks start, and a request that was cancelled meanwhile does not wait for them.
Committed(d) ==
    /\ At(d, "commit")
    /\ WriteRows(d)
    /\ LET r == [dep[d] EXCEPT !.conn = "none", !.outcome = "committed"]
       IN  Become(d, IF r.cancelled THEN [r EXCEPT !.pc = "answered", !.answer = "ok"]
                                    ELSE [r EXCEPT !.pc = "hooks"])

\* COMMIT fails, or it succeeds and the database's answer is lost.
CommitFails(d) ==
    /\ At(d, "commit")
    /\ \/ Only(d, Answered([dep[d] EXCEPT !.conn = "none"], "failed"))
       \/ /\ WriteRows(d)
          /\ Become(d, Answered([dep[d] EXCEPT !.conn = "none", !.outcome = "unknown"], "failed"))

\* unblockIfUnderQuota and the notification, whether they fail or not.
HooksSettle(d) ==
    /\ At(d, "hooks")
    /\ Only(d, [dep[d] EXCEPT !.pc = "answered", !.answer = "ok"])

\* The next request; what an answered one left behind is still to come.
Forget(d) ==
    /\ At(d, "answered")
    /\ dep[d].late = {} /\ dep[d].active = {} /\ dep[d].conn = "none"
    /\ Only(d, Fresh)

-----------------------------------------------------------------------------
(* Cancellation: the client goes away or the deadline passes                *)

\* raceWithSignal and the pools that do not wait reject at once; what was started
\* goes on in the background.
CancelRaced(d) ==
    /\ dep[d].pc \in Raced
    /\ Only(d, Answered([dep[d] EXCEPT !.cancelled = TRUE, !.active = {},
                           !.late = IF At(d, "entity") THEN dep[d].active ELSE {},
                           !.conn = IF At(d, "connect") THEN "late" ELSE "none"], "cancelled"))

\* Mutant: the pools of these stages do not wait either.
CancelReadingAtOnce(d) ==
    /\ dep[d].pc \in Reading
    /\ Only(d, Answered([dep[d] EXCEPT !.cancelled = TRUE], "cancelled"))

\* The pools that wait take no new item, and their streams are destroyed.
CancelReading(d) ==
    /\ dep[d].pc \in Reading
    /\ Only(d, [dep[d] EXCEPT !.cancelled = TRUE, !.failed = TRUE])

\* withDeploymentTransaction's abort listener destroys the connection.
CancelTransaction(d) ==
    /\ At(d, "tx")
    /\ Only(d, [dep[d] EXCEPT !.cancelled = TRUE, !.conn = "none"])

\* ... and the listener is gone once COMMIT has begun.
CancelCommit(d) ==
    /\ At(d, "commit")
    /\ Only(d, [dep[d] EXCEPT !.cancelled = TRUE])

\* Mutant: the error of the race is thrown, cancelled or not.
CancelHooksThrowing(d) ==
    /\ At(d, "hooks")
    /\ Only(d, Answered([dep[d] EXCEPT !.cancelled = TRUE], "failed"))

\* The deployment is committed: the answer does not wait for the hooks.
CancelHooks(d) ==
    /\ At(d, "hooks")
    /\ Only(d, [dep[d] EXCEPT !.pc = "answered", !.answer = "ok", !.cancelled = TRUE])

Cancel(d) ==
    /\ ~dep[d].cancelled
    /\ \/ CancelRaced(d) \/ CancelReading(d) \/ CancelTransaction(d)
       \/ CancelCommit(d) \/ CancelHooks(d)

Disconnect(d) == Cancel(d)
Deadline(d) == Cancel(d)

\* The statement that was running fails with its connection.
TransactionDies(d) ==
    /\ At(d, "tx")
    /\ dep[d].cancelled
    /\ Only(d, Answered(dep[d], "failed"))

\* The entity or its auth chain arrives after the answer, or fails unobserved.
LateStore(d) ==
    /\ \E k \in dep[d].late :
         /\ storage' \in {storage, storage \cup {k}}
         /\ Become(d, [dep[d] EXCEPT !.late = @ \ {k}])
    /\ UNCHANGED <<rows, thumbnail, gc, raced>>

\* Mutant: nobody looks at what the pool grants after the request has been answered.
LateConnectionLeaks(d) ==
    /\ dep[d].conn = "late"
    /\ FreeConnection
    /\ Only(d, [dep[d] EXCEPT !.conn = "held"])

\* The pool grants, or refuses, a connection nobody waits for: it is released.
LateConnection(d) ==
    /\ dep[d].conn = "late"
    /\ Only(d, [dep[d] EXCEPT !.conn = "none"])

-----------------------------------------------------------------------------
(* The thumbnail of a world, the eviction of scenes and the collector       *)

\* settings.updateWorldSettings stores the image before the row that names it.
StoreThumbnail ==
    /\ "thumbnail" \in Others
    /\ thumbnail.pc = "idle"
    /\ storage' = storage \cup {Thumbnail}
    /\ thumbnail' = [thumbnail EXCEPT !.pc = "stored", !.beside = gc.pc # "idle"]
    /\ UNCHANGED <<dep, rows, gc, raced>>

\* worldsManager.updateWorldSettings commits, or refuses the other settings.
SaveThumbnail ==
    /\ thumbnail.pc = "stored"
    /\ \/ /\ thumbnail' = [pc |-> "idle", saved |-> TRUE, beside |-> FALSE]
          /\ raced' = IF thumbnail.beside THEN raced \cup {Thumbnail} ELSE raced
       \/ thumbnail' = [thumbnail EXCEPT !.pc = "idle", !.beside = FALSE] /\ UNCHANGED raced
    /\ UNCHANGED <<dep, storage, rows, gc>>

\* The eviction job deletes the row of a scene that was undeployed a week ago.
Evict ==
    /\ "evict" \in Others
    /\ \E e \in rows : rows' = rows \ {e} /\ raced' = raced \ {e}
    /\ UNCHANGED <<dep, storage, thumbnail, gc>>

\* A request whose scene may still be committed.
Unfinished(d) == dep[d].pc \notin {"idle", "hooks", "answered"}

\* Mutant: the auth chains are not active keys.
ReadScenesWithoutAuth ==
    /\ "collect" \in Others
    /\ gc.pc = "idle"
    /\ gc' = [gc EXCEPT !.pc = "thumbnails", !.active = UNION {ContentOf[e] \cup {e} : e \in rows}]
    /\ dep' = [d \in Requests |-> [dep[d] EXCEPT !.beside = @ \/ Unfinished(d)]]
    /\ thumbnail' = [thumbnail EXCEPT !.beside = thumbnail.pc = "stored"]
    /\ UNCHANGED <<storage, rows, raced>>

\* getAllActiveKeys: the rows of world_scenes, whatever their status, ...
ReadScenes ==
    /\ "collect" \in Others
    /\ gc.pc = "idle"
    /\ gc' = [gc EXCEPT !.pc = "thumbnails", !.active = UNION {Objects(e) : e \in rows}]
    /\ dep' = [d \in Requests |-> [dep[d] EXCEPT !.beside = @ \/ Unfinished(d)]]
    /\ thumbnail' = [thumbnail EXCEPT !.beside = thumbnail.pc = "stored"]
    /\ UNCHANGED <<storage, rows, raced>>

\* ... and then the thumbnails.
ReadThumbnails ==
    /\ gc.pc = "thumbnails"
    /\ gc' = [gc EXCEPT !.pc = "sweep",
                        !.active = IF thumbnail.saved THEN @ \cup {Thumbnail} ELSE @]
    /\ UNCHANGED <<dep, storage, rows, thumbnail, raced>>

\* storage.allFileIds yields a key.
ListKey ==
    /\ gc.pc = "sweep"
    /\ Cardinality(gc.batch) < BatchSize
    /\ \E k \in storage \ (gc.active \cup gc.batch) : gc' = [gc EXCEPT !.batch = @ \cup {k}]
    /\ UNCHANGED <<dep, storage, rows, thumbnail, raced>>

\* storage.delete of a batch, in the loop or after it.
DeleteBatch ==
    /\ gc.pc = "sweep"
    /\ gc.batch # {}
    /\ storage' = storage \ gc.batch
    /\ \/ Cardinality(gc.batch) = BatchSize /\ gc' = [gc EXCEPT !.batch = {}]
       \/ gc' = [pc |-> "idle", active |-> {}, batch |-> {}]
    /\ UNCHANGED <<dep, rows, thumbnail, raced>>

\* Every key was listed, or the listing or a deletion failed, perhaps half-way.
EndSweep ==
    /\ gc.pc # "idle"
    /\ \E deleted \in SUBSET gc.batch : storage' = storage \ deleted
    /\ gc' = [pc |-> "idle", active |-> {}, batch |-> {}]
    /\ UNCHANGED <<dep, rows, thumbnail, raced>>

-----------------------------------------------------------------------------
Init ==
    /\ dep = [d \in Requests |-> Fresh]
    /\ storage = {}
    /\ rows = {}
    /\ thumbnail = [pc |-> "idle", saved |-> FALSE, beside |-> FALSE]
    /\ gc = [pc |-> "idle", active |-> {}, batch |-> {}]
    /\ raced = {}

Step(d) ==
    \/ Start(d) \/ ReadEntity(d) \/ Validated(d) \/ FileInfo(d) \/ HashFile(d) \/ SizeChecked(d)
    \/ StoreContent(d) \/ StoreEntity(d) \/ OwnersFound(d) \/ Connected(d) \/ Executed(d)
    \/ HooksSettle(d) \/ Disconnect(d) \/ LateStore(d) \/ LateConnection(d) \/ Forget(d)

\* What happens whoever else never answers: see FairSpec.
Prompt(d) ==
    \/ Deadline(d) \/ Committed(d) \/ CommitFails(d) \/ TransactionDies(d)
    \/ dep[d].cancelled /\ (ReadEntity(d) \/ HashFile(d) \/ StoreContent(d))

Collect == ReadScenes \/ ReadThumbnails \/ ListKey \/ DeleteBatch \/ EndSweep

Next ==
    \/ \E d \in Requests : Step(d) \/ Prompt(d)
    \/ StoreThumbnail \/ SaveThumbnail \/ Evict \/ Collect

Spec == Init /\ [][Next]_vars

\* The timer of the deadline fires, COMMIT answers, and what reads a destroyed
\* stream or waits on a destroyed connection fails.  Nothing else has to answer:
\* not the storage, the pool, the owners' subgraph or the hooks.
FairSpec == Spec /\ \A d \in Requests : WF_vars(Prompt(d))

-----------------------------------------------------------------------------
(* Properties                                                               *)

(* Every scene in the database, and the thumbnail, has all of its files in   *)
(* the storage, unless it was committed beside a collector that had read the *)
(* database before.                                                          *)
ContentKept ==
    /\ \A e \in rows \ raced : Objects(e) \subseteq storage
    /\ thumbnail.saved /\ Thumbnail \notin raced => Thumbnail \in storage

(* The collector deletes nothing that the database refers to, as it tells    *)
(* its caller: "removed N unused keys".                                      *)
CollectsOnlyUnused ==
    [][\A e \in rows : Objects(e) \cap storage \subseteq storage']_vars

(* "Persistence is the deployment's success boundary": a request is answered *)
(* with success exactly when the database said that it committed, however    *)
(* the cancellation and the hooks race with the COMMIT.                      *)
AnswerTellsOutcome ==
    \A d \in Requests : At(d, "answered") =>
        (dep[d].answer = "ok" <=> dep[d].outcome = "committed")

(* No worker reads a temporary file of a request that was answered, whose    *)
(* files are about to be removed: "already-started tasks settle before the   *)
(* error is rethrown".                                                       *)
FilesOutliveReaders ==
    \A d \in Requests : At(d, "answered") => dep[d].active = {}

(* A connection is checked out only for a transaction that runs; a request   *)
(* that was cancelled while it waited for one leaves none behind.            *)
NoConnectionLeaks ==
    /\ Cardinality({d \in Requests : dep[d].conn = "held"}) <= MaxConnections
    /\ \A d \in Requests : dep[d].conn = "held" => dep[d].pc \in {"tx", "commit"}

(* A request is answered once its deadline has passed, even if the storage,  *)
(* the pool of connections or the owners' subgraph never answer.             *)
EveryRequestAnswered ==
    \A d \in Requests : ~At(d, "idle") ~> At(d, "answered")

=============================================================================
