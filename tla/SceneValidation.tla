-------------------------- MODULE SceneValidation --------------------------
(***************************************************************************)
(* The validation of a deployment (logic/validations): what is checked      *)
(* before the storage is asked for anything, and after.  The checks stop at *)
(* the first that fails.  What a library or the value of one field decides  *)
(* (schemas, the chain of signatures, the type, the age, the deprecated     *)
(* fields, the banned names) is in the field broken; parcels are the ways   *)
(* to write them, files are known by their hashes.                          *)
(***************************************************************************)
EXTENDS Naturals, Sequences, FiniteSets, FiniteSetsExt

CONSTANTS
    Canonical,    \* the canonical one of each spelling of a parcel
    InBounds,     \* the canonical ones within the limits of coordinates
    SizeOf,       \* bytes of the content with a hash
    RelativePaths, \* the names of files that are relative paths
    MAX_FILE_COUNT, MaxParcels, MaxSize

Hashes == DOMAIN SizeOf

(* A deployment:                                                            *)
(*   pointers, parcels   of the entity, and of its scene's metadata         *)
(*   role, grant         of its signer: owner, world (may deploy anywhere)  *)
(*                       or parcels, the parcels that it may deploy to      *)
(*   content             the files that the entity names, with their hashes *)
(*   refers, thumbnail   the files that the metadata refers to              *)
(*   uploaded            from the hashes of the uploaded files to the true  *)
(*   stored              the hashes that the storage has                    *)
(*   broken              the check that fails for another reason            *)

canonicalizeParcels(parcels) == {Canonical[p] : p \in parcels}
getDeploymentParcels(d) == canonicalizeParcels(d.pointers)

-----------------------------------------------------------------------------
validateFileCount(d) == Len(d.content) <= MAX_FILE_COUNT

validateParcelCoordinates(d) == getDeploymentParcels(d) \subseteq InBounds

\* Mutant: every pointer is a parcel of the scene, but not the other way round.
validateScenePointersOneWay(d) == canonicalizeParcels(d.pointers) \subseteq canonicalizeParcels(d.parcels)

validateScenePointers(d) ==
    LET pointers == canonicalizeParcels(d.pointers)
        sceneParcels == canonicalizeParcels(d.parcels)
    IN  Cardinality(pointers) = Cardinality(sceneParcels) /\ pointers \subseteq sceneParcels

\* The permission on the world, or on every parcel.
hasPermissionForParcels(d, parcels) == d.role = "world" \/ parcels \subseteq d.grant

validateDeploymentPermission(d) == d.role = "owner" \/ hasPermissionForParcels(d, getDeploymentParcels(d))

validateSceneDimensions(d) == Cardinality(getDeploymentParcels(d)) <= MaxParcels

FilesOf(d) == {d.content[i].file : i \in DOMAIN d.content}

\* The images of the minimap and the textures of the sky.
validateImages(d) == d.refers \subseteq FilesOf(d)

validateThumbnail(d) == d.thumbnail = "none" \/ (d.thumbnail \in RelativePaths /\ d.thumbnail \in FilesOf(d))

ContentHashes(d) == {d.content[i].hash : i \in DOMAIN d.content}

\* Of the uploaded files none is extra and each has its own hash; the others are stored.
validateFiles(d) ==
    /\ \A h \in DOMAIN d.uploaded : h \in ContentHashes(d) /\ d.uploaded[h] = h
    /\ ContentHashes(d) \subseteq DOMAIN d.uploaded \cup d.stored

calculateDeploymentSize(d) == MapThenSumSet(LAMBDA h : SizeOf[h], ContentHashes(d))

validateSize(d) == calculateDeploymentSize(d) <= MaxSize

-----------------------------------------------------------------------------
BeforeStorage == <<"baseEntity", "type", "fileCount", "authChain", "signer", "ttl", "entityId", "signature",
    "sceneEntity", "deprecatedConfig", "coordinates", "pointers", "bannedName", "permission", "dimensions", "images", "thumbnail">>
AfterStorage == <<"files", "size">>
Checks == {BeforeStorage[i] : i \in DOMAIN BeforeStorage} \cup {AfterStorage[i] : i \in DOMAIN AfterStorage}

\* What a deployment may be.
Deployment(d) == IsFiniteSet(d.pointers) /\ IsFiniteSet(d.parcels) /\ d.broken \in Checks \cup {"nothing"}

Passes(d, check) ==
    /\ d.broken # check
    /\ check = "fileCount" => validateFileCount(d)
    /\ check = "coordinates" => validateParcelCoordinates(d)
    /\ check = "pointers" => validateScenePointers(d)
    /\ check = "permission" => validateDeploymentPermission(d)
    /\ check = "dimensions" => validateSceneDimensions(d)
    /\ check = "images" => validateImages(d)
    /\ check = "thumbnail" => validateThumbnail(d)
    /\ check = "files" => validateFiles(d)
    /\ check = "size" => validateSize(d)

\* runValidations: the first of the checks that fails, or ok.
runValidations(d, checks) ==
    LET failing == {i \in DOMAIN checks : ~Passes(d, checks[i])}
    IN  IF failing = {} THEN "ok" ELSE checks[Min(failing)]

validate(d) ==
    LET before == runValidations(d, BeforeStorage)
    IN  IF before = "ok" THEN runValidations(d, AfterStorage) ELSE before

\* What deployScene puts in the row of the scene.
PlacedParcels(d) == canonicalizeParcels(d.parcels)

-----------------------------------------------------------------------------
(* What is accepted is what the scene is then made of: it is placed on      *)
(* parcels that exist, that are not too many and that its signer may deploy *)
(* to, however they are written; its files are there, uploaded or stored,   *)
(* under their own hashes and no other is; and they fit.  Nothing that is   *)
(* all of this is refused.                                                  *)
AcceptedScenesArePlaceableFor(d) ==
    LET placeable == /\ PlacedParcels(d) \subseteq InBounds
                     /\ Cardinality(PlacedParcels(d)) <= MaxParcels
                     /\ d.role \in {"owner", "world"} \/ PlacedParcels(d) \subseteq d.grant
                     /\ PlacedParcels(d) = canonicalizeParcels(d.pointers)
        complete  == /\ \A i \in DOMAIN d.content : d.content[i].hash \in {d.uploaded[h] : h \in DOMAIN d.uploaded} \cup d.stored
                     /\ \A h \in DOMAIN d.uploaded : d.uploaded[h] = h /\ \E i \in DOMAIN d.content : d.content[i].hash = h
                     /\ \A f \in d.refers \cup ({d.thumbnail} \ {"none"}) : \E i \in DOMAIN d.content : d.content[i].file = f
                     /\ d.thumbnail \in RelativePaths \cup {"none"}
                     /\ Len(d.content) <= MAX_FILE_COUNT
        fits      == FoldSet(LAMBDA h, sum : SizeOf[h] + sum, 0, {d.content[i].hash : i \in DOMAIN d.content}) <= MaxSize
    IN  validate(d) = "ok" <=> d.broken = "nothing" /\ placeable /\ complete /\ fits
=============================================================================
