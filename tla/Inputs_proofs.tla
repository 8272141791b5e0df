---------------------------- MODULE Inputs_proofs ----------------------------
(***************************************************************************)
(* What is true of the answers to any input: ranges are exact, updates are  *)
(* exact, and accepted scenes can be placed; and the owners that a lookup   *)
(* of any names answers were owners, whatever changes meanwhile.            *)
(***************************************************************************)
EXTENDS Inputs, FiniteSetTheorems, SequenceTheorems, WellFoundedInduction, TLAPS

-----------------------------------------------------------------------------
(* The inputs                                                               *)

InputsOf(p) == IF p \in {"scenes", "settings", "files"} THEN Inputs(p) ELSE {}
AskedInv == part \in {"names", "scenes", "settings", "files"} /\ asked \subseteq InputsOf(part)

(* What is asked is an input.                                               *)
LEMMA AskedInvariant == InputsSpec => []AskedInv
<1>1. InputsInit => AskedInv
  BY DEF InputsInit, AskedInv
<1>2. AskedInv /\ [InputsNext]_<<vars, part, asked>> => AskedInv'
  <2> SUFFICES ASSUME AskedInv, [InputsNext]_<<vars, part, asked>> PROVE AskedInv'
    OBVIOUS
  <2>1. CASE Ask
    BY <2>1 DEF Ask, AskedInv, InputsOf, InputsInit
  <2>2. CASE part' = part /\ (asked' = asked \/ asked' = {})
    BY <2>2 DEF AskedInv, InputsOf
  <2> QED BY <2>1, <2>2 DEF InputsNext, LookUp, Answered
<1> QED BY <1>1, <1>2, PTL DEF InputsSpec

-----------------------------------------------------------------------------
(* Files                                                                    *)

(* A range that is understood is the bytes the header asks for.             *)
LEMMA RangeIsAsked ==
    ASSUME NEW h \in Header, NEW size \in Nat, h.form = "bytes"
    PROVE  LET r == parseRangeHeader(h, size)
           IN  /\ r.kind = "ok" => /\ r.start \in Nat /\ r.end \in Nat /\ r.start <= r.end /\ r.end < size
                                   /\ r.start .. r.end = AskedFor(h, size)
               /\ r.kind = "invalid" => AskedFor(h, size) = {}
               /\ r.kind \in {"ok", "invalid", "unsupported"}
<1> DEFINE f == h.first
           l == h.last
<1>1. f \in Int /\ l \in Int /\ f >= -1 /\ l >= -1
  BY DEF Header
<1>2. CASE f = -1 /\ l = -1
  BY <1>2 DEF parseRangeHeader
<1>3. CASE f = -1 /\ l # -1
  <2> DEFINE begin == IF 0 < size - l THEN size - l ELSE 0
  <2>1. AskedFor(h, size) = {b \in 0 .. size - 1 : size - b <= l}
    BY <1>3 DEF AskedFor
  <2>2. begin \in Nat /\ (l > 0 => \A b \in 0 .. size - 1 : size - b <= l <=> begin <= b)
    BY <1>1, <1>3
  <2>3. Bounds(h, size) = [start |-> begin, end |-> size - 1]
    BY <1>1, <1>3 DEF Bounds, Most
  <2> HIDE DEF begin
  <2>4. CASE l = 0
    BY <1>1, <1>3, <2>1, <2>4 DEF parseRangeHeader
  <2>5. CASE l > 0
    <3>1. AskedFor(h, size) = begin .. size - 1
      BY <2>1, <2>2, <2>5
    <3> QED BY <1>1, <1>3, <2>2, <2>3, <2>5, <3>1 DEF parseRangeHeader, Least
  <2> QED BY <1>1, <1>3, <2>4, <2>5
<1>4. CASE f # -1 /\ l = -1
  BY <1>1, <1>4 DEF parseRangeHeader, Bounds, AskedFor, Least, Most
<1>5. CASE f # -1 /\ l # -1
  BY <1>1, <1>5 DEF parseRangeHeader, Bounds, AskedFor, Least, Most
<1> QED BY <1>1, <1>2, <1>3, <1>4, <1>5

(* The whole file is what HEAD describes.                                   *)
LEMMA WholeFile ==
    ASSUME NEW file \in File
    PROVE  LET answer == retrieveFullContent(file)
               head == headContentFile("valid", file)
           IN  /\ answer.status \in {200, 404} /\ answer.status = head.status
               /\ answer.status = 200 => answer.body = 0 .. file.size - 1 /\ answer.length = head.length
<1>1. CASE file.there
  BY <1>1 DEF retrieveFullContent, headContentFile, Status
<1>2. CASE ~file.there
  BY <1>2 DEF retrieveFullContent, headContentFile, Status
<1> QED BY <1>1, <1>2

LEMMA StatusIs == ASSUME NEW code PROVE Status(code).status = code
  BY DEF Status

(* RangesAreExactFor, of files of any size.                                 *)
LEMMA EveryRangeIsExact ==
    ASSUME NEW key \in {"valid", "invalid"}, NEW h \in Header, NEW info \in File, NEW file \in File
    PROVE  RangesAreExactFor(key, h, info, file)
<1> DEFINE r == parseRangeHeader(h, info.size)
           answer == getContentFile(key, h, info, file)
           wanted == AskedFor(h, info.size)
<1>1. info.size \in Nat /\ file.size \in Nat
  BY DEF File
<1>2. CASE key = "invalid"
  BY <1>2 DEF RangesAreExactFor, getContentFile, headContentFile, Status
<1>3. CASE key = "valid" /\ h.form # "bytes"
  <2>1. h.form = "none" \/ r.kind = "unsupported"
    BY <1>3 DEF parseRangeHeader
  <2>2. answer = retrieveFullContent(file) \/ answer = Status(404)
    BY <1>3, <2>1 DEF getContentFile
  <2> QED BY <1>3, <2>2, WholeFile, StatusIs DEF RangesAreExactFor
<1>4. CASE key = "valid" /\ h.form = "bytes"
  <2>1. /\ r.kind = "ok" => /\ r.start \in Nat /\ r.end \in Nat /\ r.start <= r.end /\ r.end < info.size
                            /\ r.start .. r.end = wanted
        /\ r.kind = "invalid" => wanted = {}
        /\ r.kind \in {"ok", "invalid", "unsupported"}
    BY <1>1, <1>4, RangeIsAsked
  <2> HIDE DEF r, wanted
  <2>2. \/ answer = retrieveFullContent(file)
        \/ answer = Status(404)
        \/ r.kind = "invalid" /\ answer = [Status(416) EXCEPT !.total = info.size]
        \/ r.kind = "ok" /\ answer = retrievePart(r, info, file)
    BY <1>4, <2>1 DEF getContentFile, r
  <2> HIDE DEF answer
  <2>3. /\ answer.status = 206 => /\ answer.body = wanted /\ wanted # {}
                                  /\ answer.length = Cardinality(wanted) /\ answer.total = info.size
        /\ answer.status = 416 => wanted = {} \/ file # info
        /\ answer.status = 200 => /\ answer.body = 0 .. file.size - 1
                                  /\ answer.length = headContentFile(key, file).length
    <3>1. CASE answer = retrieveFullContent(file) \/ answer = Status(404)
      BY <1>4, <3>1, WholeFile, StatusIs
    <3>2. CASE r.kind = "invalid" /\ answer = [Status(416) EXCEPT !.total = info.size]
      BY <2>1, <3>2 DEF Status
    <3>3. CASE r.kind = "ok" /\ answer = retrievePart(r, info, file)
      <4>1. r.start \in Nat /\ r.end \in Nat /\ r.start <= r.end /\ r.end < info.size /\ r.start .. r.end = wanted
        BY <2>1, <3>3
      <4>2. Cardinality(wanted) = r.end - r.start + 1
        BY <4>1, FS_Interval
      <4>3. r.start \in wanted
        BY <4>1
      <4>4. CASE ~file.there
        BY <3>3, <4>4, StatusIs DEF retrievePart
      <4>5. CASE file.there /\ r.end >= file.size
        <5>1. answer = [Status(416) EXCEPT !.total = info.size]
          BY <3>3, <4>5 DEF retrievePart
        <5>2. answer.status = 416
          BY <5>1 DEF Status
        <5>3. file # info
          BY <1>1, <4>1, <4>5
        <5> QED BY <5>2, <5>3
      <4>6. CASE file.there /\ r.end < file.size
        <5>1. answer = [status |-> 206, body |-> r.start .. r.end, length |-> r.end - r.start + 1, total |-> info.size]
          BY <1>1, <3>3, <4>1, <4>6 DEF retrievePart
        <5> QED BY <4>1, <4>2, <4>3, <5>1
      <4> QED BY <1>1, <4>1, <4>4, <4>5, <4>6
    <3> QED BY <2>2, <3>1, <3>2, <3>3
  <2>4. h.form = "bytes"
    BY <1>4
  <2>5. h.form # "bytes" => answer.status \in {headContentFile(key, file).status, 404}
    BY <2>4
  <2> QED BY ONLY <2>3, <2>5 DEF RangesAreExactFor, answer, wanted
<1> QED BY <1>2, <1>3, <1>4

-----------------------------------------------------------------------------
(* Settings                                                                 *)

\* What a form may hold, of what its fields may not tell from nothing.
Form(form) == form["thumbnail_hash"] \notin {"", Null}

(* A field that is parsed without an error and stored means what its form   *)
(* asks for.                                                                *)
LEMMA FieldIsExact ==
    ASSUME NEW row, NEW form, Form(form), Null \notin DOMAIN Coordinate, NEW f \in Fields,
           parseMultipartInput(form)[f] # "error"
    PROVE  {Upsert(row, parseMultipartInput(form))[f]} = IF Meaning(f, form[f]) = {} THEN {row[f]} ELSE Meaning(f, form[f])
<1> DEFINE input == parseMultipartInput(form)
           v == form[f]
           stored == Upsert(row, input)[f]
<1>1. stored = IF f = "skybox_time" /\ input[f] # Undefined THEN input[f]
               ELSE IF input[f] \in {Undefined, Null} THEN row[f] ELSE input[f]
  BY DEF Upsert, COALESCE, Excluded, Undefined, Null
<1>2. CASE f \in Texts
  <2>1. input[f] = parseText(v)
    BY <1>2 DEF parseMultipartInput, Texts, Flags, Fields
  <2> QED BY <1>1, <1>2, <2>1 DEF parseText, Meaning, Texts, Flags, Undefined, Null
<1>3. CASE f \in Flags
  <2>1. input[f] = parseFlag(v)
    BY <1>3 DEF parseMultipartInput, Texts, Flags, Fields
  <2> QED BY <1>1, <1>3, <2>1 DEF parseFlag, isDefined, Meaning, Texts, Flags, Undefined, Null
<1>4. CASE f = "content_rating"
  <2>1. input[f] = parseRating(v)
    BY <1>4 DEF parseMultipartInput, Texts, Flags, Fields
  <2> QED BY <1>1, <1>4, <2>1 DEF parseRating, isDefined, Meaning, Texts, Flags, Undefined, Null
<1>5. CASE f = "spawn_coordinates"
  <2>1. input[f] = parseSpawn(v)
    BY <1>5 DEF parseMultipartInput, Texts, Flags, Fields
  <2> QED BY <1>1, <1>5, <2>1 DEF parseSpawn, isDefined, Meaning, Texts, Flags, Undefined, Null
<1>6. CASE f = "skybox_time"
  <2>1. input[f] = parseSkybox(v)
    BY <1>6 DEF parseMultipartInput, Texts, Flags, Fields
  <2> QED BY <1>1, <1>6, <2>1 DEF parseSkybox, isDefined, Meaning, Texts, Flags, Undefined, Null
<1>7. CASE f = "categories"
  <2>1. input[f] = parseCategories(v)
    BY <1>7 DEF parseMultipartInput, Texts, Flags, Fields
  <2> QED BY <1>1, <1>7, <2>1 DEF parseCategories, isDefined, Meaning, Texts, Flags, Undefined, Null
<1>8. CASE f = "thumbnail_hash"
  <2>1. input[f] = parseThumbnail(v)
    BY <1>8 DEF parseMultipartInput, Texts, Flags, Fields
  <2> QED BY <1>1, <1>8, <2>1 DEF Form, parseThumbnail, isDefined, Meaning, Texts, Flags, Undefined, Null
<1> QED BY <1>2, <1>3, <1>4, <1>5, <1>6, <1>7, <1>8 DEF Fields

(* UpdatesAreExactFor, of any row and any form.                             *)
LEMMA EveryUpdateIsExact ==
    ASSUME NEW row, NEW form, NEW role, NEW rectangles, Form(form), Null \notin DOMAIN Coordinate
    PROVE  UpdatesAreExactFor(row, form, role, rectangles)
<1> DEFINE input == parseMultipartInput(form)
           answer == updateWorldSettingsHandler(row, form, role, rectangles)
           refused == {[status |-> code, row |-> row, events |-> {}] : code \in {400, 403, 500}}
           updated == Upsert(row, input)
<1>1. \/ answer \in refused
      \/ /\ answer = [status |-> 200, row |-> updated, events |-> Events(row, updated)]
         /\ \A f \in Fields : input[f] # "error"
         /\ Authorized(role)
  BY DEF updateWorldSettingsHandler
<1>2. CASE answer \in refused
  BY <1>2 DEF UpdatesAreExactFor
<1>3. CASE /\ answer = [status |-> 200, row |-> updated, events |-> Events(row, updated)]
           /\ \A f \in Fields : input[f] # "error"
           /\ Authorized(role)
  <2>1. \A f \in Fields : {updated[f]} = IF Meaning(f, form[f]) = {} THEN {row[f]} ELSE Meaning(f, form[f])
    BY <1>3, FieldIsExact
  <2>2. role \in {"owner", "world"}
    BY <1>3 DEF Authorized
  <2> HIDE DEF updated
  <2> DEFINE old == row["spawn_coordinates"]
             new == updated["spawn_coordinates"]
  <2>3. "spawn" \in Events(row, updated) <=> new # Null /\ (old = Null \/ Coordinate[old] # Coordinate[new])
    BY DEF Events, areCoordinatesEqual
  <2>4. answer.status = 200 /\ answer.row = updated /\ answer.events = Events(row, updated)
    BY <1>3
  <2> HIDE DEF answer
  <2> QED BY <2>1, <2>2, <2>3, <2>4 DEF UpdatesAreExactFor, answer
<1> QED BY <1>1, <1>2, <1>3

-----------------------------------------------------------------------------
(* Deployments                                                              *)

LEMMA MinIsMember ==
    ASSUME NEW T \in SUBSET Nat, T # {}
    PROVE  Min(T) \in T
<1> DEFINE R == OpToRel(<, Nat)
<1>1. IsWellFoundedOn(R, Nat)
  BY NatLessThanWellFounded
<1>2. \A x, y \in Nat : <<y, x>> \in R <=> y < x
  BY DEF OpToRel
<1> HIDE DEF R
<1>3. \E x \in T : \A y \in T : ~(<<y, x>> \in R)
  BY <1>1, WFMin
<1>5. PICK x \in T : \A y \in T : ~(<<y, x>> \in R)
  BY <1>3
<1>4. ASSUME NEW y \in T PROVE x <= y
  <2>1. x \in Nat /\ y \in Nat
    OBVIOUS
  <2>2. ~(y < x)
    BY <1>2, <1>5, <2>1
  <2> QED BY <2>1, <2>2
<1> QED BY <1>4 DEF Min

(* The checks are passed by who passes each.                                *)
LEMMA AllChecksPass ==
    ASSUME NEW d, NEW checks, DOMAIN checks \subseteq Nat, \A i \in DOMAIN checks : checks[i] # "ok"
    PROVE  runValidations(d, checks) = "ok" <=> \A i \in DOMAIN checks : Passes(d, checks[i])
<1> DEFINE failing == {i \in DOMAIN checks : ~Passes(d, checks[i])}
<1>1. CASE failing = {}
  BY <1>1 DEF runValidations
<1>2. CASE failing # {}
  <2>1. Min(failing) \in failing
    BY <1>2, MinIsMember
  <2> QED BY <1>2, <2>1 DEF runValidations
<1> QED BY <1>1, <1>2

LEMMA ValidatePassesAll ==
    ASSUME NEW d
    PROVE  validate(d) = "ok" <=> \A check \in Checks : Passes(d, check)
<1>1. DOMAIN BeforeStorage \subseteq Nat /\ \A i \in DOMAIN BeforeStorage : BeforeStorage[i] # "ok"
  BY DEF BeforeStorage
<1>2. DOMAIN AfterStorage \subseteq Nat /\ \A i \in DOMAIN AfterStorage : AfterStorage[i] # "ok"
  BY DEF AfterStorage
<1>3. validate(d) = "ok" <=> runValidations(d, BeforeStorage) = "ok" /\ runValidations(d, AfterStorage) = "ok"
  BY DEF validate
<1> QED BY <1>1, <1>2, <1>3, AllChecksPass DEF Checks

LEMMA SumsAgree ==
    ASSUME NEW T
    PROVE  FoldSet(LAMBDA h, sum : SizeOf[h] + sum, 0, T) = MapThenSumSet(LAMBDA h : SizeOf[h], T)
  BY DEF FoldSet, MapThenSumSet, MapThenFoldSet

(* AcceptedScenesArePlaceableFor, of any deployment.                        *)
LEMMA EveryAcceptedSceneIsPlaceable ==
    ASSUME NEW d, Deployment(d)
    PROVE  AcceptedScenesArePlaceableFor(d)
<1> DEFINE placeable == /\ PlacedParcels(d) \subseteq InBounds
                        /\ Cardinality(PlacedParcels(d)) <= MaxParcels
                        /\ d.role \in {"owner", "world"} \/ PlacedParcels(d) \subseteq d.grant
                        /\ PlacedParcels(d) = canonicalizeParcels(d.pointers)
           complete == /\ \A i \in DOMAIN d.content : d.content[i].hash \in {d.uploaded[h] : h \in DOMAIN d.uploaded} \cup d.stored
                       /\ \A h \in DOMAIN d.uploaded : d.uploaded[h] = h /\ \E i \in DOMAIN d.content : d.content[i].hash = h
                       /\ \A f \in d.refers \cup ({d.thumbnail} \ {"none"}) : \E i \in DOMAIN d.content : d.content[i].file = f
                       /\ d.thumbnail \in RelativePaths \cup {"none"}
                       /\ Len(d.content) <= MAX_FILE_COUNT
           fits == FoldSet(LAMBDA h, sum : SizeOf[h] + sum, 0, {d.content[i].hash : i \in DOMAIN d.content}) <= MaxSize
<1>1. (\A check \in Checks : Passes(d, check)) <=>
         /\ d.broken \notin Checks
         /\ validateFileCount(d) /\ validateParcelCoordinates(d) /\ validateScenePointers(d)
         /\ validateDeploymentPermission(d) /\ validateSceneDimensions(d) /\ validateImages(d)
         /\ validateThumbnail(d) /\ validateFiles(d) /\ validateSize(d)
  <2>1. {"fileCount", "coordinates", "pointers", "permission", "dimensions", "images", "thumbnail", "files", "size"} \subseteq Checks
    <3>1. /\ BeforeStorage[3] = "fileCount" /\ BeforeStorage[11] = "coordinates" /\ BeforeStorage[12] = "pointers"
          /\ BeforeStorage[14] = "permission" /\ BeforeStorage[15] = "dimensions" /\ BeforeStorage[16] = "images"
          /\ BeforeStorage[17] = "thumbnail" /\ DOMAIN BeforeStorage = 1 .. 17
      BY DEF BeforeStorage
    <3>2. AfterStorage[1] = "files" /\ AfterStorage[2] = "size" /\ DOMAIN AfterStorage = 1 .. 2
      BY DEF AfterStorage
    <3> QED BY <3>1, <3>2 DEF Checks
  <2> QED BY <2>1, Zenon DEF Passes
<1>2. d.broken \notin Checks <=> d.broken = "nothing"
  <2>1. "nothing" \notin Checks
    BY DEF Checks, BeforeStorage, AfterStorage
  <2> QED BY <2>1 DEF Deployment
<1>3. /\ validateParcelCoordinates(d) /\ validateScenePointers(d)
      /\ validateDeploymentPermission(d) /\ validateSceneDimensions(d)
      <=> placeable
  <2> DEFINE pointers == canonicalizeParcels(d.pointers)
             parcels == canonicalizeParcels(d.parcels)
  <2>1. IsFiniteSet(pointers) /\ IsFiniteSet(parcels)
    <3>1. ASSUME NEW T, IsFiniteSet(T) PROVE IsFiniteSet(canonicalizeParcels(T))
      <4> DEFINE f == [p \in T |-> Canonical[p]]
      <4>1. f \in Surjection(T, canonicalizeParcels(T))
        BY DEF Surjection, canonicalizeParcels
      <4> QED BY <3>1, <4>1, FS_Surjection
    <3> QED BY <3>1 DEF Deployment
  <2>2. Cardinality(pointers) = Cardinality(parcels) /\ pointers \subseteq parcels <=> pointers = parcels
    BY <2>1, FS_Subset
  <2> HIDE DEF pointers, parcels
  <2>3. validateScenePointers(d) <=> pointers = parcels
    BY <2>2 DEF validateScenePointers, pointers, parcels
  <2>4. PlacedParcels(d) = parcels /\ getDeploymentParcels(d) = pointers /\ canonicalizeParcels(d.pointers) = pointers
    BY DEF PlacedParcels, getDeploymentParcels, pointers, parcels
  <2> QED BY <2>3, <2>4 DEF validateParcelCoordinates, validateDeploymentPermission, hasPermissionForParcels, validateSceneDimensions
<1>4. validateFileCount(d) /\ validateImages(d) /\ validateThumbnail(d) /\ validateFiles(d) <=> complete
  <2>1. validateFiles(d) <=>
          /\ \A i \in DOMAIN d.content : d.content[i].hash \in {d.uploaded[h] : h \in DOMAIN d.uploaded} \cup d.stored
          /\ \A h \in DOMAIN d.uploaded : d.uploaded[h] = h /\ \E i \in DOMAIN d.content : d.content[i].hash = h
    <3>1. \A h : h \in ContentHashes(d) <=> \E i \in DOMAIN d.content : d.content[i].hash = h
      BY DEF ContentHashes
    <3>2. (\A h \in DOMAIN d.uploaded : d.uploaded[h] = h) => {d.uploaded[h] : h \in DOMAIN d.uploaded} = DOMAIN d.uploaded
      OBVIOUS
    <3>3. ContentHashes(d) \subseteq DOMAIN d.uploaded \cup d.stored
            <=> \A i \in DOMAIN d.content : d.content[i].hash \in DOMAIN d.uploaded \cup d.stored
      BY DEF ContentHashes
    <3> QED BY <3>1, <3>2, <3>3 DEF validateFiles
  <2>2. validateImages(d) /\ validateThumbnail(d) <=>
          /\ \A f \in d.refers \cup ({d.thumbnail} \ {"none"}) : \E i \in DOMAIN d.content : d.content[i].file = f
          /\ d.thumbnail \in RelativePaths \cup {"none"}
    BY DEF validateImages, validateThumbnail, FilesOf
  <2> QED BY <2>1, <2>2 DEF validateFileCount
<1>5. validateSize(d) <=> fits
  BY SumsAgree DEF validateSize, calculateDeploymentSize, ContentHashes
<1>6. validate(d) = "ok" <=> \A check \in Checks : Passes(d, check)
  BY ValidatePassesAll
<1>7. validate(d) = "ok" <=> d.broken = "nothing" /\ placeable /\ complete /\ fits
  <2> HIDE DEF placeable, complete, fits
  <2> QED BY <1>1, <1>2, <1>3, <1>4, <1>5, <1>6
<1> QED BY ONLY <1>7 DEF AcceptedScenesArePlaceableFor

-----------------------------------------------------------------------------
(* The theorems about inputs                                                *)

(* RangesAreExact, for files of any size, any header, and any change of the *)
(* file between the two times it is looked up.                              *)
THEOREM EveryRange == InputsSpec => []RangesAreExact
<1>1. AskedInv => RangesAreExact
  BY InputsAssumption, EveryRangeIsExact DEF AskedInv, InputsOf, Inputs, RangesAreExact, Asked
<1> QED BY <1>1, AskedInvariant, PTL

(* UpdatesAreExact, for any row and any form, every field of it.            *)
THEOREM EveryUpdate == InputsSpec => []UpdatesAreExact
<1>1. AskedInv => UpdatesAreExact
  BY InputsAssumption, EveryUpdateIsExact DEF AskedInv, InputsOf, Inputs, UpdatesAreExact, Asked, Form
<1> QED BY <1>1, AskedInvariant, PTL

(* AcceptedScenesArePlaceable, for any parcels, files, grants and limits:   *)
(* the nineteen checks together refuse all and only what cannot be placed.  *)
THEOREM EveryAcceptedScene == InputsSpec => []AcceptedScenesArePlaceable
<1>1. AskedInv => AcceptedScenesArePlaceable
  BY InputsAssumption, EveryAcceptedSceneIsPlaceable DEF AskedInv, InputsOf, Inputs, AcceptedScenesArePlaceable, Asked
<1> QED BY <1>1, AskedInvariant, PTL

-----------------------------------------------------------------------------
(* The lookups of names                                                     *)

(* A filtered list holds the names of the list that are in the set, and all *)
(* of them.                                                                 *)
LEMMA ThoseFacts ==
    ASSUME NEW T, NEW names \in Seq(T), NEW W
    PROVE  /\ Those(names, W) \in Seq(T)
           /\ \A k \in DOMAIN Those(names, W) : \E i \in DOMAIN names : names[i] \in W /\ Those(names, W)[k] = names[i]
           /\ \A i \in DOMAIN names : names[i] \in W => \E k \in DOMAIN Those(names, W) : Those(names, W)[k] = names[i]
<1> DEFINE taken == {i \in DOMAIN names : names[i] \in W}
           upTo(i) == {j \in taken : j <= i}
           count == Cardinality(taken)
           place == [i \in taken |-> Cardinality(upTo(i))]
           t == Those(names, W)
<1>1. DOMAIN names = 1 .. Len(names) /\ Len(names) \in Nat /\ \A i \in 1 .. Len(names) : names[i] \in T
  OBVIOUS
<1>2. IsFiniteSet(taken) /\ count \in Nat /\ taken \subseteq Nat
  <2>1. IsFiniteSet(1 .. Len(names)) /\ taken \subseteq 1 .. Len(names)
    BY <1>1, FS_Interval
  <2>2. IsFiniteSet(taken)
    BY <2>1, FS_Subset
  <2> QED BY <1>1, <2>1, <2>2, FS_CardinalityType
<1>3. \A i \in taken : IsFiniteSet(upTo(i)) /\ i \in upTo(i) /\ upTo(i) \subseteq taken
  BY <1>2, FS_Subset
<1> HIDE DEF taken
<1>4. \A i \in taken : Cardinality(upTo(i)) \in 1 .. count
  <2> SUFFICES ASSUME NEW i \in taken PROVE Cardinality(upTo(i)) \in 1 .. count
    OBVIOUS
  <2>1. Cardinality(upTo(i)) \in Nat /\ Cardinality(upTo(i)) <= count
    BY <1>2, <1>3, FS_Subset, FS_CardinalityType
  <2>2. Cardinality(upTo(i)) # 0
    BY <1>3, FS_EmptySet
  <2> QED BY <1>2, <2>1, <2>2
<1>5. \A i, j \in taken : i < j => Cardinality(upTo(i)) # Cardinality(upTo(j))
  <2> SUFFICES ASSUME NEW i \in taken, NEW j \in taken, i < j PROVE Cardinality(upTo(i)) # Cardinality(upTo(j))
    OBVIOUS
  <2>1. upTo(i) \subseteq upTo(j) /\ j \notin upTo(i) /\ j \in upTo(j)
    <3>1. i \in Nat /\ j \in Nat /\ ~(j <= i) /\ j <= j /\ \A l \in taken : l \in Nat /\ (l <= i => l <= j)
      BY <1>2
    <3> QED BY <3>1
  <2> QED BY <1>3, <2>1, FS_Subset
<1>6. place \in Injection(taken, 1 .. count)
  <2>1. \A i, j \in taken : place[i] = place[j] => i = j
    BY <1>2, <1>5
  <2> QED BY <1>4, <2>1 DEF Injection, IsInjective
<1>7. \A k \in 1 .. count : \E i \in taken : Cardinality(upTo(i)) = k
  <2>1. Cardinality(1 .. count) = count /\ IsFiniteSet(1 .. count)
    BY <1>2, FS_Interval
  <2>2. place \in Surjection(taken, 1 .. count)
    BY <1>2, <1>6, <2>1, FS_Injection
  <2> QED BY <2>2 DEF Surjection
<1>8. t = [k \in 1 .. count |-> names[CHOOSE i \in taken : Cardinality(upTo(i)) = k]]
  BY DEF Those, taken
<1> HIDE DEF t, upTo, count
<1>9. \A k \in 1 .. count : \E i \in taken : t[k] = names[i] /\ Cardinality(upTo(i)) = k
  BY <1>7, <1>8
<1>10. \A i \in taken : t[Cardinality(upTo(i))] = names[i]
  <2> SUFFICES ASSUME NEW i \in taken PROVE t[Cardinality(upTo(i))] = names[i]
    OBVIOUS
  <2>1. PICK j \in taken : t[Cardinality(upTo(i))] = names[j] /\ Cardinality(upTo(j)) = Cardinality(upTo(i))
    BY <1>4, <1>9
  <2>2. j = i
    BY <1>2, <1>5, <2>1
  <2> QED BY <2>1, <2>2
<1>11. t \in Seq(T)
  <2>1. \A k \in 1 .. count : t[k] \in T
    BY <1>1, <1>9 DEF taken
  <2> QED BY <1>2, <1>8, <2>1
<1>12. DOMAIN t = 1 .. count
  BY <1>8
<1>13. \A k \in DOMAIN t : \E i \in DOMAIN names : names[i] \in W /\ t[k] = names[i]
  BY <1>9, <1>12 DEF taken
<1>14. \A i \in DOMAIN names : names[i] \in W => \E k \in DOMAIN t : t[k] = names[i]
  BY <1>4, <1>10, <1>12 DEF taken
<1> QED BY <1>11, <1>13, <1>14 DEF t

LEMMA ThoseAreAmong ==
    ASSUME NEW T, NEW names \in Seq(T), NEW W
    PROVE  Those(names, W) \in Seq(T \cap W)
<1>1. /\ Those(names, W) \in Seq(T)
      /\ \A k \in DOMAIN Those(names, W) : Those(names, W)[k] \in W
  BY ThoseFacts
<1>2. \A s : s \in Seq(T) /\ (\A k \in DOMAIN s : s[k] \in W) => s \in Seq(T \cap W)
  <2> SUFFICES ASSUME NEW s \in Seq(T), \A k \in DOMAIN s : s[k] \in W PROVE s \in Seq(T \cap W)
    OBVIOUS
  <2>1. \A k \in 1 .. Len(s) : s[k] \in T \cap W
    OBVIOUS
  <2> QED BY <2>1
<1> QED BY <1>1, <1>2

-----------------------------------------------------------------------------
(* The types of the lookup, and what its batches keep.                      *)

Answers == Owners \cup {NameWrapper}
BatchType == [contract : {"none", "subgraph", "dclRegistrar", "registrar", "nameWrapper"}, names : Seq(Names), rest : Seq(Deeper),
              sent : Nat, answers : Seq(Answers), tries : Nat]

\* No more is sent than there is, and the subgraph is sent all or nothing.
Sizes(b) ==
    /\ b.sent <= Len(b.names)
    /\ b.contract = "subgraph" /\ b.sent # Len(b.names) => b.sent = 0

\* f is true of the name n: L[n] could be answered of it, and H are the names that the NameWrapper may hold.
Verdict(contract, f, n, L, H) == f \in L[n] \/ (contract = "registrar" /\ f = NameWrapper /\ n \in H)

\* While nothing is shifted, the answers are in step with the names sent, and each is true of its name.
BatchOK(b, L, H) ==
    /\ b.sent # Len(b.names) => Len(b.answers) = b.sent
    /\ \A i \in 1 .. b.sent : Verdict(b.contract, Fetched(b, i), b.names[i], L, H)
    /\ b.contract = "nameWrapper" => \A i \in DOMAIN b.names : b.names[i] \in Deeper \cup H

Held == {n \in Names : n \in wrapped \/ Nobody \in lately[n]}

NTyped ==
    /\ strategy \in {"subgraph", "dclRegistrar"} /\ wrapped \subseteq TwoLevel
    /\ owner \in [Names -> Owners] /\ lately \in [Names -> SUBSET Owners]
    /\ cache \in [Names -> Answers] /\ DOMAIN result \subseteq Names
    /\ \A n \in DOMAIN result : result[n] \in Answers
    /\ batch \in [Kinds -> BatchType] /\ shifted \in BOOLEAN
    /\ batch.dcl.contract \in {"none", "subgraph", "dclRegistrar"}
    /\ batch.ens.contract \in {"none", "registrar", "nameWrapper"}
    /\ \A k \in Kinds : Sizes(batch[k])

NTrue ==
    /\ \A n \in Names : owner[n] \in lately[n]
    /\ ~shifted =>
        /\ \A n \in Names : cache[n] \in lately[n] \cup {Nobody}
        /\ \A n \in DOMAIN result : result[n] \in lately[n]
        /\ \A k \in Kinds : BatchOK(batch[k], lately, Held)

NInv == NTyped /\ NTrue

LEMMA ChunkFacts ==
    ASSUME NEW b \in BatchType, Sizes(b), b.sent # Len(b.names)
    PROVE  /\ Chunk(b) \in Seq(Names) /\ Len(Chunk(b)) \in Nat \ {0}
           /\ b.sent + Len(Chunk(b)) <= Len(b.names)
           /\ b.contract = "subgraph" => b.sent + Len(Chunk(b)) = Len(b.names)
           /\ \A i \in 1 .. Len(Chunk(b)) : Chunk(b)[i] = b.names[b.sent + i]
<1> DEFINE names == b.names
           from == b.sent + 1
           to == IF b.sent + BATCH_SIZE_LIMIT < Len(b.names) THEN b.sent + BATCH_SIZE_LIMIT ELSE Len(b.names)
<1>1. names \in Seq(Names) /\ Len(names) \in Nat /\ b.sent \in Nat /\ b.sent < Len(names)
  BY DEF BatchType, Sizes
<1>2. CASE b.contract = "subgraph"
  BY <1>1, <1>2 DEF Chunk, Sizes
<1>3. CASE b.contract # "subgraph"
  <2>1. Chunk(b) = SubSeq(names, from, to)
    BY <1>3 DEF Chunk
  <2>2. from \in 1 .. Len(names) + 1 /\ to \in from .. Len(names)
    BY <1>1, NameOwnershipAssumption
  <2> HIDE DEF to
  <2>3. /\ SubSeq(names, from, to) \in Seq(Names) /\ Len(SubSeq(names, from, to)) = to - b.sent
        /\ \A i \in 1 .. to - b.sent : SubSeq(names, from, to)[i] = names[b.sent + i]
    <3>1. from \in Nat /\ to \in Nat /\ from <= to /\ to - from + 1 = to - b.sent
      BY <1>1, <2>2
    <3>2. \A i \in from .. to : names[i] \in Names
      BY <1>1, <2>2
    <3> HIDE DEF names, from
    <3>3. /\ SubSeq(names, from, to) \in Seq(Names) /\ Len(SubSeq(names, from, to)) = to - from + 1
          /\ \A i \in 1 .. to - from + 1 : SubSeq(names, from, to)[i] = names[from + i - 1]
      BY <3>1, <3>2, SubSeqProperties
    <3>4. \A i \in 1 .. to - b.sent : from + i - 1 = b.sent + i
      BY <1>1 DEF from
    <3> QED BY <3>1, <3>3, <3>4
  <2>4. to - b.sent \in Nat \ {0} /\ b.sent + (to - b.sent) <= Len(names)
    BY <1>1, <2>2
  <2> HIDE DEF names, from
  <2> QED BY <1>3, <2>1, <2>3, <2>4 DEF names
<1> QED BY <1>2, <1>3

\* What is true of a name stays true as more could be answered of it.
LEMMA TrueForLonger ==
    ASSUME NEW b \in BatchType, NEW L, NEW H, NEW L2, NEW H2, BatchOK(b, L, H), Sizes(b),
           \A n \in Names : L[n] \subseteq L2[n], H \subseteq H2
    PROVE  BatchOK(b, L2, H2)
<1>1. \A i \in 1 .. b.sent : b.names[i] \in Names
  BY DEF BatchType, Sizes
<1>2. \A i \in 1 .. b.sent : Verdict(b.contract, Fetched(b, i), b.names[i], L2, H2)
  BY <1>1 DEF BatchOK, Verdict
<1>3. b.contract = "nameWrapper" => \A i \in DOMAIN b.names : b.names[i] \in Deeper \cup H2
  BY DEF BatchOK
<1> QED BY <1>2, <1>3 DEF BatchOK

LEMMA ConcatFacts ==
    ASSUME NEW T, NEW s \in Seq(T), NEW t \in Seq(T)
    PROVE  /\ s \o t \in Seq(T) /\ DOMAIN (s \o t) = 1 .. Len(s) + Len(t) /\ Len(s \o t) = Len(s) + Len(t)
           /\ \A i \in 1 .. Len(s) : (s \o t)[i] = s[i]
           /\ \A i \in 1 .. Len(t) : (s \o t)[Len(s) + i] = t[i]
<1>1. /\ s \o t \in Seq(T) /\ Len(s \o t) = Len(s) + Len(t)
      /\ \A i \in 1 .. Len(s) + Len(t) : (s \o t)[i] = IF i <= Len(s) THEN s[i] ELSE t[i - Len(s)]
  BY ConcatProperties
<1>2. \A i \in 1 .. Len(t) : Len(s) + i \in 1 .. Len(s) + Len(t) /\ ~(Len(s) + i <= Len(s)) /\ (Len(s) + i) - Len(s) = i
  OBVIOUS
<1>3. DOMAIN (s \o t) = 1 .. Len(s) + Len(t)
  BY <1>1
<1>4. \A i \in 1 .. Len(s) : (s \o t)[i] = s[i]
  BY <1>1
<1>5. \A i \in 1 .. Len(t) : (s \o t)[Len(s) + i] = t[i]
  BY <1>1, <1>2
<1> QED BY <1>1, <1>3, <1>4, <1>5

LEMMA ChunkFits ==
    ASSUME NEW b \in BatchType, Sizes(b), b.sent # Len(b.names), NEW b2,
           b2.contract = b.contract, b2.names = b.names, b2.sent = b.sent + Len(Chunk(b))
    PROVE  Sizes(b2)
<1> DEFINE c == Chunk(b)
<1>1. /\ Len(c) \in Nat \ {0} /\ b.sent + Len(c) <= Len(b.names)
      /\ b.contract = "subgraph" => b.sent + Len(c) = Len(b.names)
  BY ChunkFacts
<1>2. b2.sent = b.sent + Len(c) /\ Len(b2.names) = Len(b.names) /\ b2.contract = b.contract
  OBVIOUS
<1> HIDE DEF c
<1> QED BY <1>1, <1>2 DEF Sizes

\* A chunk is answered by x: for all of its names, or for some of the last chunk.
LEMMA ChunkIsTrue ==
    ASSUME NEW b \in BatchType, NEW L, NEW H, BatchOK(b, L, H), Sizes(b), b.sent # Len(b.names),
           NEW x \in Seq(Answers), NEW b2 \in BatchType,
           b2.contract = b.contract, b2.names = b.names, b2.rest = b.rest,
           b2.sent = b.sent + Len(Chunk(b)), b2.answers = b.answers \o x,
           \A i \in 1 .. Len(Chunk(b)) : Verdict(b.contract, IF i \in DOMAIN x THEN x[i] ELSE Nobody, Chunk(b)[i], L, H),
           Len(x) <= Len(Chunk(b)), Len(x) # Len(Chunk(b)) => b2.sent = Len(b2.names)
    PROVE  BatchOK(b2, L, H)
<1> DEFINE c == Chunk(b)
           sent == b.sent
<1>1. /\ Len(c) \in Nat \ {0} /\ sent + Len(c) <= Len(b.names)
      /\ b.contract = "subgraph" => sent + Len(c) = Len(b.names)
      /\ \A i \in 1 .. Len(c) : c[i] = b.names[sent + i]
  BY ChunkFacts
<1>2. /\ sent \in Nat /\ b.answers \in Seq(Answers) /\ Len(b.answers) = sent /\ x \in Seq(Answers) /\ Len(x) \in Nat
  BY DEF BatchType, BatchOK
<1>4. /\ DOMAIN b2.answers = 1 .. sent + Len(x) /\ Len(b2.answers) = sent + Len(x)
      /\ \A i \in 1 .. sent : b2.answers[i] = b.answers[i]
      /\ \A i \in 1 .. Len(x) : b2.answers[sent + i] = x[i]
  <2> DEFINE a == b.answers
  <2>1. a \in Seq(Answers) /\ x \in Seq(Answers) /\ Len(a) = b.sent /\ b2.answers = a \o x
    BY <1>2
  <2> HIDE DEF a
  <2>2. /\ DOMAIN (a \o x) = 1 .. Len(a) + Len(x) /\ Len(a \o x) = Len(a) + Len(x)
        /\ \A i \in 1 .. Len(a) : (a \o x)[i] = a[i]
        /\ \A i \in 1 .. Len(x) : (a \o x)[Len(a) + i] = x[i]
    <3>1. \A s, t \in Seq(Answers) : DOMAIN (s \o t) = 1 .. Len(s) + Len(t) /\ Len(s \o t) = Len(s) + Len(t)
      BY ConcatFacts
    <3>2. \A s, t \in Seq(Answers) : \A i \in 1 .. Len(s) : (s \o t)[i] = s[i]
      BY ConcatFacts
    <3>3. \A s, t \in Seq(Answers) : \A i \in 1 .. Len(t) : (s \o t)[Len(s) + i] = t[i]
      BY ConcatFacts
    <3> QED BY <2>1, <3>1, <3>2, <3>3
  <2> QED BY <2>1, <2>2 DEF a
<1>5. DOMAIN x = 1 .. Len(x) /\ DOMAIN b.answers = 1 .. sent
  BY <1>2
<1>6. \A i \in 1 .. sent : Fetched(b2, i) = Fetched(b, i)
  BY <1>2, <1>4, <1>5 DEF Fetched
<1>7. \A i \in 1 .. Len(c) : Fetched(b2, sent + i) = IF i \in DOMAIN x THEN x[i] ELSE Nobody
  <2> SUFFICES ASSUME NEW i \in 1 .. Len(c) PROVE Fetched(b2, sent + i) = IF i \in DOMAIN x THEN x[i] ELSE Nobody
    OBVIOUS
  <2>1. CASE i \in 1 .. Len(x)
    <3>1. sent + i \in 1 .. sent + Len(x)
      BY <1>2, <2>1
    <3> QED BY <1>4, <1>5, <2>1, <3>1 DEF Fetched
  <2>2. CASE i \notin 1 .. Len(x)
    <3>1. sent + i \notin 1 .. sent + Len(x)
      BY <1>1, <1>2, <2>2
    <3> QED BY <1>4, <2>2, <3>1 DEF Fetched
  <2> QED BY <2>1, <2>2
<1>8. \A i \in 1 .. b2.sent : Verdict(b2.contract, Fetched(b2, i), b2.names[i], L, H)
  <2> SUFFICES ASSUME NEW i \in 1 .. b2.sent PROVE Verdict(b2.contract, Fetched(b2, i), b2.names[i], L, H)
    OBVIOUS
  <2>1. CASE i \in 1 .. sent
    BY <1>6, <2>1 DEF BatchOK
  <2>2. CASE i \notin 1 .. sent
    <3>1. i - sent \in 1 .. Len(c) /\ i = sent + (i - sent)
      BY <1>1, <1>2, <2>2
    <3> DEFINE j == i - sent
    <3>2. Fetched(b2, i) = (IF j \in DOMAIN x THEN x[j] ELSE Nobody) /\ b2.names[i] = c[j]
      BY <1>1, <1>7, <3>1
    <3>3. Verdict(b.contract, IF j \in DOMAIN x THEN x[j] ELSE Nobody, c[j], L, H)
      BY <3>1
    <3> QED BY <3>2, <3>3
  <2> QED BY <2>1, <2>2
<1>9. b2.sent # Len(b2.names) => Len(b2.answers) = b2.sent
  BY <1>4
<1>10. b2.contract = "nameWrapper" => \A i \in DOMAIN b2.names : b2.names[i] \in Deeper \cup H
  BY DEF BatchOK
<1> QED BY <1>8, <1>9, <1>10 DEF BatchOK

\* What was found, and by whom: for each of the names, what was fetched at one of its places.
LEMMA FoundFacts ==
    ASSUME NEW found, NEW b \in BatchType, NEW names \in Seq(Names), ToSet(names) \subseteq ToSet(b.names)
    PROVE  LET f == Found(found, names, b) IN
           /\ DOMAIN f = DOMAIN found \cup ToSet(names)
           /\ \A n \in ToSet(names) : \E i \in DOMAIN b.names : b.names[i] = n /\ f[n] = Fetched(b, i)
           /\ \A n \in DOMAIN found \ ToSet(names) : f[n] = found[n]
           /\ \A n \in ToSet(names) : f[n] \in Answers
<1> DEFINE f == Found(found, names, b)
           P(n) == CHOOSE i \in DOMAIN b.names : b.names[i] = n
<1>1. f = [n \in DOMAIN found \cup ToSet(names) |-> IF n \in ToSet(names) THEN Fetched(b, P(n)) ELSE found[n]]
  BY DEF Found
<1>2. \A n \in ToSet(names) : P(n) \in DOMAIN b.names /\ b.names[P(n)] = n
  BY DEF ToSet
<1>3. \A i : Fetched(b, i) \in Answers
  BY DEF Fetched, BatchType, Answers, Owners
<1> HIDE DEF f, P
<1>4. \A n \in ToSet(names) : f[n] = Fetched(b, P(n))
  BY <1>1
<1>5. DOMAIN f = DOMAIN found \cup ToSet(names) /\ \A n \in DOMAIN found \ ToSet(names) : f[n] = found[n]
  BY <1>1
<1>6. \A n \in ToSet(names) : f[n] \in Answers
  BY <1>3, <1>4
<1>7. \A n \in ToSet(names) : \E i \in DOMAIN b.names : b.names[i] = n /\ f[n] = Fetched(b, i)
  BY <1>2, <1>4
<1> QED BY <1>5, <1>6, <1>7 DEF f

LEMMA SeqOfMore == ASSUME NEW S, NEW T, S \subseteq T, NEW s \in Seq(S) PROVE s \in Seq(T)
OBVIOUS

\* Nothing is sent yet.
LEMMA FreshBatch ==
    ASSUME NEW contract \in {"none", "subgraph", "dclRegistrar", "registrar", "nameWrapper"}, NEW L, NEW H,
           NEW names \in Seq(Names), NEW rest \in Seq(Deeper)
    PROVE  LET b == Batch(contract, names, rest) IN
           /\ b \in BatchType /\ Sizes(b) /\ b.contract = contract
           /\ (contract = "nameWrapper" => \A i \in DOMAIN names : names[i] \in Deeper \cup H) => BatchOK(b, L, H)
<1> DEFINE b == Batch(contract, names, rest)
<1>1. b.contract = contract /\ b.names = names /\ b.rest = rest /\ b.sent = 0 /\ b.answers = <<>> /\ b.tries = 0
  BY DEF Batch
<1>2. b \in BatchType
  BY DEF Batch, BatchType
<1> HIDE DEF b
<1>3. Sizes(b)
  BY <1>1 DEF Sizes
<1>4. (contract = "nameWrapper" => \A i \in DOMAIN names : names[i] \in Deeper \cup H) => BatchOK(b, L, H)
  BY <1>1 DEF BatchOK
<1> QED BY <1>1, <1>2, <1>3, <1>4 DEF b

LEMMA NoBatchOK == ASSUME NEW L, NEW H PROVE NoBatch \in BatchType /\ Sizes(NoBatch) /\ NoBatch.contract = "none" /\ BatchOK(NoBatch, L, H)
<1>1. <<>> \in Seq(Names) /\ <<>> \in Seq(Deeper)
  OBVIOUS
<1> QED BY <1>1, FreshBatch DEF NoBatch

\* What may be answered of a name only grows while it is looked up.
LEMMA BatchesStayTrue ==
    ASSUME NTyped, NEW k \in Kinds, BatchOK(batch[k], lately, Held), NEW L, NEW H,
           \A n \in Names : lately[n] \subseteq L[n], Held \subseteq H
    PROVE  BatchOK(batch[k], L, H)
BY TrueForLonger DEF NTyped

-----------------------------------------------------------------------------
(* The steps.                                                               *)

LEMMA NInit == Init => NInv
<1> SUFFICES ASSUME Init PROVE NInv
  OBVIOUS
<1>1. \A k \in Kinds : batch[k] = NoBatch
  BY DEF Init
<1>2. /\ owner \in [Names -> Owners] /\ lately \in [Names -> SUBSET Owners] /\ cache \in [Names -> Answers]
      /\ strategy \in {"subgraph", "dclRegistrar"} /\ wrapped \subseteq TwoLevel /\ shifted \in BOOLEAN
      /\ DOMAIN result = {}
  <2>1. owner \in [Names -> Owners] /\ Nobody \in Owners /\ Owners \subseteq Answers
    BY NameOwnershipAssumption DEF Init, Answers, Owners
  <2>2. lately = [n \in Names |-> {owner[n]}] /\ cache = [n \in Names |-> Nobody]
    BY DEF Init
  <2>3. lately \in [Names -> SUBSET Owners] /\ cache \in [Names -> Answers]
    BY <2>1, <2>2
  <2>4. strategy \in {"subgraph", "dclRegistrar"} /\ wrapped \subseteq TwoLevel /\ shifted \in BOOLEAN /\ result = <<>>
    BY DEF Init
  <2> QED BY <2>1, <2>3, <2>4
<1>3. /\ batch \in [Kinds -> BatchType] /\ \A k \in Kinds : Sizes(batch[k])
      /\ batch.dcl.contract = "none" /\ batch.ens.contract = "none"
  BY <1>1, NoBatchOK DEF Init, Kinds
<1>4. NTyped
  BY <1>2, <1>3 DEF NTyped
<1>5. NTrue
  BY NoBatchOK DEF Init, NTrue
<1> QED BY <1>4, <1>5 DEF NInv

LEMMA TransferStays == ASSUME NInv, NEW n \in Names, NEW x \in Owners, Transfer(n, x) PROVE NInv'
<1> USE DEF Transfer
<1>1. NTyped /\ NTrue
  BY DEF NInv
<1>2. NTyped'
  BY <1>1 DEF NTyped, nature
<1>3. /\ lately' \in [Names -> SUBSET Owners] /\ \A m \in Names : lately[m] \subseteq lately'[m] /\ owner'[m] \in lately'[m]
  BY <1>1 DEF NTyped, NTrue
<1>4. Held \subseteq Held'
  BY <1>3 DEF Held
<1>5. ~shifted => \A k \in Kinds : BatchOK(batch[k], lately', Held')
  BY <1>1, <1>3, <1>4, BatchesStayTrue DEF NTrue
<1>6. ~shifted => (\A m \in Names : cache[m] \in lately'[m] \cup {Nobody}) /\ (\A m \in DOMAIN result : result[m] \in lately'[m])
  BY <1>1, <1>3 DEF NTyped, NTrue
<1>7. NTrue'
  BY <1>3, <1>5, <1>6 DEF NTrue
<1> QED BY <1>2, <1>7 DEF NInv

LEMMA WrapStays == ASSUME NInv, NEW n \in TwoLevel, Wrap(n) PROVE NInv'
<1> USE DEF Wrap
<1>1. NTyped /\ NTrue
  BY DEF NInv
<1>2. NTyped'
  BY <1>1 DEF NTyped, Owners, SymDiff
<1>3. /\ lately' \in [Names -> SUBSET Owners] /\ \A m \in Names : lately[m] \subseteq lately'[m] /\ owner'[m] \in lately'[m]
  BY <1>1 DEF NTyped, NTrue, Owners
<1>4. Held \subseteq Held'
  BY <1>1, <1>3 DEF Held, NTyped, SymDiff
<1>5. ~shifted => \A k \in Kinds : BatchOK(batch[k], lately', Held')
  BY <1>1, <1>3, <1>4, BatchesStayTrue DEF NTrue
<1>6. ~shifted => (\A m \in Names : cache[m] \in lately'[m] \cup {Nobody}) /\ (\A m \in DOMAIN result : result[m] \in lately'[m])
  BY <1>1, <1>3 DEF NTyped, NTrue
<1>7. NTrue'
  BY <1>3, <1>5, <1>6 DEF NTrue
<1> QED BY <1>2, <1>7 DEF NInv

LEMMA ExpireStays == ASSUME NInv, NEW n \in Names, Expire(n) PROVE NInv'
<1> USE DEF Expire
<1>1. NTyped'
  BY DEF NInv, NTyped, nature, Answers, Owners
<1>2. Held' = Held
  BY DEF Held, nature
<1>3. NTrue'
  BY <1>2 DEF NInv, NTyped, NTrue, nature
<1> QED BY <1>1, <1>3 DEF NInv

LEMMA FailChunkStays == ASSUME NInv, NEW k \in Kinds, FailChunk(k) PROVE NInv'
<1>1. NTyped /\ NTrue
  BY DEF NInv
<1>2. UNCHANGED <<strategy, owner, wrapped, cache, lately, shifted>> /\ Held' = Held
  BY DEF FailChunk, nature, Held
<1>3. CASE batch' = [batch EXCEPT ![k].tries = @ + 1] /\ UNCHANGED result
  <2>1. batch[k] \in BatchType
    BY <1>1 DEF NTyped
  <2> DEFINE b2 == [batch[k] EXCEPT !.tries = @ + 1]
  <2>2. /\ b2 \in BatchType /\ b2.contract = batch[k].contract /\ b2.names = batch[k].names
        /\ b2.sent = batch[k].sent /\ b2.answers = batch[k].answers
    <3>1. /\ b2.contract = batch[k].contract /\ b2.names = batch[k].names /\ b2.sent = batch[k].sent
          /\ b2.answers = batch[k].answers
      BY <2>1 DEF BatchType
    <3>2. b2 \in BatchType
      <4> DEFINE tries == batch[k].tries + 1
      <4>1. tries \in Nat
        BY <2>1 DEF BatchType
      <4>2. b2 = [batch[k] EXCEPT !.tries = tries]
        OBVIOUS
      <4> HIDE DEF tries
      <4> QED BY <2>1, <4>1, <4>2 DEF BatchType
    <3> QED BY <3>1, <3>2
  <2>3. batch' = [batch EXCEPT ![k] = b2]
    BY <1>3
  <2> HIDE DEF b2
  <2>4. Sizes(b2) /\ (~shifted => BatchOK(b2, lately, Held))
    BY <1>1, <2>2 DEF NTyped, NTrue, Sizes, BatchOK, Fetched
  <2>5. /\ batch' \in [Kinds -> BatchType] /\ \A l \in Kinds : Sizes(batch'[l])
        /\ \A l \in Kinds : batch'[l].contract = batch[l].contract
    BY <1>1, <2>2, <2>3, <2>4 DEF NTyped
  <2>6. batch'.dcl.contract = batch.dcl.contract /\ batch'.ens.contract = batch.ens.contract
    BY <2>5 DEF Kinds
  <2>8. NTyped'
    <3>1. UNCHANGED <<strategy, wrapped, owner, lately, cache, result, shifted>>
      BY <1>2, <1>3
    <3> QED BY <1>1, <2>5, <2>6, <3>1 DEF NTyped
  <2>7. NTrue'
    BY <1>1, <1>2, <1>3, <2>3, <2>4 DEF NTyped, NTrue
  <2> QED BY <2>8, <2>7 DEF NInv
<1>4. CASE batch' = [l \in Kinds |-> NoBatch] /\ result' = <<>>
  <2>1. NTyped'
    BY <1>1, <1>2, <1>4, NoBatchOK DEF NTyped, Kinds
  <2>2. NTrue'
    BY <1>1, <1>2, <1>4, NoBatchOK DEF NTyped, NTrue
  <2> QED BY <2>1, <2>2 DEF NInv
<1> QED BY <1>3, <1>4 DEF FailChunk

LEMMA BeginStays == ASSUME NInv, NEW names \in Lookups, Begin(names) PROVE NInv'
<1> DEFINE cached == {n \in ToSet(names) : cache[n] # Nobody}
           among == ToSet(names) \ cached
           dcl == Those(names, among \cap Dcl)
           ens == Those(names, among \cap TwoLevel)
           deeper == Those(names, among \cap Deeper)
<1>1. NTyped /\ NTrue
  BY DEF NInv
<1>2. names \in Seq(Names) /\ ToSet(names) \subseteq Names
  BY NameOwnershipAssumption DEF ToSet
<1>3. dcl \in Seq(Names) /\ ens \in Seq(Names) /\ deeper \in Seq(Deeper)
  <2>1. \A W : Those(names, W) \in Seq(Names) /\ Those(names, W) \in Seq(Names \cap W)
    BY <1>2, ThoseFacts, ThoseAreAmong
  <2>2. deeper \in Seq(Names \cap (among \cap Deeper)) /\ Names \cap (among \cap Deeper) \subseteq Deeper
    BY <2>1
  <2> HIDE DEF among
  <2>3. deeper \in Seq(Deeper)
    <3> HIDE DEF deeper
    <3> QED BY <2>2, SeqOfMore
  <2> QED BY <2>1, <2>3
<1>4. /\ result' = [n \in cached |-> cache[n]]
      /\ batch' = [dcl |-> Batch(strategy, dcl, <<>>), ens |-> Batch("registrar", ens, deeper)]
      /\ lately' = [n \in Names |-> IF n \in among THEN {owner[n]} ELSE lately[n]]
      /\ UNCHANGED <<strategy, owner, wrapped, cache, shifted>>
  BY DEF Begin, nature
<1> HIDE DEF dcl, ens, deeper
<1>5. \A L, H : /\ batch'.dcl \in BatchType /\ Sizes(batch'.dcl) /\ BatchOK(batch'.dcl, L, H) /\ batch'.dcl.contract = strategy
                /\ batch'.ens \in BatchType /\ Sizes(batch'.ens) /\ BatchOK(batch'.ens, L, H) /\ batch'.ens.contract = "registrar"
  <2>1. <<>> \in Seq(Deeper) /\ strategy \in {"subgraph", "dclRegistrar"}
    BY <1>1 DEF NTyped
  <2>2. \A contract \in {"subgraph", "dclRegistrar", "registrar"}, s \in Seq(Names), t \in Seq(Deeper) :
            \A L, H : /\ Batch(contract, s, t) \in BatchType /\ Sizes(Batch(contract, s, t))
                      /\ BatchOK(Batch(contract, s, t), L, H) /\ Batch(contract, s, t).contract = contract
    <3> SUFFICES ASSUME NEW contract \in {"subgraph", "dclRegistrar", "registrar"}, NEW s \in Seq(Names), NEW t \in Seq(Deeper), NEW L, NEW H
                 PROVE  /\ Batch(contract, s, t) \in BatchType /\ Sizes(Batch(contract, s, t))
                        /\ BatchOK(Batch(contract, s, t), L, H) /\ Batch(contract, s, t).contract = contract
      OBVIOUS
    <3>1. contract \in {"none", "subgraph", "dclRegistrar", "registrar", "nameWrapper"} /\ contract # "nameWrapper"
      OBVIOUS
    <3> QED BY <3>1, FreshBatch
  <2>4. \A L, H : /\ Batch(strategy, dcl, <<>>) \in BatchType /\ Sizes(Batch(strategy, dcl, <<>>))
                  /\ BatchOK(Batch(strategy, dcl, <<>>), L, H) /\ Batch(strategy, dcl, <<>>).contract = strategy
    BY <1>3, <2>1, <2>2
  <2>3. \A L, H : /\ Batch("registrar", ens, deeper) \in BatchType /\ Sizes(Batch("registrar", ens, deeper))
                  /\ BatchOK(Batch("registrar", ens, deeper), L, H) /\ Batch("registrar", ens, deeper).contract = "registrar"
    BY <1>3, <2>2
  <2> QED BY <1>4, <2>4, <2>3
<1>6. batch' \in [Kinds -> BatchType] /\ (\A k \in Kinds : Sizes(batch'[k])) /\ \A L, H : \A k \in Kinds : BatchOK(batch'[k], L, H)
  BY <1>4, <1>5 DEF Kinds
<1>7. lately' \in [Names -> SUBSET Owners] /\ \A n \in Names : owner[n] \in lately'[n]
  BY <1>1, <1>4 DEF NTyped, NTrue
<1>8. DOMAIN result' \subseteq Names /\ \A n \in DOMAIN result' : result'[n] = cache[n] /\ result'[n] \in Answers /\ cache[n] # Nobody /\ n \notin among
  BY <1>1, <1>2, <1>4 DEF NTyped
<1>9. NTyped'
  BY <1>1, <1>4, <1>5, <1>6, <1>7, <1>8 DEF NTyped
<1>10. ~shifted => (\A n \in Names : cache[n] \in lately'[n] \cup {Nobody}) /\ (\A n \in DOMAIN result' : result'[n] \in lately'[n])
  BY <1>1, <1>4, <1>8 DEF NTyped, NTrue
<1>11. NTrue'
  BY <1>4, <1>6, <1>7, <1>10 DEF NTrue
<1> QED BY <1>9, <1>11 DEF NInv

\* What a contract says of a name that it is asked about.
LEMMA SaysFacts ==
    ASSUME NTyped, NTrue, NEW k \in Kinds, NEW n \in Names
    PROVE  /\ Says(batch[k].contract, n) \in Answers
           /\ (batch[k].contract = "nameWrapper" => n \in Deeper \cup Held)
                => Verdict(batch[k].contract, Says(batch[k].contract, n), n, lately, Held)
<1> DEFINE contract == batch[k].contract
<1>1. owner[n] \in Owners /\ owner[n] \in lately[n]
  BY DEF NTyped, NTrue
<1>2. CASE contract = "registrar" /\ n \in wrapped
  BY <1>2 DEF Says, Answers, Verdict, Held
<1>3. CASE contract = "nameWrapper" /\ n \notin wrapped \cup Deeper
  BY <1>3 DEF Says, Answers, Owners, Verdict, Held
<1>4. CASE ~(contract = "registrar" /\ n \in wrapped) /\ ~(contract = "nameWrapper" /\ n \notin wrapped \cup Deeper)
  BY <1>1, <1>4 DEF Says, Answers, Verdict
<1> QED BY <1>2, <1>3, <1>4

\* The chunk of k is answered by x, which is true of its names by then.
LEMMA AnsweredBy ==
    ASSUME NTyped, NTrue, NEW k \in Kinds, ~Complete(batch[k]), NEW x \in Seq(Answers),
           batch' = [batch EXCEPT ![k].sent = @ + Len(Chunk(batch[k])), ![k].tries = 0, ![k].answers = @ \o x],
           UNCHANGED <<strategy, owner, wrapped, cache, result>>, shifted' \in BOOLEAN, shifted => shifted',
           lately' \in [Names -> SUBSET Owners], \A n \in Names : lately[n] \subseteq lately'[n],
           ~shifted' =>
              /\ \A i \in 1 .. Len(Chunk(batch[k])) :
                    Verdict(batch[k].contract, IF i \in DOMAIN x THEN x[i] ELSE Nobody, Chunk(batch[k])[i], lately', Held')
              /\ Len(x) <= Len(Chunk(batch[k]))
              /\ Len(x) # Len(Chunk(batch[k])) => batch[k].sent + Len(Chunk(batch[k])) = Len(batch[k].names)
    PROVE  NInv'
<1> DEFINE b == batch[k]
           c == Chunk(b)
           b2 == [b EXCEPT !.sent = @ + Len(c), !.tries = 0, !.answers = @ \o x]
<1>1. b \in BatchType /\ Sizes(b) /\ b.sent # Len(b.names)
  BY DEF NTyped, Complete
<1>2. Len(c) \in Nat
  BY <1>1, ChunkFacts
<1> HIDE DEF c
<1>3. /\ b2.contract = b.contract /\ b2.names = b.names /\ b2.rest = b.rest /\ b2.sent = b.sent + Len(c)
      /\ b2.answers = b.answers \o x /\ b2.tries = 0
  BY <1>1 DEF BatchType
<1>4. batch' = [batch EXCEPT ![k] = b2]
  BY DEF NTyped, c
<1>5. b2 \in BatchType
  <2> DEFINE answers == b.answers \o x
             sent == b.sent + Len(c)
  <2>1. answers \in Seq(Answers) /\ sent \in Nat
    BY <1>1, <1>2 DEF BatchType
  <2>2. b2 = [b EXCEPT !.sent = sent, !.tries = 0, !.answers = answers]
    OBVIOUS
  <2> HIDE DEF answers, sent
  <2> QED BY <1>1, <2>1, <2>2 DEF BatchType
<1> HIDE DEF b2
<1>6. Sizes(b2)
  BY <1>1, <1>3, ChunkFits DEF c
<1>7. Held \subseteq Held'
  BY DEF Held
<1>8. ~shifted' => BatchOK(b2, lately', Held')
  <2> SUFFICES ASSUME ~shifted' PROVE BatchOK(b2, lately', Held')
    OBVIOUS
  <2>1. BatchOK(b, lately', Held')
    BY <1>7, BatchesStayTrue DEF NTrue
  <2>2. \A i \in 1 .. Len(c) : Verdict(b.contract, IF i \in DOMAIN x THEN x[i] ELSE Nobody, c[i], lately', Held')
    BY DEF c
  <2>3. Len(x) <= Len(c) /\ (Len(x) # Len(c) => b2.sent = Len(b2.names))
    BY <1>3 DEF c
  <2> HIDE DEF b
  <2> QED BY <1>1, <1>3, <1>5, <2>1, <2>2, <2>3, ChunkIsTrue DEF c
<1>9. ~shifted' => \A l \in Kinds : BatchOK(batch'[l], lately', Held')
  <2> SUFFICES ASSUME ~shifted', NEW l \in Kinds PROVE BatchOK(batch'[l], lately', Held')
    OBVIOUS
  <2>1. CASE l = k
    BY <1>4, <1>8, <2>1 DEF NTyped
  <2>2. CASE l # k
    BY <1>4, <1>7, <2>2, BatchesStayTrue DEF NTrue, NTyped
  <2> QED BY <2>1, <2>2
<1>10. /\ batch' \in [Kinds -> BatchType] /\ \A l \in Kinds : Sizes(batch'[l])
       /\ \A l \in Kinds : batch'[l].contract = batch[l].contract
  <2>1. batch \in [Kinds -> BatchType] /\ \A l \in Kinds : Sizes(batch[l])
    BY DEF NTyped
  <2>2. \A l \in Kinds : batch'[l] = IF l = k THEN b2 ELSE batch[l]
    BY <1>4, <2>1
  <2> HIDE DEF b
  <2>3. batch' \in [Kinds -> BatchType]
    BY <1>4, <1>5, <2>1
  <2> QED BY <1>3, <1>6, <2>1, <2>2, <2>3 DEF b
<1>11. batch'.dcl.contract = batch.dcl.contract /\ batch'.ens.contract = batch.ens.contract
  BY <1>10 DEF Kinds
<1>12. NTyped'
  BY <1>10, <1>11 DEF NTyped
<1>13. \A n \in Names : owner'[n] \in lately'[n]
  BY DEF NTrue
<1>14. ~shifted' => (\A n \in Names : cache'[n] \in lately'[n] \cup {Nobody}) /\ (\A n \in DOMAIN result' : result'[n] \in lately'[n])
  BY DEF NTrue, NTyped
<1>15. NTrue'
  BY <1>9, <1>13, <1>14 DEF NTrue
<1> QED BY <1>12, <1>15 DEF NInv

LEMMA AnswerStays == ASSUME NInv, NEW k \in Kinds, Answer(k) PROVE NInv'
<1> DEFINE b == batch[k]
           names == Chunk(b)
           each == [i \in DOMAIN names |-> Says(b.contract, names[i])]
           Given(answers) == batch' = [batch EXCEPT ![k].sent = @ + Len(names), ![k].tries = 0, ![k].answers = @ \o answers]
           Lost(S) == lately' = [n \in Names |-> IF n \in S THEN lately[n] \cup {Nobody} ELSE lately[n]]
<1>1. NTyped /\ NTrue /\ ~Complete(b)
  BY DEF NInv, Answer
<1>2. UNCHANGED <<strategy, owner, wrapped, cache, result>>
  BY DEF Answer, nature
<1>3. /\ names \in Seq(Names) /\ Len(names) \in Nat \ {0} /\ b.sent + Len(names) <= Len(b.names)
      /\ b.contract = "subgraph" => b.sent + Len(names) = Len(b.names)
      /\ \A i \in 1 .. Len(names) : names[i] = b.names[b.sent + i]
      /\ b.sent \in Nat /\ b.names \in Seq(Names)
  <2>1. b \in BatchType /\ Sizes(b) /\ b.sent # Len(b.names)
    BY <1>1 DEF NTyped, Complete
  <2> HIDE DEF b
  <2> QED BY <2>1, ChunkFacts DEF BatchType
<1>4. \/ Given(each) /\ UNCHANGED <<lately, shifted>>
      \/ \E i \in DOMAIN names : Given([each EXCEPT ![i] = Nobody]) /\ Lost({names[i]}) /\ UNCHANGED shifted
      \/ /\ Given(<<Nobody>>) /\ Lost(ToSet(names))
         /\ shifted' = (shifted \/ (Len(names) > 1 /\ b.sent + Len(names) < Len(b.names)))
  BY DEF Answer
<1> HIDE DEF names
<1>5. DOMAIN names = 1 .. Len(names) /\ \A i \in DOMAIN names : names[i] \in Names
  BY <1>3
<1>6. \A i \in DOMAIN names : each[i] \in Answers /\ (~shifted => Verdict(b.contract, each[i], names[i], lately, Held))
  <2> SUFFICES ASSUME NEW i \in DOMAIN names
               PROVE  each[i] \in Answers /\ (~shifted => Verdict(b.contract, each[i], names[i], lately, Held))
    OBVIOUS
  <2>1. names[i] \in Names /\ each[i] = Says(b.contract, names[i])
    BY <1>5
  <2>2. ~shifted => (b.contract = "nameWrapper" => names[i] \in Deeper \cup Held)
    <3>1. b.sent + i \in DOMAIN b.names /\ names[i] = b.names[b.sent + i]
      BY <1>3, <1>5
    <3> QED BY <1>1, <3>1 DEF NTrue, BatchOK
  <2> QED BY <1>1, <2>1, <2>2, SaysFacts
<1>7. each \in Seq(Answers) /\ Len(each) = Len(names) /\ DOMAIN each = DOMAIN names
  <2>1. each = [i \in 1 .. Len(names) |-> each[i]] /\ \A i \in 1 .. Len(names) : each[i] \in Answers
    BY <1>5, <1>6
  <2> HIDE DEF each
  <2> QED BY <1>3, <1>5, <2>1
<1> HIDE DEF each
<1>8. Nobody \in Answers /\ Nobody \in Owners /\ lately \in [Names -> SUBSET Owners] /\ shifted \in BOOLEAN
  BY <1>1 DEF Answers, Owners, NTyped
<1>9. \A S : Lost(S) => lately' \in [Names -> SUBSET Owners] /\ (\A n \in Names : lately[n] \subseteq lately'[n])
                        /\ Held \subseteq Held' /\ (\A n \in S \cap Names : Nobody \in lately'[n])
  BY <1>2, <1>8 DEF Held
<1>10. CASE Given(each) /\ UNCHANGED <<lately, shifted>>
  <2>1. ~shifted' => \A i \in 1 .. Len(names) :
            Verdict(b.contract, IF i \in DOMAIN each THEN each[i] ELSE Nobody, names[i], lately', Held')
    <3>1. Held' = Held
      BY <1>2, <1>10 DEF Held
    <3> QED BY <1>5, <1>6, <1>7, <1>10, <3>1
  <2>2. lately' \in [Names -> SUBSET Owners] /\ (\A n \in Names : lately[n] \subseteq lately'[n])
        /\ shifted' \in BOOLEAN /\ (shifted => shifted')
    BY <1>8, <1>10
  <2>3. Len(each) <= Len(names) /\ ~(Len(each) # Len(names))
    BY <1>3, <1>7
  <2>4. Given(each) /\ each \in Seq(Answers)
    BY <1>7, <1>10
  <2> QED BY <1>1, <1>2, <2>1, <2>2, <2>3, <2>4, AnsweredBy DEF names
<1>11. ASSUME NEW i \in DOMAIN names, Given([each EXCEPT ![i] = Nobody]), Lost({names[i]}), UNCHANGED shifted
       PROVE NInv'
  <2> DEFINE x == [each EXCEPT ![i] = Nobody]
  <2>1. x \in Seq(Answers) /\ Len(x) = Len(names) /\ DOMAIN x = DOMAIN names
    BY <1>7, <1>8
  <2>2. x[i] = Nobody /\ \A j \in DOMAIN names : j # i => x[j] = each[j]
    BY <1>7
  <2>3. Given(x)
    BY <1>11
  <2> HIDE DEF x
  <2>4. lately' \in [Names -> SUBSET Owners] /\ (\A n \in Names : lately[n] \subseteq lately'[n]) /\ Held \subseteq Held'
        /\ Nobody \in lately'[names[i]]
    BY <1>5, <1>9, <1>11
  <2>5. ~shifted' => \A j \in 1 .. Len(names) :
            Verdict(b.contract, IF j \in DOMAIN x THEN x[j] ELSE Nobody, names[j], lately', Held')
    <3> SUFFICES ASSUME ~shifted, NEW j \in DOMAIN names PROVE Verdict(b.contract, x[j], names[j], lately', Held')
      BY <1>5, <1>11, <2>1
    <3>1. CASE j = i
      BY <2>2, <2>4, <3>1 DEF Verdict
    <3>2. CASE j # i
      BY <1>5, <1>6, <2>2, <2>4, <3>2 DEF Verdict
    <3> QED BY <3>1, <3>2
  <2>6. shifted' \in BOOLEAN /\ (shifted => shifted')
    BY <1>8, <1>11
  <2>7. Len(x) <= Len(names) /\ ~(Len(x) # Len(names))
    BY <1>3, <2>1
  <2> QED BY <1>1, <1>2, <2>1, <2>3, <2>4, <2>5, <2>6, <2>7, AnsweredBy DEF names
<1>12. CASE /\ Given(<<Nobody>>) /\ Lost(ToSet(names))
            /\ shifted' = (shifted \/ (Len(names) > 1 /\ b.sent + Len(names) < Len(b.names)))
  <2> DEFINE x == <<Nobody>>
  <2>1. x \in Seq(Answers) /\ Len(x) = 1 /\ \A i : (IF i \in DOMAIN x THEN x[i] ELSE Nobody) = Nobody
    BY <1>8
  <2>2. Given(x)
    BY <1>12
  <2> HIDE DEF x
  <2>3. lately' \in [Names -> SUBSET Owners] /\ (\A n \in Names : lately[n] \subseteq lately'[n])
        /\ \A i \in DOMAIN names : Nobody \in lately'[names[i]]
    BY <1>5, <1>9, <1>12 DEF ToSet
  <2>4. \A i \in 1 .. Len(names) : Verdict(b.contract, IF i \in DOMAIN x THEN x[i] ELSE Nobody, names[i], lately', Held')
    BY <1>5, <2>1, <2>3 DEF Verdict
  <2>5. ~shifted' => Len(x) <= Len(names) /\ (Len(x) # Len(names) => b.sent + Len(names) = Len(b.names))
    <3> DEFINE m == Len(names)
               sent == b.sent
               all == Len(b.names)
    <3>1. m \in Nat \ {0} /\ sent \in Nat /\ all \in Nat /\ sent + m <= all
      BY <1>3
    <3>2. ~shifted' => ~(m > 1 /\ sent + m < all)
      BY <1>12
    <3> HIDE DEF m, sent, all
    <3>3. ~shifted' => 1 <= m /\ (1 # m => sent + m = all)
      BY <3>1, <3>2
    <3> QED BY <2>1, <3>3 DEF m, sent, all
  <2>6. shifted' \in BOOLEAN /\ (shifted => shifted')
    BY <1>8, <1>12
  <2> QED BY <1>1, <1>2, <2>1, <2>2, <2>3, <2>4, <2>5, <2>6, AnsweredBy DEF names
<1> QED BY <1>4, <1>10, <1>11, <1>12

LEMMA ThoseAreSome ==
    ASSUME NEW names \in Seq(Names), NEW W
    PROVE  ToSet(Those(names, W)) = ToSet(names) \cap W
<1>1. /\ \A k \in DOMAIN Those(names, W) : \E i \in DOMAIN names : names[i] \in W /\ Those(names, W)[k] = names[i]
      /\ \A i \in DOMAIN names : names[i] \in W => \E k \in DOMAIN Those(names, W) : Those(names, W)[k] = names[i]
  BY ThoseFacts
<1> QED BY <1>1 DEF ToSet

LEMMA AskNameWrapperStays == ASSUME NInv, AskNameWrapper PROVE NInv'
<1> DEFINE b == batch.ens
           W == {b.names[i] : i \in {j \in DOMAIN b.names : Fetched(b, j) = NameWrapper}}
           wrapper == Those(b.names, W)
           others == b.rest \o wrapper
           names == Those(b.names, Names \ ToSet(others))
           b2 == Batch("nameWrapper", others, <<>>)
<1>1. NTyped /\ NTrue /\ "ens" \in Kinds /\ "dcl" \in Kinds
  BY DEF NInv, Kinds
<1>2. /\ b \in BatchType /\ b.contract = "registrar" /\ b.sent = Len(b.names)
      /\ result' = Found(result, names, b) /\ batch' = [batch EXCEPT !.ens = b2]
      /\ UNCHANGED <<strategy, owner, wrapped, cache, lately, shifted>>
  <2>1. b \in BatchType /\ b.contract = "registrar" /\ b.sent = Len(b.names)
    BY <1>1 DEF AskNameWrapper, Complete, NTyped
  <2>2. WrappedNames(b) = others
    BY DEF WrappedNames
  <2> HIDE DEF others
  <2>3. result' = Found(result, names, b) /\ batch' = [batch EXCEPT !.ens = b2]
    BY <2>2 DEF AskNameWrapper
  <2> QED BY <2>1, <2>3 DEF AskNameWrapper, nature
<1>3. b.names \in Seq(Names) /\ b.rest \in Seq(Names) /\ b.rest \in Seq(Deeper) /\ DOMAIN b.names = 1 .. b.sent
      /\ \A i \in DOMAIN b.names : b.names[i] \in Names
  BY <1>2, SeqOfMore DEF BatchType, Names
<1>4. ~shifted => \A i \in DOMAIN b.names : Verdict("registrar", Fetched(b, i), b.names[i], lately, Held)
  BY <1>1, <1>2, <1>3 DEF NTrue, BatchOK
<1> HIDE DEF b
<1>5. wrapper \in Seq(Names) /\ ToSet(wrapper) = ToSet(b.names) \cap W
  BY <1>3, ThoseFacts, ThoseAreSome
<1>6. \A n \in W : \E i \in DOMAIN b.names : b.names[i] = n /\ Fetched(b, i) = NameWrapper
  OBVIOUS
<1>7. ~shifted => \A n \in W : n \in Held
  <2>1. \A n \in Names : lately[n] \subseteq Owners
    BY <1>1 DEF NTyped
  <2>2. NameWrapper \notin Owners
    BY NameOwnershipAssumption DEF Owners
  <2>3. ASSUME ~shifted, NEW n \in W PROVE n \in Held
    <3>1. PICK i \in DOMAIN b.names : b.names[i] = n /\ Fetched(b, i) = NameWrapper
      BY <1>6
    <3>2. Verdict("registrar", Fetched(b, i), b.names[i], lately, Held) /\ b.names[i] \in Names
      <4>1. Verdict("registrar", Fetched(b, i), b.names[i], lately, Held)
        <5> HIDE DEF W
        <5> QED BY <1>4, <2>3
      <4>2. b.names[i] \in Names
        <5> HIDE DEF W
        <5> QED BY <1>3
      <4> QED BY <4>1, <4>2
    <3> QED BY <2>1, <2>2, <3>1, <3>2 DEF Verdict
  <2> QED BY <2>3
<1>8. \A i \in DOMAIN b.names : Fetched(b, i) = NameWrapper => b.names[i] \in ToSet(wrapper)
  BY <1>5 DEF ToSet
<1> HIDE DEF wrapper
<1>9. /\ others \in Seq(Names)
      /\ \A i \in DOMAIN others : others[i] \in Deeper \/ others[i] \in ToSet(wrapper)
      /\ ToSet(wrapper) \subseteq ToSet(others)
  <2> DEFINE rest == b.rest
  <2>1. rest \in Seq(Names) /\ wrapper \in Seq(Names) /\ \A i \in 1 .. Len(rest) : rest[i] \in Deeper
    BY <1>3, <1>5
  <2> HIDE DEF rest
  <2>2. \A s, t \in Seq(Names) : s \o t \in Seq(Names) /\ DOMAIN (s \o t) = 1 .. Len(s) + Len(t)
    BY ConcatFacts
  <2>3. \A s, t \in Seq(Names) : \A i \in 1 .. Len(s) : (s \o t)[i] = s[i]
    BY ConcatFacts
  <2>4. \A s, t \in Seq(Names) : \A i \in 1 .. Len(t) : (s \o t)[Len(s) + i] = t[i]
    BY ConcatFacts
  <2>5. others = rest \o wrapper
    BY DEF rest
  <2> HIDE DEF others
  <2>6. others \in Seq(Names) /\ DOMAIN others = 1 .. Len(rest) + Len(wrapper) /\ DOMAIN wrapper = 1 .. Len(wrapper)
    BY <2>1, <2>2, <2>5
  <2>7. \A i \in 1 .. Len(rest) : others[i] = rest[i]
    BY <2>1, <2>3, <2>5
  <2>8. \A i \in 1 .. Len(wrapper) : others[Len(rest) + i] = wrapper[i]
    BY <2>1, <2>4, <2>5
  <2>9. ASSUME NEW i \in DOMAIN others PROVE others[i] \in Deeper \/ others[i] \in ToSet(wrapper)
    <3>1. CASE i \in 1 .. Len(rest)
      BY <2>1, <2>7, <3>1
    <3>2. CASE i \notin 1 .. Len(rest)
      <4>1. i - Len(rest) \in 1 .. Len(wrapper) /\ i = Len(rest) + (i - Len(rest))
        BY <2>1, <2>6, <3>2
      <4>2. others[i] = wrapper[i - Len(rest)]
        BY <2>8, <4>1
      <4> QED BY <2>6, <4>1, <4>2 DEF ToSet
    <3> QED BY <3>1, <3>2
  <2>10. ToSet(wrapper) \subseteq ToSet(others)
    <3> SUFFICES ASSUME NEW i \in 1 .. Len(wrapper) PROVE wrapper[i] \in ToSet(others)
        BY <2>6 DEF ToSet
    <3>1. Len(rest) + i \in DOMAIN others
      BY <2>1, <2>6
    <3> QED BY <2>8, <3>1 DEF ToSet
  <2> QED BY <2>6, <2>9, <2>10
<1> HIDE DEF others
<1>10. /\ b2 \in BatchType /\ Sizes(b2) /\ b2.contract = "nameWrapper"
       /\ ~shifted => BatchOK(b2, lately, Held)
  <2>1. ~shifted => \A i \in DOMAIN others : others[i] \in Deeper \cup Held
    BY <1>5, <1>7, <1>9
  <2>2. <<>> \in Seq(Deeper) /\ "nameWrapper" \in {"none", "subgraph", "dclRegistrar", "registrar", "nameWrapper"}
    OBVIOUS
  <2> QED BY <1>9, <2>1, <2>2, FreshBatch
<1> HIDE DEF b2
<1>11. names \in Seq(Names) /\ ToSet(names) = ToSet(b.names) \cap (Names \ ToSet(others)) /\ ToSet(names) \subseteq Names
  <2>1. names \in Seq(Names)
    BY <1>3, ThoseFacts
  <2>2. ToSet(names) = ToSet(b.names) \cap (Names \ ToSet(others))
    BY <1>3, ThoseAreSome
  <2> QED BY <2>1, <2>2
<1> HIDE DEF names, W
<1>12. /\ DOMAIN result' = DOMAIN result \cup ToSet(names)
       /\ \A n \in ToSet(names) : \E i \in DOMAIN b.names : b.names[i] = n /\ result'[n] = Fetched(b, i)
       /\ \A n \in DOMAIN result \ ToSet(names) : result'[n] = result[n]
       /\ \A n \in ToSet(names) : result'[n] \in Answers
  <2>1. b \in BatchType /\ names \in Seq(Names) /\ ToSet(names) \subseteq ToSet(b.names) /\ result' = Found(result, names, b)
    BY <1>2, <1>11
  <2> DEFINE f == Found(result, names, b)
  <2>2. /\ DOMAIN f = DOMAIN result \cup ToSet(names)
        /\ \A n \in ToSet(names) : \E i \in DOMAIN b.names : b.names[i] = n /\ f[n] = Fetched(b, i)
        /\ \A n \in DOMAIN result \ ToSet(names) : f[n] = result[n]
        /\ \A n \in ToSet(names) : f[n] \in Answers
    BY <2>1, FoundFacts
  <2> HIDE DEF f
  <2> QED BY <2>1, <2>2 DEF f
<1>13. ~shifted => \A n \in DOMAIN result' : result'[n] \in lately[n]
  <2> SUFFICES ASSUME ~shifted, NEW n \in DOMAIN result' PROVE result'[n] \in lately[n]
    OBVIOUS
  <2>1. CASE n \in ToSet(names)
    <3>1. PICK i \in DOMAIN b.names : b.names[i] = n /\ result'[n] = Fetched(b, i)
      BY <1>12, <2>1
    <3>2. Fetched(b, i) # NameWrapper
      BY <1>8, <1>9, <1>11, <2>1, <3>1
    <3> QED BY <1>4, <3>1, <3>2 DEF Verdict
  <2>2. CASE n \notin ToSet(names)
    BY <1>1, <1>12, <2>2 DEF NTrue
  <2> QED BY <2>1, <2>2
<1>14. /\ batch' \in [Kinds -> BatchType] /\ (\A k \in Kinds : Sizes(batch'[k]))
       /\ batch'.dcl = batch.dcl /\ batch'.ens = b2
       /\ ~shifted => \A k \in Kinds : BatchOK(batch'[k], lately, Held)
  <2>1. \A k \in Kinds : batch'[k] = IF k = "ens" THEN b2 ELSE batch[k]
    BY <1>1, <1>2 DEF NTyped
  <2>2. batch' \in [Kinds -> BatchType]
    BY <1>1, <1>2, <1>10 DEF NTyped
  <2>3. \A k \in Kinds : Sizes(batch[k]) /\ (~shifted => BatchOK(batch[k], lately, Held))
    BY <1>1 DEF NTyped, NTrue
  <2>4. \A k \in Kinds : Sizes(batch'[k]) /\ (~shifted => BatchOK(batch'[k], lately, Held))
    BY <1>10, <2>1, <2>3
  <2>5. batch'.dcl = batch.dcl /\ batch'.ens = b2
    BY <1>1, <2>1
  <2> QED BY <2>2, <2>4, <2>5
<1>15. NTyped'
  BY <1>1, <1>2, <1>10, <1>11, <1>12, <1>14 DEF NTyped
<1>16. Held' = Held
  BY <1>2 DEF Held
<1>17. NTrue'
  BY <1>1, <1>2, <1>13, <1>14, <1>16 DEF NTrue
<1> QED BY <1>15, <1>17 DEF NInv

\* A batch that is complete gives each of its names what could truly be answered of it.
LEMMA CompleteIsTrue ==
    ASSUME NTyped, NEW k \in Kinds, Complete(batch[k]), batch[k].contract # "registrar", NEW found,
           DOMAIN found \subseteq Names, \A n \in DOMAIN found : found[n] \in Answers,
           ~shifted => BatchOK(batch[k], lately, Held) /\ \A n \in DOMAIN found : found[n] \in lately[n]
    PROVE  LET f == Found(found, batch[k].names, batch[k]) IN
           /\ DOMAIN f \subseteq Names /\ \A n \in DOMAIN f : f[n] \in Answers
           /\ ~shifted => \A n \in DOMAIN f : f[n] \in lately[n]
<1> DEFINE b == batch[k]
           f == Found(found, b.names, b)
<1>1. b \in BatchType /\ b.names \in Seq(Names) /\ b.sent = Len(b.names) /\ ToSet(b.names) \subseteq Names /\ DOMAIN b.names = 1 .. b.sent
  BY DEF NTyped, BatchType, Complete, ToSet
<1>2. ~shifted => \A i \in DOMAIN b.names : Fetched(b, i) \in lately[b.names[i]]
  BY <1>1 DEF BatchOK, Verdict
<1>3. (~shifted => \A n \in DOMAIN found : found[n] \in lately[n]) /\ \A n \in DOMAIN found : found[n] \in Answers
  OBVIOUS
<1> HIDE DEF b
<1>4. /\ DOMAIN f = DOMAIN found \cup ToSet(b.names)
      /\ \A n \in ToSet(b.names) : \E i \in DOMAIN b.names : b.names[i] = n /\ f[n] = Fetched(b, i)
      /\ \A n \in DOMAIN found \ ToSet(b.names) : f[n] = found[n]
      /\ \A n \in ToSet(b.names) : f[n] \in Answers
  BY <1>1, FoundFacts
<1> HIDE DEF f
<1>5. DOMAIN f \subseteq Names /\ \A n \in DOMAIN f : f[n] \in Answers
  BY <1>1, <1>3, <1>4
<1>6. ~shifted => \A n \in DOMAIN f : f[n] \in lately[n]
  BY <1>2, <1>3, <1>4
<1> QED BY <1>5, <1>6 DEF b, f

LEMMA ReturnStays == ASSUME NInv, Return PROVE NInv'
<1> DEFINE first == Found(result, batch.dcl.names, batch.dcl)
           found == Found(first, batch.ens.names, batch.ens)
<1>1. NTyped /\ NTrue /\ "ens" \in Kinds /\ "dcl" \in Kinds
  BY DEF NInv, Kinds
<1>2. /\ Complete(batch["dcl"]) /\ Complete(batch["ens"]) /\ batch["ens"].contract # "registrar" /\ batch["dcl"].contract # "registrar"
      /\ result' = found /\ cache' = [n \in Names |-> IF n \in DOMAIN found THEN found[n] ELSE cache[n]]
      /\ batch' = [l \in Kinds |-> NoBatch] /\ UNCHANGED <<strategy, owner, wrapped, lately, shifted>>
  BY <1>1 DEF Return, nature, NTyped
<1>3. /\ DOMAIN first \subseteq Names /\ \A n \in DOMAIN first : first[n] \in Answers
      /\ ~shifted => \A n \in DOMAIN first : first[n] \in lately[n]
  BY <1>1, <1>2, CompleteIsTrue DEF NTyped, NTrue
<1> HIDE DEF first
<1>4. /\ DOMAIN found \subseteq Names /\ \A n \in DOMAIN found : found[n] \in Answers
      /\ ~shifted => \A n \in DOMAIN found : found[n] \in lately[n]
  BY <1>1, <1>2, <1>3, CompleteIsTrue DEF NTrue
<1> HIDE DEF found
<1>5. batch'.dcl = NoBatch /\ batch'.ens = NoBatch /\ batch' \in [Kinds -> BatchType]
  BY <1>1, <1>2, NoBatchOK
<1>6. cache' \in [Names -> Answers]
  BY <1>1, <1>2, <1>4 DEF NTyped
<1>7. NTyped'
  BY <1>1, <1>2, <1>4, <1>5, <1>6, NoBatchOK DEF NTyped
<1>8. ~shifted => (\A n \in Names : cache'[n] \in lately[n] \cup {Nobody}) /\ (\A n \in DOMAIN result' : result'[n] \in lately[n])
  BY <1>1, <1>2, <1>4 DEF NTrue
<1>9. ~shifted => \A k \in Kinds : BatchOK(batch'[k], lately', Held')
  BY <1>2, NoBatchOK
<1>10. NTrue'
  BY <1>1, <1>2, <1>8, <1>9 DEF NTrue
<1> QED BY <1>7, <1>10 DEF NInv

LEMMA NStutter == ASSUME NInv, UNCHANGED vars PROVE NInv'
<1>1. Held' = Held
  BY DEF vars, nature, Held
<1>2. NTyped'
  BY DEF NInv, NTyped, vars, nature
<1>3. NTrue'
  BY <1>1 DEF NInv, NTrue, vars, nature
<1> QED BY <1>2, <1>3 DEF NInv

LEMMA NNext == ASSUME NInv, [Next]_vars PROVE NInv'
BY BeginStays, AnswerStays, FailChunkStays, AskNameWrapperStays, ReturnStays, TransferStays, WrapStays, ExpireStays, NStutter
   DEF Next

LEMMA NInvIsEnough == NInv => OwnersWereOwners
BY DEF NInv, NTrue, OwnersWereOwners, checkPermission

(* Who is answered as the owner of a name, or cached as such, owned it at   *)
(* some moment since it was looked up, whatever the sizes of the batches,   *)
(* the faults, the retries, and the names transferred and wrapped           *)
(* meanwhile.                                                               *)
THEOREM OwnersAreTrue == Spec => []OwnersWereOwners
<1>1. Init => NInv
  BY NInit
<1>2. NInv /\ [Next]_vars => NInv'
  BY NNext
<1>3. NInv => OwnersWereOwners
  BY NInvIsEnough
<1> QED BY <1>1, <1>2, <1>3, PTL DEF Spec

\* And next to the other inputs.
THEOREM OwnersAreTrueOfInputs == InputsSpec => []OwnersWereOwners
<1>1. InputsInit => NInv
  BY NInit DEF InputsInit
<1>2. NInv /\ [InputsNext]_<<vars, part, asked>> => NInv'
  <2> SUFFICES ASSUME NInv, [InputsNext]_<<vars, part, asked>> PROVE NInv'
    OBVIOUS
  <2>1. [Next]_vars
    BY DEF InputsNext, LookUp, Ask, Answered
  <2> QED BY <2>1, NNext
<1>3. NInv => OwnersWereOwners
  BY NInvIsEnough
<1> QED BY <1>1, <1>2, <1>3, PTL DEF InputsSpec
=============================================================================
