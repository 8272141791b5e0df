--------------------------- MODULE WorldSettings ---------------------------
(***************************************************************************)
(* The update of a world's settings from a form (controllers/handlers/      *)
(* world-settings-handler, logic/settings, updateWorldSettings): the fields *)
(* are parsed, the signer is authorized, the row is written field by field  *)
(* and the changes are announced.  A field of the form is absent, empty, or *)
(* has one of a few values; texts are "good" or "bad".                      *)
(***************************************************************************)
EXTENDS Integers, FiniteSets

CONSTANT
    Coordinate     \* the <<x, y>> of each text that can be parsed and is within bounds

Null == "null"     \* of a column, and the text null of a form
Undefined == "undefined"

Texts == {"title", "description"}
Flags == {"single_player", "show_in_places"}
Fields == Texts \cup Flags \cup {"content_rating", "spawn_coordinates", "skybox_time", "categories", "thumbnail_hash"}

\* isDefinedMultipartField.
isDefined(v) == v \notin {Undefined, ""}

-----------------------------------------------------------------------------
(* parseMultipartInput: for each field its value, Undefined or an error     *)

parseText(v) == IF v \in {Undefined, "good"} THEN v ELSE "error"

parseRating(v) == IF ~isDefined(v) THEN Undefined ELSE IF v \in {"E", "T"} THEN v ELSE "error"

parseSpawn(v) == IF ~isDefined(v) THEN Undefined ELSE IF v \in DOMAIN Coordinate THEN v ELSE "error"

\* parseInt makes a number of any text, NaN at worst.
parseSkybox(v) == IF ~isDefined(v) THEN Undefined ELSE v

parseCategories(v) == IF ~isDefined(v) THEN Undefined ELSE IF v = Null THEN "none" ELSE IF v = "many" THEN "error" ELSE v

parseFlag(v) == IF ~isDefined(v) THEN Undefined ELSE IF v = "true" THEN "true" ELSE "false"

\* Within a megabyte, and of one of four formats.
parseThumbnail(v) == IF v \in {"large", "no image"} THEN "error" ELSE v

parseMultipartInput(form) == [f \in Fields |->
    CASE f \in Texts -> parseText(form[f])
      [] f \in Flags -> parseFlag(form[f])
      [] f = "content_rating" -> parseRating(form[f])
      [] f = "spawn_coordinates" -> parseSpawn(form[f])
      [] f = "skybox_time" -> parseSkybox(form[f])
      [] f = "categories" -> parseCategories(form[f])
      [] f = "thumbnail_hash" -> parseThumbnail(form[f])]

-----------------------------------------------------------------------------
(* updateWorldSettings.  The row of a world has Null in the columns that    *)
(* were never set; rectangle is what the deployed scenes fill, or empty.    *)

NoRow == [f \in Fields |-> Null]

isCoordinateWithinRectangle(c, rectangle) ==
    /\ rectangle.min[1] <= c[1] /\ c[1] <= rectangle.max[1]
    /\ rectangle.min[2] <= c[2] /\ c[2] <= rectangle.max[2]

SpawnAllowed(input, rectangles) ==
    input["spawn_coordinates"] # Undefined =>
        \E rectangle \in rectangles : isCoordinateWithinRectangle(Coordinate[input["spawn_coordinates"]], rectangle)

COALESCE(a, b) == IF a = Null THEN b ELSE a
Excluded(input) == [f \in Fields |-> IF input[f] = Undefined THEN Null ELSE input[f]]

\* Mutant: the time of the skybox is like the other columns.
UpsertCoalescing(row, input) == [f \in Fields |-> COALESCE(Excluded(input)[f], row[f])]

\* The time of the skybox may be set to null again, and the other columns may not.
Upsert(row, input) == [f \in Fields |->
    IF f = "skybox_time" /\ input[f] # Undefined THEN Excluded(input)[f] ELSE COALESCE(Excluded(input)[f], row[f])]

\* An owner, or a deployer of the whole world.
Authorized(role) == role \in {"owner", "world"}

areCoordinatesEqual(a, b) ==
    IF a = Null \/ b = Null THEN a = b ELSE Coordinate[a] = Coordinate[b]

Events(row, updated) ==
    LET spawn == updated["spawn_coordinates"]
    IN  {"changed"} \cup IF spawn # Null /\ ~areCoordinatesEqual(row["spawn_coordinates"], spawn) THEN {"spawn"} ELSE {}

\* The answer of the handler: the row that is left, and what was announced.
updateWorldSettingsHandler(row, form, role, rectangles) ==
    LET input  == parseMultipartInput(form)
        Answer(code) == [status |-> code, row |-> row, events |-> {}]
    IN  IF \E f \in Fields : input[f] = "error" THEN Answer(400)
        ELSE IF ~Authorized(role) THEN Answer(403)
        ELSE IF ~SpawnAllowed(input, rectangles) THEN Answer(400)
        ELSE IF input["skybox_time"] = "NaN" THEN Answer(500)
        ELSE [status |-> 200, row |-> Upsert(row, input), events |-> Events(row, Upsert(row, input))]

-----------------------------------------------------------------------------
\* What a field of the form means for the column, or nothing.
Meaning(f, v) ==
    IF v = Undefined \/ (v = "" /\ f \notin Texts) THEN {}
    ELSE IF f \in Flags THEN {IF v = "true" THEN "true" ELSE "false"}
    ELSE IF f = "categories" /\ v = Null THEN {"none"}
    ELSE {v}

(* An update that is accepted leaves every setting that its form does not   *)
(* name as it was and gives every other the value that is asked for, null   *)
(* and false among them; one that is refused changes nothing and announces  *)
(* nothing; and the spawn point is announced when it has moved, not when it *)
(* is written in another way.                                               *)
UpdatesAreExactFor(row, form, role, rectangles) ==
    LET answer == updateWorldSettingsHandler(row, form, role, rectangles)
        moved  == /\ answer.row["spawn_coordinates"] # Null
                  /\ \/ row["spawn_coordinates"] = Null
                     \/ Coordinate[row["spawn_coordinates"]] # Coordinate[answer.row["spawn_coordinates"]]
    IN  IF answer.status = 200
        THEN /\ \A f \in Fields : {answer.row[f]} = IF Meaning(f, form[f]) = {} THEN {row[f]} ELSE Meaning(f, form[f])
             /\ role \in {"owner", "world"}
             /\ "spawn" \in answer.events <=> moved
        ELSE answer.row = row /\ answer.events = {}
=============================================================================
