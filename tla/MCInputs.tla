------------------------------ MODULE MCInputs ------------------------------
(***************************************************************************)
(* Inputs for TLC: five names, and every input of small sets.               *)
(***************************************************************************)
EXTENDS Inputs

-----------------------------------------------------------------------------
(* Names *)

MCLookups == {<<"e1", "d1", "e2", "s1", "e3">>, <<"e2">>}
MCFirstOwners == [n \in Names |-> IF n \in {"e1", "e3"} THEN "w1" ELSE "w2"]

-----------------------------------------------------------------------------
(* Deployments *)

MCSpellings == {"a", "also a", "b", "c", "far"}
MCSizes == [h1 |-> 2, h2 |-> 3, h3 |-> 1]
MCCanonical == [p \in MCSpellings |-> IF p = "also a" THEN "a" ELSE p]

Item(f, h) == [file |-> f, hash |-> h]
Items == {Item("f1", "h1"), Item("f2", "h1"), Item("f2", "h2"), Item("url", "h2")}

Sound == [pointers |-> {"a"}, parcels |-> {"a"}, role |-> "owner", grant |-> {}, content |-> <<Item("f1", "h1")>>,
          refers |-> {}, thumbnail |-> "none", uploaded |-> [h1 |-> "h1"], stored |-> {}, broken |-> "nothing"]

Placements == {[Sound EXCEPT !.pointers = p, !.parcels = q, !.role = r[1], !.grant = r[2]] :
    p \in (SUBSET MCSpellings) \ {{}}, q \in (SUBSET MCSpellings) \ {{}},
    r \in {<<"owner", {}>>, <<"world", {}>>, <<"parcels", {}>>, <<"parcels", {"a"}>>, <<"parcels", {"a", "b"}>>}}
Uploads == UNION {[U -> {"h1", "h2", "h3"}] : U \in SUBSET {"h1", "h2", "h3"}}
Contents == {[Sound EXCEPT !.content = c, !.refers = r, !.thumbnail = t, !.uploaded = u, !.stored = s] :
    c \in (UNION {[1 .. k -> Items] : k \in 0 .. 2}) \cup {<<Item("f1", "h1"), Item("f2", "h2"), Item("f1", "h3")>>},
    r \in {{}, {"f1", "f2"}}, t \in {"none", "f1", "url"},
    u \in {v \in Uploads : Cardinality({h \in DOMAIN v : v[h] # h}) \in {0, 2}}, s \in SUBSET {"h1", "h2"}}
Faulty == {[Sound EXCEPT !.broken = check] : check \in ToSet(BeforeStorage) \cup ToSet(AfterStorage)}
MCDeploymentInputs == Placements \cup Contents \cup Faulty

-----------------------------------------------------------------------------
(* Settings *)

MCCoordinates == ("p" :> <<0, 0>>) @@ ("also p" :> <<0, 0>>) @@ ("q" :> <<1, 1>>) @@ ("out" :> <<1, 2>>)

FormValues(f) == {"undefined"} \cup (IF f = "thumbnail_hash" THEN {} ELSE {""}) \cup
    CASE f \in Texts -> {"good", "bad"}
      [] f \in Flags -> {"true", "false", "other"}
      [] f = "content_rating" -> {"E", "T", "other"}
      [] f = "spawn_coordinates" -> {"p", "also p", "q", "out", "far"}
      [] f = "skybox_time" -> {"null", "0", "36000", "NaN"}
      [] f = "categories" -> {"null", "some", "many"}
      [] f = "thumbnail_hash" -> {"hash", "large", "no image"}

EmptyForm == [f \in Fields |-> "undefined"]
FullRow == [f \in Fields |-> CASE f \in Flags -> "true" [] f = "spawn_coordinates" -> "p" [] f = "skybox_time" -> "36000"
                                 [] f = "content_rating" -> "T" [] OTHER -> "old"]
Forms == UNION {{[EmptyForm EXCEPT ![f] = v, ![g] = w] : v \in FormValues(f), w \in FormValues(g)} : f, g \in Fields}
Square == [min |-> <<0, 0>>, max |-> <<1, 1>>]
MCUpdates == [row : {NoRow, FullRow, [FullRow EXCEPT !["spawn_coordinates"] = "q", !["skybox_time"] = "null"]},
            form : Forms, role : {"owner", "world", "parcels"}, rectangles : {{}, {Square}}]

-----------------------------------------------------------------------------
(* Files *)

Headers == {NoHeader, [NoHeader EXCEPT !.form = "other"]} \cup {Offsets(i, j) : i, j \in -1 .. 4}
Files == {NoFile} \cup [size : 0 .. 3, known : BOOLEAN, encoded : BOOLEAN, there : {TRUE}]
MCFileRequests == {q \in [key : {"valid", "invalid"}, header : Headers, info : Files, file : Files] :
    q.file \in {q.info, NoFile} \/ (q.info.size = 2 /\ q.file.known = q.info.known)}
=============================================================================
