------------------------------- MODULE Inputs -------------------------------
(***************************************************************************)
(* What answers by itself: the lookups of names, whose owners change        *)
(* meanwhile, and, one input at a time, the deployments to validate, the    *)
(* updates of settings and the requests for files.  They share no state.    *)
(***************************************************************************)
EXTENDS NameOwnership, SceneValidation, WorldSettings, ContentFiles

CONSTANTS
    DeploymentInputs, Updates, FileRequests     \* the inputs

VARIABLES
    part,  \* names, scenes, settings or files
    asked  \* the input

\* A form says nothing of what is no value of a field: the hash of an image is a text, and
\* null is not the name of a parcel.
ASSUME InputsAssumption ==
    /\ \A d \in DeploymentInputs : Deployment(d)
    /\ Null \notin DOMAIN Coordinate
    /\ \A u \in Updates : u.form["thumbnail_hash"] \notin {"", Null}
    /\ FileRequests \subseteq [key : {"valid", "invalid"}, header : Header, info : File, file : File]

Inputs(p) ==
    CASE p = "scenes" -> DeploymentInputs
      [] p = "settings" -> Updates
      [] p = "files" -> FileRequests

-----------------------------------------------------------------------------
InputsInit ==
    /\ part \in {"names", "scenes", "settings", "files"} /\ asked = {}
    /\ Init /\ (part = "names" \/ (wrapped = {} /\ strategy = "subgraph"))

LookUp == part = "names" /\ Next /\ UNCHANGED <<part, asked>>
Ask ==
    /\ part # "names" /\ asked = {}
    /\ \E input \in Inputs(part) : asked' = {input}
    /\ UNCHANGED <<vars, part>>
Answered == asked # {} /\ asked' = {} /\ UNCHANGED <<vars, part>>

InputsNext == LookUp \/ Ask \/ Answered
InputsSpec == InputsInit /\ [][InputsNext]_<<vars, part, asked>>

Asked(p) == IF part = p THEN asked ELSE {}

(* AcceptedScenesArePlaceableFor of every deployment.                       *)
AcceptedScenesArePlaceable == \A d \in Asked("scenes") : AcceptedScenesArePlaceableFor(d)

(* UpdatesAreExactFor of every update.                                      *)
UpdatesAreExact == \A u \in Asked("settings") : UpdatesAreExactFor(u.row, u.form, u.role, u.rectangles)

(* RangesAreExactFor of every request.                                      *)
RangesAreExact == \A q \in Asked("files") : RangesAreExactFor(q.key, q.header, q.info, q.file)
=============================================================================
