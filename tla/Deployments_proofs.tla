------------------------- MODULE Deployments_proofs -------------------------
(***************************************************************************)
(* What a deployment stores stays stored, its answer tells its outcome, and *)
(* it leaves neither a reader nor a connection behind, for any number of    *)
(* requests, scenes, files, workers, connections and keys in a batch.       *)
(***************************************************************************)
EXTENDS Deployments, FiniteSetTheorems, TLAPS

Working == Reading \cup {"metadata", "entity"}

-----------------------------------------------------------------------------
(* The invariant                                                            *)

\* As Unfinished, of a request's record.
Open(r) == r.pc \notin {"idle", "hooks", "answered"}

\* Only a stage's workers have items; one that was cancelled takes no more.
Runs(r) ==
    /\ Open(r) => r.scene \in Scenes
    /\ r.pc \notin Working => r.active = {}
    /\ r.cancelled => r.pc \in {"tx", "commit", "answered"} \/ (r.pc \in Reading /\ r.failed)

\* A connection is held by a transaction, and released when it is destroyed.
Connects(r) == r.conn = "held" => r.pc = "commit" \/ (r.pc = "tx" /\ ~r.cancelled)

\* What is answered is what the database said.
Tells(r) ==
    /\ r.outcome # "none" => r.pc \in {"hooks", "answered"}
    /\ r.pc = "hooks" => r.outcome = "committed"
    /\ r.pc = "answered" => (r.answer = "ok" <=> r.outcome = "committed")

\* What the stages of a deployment that no collector has met left in the storage.
Stores(r, stored, idle) ==
    Open(r) /\ ~r.beside =>
        /\ idle
        /\ r.found \subseteq stored
        /\ r.pc = "content" /\ ~r.failed => ContentOf[r.scene] \subseteq stored \cup r.todo \cup r.active
        /\ r.pc = "entity" => ContentOf[r.scene] \subseteq stored
        /\ r.pc = "entity" /\ ~r.failed => {r.scene, AuthOf[r.scene]} \subseteq stored \cup r.todo \cup r.active
        /\ r.pc \in {"owners", "connect", "tx", "commit"} => Objects(r.scene) \subseteq stored

Sound(r, stored, idle) ==
    r \in Deployment /\ Runs(r) /\ Connects(r) /\ Tells(r) /\ Stores(r, stored, idle)

Idle == gc.pc = "idle"
EachSound == dep \in [Requests -> Deployment] /\ \A d \in Requests : Sound(dep[d], storage, Idle)

Held == {d \in Requests : dep[d].conn = "held"}

\* The collector has read what it must keep, and takes none of that into a batch.
Spares ==
    /\ gc.pc # "sweep" => gc.batch = {}
    /\ gc.batch \cap gc.active = {}
    /\ ~Idle => \A e \in rows \ raced : Objects(e) \subseteq gc.active
    /\ gc.pc = "sweep" /\ thumbnail.saved /\ Thumbnail \notin raced => Thumbnail \in gc.active

\* The image of an update that no collector has met is in the storage.
ThumbnailStored == thumbnail.pc = "stored" /\ ~thumbnail.beside => Idle /\ Thumbnail \in storage

Typed == TypeOK /\ IsFiniteSet(gc.batch)

IInv ==
    /\ Typed /\ EachSound /\ Spares /\ ThumbnailStored /\ ContentKept
    /\ Cardinality(Held) <= MaxConnections

-----------------------------------------------------------------------------
(* The records of requests                                                  *)

\* What no stage of files changes but the last.
SameRequest(r, s) ==
    /\ s.scene = r.scene /\ s.files = r.files /\ s.found = r.found /\ s.cancelled = r.cancelled
    /\ s.conn = r.conn /\ s.outcome = r.outcome /\ s.answer = r.answer /\ s.beside = r.beside

\* What a late answer does not change.
SameLate(r, s) ==
    /\ s \in Deployment /\ s.scene = r.scene /\ s.found = r.found /\ s.cancelled = r.cancelled
    /\ s.outcome = r.outcome /\ s.answer = r.answer /\ s.beside = r.beside
    /\ s.pc = r.pc /\ s.active = r.active /\ s.todo = r.todo /\ s.failed = r.failed

(* The keys of a scene are keys.                                            *)
LEMMA KeysOfScene ==
    \A e \in Scenes : e \in Keys /\ AuthOf[e] \in Keys /\ ContentOf[e] \subseteq Keys
<1> SUFFICES ASSUME NEW e \in Scenes PROVE e \in Keys /\ AuthOf[e] \in Keys /\ ContentOf[e] \subseteq Keys
  OBVIOUS
<1>1. Objects(e) \subseteq Keys
  BY DEF Keys
<1>2. e \in Objects(e) /\ AuthOf[e] \in Objects(e) /\ ContentOf[e] \subseteq Objects(e)
  BY DEF Objects
<1> QED BY <1>1, <1>2

LEMMA ThumbnailKey == Thumbnail \in Keys
  BY DEF Keys

(* The workers of a stage that begins have taken some of its items.         *)
LEMMA BeginFields ==
    ASSUME NEW r \in Deployment, NEW stage \in Working, NEW items \in SUBSET Keys,
           NEW s \in Begin(r, stage, items)
    PROVE  /\ s \in Deployment /\ SameRequest(r, s)
           /\ s.pc = stage /\ ~s.failed /\ s.todo \cup s.active = items
<1>1. PICK first \in kSubset(Min({Workers(stage), Cardinality(items)}), items) :
         s = [r EXCEPT !.pc = stage, !.todo = items \ first, !.active = first, !.failed = FALSE]
  BY DEF Begin
<1>2. first \subseteq items
  BY DEF kSubset
<1>3. stage \in Stages
  BY DEF Working, Stages, Reading, Raced
<1> QED BY <1>1, <1>2, <1>3 DEF Deployment, SameRequest

(* Nobody begins only where there is nothing to do.                         *)
LEMMA BeginEmpty ==
    ASSUME NEW r \in Deployment, NEW stage, NEW items, IsFiniteSet(items),
           NEW s \in Begin(r, stage, items), s.active = {}
    PROVE  s.todo = {}
<1> DEFINE n == Min({Workers(stage), Cardinality(items)})
<1>1. PICK first \in kSubset(n, items) :
         s = [r EXCEPT !.pc = stage, !.todo = items \ first, !.active = first, !.failed = FALSE]
  BY DEF Begin
<1>2. first = {} /\ s.todo = items \ first
  BY <1>1 DEF Deployment
<1>3. n = 0
  BY <1>1, <1>2, FS_EmptySet DEF kSubset
<1>4. Workers(stage) \in Nat \ {0} /\ Cardinality(items) \in Nat
  BY RequestsAssumption, FS_CardinalityType DEF Workers
<1>5. \A x, y \in Nat : Min({x, y}) \in {x, y}
  <2> SUFFICES ASSUME NEW x \in Nat, NEW y \in Nat PROVE Min({x, y}) \in {x, y}
    OBVIOUS
  <2>1. \E z \in {x, y} : \A t \in {x, y} : z =< t
    OBVIOUS
  <2> QED BY <2>1 DEF Min
<1>6. Cardinality(items) = 0
  BY <1>3, <1>4, <1>5
<1> QED BY <1>2, <1>6, FS_EmptySet

(* A worker loses its item and takes at most one of those to do, none when  *)
(* an item has failed.                                                      *)
LEMMA SettledFields ==
    ASSUME NEW r \in Deployment, NEW item, NEW ok \in BOOLEAN, NEW s \in Settled(r, item, ok)
    PROVE  /\ s \in Deployment /\ SameRequest(r, s) /\ s.pc = r.pc
           /\ s.failed = (r.failed \/ ~ok)
           /\ r.todo \cup (r.active \ {item}) \subseteq s.todo \cup s.active
           /\ s.active = {} /\ ~s.failed => s.todo = {}
<1> DEFINE rest == [r EXCEPT !.active = @ \ {item}, !.failed = @ \/ ~ok]
<1>1. /\ rest \in Deployment /\ SameRequest(r, rest) /\ rest.pc = r.pc /\ rest.failed = (r.failed \/ ~ok)
      /\ rest.todo = r.todo /\ rest.active = r.active \ {item}
  BY DEF Deployment, SameRequest
<1>2. s \in IF rest.failed \/ rest.todo = {} THEN {rest}
            ELSE {[rest EXCEPT !.active = @ \cup {next}, !.todo = @ \ {next}] : next \in rest.todo}
  BY DEF Settled
<1> HIDE DEF rest
<1>3. CASE rest.failed \/ rest.todo = {}
  BY <1>1, <1>2, <1>3
<1>4. ASSUME NEW next \in rest.todo, s = [rest EXCEPT !.active = @ \cup {next}, !.todo = @ \ {next}]
      PROVE  /\ s \in Deployment /\ SameRequest(rest, s) /\ s.pc = rest.pc /\ s.failed = rest.failed
             /\ s.todo = rest.todo \ {next} /\ s.active = rest.active \cup {next}
  BY <1>1, <1>4 DEF Deployment, SameRequest
<1> QED BY <1>1, <1>2, <1>3, <1>4 DEF SameRequest

(* A request whose items are all done, and that has no connection and no    *)
(* outcome, may be answered with anything but success.                      *)
LEMMA AnsweredSound ==
    ASSUME NEW r \in Deployment, NEW answer \in {"refused", "failed", "cancelled"}, NEW stored, NEW idle,
           r.active = {}, r.conn # "held", r.outcome # "committed"
    PROVE  Sound(Answered(r, answer), stored, idle)
<1> DEFINE s == Answered(r, answer)
<1>1. /\ s \in Deployment /\ s.pc = "answered" /\ s.active = {} /\ s.conn = r.conn
      /\ s.outcome = r.outcome /\ s.answer # "ok"
  BY DEF Answered, Answers, Deployment, Stages
<1> HIDE DEF s
<1> QED BY <1>1 DEF Sound, Runs, Connects, Tells, Stores, Open, Working, Reading, s

(* A stage without workers leads to the next.                               *)
LEMMA ContinueSound ==
    ASSUME NEW r, NEW stored, NEW idle \in BOOLEAN, Sound(r, stored, idle), r.pc \in Working,
           r.active = {} /\ ~r.failed => r.todo = {},
           NEW s \in Continue(r)
    PROVE  Sound(s, stored, idle)
<1> USE DEF Working, Reading
<1>1. CASE r.active # {}
  BY <1>1 DEF Continue
<1>2. CASE r.active = {} /\ r.failed
  <2>1. s = Answered(r, "failed")
    BY <1>2 DEF Continue, Following
  <2> QED BY <2>1, <1>2, AnsweredSound DEF Sound, Connects, Tells
<1>3. CASE r.active = {} /\ ~r.failed
  <2>1. /\ r \in Deployment /\ r.scene \in Scenes /\ ~r.cancelled /\ r.todo = {}
        /\ r.conn # "held" /\ r.outcome = "none" /\ Open(r)
    BY <1>3 DEF Sound, Runs, Connects, Tells, Open
  <2>2. r.scene \in Keys /\ AuthOf[r.scene] \in Keys /\ ContentOf[r.scene] \subseteq Keys
    BY <2>1, KeysOfScene
  <2>3. s \in Following(r)
    BY <1>3 DEF Continue
  <2>4. CASE r.pc = "read"
    <3>1. s = [r EXCEPT !.pc = "validate"]
      BY <1>3, <2>3, <2>4 DEF Following
    <3>2. s \in Deployment /\ s.pc = "validate" /\ s.active = {} /\ SameRequest(r, s)
      BY <1>3, <2>1, <3>1 DEF Deployment, SameRequest, Stages, Raced
    <3> QED BY <3>2, <2>1 DEF SameRequest, Sound, Runs, Connects, Tells, Stores, Open
  <2>5. CASE r.pc = "metadata"
    <3>1. s \in Begin(r, "hash", r.files \cup {r.scene})
      BY <1>3, <2>3, <2>5 DEF Following
    <3>2. r.files \cup {r.scene} \subseteq Keys
      BY <2>1, <2>2 DEF Deployment
    <3>3. s \in Deployment /\ SameRequest(r, s) /\ s.pc = "hash"
      BY <2>1, <3>1, <3>2, BeginFields
    <3> QED BY <3>3, <2>1 DEF SameRequest, Sound, Runs, Connects, Tells, Stores, Open
  <2>6. CASE r.pc = "hash"
    <3>1. CASE s = Answered(r, "refused")
      BY <3>1, <1>3, <2>1, AnsweredSound
    <3>2. CASE s = [r EXCEPT !.pc = "size"]
      <4>1. s \in Deployment /\ s.pc = "size" /\ s.active = {} /\ SameRequest(r, s)
        BY <1>3, <2>1, <3>2 DEF Deployment, SameRequest, Stages, Raced
      <4> QED BY <4>1, <2>1 DEF SameRequest, Sound, Runs, Connects, Tells, Stores, Open
    <3> QED BY <1>3, <2>3, <2>6, <3>1, <3>2 DEF Following
  <2>7. CASE r.pc = "content"
    <3>1. s \in Begin(r, "entity", {r.scene, AuthOf[r.scene]})
      BY <1>3, <2>3, <2>7 DEF Following
    <3>2. /\ s \in Deployment /\ SameRequest(r, s) /\ s.pc = "entity"
          /\ s.todo \cup s.active = {r.scene, AuthOf[r.scene]}
      BY <2>1, <2>2, <3>1, BeginFields
    <3>3. ~r.beside => idle /\ r.found \subseteq stored /\ ContentOf[r.scene] \subseteq stored
      BY <1>3, <2>1, <2>7 DEF Sound, Stores
    <3> QED BY <3>2, <3>3, <2>1 DEF SameRequest, Sound, Runs, Connects, Tells, Stores, Open
  <2>8. CASE r.pc = "entity"
    <3>1. s = [r EXCEPT !.pc = "owners", !.found = {}]
      BY <1>3, <2>3, <2>8 DEF Following
    <3>2. /\ s \in Deployment /\ s.pc = "owners" /\ s.active = {} /\ s.found = {} /\ s.scene = r.scene
          /\ s.cancelled = r.cancelled /\ s.conn = r.conn /\ s.outcome = r.outcome /\ s.beside = r.beside
      BY <1>3, <2>1, <3>1 DEF Deployment, Stages, Raced
    <3>3. ~r.beside => idle /\ Objects(r.scene) \subseteq stored
      BY <1>3, <2>1, <2>8 DEF Sound, Stores, Objects
    <3> QED BY <3>2, <3>3, <2>1 DEF Sound, Runs, Connects, Tells, Stores, Open
  <2> QED BY <2>4, <2>5, <2>6, <2>7, <2>8
<1> QED BY <1>1, <1>2, <1>3

(* A sound request stays so as the storage grows, and, once it has met a    *)
(* collector, whatever happens to the storage.                              *)
LEMMA SoundGrows ==
    ASSUME NEW r, NEW stored, NEW larger, stored \subseteq larger, NEW idle, Sound(r, stored, idle)
    PROVE  Sound(r, larger, idle)
  BY DEF Sound, Stores

LEMMA SoundBeside ==
    ASSUME NEW r, NEW stored, NEW other, NEW idle, Sound(r, stored, FALSE)
    PROVE  Sound(r, other, idle)
  BY DEF Sound, Stores

-----------------------------------------------------------------------------
(* Steps of a request that change nothing else                              *)

Gets(d, s) == s.conn = "held" => dep[d].conn = "held" \/ FreeConnection
Soundly(d) == \E s : Only(d, s) /\ Sound(s, storage, Idle) /\ Gets(d, s)

LEMMA RequestFacts ==
    ASSUME IInv, NEW d \in Requests
    PROVE  Sound(dep[d], storage, Idle) /\ dep[d] \in Deployment
  BY DEF IInv, EachSound

LEMMA IdleBoolean == Idle \in BOOLEAN
  BY DEF Idle

(* A request whose items are all done, and that has no outcome, is answered *)
(* without success.                                                         *)
LEMMA AnswersSoundly ==
    ASSUME NEW d \in Requests, NEW r \in Deployment, NEW answer \in {"refused", "failed", "cancelled"},
           r.active = {}, r.conn # "held", r.outcome # "committed",
           Only(d, Answered(r, answer))
    PROVE  Soundly(d)
<1>1. Sound(Answered(r, answer), storage, Idle)
  BY AnsweredSound
<1>2. Answered(r, answer).conn = r.conn
  BY DEF Answered, Deployment
<1> QED BY <1>1, <1>2 DEF Soundly, Gets

(* Nobody gets a connection from what follows a stage.                      *)
LEMMA ContinueConn ==
    ASSUME NEW r \in Deployment, r.pc \in Working, NEW s \in Continue(r)
    PROVE  s.conn = r.conn
<1>1. \A x : Answered(r, x).conn = r.conn
  BY DEF Answered, Deployment
<1>2. \A x, y : \A q \in Begin(r, x, y) : q.conn = r.conn
  BY DEF Begin, Deployment
<1>3. CASE r.active # {}
  BY <1>3 DEF Continue
<1>4. CASE r.active = {}
  <2>1. s \in Following(r)
    BY <1>4 DEF Continue
  <2>2. CASE r.failed
    BY <1>1, <2>1, <2>2 DEF Following
  <2>3. CASE ~r.failed /\ r.pc \in {"metadata", "content"}
    BY <1>2, <2>1, <2>3 DEF Following
  <2>4. CASE ~r.failed /\ r.pc \in {"read", "entity"}
    BY <2>1, <2>4 DEF Following, Deployment
  <2>5. CASE ~r.failed /\ r.pc = "hash"
    <3>1. s \in {Answered(r, "refused"), [r EXCEPT !.pc = "size"]}
      BY <2>1, <2>5 DEF Following
    <3> QED BY <1>1, <3>1 DEF Deployment
  <2> QED BY <2>2, <2>3, <2>4, <2>5 DEF Working, Reading
<1> QED BY <1>3, <1>4

(* The items of a stage, and what follows it.                               *)
LEMMA WorkersSoundly ==
    ASSUME NEW d \in Requests, NEW r, Sound(r, storage, Idle), r.pc \in Working,
           r.active = {} /\ ~r.failed => r.todo = {},
           NEW s \in Continue(r), Only(d, s)
    PROVE  Soundly(d)
<1>1. Sound(s, storage, Idle)
  BY ContinueSound, IdleBoolean
<1>2. s.conn # "held"
  BY ContinueConn DEF Sound, Connects, Working, Reading
<1> QED BY <1>1, <1>2 DEF Soundly, Gets

LEMMA StartSoundly ==
    ASSUME IInv, NEW d \in Requests, Start(d) PROVE Soundly(d)
<1>1. PICK e \in Scenes, files \in Uploads :
         files \subseteq ContentOf[e] /\
         Only(d, [Fresh EXCEPT !.pc = "read", !.active = {e}, !.scene = e,
                               !.files = files, !.beside = ~Idle])
  BY DEF Start, Idle
<1> DEFINE s == [Fresh EXCEPT !.pc = "read", !.active = {e}, !.scene = e,
                              !.files = files, !.beside = ~Idle]
<1>2. e \in Keys /\ files \subseteq Keys
  BY <1>1, KeysOfScene
<1>3. s \in Deployment
  BY <1>2, IdleBoolean DEF Fresh, Deployment, Stages, Reading, Answers
<1>4. /\ s.pc = "read" /\ s.scene = e /\ s.found = {} /\ ~s.cancelled /\ s.conn = "none"
      /\ s.outcome = "none" /\ s.beside = ~Idle
  BY DEF Fresh
<1>5. Only(d, s)
  BY <1>1
<1> HIDE DEF s
<1>6. Sound(s, storage, Idle)
  BY <1>3, <1>4 DEF Sound, Runs, Connects, Tells, Stores, Open, Working, Reading
<1> QED BY <1>4, <1>5, <1>6 DEF Soundly, Gets

LEMMA ReadEntitySoundly ==
    ASSUME IInv, NEW d \in Requests, ReadEntity(d) PROVE Soundly(d)
<1>1. PICK ok \in BOOLEAN : \E r \in Settled(dep[d], Scene(d), ok) : \E s \in Continue(r) : Only(d, s)
  BY DEF ReadEntity
<1> PICK r \in Settled(dep[d], Scene(d), ok) : \E s \in Continue(r) : Only(d, s)
  BY <1>1
<1> PICK s \in Continue(r) : Only(d, s)
  OBVIOUS
<1>2. /\ r \in Deployment /\ SameRequest(dep[d], r) /\ r.pc = "read" /\ (dep[d].failed => r.failed)
      /\ r.active = {} /\ ~r.failed => r.todo = {}
  <2>1. dep[d] \in Deployment /\ dep[d].pc = "read"
    BY RequestFacts DEF ReadEntity, At
  <2>2. /\ r \in Deployment /\ SameRequest(dep[d], r) /\ r.pc = dep[d].pc
        /\ r.failed = (dep[d].failed \/ ~ok)
        /\ r.active = {} /\ ~r.failed => r.todo = {}
    BY <2>1, SettledFields
  <2> QED BY <2>1, <2>2
<1>3. Sound(r, storage, Idle)
  BY <1>2, RequestFacts DEF ReadEntity, At, SameRequest, Sound, Runs, Connects, Tells, Stores, Open, Working, Reading
<1> QED BY <1>2, <1>3, WorkersSoundly DEF Working, Reading

LEMMA HashFileSoundly ==
    ASSUME IInv, NEW d \in Requests, HashFile(d) PROVE Soundly(d)
<1>1. PICK h \in dep[d].active, ok \in BOOLEAN :
         \E r \in Settled(dep[d], h, ok) : \E s \in Continue(r) : Only(d, s)
  BY DEF HashFile
<1> PICK r \in Settled(dep[d], h, ok) : \E s \in Continue(r) : Only(d, s)
  BY <1>1
<1> PICK s \in Continue(r) : Only(d, s)
  OBVIOUS
<1>2. /\ r \in Deployment /\ SameRequest(dep[d], r) /\ r.pc = "hash" /\ (dep[d].failed => r.failed)
      /\ r.active = {} /\ ~r.failed => r.todo = {}
  <2>1. dep[d] \in Deployment /\ dep[d].pc = "hash"
    BY RequestFacts DEF HashFile, At
  <2>2. /\ r \in Deployment /\ SameRequest(dep[d], r) /\ r.pc = dep[d].pc
        /\ r.failed = (dep[d].failed \/ ~ok)
        /\ r.active = {} /\ ~r.failed => r.todo = {}
    BY <2>1, SettledFields
  <2> QED BY <2>1, <2>2
<1>3. Sound(r, storage, Idle)
  BY <1>2, RequestFacts DEF HashFile, At, SameRequest, Sound, Runs, Connects, Tells, Stores, Open, Working, Reading
<1> QED BY <1>2, <1>3, WorkersSoundly DEF Working, Reading

LEMMA FileInfoSoundly ==
    ASSUME IInv, NEW d \in Requests, FileInfo(d) PROVE Soundly(d)
<1>1. PICK h \in dep[d].active, ok \in BOOLEAN :
         \E r \in Settled([dep[d] EXCEPT !.found = @ \cup ({h} \cap storage)], h, ok) :
            \E s \in Continue(r) : Only(d, s)
  BY DEF FileInfo
<1> DEFINE q == [dep[d] EXCEPT !.found = @ \cup ({h} \cap storage)]
<1> PICK r \in Settled(q, h, ok) : \E s \in Continue(r) : Only(d, s)
  BY <1>1
<1> PICK s \in Continue(r) : Only(d, s)
  OBVIOUS
<1>2. storage \subseteq Keys
  BY DEF IInv, Typed, TypeOK
<1>3. /\ q \in Deployment /\ q.pc = "metadata" /\ q.scene = dep[d].scene /\ q.cancelled = dep[d].cancelled
      /\ q.found = dep[d].found \cup ({h} \cap storage)
      /\ q.conn = dep[d].conn /\ q.outcome = dep[d].outcome /\ q.beside = dep[d].beside
  BY <1>2, RequestFacts DEF FileInfo, At, Deployment
<1> HIDE DEF q
<1>4. /\ r \in Deployment /\ SameRequest(q, r) /\ r.pc = "metadata"
      /\ r.active = {} /\ ~r.failed => r.todo = {}
  BY <1>3, SettledFields
<1>5. Sound(r, storage, Idle)
  BY <1>3, <1>4, RequestFacts DEF FileInfo, At, SameRequest, Sound, Runs, Connects, Tells, Stores, Open, Working, Reading
<1> QED BY <1>4, <1>5, WorkersSoundly DEF Working, Reading

LEMMA ValidatedSoundly ==
    ASSUME IInv, NEW d \in Requests, Validated(d) PROVE Soundly(d)
<1>1. /\ dep[d] \in Deployment /\ dep[d].pc = "validate" /\ dep[d].active = {} /\ dep[d].conn # "held"
      /\ dep[d].outcome # "committed" /\ dep[d].scene \in Scenes /\ ~dep[d].cancelled
  BY RequestFacts DEF Validated, At, Sound, Runs, Connects, Tells, Open, Working, Reading
<1>2. CASE Only(d, Answered(dep[d], "refused"))
  BY <1>1, <1>2, AnswersSoundly
<1>3. ASSUME NEW r, NEW s, r \in Begin(dep[d], "metadata", ContentOf[Scene(d)]), s \in Continue(r), Only(d, s)
      PROVE  Soundly(d)
  <2>1. ContentOf[Scene(d)] \in SUBSET Keys
    BY <1>1, KeysOfScene DEF Scene
  <2>2. /\ r \in Deployment /\ SameRequest(dep[d], r) /\ r.pc = "metadata" /\ ~r.failed
    BY <1>1, <1>3, <2>1, BeginFields DEF Working
  <2>3. r.active = {} => r.todo = {}
    BY <1>1, <1>3, BeginEmpty, RequestsAssumption DEF Scene
  <2>4. Sound(r, storage, Idle)
    BY <1>1, <2>2, RequestFacts DEF SameRequest, Sound, Runs, Connects, Tells, Stores, Open, Working, Reading
  <2> QED BY <1>3, <2>2, <2>3, <2>4, WorkersSoundly DEF Working
<1> QED BY <1>2, <1>3 DEF Validated

LEMMA SizeCheckedSoundly ==
    ASSUME IInv, NEW d \in Requests, SizeChecked(d) PROVE Soundly(d)
<1>1. /\ dep[d] \in Deployment /\ dep[d].pc = "size" /\ dep[d].active = {} /\ dep[d].conn # "held"
      /\ dep[d].outcome # "committed" /\ dep[d].scene \in Scenes /\ ~dep[d].cancelled
  BY RequestFacts DEF SizeChecked, At, Sound, Runs, Connects, Tells, Open, Working, Reading
<1>2. CASE Only(d, Answered(dep[d], "refused"))
  BY <1>1, <1>2, AnswersSoundly
<1>3. ASSUME NEW r, NEW s, r \in Begin(dep[d], "content", ContentOf[Scene(d)] \ dep[d].found),
             s \in Continue(r), Only(d, s)
      PROVE  Soundly(d)
  <2>1. ContentOf[Scene(d)] \ dep[d].found \in SUBSET Keys
    BY <1>1, KeysOfScene DEF Scene
  <2>2. /\ r \in Deployment /\ SameRequest(dep[d], r) /\ r.pc = "content" /\ ~r.failed
        /\ r.todo \cup r.active = ContentOf[Scene(d)] \ dep[d].found
    BY <1>1, <1>3, <2>1, BeginFields DEF Working, Reading
  <2>3. r.active = {} => r.todo = {}
    <3>1. IsFiniteSet(ContentOf[Scene(d)])
      BY <1>1, RequestsAssumption DEF Scene
    <3>2. IsFiniteSet(ContentOf[Scene(d)] \ dep[d].found)
      BY <3>1, FS_Subset
    <3> QED BY <1>1, <1>3, <3>2, BeginEmpty
  <2>4. ~dep[d].beside => Idle /\ dep[d].found \subseteq storage
    BY <1>1, RequestFacts DEF Sound, Stores, Open
  <2>5. Sound(r, storage, Idle)
    <3>1. Runs(r) /\ Connects(r)
      BY <1>1, <2>2 DEF SameRequest, Runs, Connects, Working, Reading
    <3>2. Tells(r)
      BY <1>1, <2>2, RequestFacts DEF SameRequest, Sound, Tells
    <3>3. Stores(r, storage, Idle)
      BY <2>2, <2>4 DEF SameRequest, Stores, Scene
    <3> QED BY <2>2, <3>1, <3>2, <3>3 DEF Sound
  <2> QED BY <1>3, <2>2, <2>3, <2>5, WorkersSoundly DEF Working, Reading
<1> QED BY <1>2, <1>3 DEF SizeChecked

(* A request between the stages has no items and no outcome.                *)
LEMMA Between ==
    ASSUME IInv, NEW d \in Requests, dep[d].pc \in {"validate", "size", "owners", "connect", "tx", "commit"}
    PROVE  /\ dep[d] \in Deployment /\ dep[d].active = {} /\ dep[d].outcome = "none" /\ dep[d].scene \in Scenes
           /\ dep[d].pc \notin {"tx", "commit"} => ~dep[d].cancelled /\ dep[d].conn # "held"
           /\ ~dep[d].beside /\ dep[d].pc \in {"owners", "connect", "tx", "commit"}
                 => Idle /\ Objects(dep[d].scene) \subseteq storage
           /\ ~dep[d].beside => Idle /\ dep[d].found \subseteq storage
  BY RequestFacts DEF Sound, Runs, Connects, Tells, Stores, Open, Working, Reading

(* A record that goes on between the stages.                                *)
LEMMA BetweenSound ==
    ASSUME IInv, NEW d \in Requests, dep[d].pc \in {"owners", "connect", "tx", "commit"},
           NEW s \in Deployment, s.pc \in {"owners", "connect", "tx", "commit"},
           s.active = {}, s.outcome = "none", s.scene = dep[d].scene, s.beside = dep[d].beside,
           s.found = dep[d].found, Connects(s), s.cancelled => s.pc \in {"tx", "commit"}
    PROVE  Sound(s, storage, Idle)
  BY Between DEF Sound, Runs, Connects, Tells, Stores, Open, Working, Reading

LEMMA OwnersFoundSoundly ==
    ASSUME IInv, NEW d \in Requests, OwnersFound(d) PROVE Soundly(d)
<1>1. At(d, "owners")
  BY DEF OwnersFound
<1>2. CASE Only(d, Answered(dep[d], "failed"))
  BY <1>1, <1>2, Between, AnswersSoundly DEF At
<1>3. CASE Only(d, [dep[d] EXCEPT !.pc = "connect", !.conn = "waiting"])
  <2> DEFINE s == [dep[d] EXCEPT !.pc = "connect", !.conn = "waiting"]
  <2>1. /\ s \in Deployment /\ s.pc = "connect" /\ s.conn = "waiting"
        /\ s.active = {} /\ s.outcome = "none" /\ s.scene = dep[d].scene /\ s.beside = dep[d].beside
        /\ s.found = dep[d].found /\ ~s.cancelled
    BY <1>1, Between DEF At, Deployment, Stages, Raced
  <2> HIDE DEF s
  <2>2. Sound(s, storage, Idle)
    BY <1>1, <2>1, BetweenSound DEF At, Connects
  <2> QED BY <1>3, <2>1, <2>2 DEF Soundly, Gets, s
<1> QED BY <1>2, <1>3 DEF OwnersFound

LEMMA ConnectedSoundly ==
    ASSUME IInv, NEW d \in Requests, Connected(d) PROVE Soundly(d)
<1>1. At(d, "connect")
  BY DEF Connected
<1>2. CASE Only(d, Answered([dep[d] EXCEPT !.conn = "none"], "failed"))
  <2> DEFINE r == [dep[d] EXCEPT !.conn = "none"]
  <2>1. r \in Deployment /\ r.active = {} /\ r.conn = "none" /\ r.outcome = "none"
    BY <1>1, Between DEF At, Deployment
  <2> HIDE DEF r
  <2>2. Only(d, Answered(r, "failed"))
    BY <1>2 DEF r
  <2> QED BY <2>1, <2>2, AnswersSoundly
<1>3. CASE FreeConnection /\ Only(d, [dep[d] EXCEPT !.pc = "tx", !.conn = "held"])
  <2> DEFINE s == [dep[d] EXCEPT !.pc = "tx", !.conn = "held"]
  <2>1. /\ s \in Deployment /\ s.pc = "tx" /\ s.conn = "held"
        /\ s.active = {} /\ s.outcome = "none" /\ s.scene = dep[d].scene /\ s.beside = dep[d].beside
        /\ s.found = dep[d].found /\ ~s.cancelled
    BY <1>1, Between DEF At, Deployment, Stages, Raced
  <2> HIDE DEF s
  <2>2. Sound(s, storage, Idle)
    BY <1>1, <2>1, BetweenSound DEF At, Connects
  <2> QED BY <1>3, <2>1, <2>2 DEF Soundly, Gets, s
<1> QED BY <1>2, <1>3 DEF Connected

LEMMA ExecutedSoundly ==
    ASSUME IInv, NEW d \in Requests, Executed(d) PROVE Soundly(d)
<1>1. At(d, "tx") /\ ~dep[d].cancelled
  BY DEF Executed
<1>2. CASE Only(d, Answered([dep[d] EXCEPT !.conn = "none"], "failed"))
  <2> DEFINE r == [dep[d] EXCEPT !.conn = "none"]
  <2>1. r \in Deployment /\ r.active = {} /\ r.conn = "none" /\ r.outcome = "none"
    BY <1>1, Between DEF At, Deployment
  <2> HIDE DEF r
  <2>2. Only(d, Answered(r, "failed"))
    BY <1>2 DEF r
  <2> QED BY <2>1, <2>2, AnswersSoundly
<1>3. CASE Only(d, [dep[d] EXCEPT !.pc = "commit"])
  <2> DEFINE s == [dep[d] EXCEPT !.pc = "commit"]
  <2>1. /\ s \in Deployment /\ s.pc = "commit" /\ s.conn = dep[d].conn
        /\ s.active = {} /\ s.outcome = "none" /\ s.scene = dep[d].scene /\ s.beside = dep[d].beside
        /\ s.found = dep[d].found /\ ~s.cancelled
    BY <1>1, Between DEF At, Deployment, Stages, Raced
  <2> HIDE DEF s
  <2>2. Sound(s, storage, Idle)
    BY <1>1, <2>1, BetweenSound DEF At, Connects
  <2> QED BY <1>3, <2>1, <2>2 DEF Soundly, Gets, s
<1> QED BY <1>2, <1>3 DEF Executed

LEMMA TransactionDiesSoundly ==
    ASSUME IInv, NEW d \in Requests, TransactionDies(d) PROVE Soundly(d)
<1>1. At(d, "tx") /\ dep[d].cancelled /\ Only(d, Answered(dep[d], "failed"))
  BY DEF TransactionDies
<1>2. dep[d].conn # "held"
  BY <1>1, RequestFacts DEF At, Sound, Connects
<1> QED BY <1>1, <1>2, Between, AnswersSoundly DEF At

(* Hooks change nothing but the moment of a success.                        *)
LEMMA HooksSoundly ==
    ASSUME IInv, NEW d \in Requests, HooksSettle(d) \/ CancelHooks(d) PROVE Soundly(d)
<1>1. PICK s \in {[dep[d] EXCEPT !.pc = "answered", !.answer = "ok"],
                  [dep[d] EXCEPT !.pc = "answered", !.answer = "ok", !.cancelled = TRUE]} : Only(d, s)
  BY DEF HooksSettle, CancelHooks
<1>2. At(d, "hooks")
  BY DEF HooksSettle, CancelHooks
<1>3. /\ dep[d] \in Deployment /\ dep[d].active = {} /\ dep[d].outcome = "committed" /\ dep[d].conn # "held"
  BY <1>2, RequestFacts DEF At, Sound, Runs, Connects, Tells, Stores, Open, Working, Reading
<1>4. /\ s \in Deployment /\ s.pc = "answered" /\ s.active = {} /\ s.answer = "ok"
      /\ s.outcome = "committed" /\ s.conn = dep[d].conn
  BY <1>3 DEF Deployment, Stages, Answers
<1>5. Sound(s, storage, Idle)
  BY <1>3, <1>4 DEF Sound, Runs, Connects, Tells, Stores, Open, Working, Reading
<1> QED BY <1>1, <1>3, <1>4, <1>5 DEF Soundly, Gets

LEMMA CancelRacedSoundly ==
    ASSUME IInv, NEW d \in Requests, CancelRaced(d) PROVE Soundly(d)
<1> DEFINE r == [dep[d] EXCEPT !.cancelled = TRUE, !.active = {},
                           !.late = IF At(d, "entity") THEN dep[d].active ELSE {},
                           !.conn = IF At(d, "connect") THEN "late" ELSE "none"]
<1>1. dep[d] \in Deployment /\ dep[d].outcome = "none"
  BY RequestFacts DEF CancelRaced, Raced, Sound, Tells
<1>2. r \in Deployment /\ r.active = {} /\ r.conn # "held" /\ r.outcome = "none"
  BY <1>1 DEF Deployment
<1>3. Only(d, Answered(r, "cancelled"))
  BY DEF CancelRaced
<1> HIDE DEF r
<1> QED BY <1>2, <1>3, AnswersSoundly

LEMMA CancelSoundly ==
    ASSUME IInv, NEW d \in Requests, CancelReading(d) \/ CancelTransaction(d) \/ CancelCommit(d) PROVE Soundly(d)
<1>1. CASE CancelReading(d)
  <2> DEFINE s == [dep[d] EXCEPT !.cancelled = TRUE, !.failed = TRUE]
  <2>1. dep[d] \in Deployment /\ dep[d].conn # "held" /\ dep[d].pc \in Reading
    BY <1>1, RequestFacts DEF CancelReading, Reading, Sound, Connects
  <2>2. /\ s \in Deployment /\ s.pc = dep[d].pc /\ s.scene = dep[d].scene /\ s.failed /\ s.conn = dep[d].conn
        /\ s.outcome = dep[d].outcome /\ s.beside = dep[d].beside /\ s.found = dep[d].found
    BY <2>1 DEF Deployment
  <2>3. Only(d, s)
    BY <1>1 DEF CancelReading
  <2> HIDE DEF s
  <2>4. Sound(s, storage, Idle)
    BY <2>1, <2>2, RequestFacts DEF Sound, Runs, Connects, Tells, Stores, Open, Working, Reading
  <2> QED BY <2>1, <2>2, <2>3, <2>4 DEF Soundly, Gets
<1>2. CASE CancelTransaction(d)
  <2> DEFINE s == [dep[d] EXCEPT !.cancelled = TRUE, !.conn = "none"]
  <2>1. dep[d].pc = "tx" /\ Only(d, s)
    BY <1>2 DEF CancelTransaction, At
  <2>2. /\ s \in Deployment /\ s.pc = "tx" /\ s.conn = "none"
        /\ s.active = {} /\ s.outcome = "none" /\ s.scene = dep[d].scene /\ s.beside = dep[d].beside
        /\ s.found = dep[d].found
    BY <2>1, Between DEF Deployment
  <2> HIDE DEF s
  <2>3. Sound(s, storage, Idle)
    BY <2>1, <2>2, BetweenSound DEF Connects
  <2> QED BY <2>1, <2>2, <2>3 DEF Soundly, Gets
<1>3. CASE CancelCommit(d)
  <2> DEFINE s == [dep[d] EXCEPT !.cancelled = TRUE]
  <2>1. dep[d].pc = "commit" /\ Only(d, s)
    BY <1>3 DEF CancelCommit, At
  <2>2. /\ s \in Deployment /\ s.pc = "commit" /\ s.conn = dep[d].conn
        /\ s.active = {} /\ s.outcome = "none" /\ s.scene = dep[d].scene /\ s.beside = dep[d].beside
        /\ s.found = dep[d].found
    BY <2>1, Between DEF Deployment
  <2> HIDE DEF s
  <2>3. Sound(s, storage, Idle)
    BY <2>1, <2>2, BetweenSound DEF Connects
  <2> QED BY <2>1, <2>2, <2>3 DEF Soundly, Gets
<1> QED BY <1>1, <1>2, <1>3

LEMMA LateConnectionSoundly ==
    ASSUME IInv, NEW d \in Requests, LateConnection(d) PROVE Soundly(d)
<1> DEFINE s == [dep[d] EXCEPT !.conn = "none"]
<1>1. Only(d, s) /\ s.conn = "none" /\ SameLate(dep[d], s)
  BY RequestFacts DEF LateConnection, Deployment, SameLate
<1> HIDE DEF s
<1>2. Sound(s, storage, Idle)
  BY <1>1, RequestFacts DEF SameLate, Sound, Connects, Runs, Tells, Stores, Open
<1> QED BY <1>1, <1>2 DEF Soundly, Gets

LEMMA ForgetSoundly ==
    ASSUME IInv, NEW d \in Requests, Forget(d) PROVE Soundly(d)
<1>1. Only(d, Fresh)
  BY DEF Forget
<1>2. /\ Fresh \in Deployment /\ Fresh.pc = "idle" /\ Fresh.active = {} /\ ~Fresh.cancelled
      /\ Fresh.conn = "none" /\ Fresh.outcome = "none"
  BY DEF Fresh, Deployment, Stages, Answers
<1>3. Sound(Fresh, storage, Idle)
  BY <1>2 DEF Sound, Runs, Connects, Tells, Stores, Open, Working, Reading
<1> QED BY <1>1, <1>2, <1>3 DEF Soundly, Gets

(* The steps of a request that leave the storage and the rows alone.        *)
Quiet(d) ==
    \/ Start(d) \/ ReadEntity(d) \/ Validated(d) \/ FileInfo(d) \/ HashFile(d) \/ SizeChecked(d)
    \/ OwnersFound(d) \/ Connected(d) \/ Executed(d) \/ HooksSettle(d) \/ Cancel(d) \/ TransactionDies(d)
    \/ LateConnection(d) \/ Forget(d)

LEMMA QuietSoundly ==
    ASSUME IInv, NEW d \in Requests, Quiet(d) PROVE Soundly(d)
  BY StartSoundly, ReadEntitySoundly, ValidatedSoundly, FileInfoSoundly, HashFileSoundly, SizeCheckedSoundly,
     OwnersFoundSoundly, ConnectedSoundly, ExecutedSoundly, HooksSoundly, CancelRacedSoundly, CancelSoundly,
     TransactionDiesSoundly, LateConnectionSoundly, ForgetSoundly
     DEF Quiet, Cancel

-----------------------------------------------------------------------------
(* Steps of a request that change the storage or the rows                   *)

LEMMA StoreSoundly ==
    ASSUME IInv, NEW d \in Requests, NEW stage \in {"content", "entity"}, Store(d, stage)
    PROVE  /\ \E s : Become(d, s) /\ Sound(s, storage', Idle) /\ Gets(d, s)
           /\ storage \subseteq storage' /\ storage' \subseteq Keys /\ UNCHANGED <<rows, thumbnail, gc, raced>>
<1> PICK k \in dep[d].active, ok \in BOOLEAN :
       /\ storage' = IF ok THEN storage \cup {k} ELSE storage
       /\ \E r \in Settled(dep[d], k, ok) : \E s \in Continue(r) : Become(d, s)
  BY DEF Store
<1> PICK r \in Settled(dep[d], k, ok) : \E s \in Continue(r) : Become(d, s)
  OBVIOUS
<1> PICK s \in Continue(r) : Become(d, s)
  OBVIOUS
<1>1. dep[d].pc = stage /\ UNCHANGED <<rows, thumbnail, gc, raced>>
  BY DEF Store, At
<1>2. /\ dep[d] \in Deployment /\ dep[d].scene \in Scenes /\ dep[d].conn # "held"
      /\ dep[d].outcome = "none" /\ (dep[d].cancelled => stage = "content" /\ dep[d].failed)
  BY <1>1, RequestFacts DEF Sound, Runs, Connects, Tells, Stores, Open, Working, Reading
<1>3. storage \subseteq storage' /\ storage' \subseteq Keys /\ (ok => k \in storage')
  BY <1>2 DEF IInv, Typed, TypeOK, Deployment
<1>4. /\ r \in Deployment /\ SameRequest(dep[d], r) /\ r.pc = dep[d].pc
      /\ r.failed = (dep[d].failed \/ ~ok)
      /\ dep[d].todo \cup (dep[d].active \ {k}) \subseteq r.todo \cup r.active
      /\ r.active = {} /\ ~r.failed => r.todo = {}
  BY <1>2, SettledFields
<1>5. ~r.failed => ok /\ ~dep[d].failed
  BY <1>2, <1>4
<1>6. Sound(r, storage', Idle)
  <2>1. Runs(r) /\ Connects(r) /\ Tells(r)
    BY <1>1, <1>2, <1>4 DEF SameRequest, Runs, Connects, Tells, Working, Reading, Deployment
  <2>2. Stores(dep[d], storage, Idle) /\ Open(dep[d])
    BY <1>1, RequestFacts DEF Sound, Open
  <2>3. CASE stage = "content"
    BY <1>1, <1>3, <1>4, <1>5, <2>2, <2>3, <2>1 DEF Sound, SameRequest, Stores, Open
  <2>4. CASE stage = "entity"
    BY <1>1, <1>3, <1>4, <1>5, <2>2, <2>4, <2>1 DEF Sound, SameRequest, Stores, Open
  <2> QED BY <2>3, <2>4
<1>7. r.pc \in Working
  BY <1>1, <1>4 DEF Working, Reading
<1>8. Sound(s, storage', Idle) /\ s.conn = r.conn
  BY <1>4, <1>6, <1>7, ContinueSound, ContinueConn, IdleBoolean
<1> QED BY <1>1, <1>2, <1>3, <1>4, <1>8 DEF Gets, SameRequest

LEMMA LateStoreSoundly ==
    ASSUME IInv, NEW d \in Requests, LateStore(d)
    PROVE  /\ \E s : Become(d, s) /\ Sound(s, storage', Idle) /\ Gets(d, s)
           /\ storage \subseteq storage' /\ storage' \subseteq Keys /\ UNCHANGED <<rows, thumbnail, gc, raced>>
<1> PICK k \in dep[d].late : /\ storage' \in {storage, storage \cup {k}}
                            /\ Become(d, [dep[d] EXCEPT !.late = @ \ {k}])
  BY DEF LateStore
<1> DEFINE s == [dep[d] EXCEPT !.late = @ \ {k}]
<1>1. dep[d] \in Deployment
  BY RequestFacts
<1>2. SameLate(dep[d], s) /\ s.conn = dep[d].conn
  BY <1>1 DEF SameLate, Deployment
<1>3. storage \subseteq storage' /\ storage' \subseteq Keys /\ UNCHANGED <<rows, thumbnail, gc, raced>>
  BY <1>1 DEF IInv, Typed, TypeOK, Deployment, LateStore
<1>4. Become(d, s)
  OBVIOUS
<1> HIDE DEF s
<1>5. Sound(s, storage, Idle)
  BY <1>2, RequestFacts DEF SameLate, Sound, Connects, Runs, Tells, Stores, Open
<1>6. Sound(s, storage', Idle)
  BY <1>3, <1>5, SoundGrows
<1> QED BY <1>2, <1>3, <1>4, <1>6 DEF Gets

(* A scene is committed with all that it needs in the storage, unless a     *)
(* collector has run beside its deployment, which is remembered.            *)
LEMMA CommitSoundly ==
    ASSUME IInv, NEW d \in Requests, Committed(d) \/ CommitFails(d)
    PROVE  \/ Soundly(d)
           \/ /\ \E s : Become(d, s) /\ Sound(s, storage, Idle) /\ Gets(d, s)
              /\ WriteRows(d) /\ Scene(d) \in Scenes
              /\ ~dep[d].beside => Idle /\ Objects(Scene(d)) \subseteq storage
<1>1. At(d, "commit")
  BY DEF Committed, CommitFails
<1>2. /\ dep[d] \in Deployment /\ dep[d].active = {} /\ dep[d].outcome = "none" /\ Scene(d) \in Scenes
      /\ ~dep[d].beside => Idle /\ Objects(Scene(d)) \subseteq storage
  BY <1>1, Between DEF At, Scene
<1>3. CASE Committed(d)
  <2> DEFINE r == [dep[d] EXCEPT !.conn = "none", !.outcome = "committed"]
             s == IF r.cancelled THEN [r EXCEPT !.pc = "answered", !.answer = "ok"]
                                 ELSE [r EXCEPT !.pc = "hooks"]
  <2>1. Become(d, s) /\ WriteRows(d)
    BY <1>3 DEF Committed
  <2>2. /\ r \in Deployment /\ r.cancelled = dep[d].cancelled /\ r.conn = "none"
        /\ r.outcome = "committed" /\ r.active = {}
    BY <1>2 DEF Deployment
  <2> HIDE DEF r
  <2>3. /\ s \in Deployment /\ s.conn = "none" /\ s.outcome = "committed" /\ s.active = {}
        /\ \/ s.pc = "hooks" /\ ~s.cancelled
           \/ s.pc = "answered" /\ s.answer = "ok"
    BY <2>2 DEF Deployment, Stages, Answers
  <2> HIDE DEF s
  <2>4. Sound(s, storage, Idle) /\ Gets(d, s)
    BY <2>3 DEF Sound, Runs, Connects, Tells, Stores, Open, Working, Reading, Gets
  <2> QED BY <1>2, <2>1, <2>4
<1>4. CASE Only(d, Answered([dep[d] EXCEPT !.conn = "none"], "failed"))
  <2> DEFINE r == [dep[d] EXCEPT !.conn = "none"]
  <2>1. r \in Deployment /\ r.active = {} /\ r.conn = "none" /\ r.outcome = "none"
    BY <1>2 DEF Deployment
  <2> HIDE DEF r
  <2>2. Only(d, Answered(r, "failed"))
    BY <1>4 DEF r
  <2> QED BY <2>1, <2>2, AnswersSoundly
<1>5. CASE WriteRows(d) /\ Become(d, Answered([dep[d] EXCEPT !.conn = "none", !.outcome = "unknown"], "failed"))
  <2> DEFINE r == [dep[d] EXCEPT !.conn = "none", !.outcome = "unknown"]
  <2>1. r \in Deployment /\ r.active = {} /\ r.conn = "none" /\ r.outcome = "unknown"
    BY <1>2 DEF Deployment
  <2> HIDE DEF r
  <2>2. Become(d, Answered(r, "failed"))
    BY <1>5 DEF r
  <2>3. Sound(Answered(r, "failed"), storage, Idle)
    BY <2>1, AnsweredSound
  <2>4. Gets(d, Answered(r, "failed"))
    BY <2>1 DEF Gets, Answered, Deployment
  <2> QED BY <1>2, <1>5, <2>2, <2>3, <2>4
<1> QED BY <1>3, <1>4, <1>5 DEF CommitFails

-----------------------------------------------------------------------------
(* The invariant is kept                                                    *)

(* The requests, by the step of one of them.                                *)
LEMMA EachSoundKept ==
    ASSUME IInv, NEW d \in Requests, NEW s, Become(d, s), Sound(s, storage', Idle),
           storage \subseteq storage', gc' = gc
    PROVE  EachSound'
<1>1. dep' = [dep EXCEPT ![d] = s] /\ dep \in [Requests -> Deployment] /\ s \in Deployment
  BY DEF Become, IInv, EachSound, Sound
<1>2. Idle' = Idle
  BY DEF Idle
<1>3. ASSUME NEW c \in Requests PROVE Sound(dep'[c], storage', Idle')
  <2>1. CASE c = d
    BY <1>1, <1>2, <2>1
  <2>2. CASE c # d
    BY <1>1, <1>2, <2>2, RequestFacts, SoundGrows
  <2> QED BY <2>1, <2>2
<1> QED BY <1>1, <1>3 DEF EachSound

(* A connection is taken only where one is free.                            *)
LEMMA HeldKept ==
    ASSUME IInv, NEW d \in Requests, NEW s, Become(d, s), Gets(d, s)
    PROVE  (Cardinality(Held) <= MaxConnections)'
<1>1. IsFiniteSet(Held) /\ Held \subseteq Requests
  BY RequestsAssumption, FS_Subset DEF Held
<1>2. Held' \subseteq Held \cup {d} /\ (d \in Held' => d \in Held \/ FreeConnection)
  BY DEF Held, Become, Gets, IInv, EachSound
<1>3. Cardinality(Held) \in Nat /\ Cardinality(Held) <= MaxConnections /\ MaxConnections \in Nat
  BY <1>1, FS_CardinalityType, RequestsAssumption DEF IInv
<1>4. CASE Held' \subseteq Held
  <2>1. Cardinality(Held') <= Cardinality(Held) /\ IsFiniteSet(Held')
    BY <1>1, <1>4, FS_Subset
  <2>2. Cardinality(Held') \in Nat
    BY <2>1, FS_CardinalityType
  <2> QED BY <1>3, <2>1, <2>2
<1>5. CASE ~(Held' \subseteq Held)
  <2>1. d \in Held' /\ d \notin Held /\ FreeConnection
    BY <1>2, <1>5
  <2>2. Cardinality(Held) < MaxConnections
    BY <2>1 DEF FreeConnection, Held
  <2>3. IsFiniteSet(Held \cup {d}) /\ Cardinality(Held \cup {d}) = Cardinality(Held) + 1
    BY <1>1, <2>1, FS_AddElement
  <2>4. IsFiniteSet(Held') /\ Cardinality(Held') <= Cardinality(Held \cup {d})
    BY <1>2, <2>3, FS_Subset
  <2>5. Cardinality(Held') \in Nat
    BY <2>4, FS_CardinalityType
  <2> QED BY <1>3, <2>2, <2>3, <2>4, <2>5
<1> QED BY <1>4, <1>5

(* All of it, when the rows are as they were.                               *)
LEMMA GrowthKept ==
    ASSUME IInv, NEW d \in Requests, NEW s, Become(d, s), Sound(s, storage', Idle), Gets(d, s),
           storage \subseteq storage', storage' \subseteq Keys, UNCHANGED <<rows, thumbnail, gc, raced>>
    PROVE  IInv'
<1>1. EachSound'
  BY EachSoundKept
<1>2. Typed'
  BY <1>1 DEF IInv, Typed, TypeOK, EachSound
<1>3. Idle' = Idle
  BY DEF Idle
<1>4. Spares' /\ ThumbnailStored' /\ ContentKept'
  BY <1>3 DEF IInv, Spares, ThumbnailStored, ContentKept
<1> QED BY <1>1, <1>2, <1>4, HeldKept DEF IInv

LEMMA WriteRowsKept ==
    ASSUME IInv, NEW d \in Requests, NEW s, Become(d, s), Sound(s, storage, Idle), Gets(d, s),
           WriteRows(d), Scene(d) \in Scenes,
           ~dep[d].beside => Idle /\ Objects(Scene(d)) \subseteq storage
    PROVE  IInv'
<1>1. /\ storage' = storage /\ thumbnail' = thumbnail /\ gc' = gc /\ rows' = rows \cup {Scene(d)}
      /\ raced \subseteq raced' /\ raced' \subseteq raced \cup {Scene(d)}
      /\ Scene(d) \in raced' \/ ~dep[d].beside
  BY DEF WriteRows
<1>2. EachSound'
  BY <1>1, EachSoundKept
<1>3. Typed'
  BY <1>1, <1>2 DEF IInv, Typed, TypeOK, EachSound
<1>4. Idle' = Idle
  BY <1>1 DEF Idle
<1>5. Spares' /\ ThumbnailStored' /\ ContentKept'
  BY <1>1, <1>4 DEF IInv, Spares, ThumbnailStored, ContentKept
<1> QED BY <1>2, <1>3, <1>5, HeldKept DEF IInv

LEMMA StepKept ==
    ASSUME IInv, NEW d \in Requests, Step(d) \/ Prompt(d)
    PROVE  IInv'
<1>1. ASSUME Soundly(d) PROVE IInv'
  <2>1. PICK s : Only(d, s) /\ Sound(s, storage, Idle) /\ Gets(d, s)
    BY <1>1 DEF Soundly
  <2>2. Become(d, s) /\ storage' = storage /\ UNCHANGED <<rows, thumbnail, gc, raced>>
    BY <2>1 DEF Only
  <2>3. storage \subseteq storage' /\ storage' \subseteq Keys
    BY <2>2 DEF IInv, Typed, TypeOK
  <2> QED BY <2>1, <2>2, <2>3, GrowthKept
<1>2. CASE Quiet(d)
  BY <1>1, <1>2, QuietSoundly
<1>3. CASE StoreContent(d) \/ StoreEntity(d)
  BY <1>3, StoreSoundly, GrowthKept DEF StoreContent, StoreEntity
<1>4. CASE LateStore(d)
  BY <1>4, LateStoreSoundly, GrowthKept
<1>5. CASE Committed(d) \/ CommitFails(d)
  BY <1>1, <1>5, CommitSoundly, WriteRowsKept
<1> QED BY <1>2, <1>3, <1>4, <1>5 DEF Step, Prompt, Quiet, Disconnect, Deadline

(* The thumbnail and the eviction job.                                      *)
LEMMA OthersKept ==
    ASSUME IInv, StoreThumbnail \/ SaveThumbnail \/ Evict
    PROVE  IInv'
<1>1. dep' = dep /\ gc' = gc /\ storage \subseteq storage' /\ storage' \subseteq storage \cup {Thumbnail}
  BY DEF StoreThumbnail, SaveThumbnail, Evict
<1>2. Thumbnail \in Keys /\ Idle' = Idle /\ Held' = Held
  BY <1>1, ThumbnailKey DEF Idle, Held
<1>3. EachSound'
  BY <1>1, <1>2, SoundGrows DEF IInv, EachSound
<1>4. Typed'
  <2>1. thumbnail' \in [pc : {"idle", "stored"}, saved : BOOLEAN, beside : BOOLEAN]
    <3>1. thumbnail \in [pc : {"idle", "stored"}, saved : BOOLEAN, beside : BOOLEAN]
      BY DEF IInv, Typed, TypeOK
    <3>2. CASE StoreThumbnail
      <4>1. thumbnail' = [thumbnail EXCEPT !.pc = "stored", !.beside = ~Idle] /\ Idle \in BOOLEAN
        BY <3>2, IdleBoolean DEF StoreThumbnail, Idle
      <4> QED BY <3>1, <4>1
    <3>3. CASE SaveThumbnail
      <4>1. \/ thumbnail' = [pc |-> "idle", saved |-> TRUE, beside |-> FALSE]
            \/ thumbnail' = [thumbnail EXCEPT !.pc = "idle", !.beside = FALSE]
        BY <3>3 DEF SaveThumbnail
      <4>2. CASE thumbnail' = [pc |-> "idle", saved |-> TRUE, beside |-> FALSE]
        BY <4>2
      <4>3. CASE thumbnail' = [thumbnail EXCEPT !.pc = "idle", !.beside = FALSE]
        BY <3>1, <4>3
      <4> QED BY <4>1, <4>2, <4>3
    <3>4. CASE Evict
      BY <3>1, <3>4 DEF Evict
    <3> QED BY <3>2, <3>3, <3>4
  <2>2. rows' \subseteq rows /\ raced' \subseteq raced \cup {Thumbnail}
    BY DEF StoreThumbnail, SaveThumbnail, Evict
  <2> QED BY <1>1, <1>2, <1>3, <2>1, <2>2 DEF IInv, Typed, TypeOK, EachSound
<1>5. Spares' /\ ThumbnailStored' /\ ContentKept'
  <2>1. CASE StoreThumbnail
    BY <1>1, <1>2, <2>1 DEF IInv, Typed, TypeOK, Idle, Spares, ThumbnailStored, ContentKept, StoreThumbnail
  <2>2. CASE SaveThumbnail
    <3>1. /\ rows' = rows /\ storage' = storage /\ gc' = gc /\ thumbnail'.pc = "idle"
          /\ thumbnail'.saved => thumbnail.saved \/ Thumbnail \in raced' \/ ~thumbnail.beside
          /\ raced \subseteq raced' /\ raced' \subseteq raced \cup {Thumbnail} /\ thumbnail.pc = "stored"
      <4>1. thumbnail \in [pc : {"idle", "stored"}, saved : BOOLEAN, beside : BOOLEAN]
        BY DEF IInv, Typed, TypeOK
      <4>2. CASE thumbnail' = [pc |-> "idle", saved |-> TRUE, beside |-> FALSE]
                 /\ raced' = IF thumbnail.beside THEN raced \cup {Thumbnail} ELSE raced
        BY <2>2, <4>2 DEF SaveThumbnail
      <4>3. CASE thumbnail' = [thumbnail EXCEPT !.pc = "idle", !.beside = FALSE] /\ UNCHANGED raced
        BY <2>2, <4>1, <4>3 DEF SaveThumbnail
      <4> QED BY <2>2, <4>2, <4>3 DEF SaveThumbnail
    <3>2. ~thumbnail.beside => Idle /\ Thumbnail \in storage
      BY <3>1 DEF IInv, ThumbnailStored
    <3>3. rows \ raced' = rows \ raced
      BY <3>1, ThumbnailAssumption DEF IInv, Typed, TypeOK
    <3>4. Spares'
      BY <1>2, <3>1, <3>2, <3>3 DEF IInv, Spares, Idle
    <3>5. ContentKept' /\ ThumbnailStored'
      BY <3>1, <3>2, <3>3 DEF IInv, ContentKept, ThumbnailStored
    <3> QED BY <3>4, <3>5
  <2>3. CASE Evict
    <3>1. /\ storage' = storage /\ gc' = gc /\ thumbnail' = thumbnail
          /\ rows' \ raced' \subseteq rows \ raced
      BY <2>3 DEF Evict
    <3>2. Thumbnail \in raced => Thumbnail \in raced'
      BY <2>3, ThumbnailAssumption DEF Evict, IInv, Typed, TypeOK
    <3> QED BY <1>2, <3>1, <3>2 DEF IInv, Spares, ThumbnailStored, ContentKept
  <2> QED BY <2>1, <2>2, <2>3
<1> QED BY <1>2, <1>3, <1>4, <1>5 DEF IInv

(* A collector that begins meets all the deployments and the thumbnail.     *)
LEMMA ReadScenesKept ==
    ASSUME IInv, ReadScenes
    PROVE  IInv'
<1>1. /\ Idle /\ ~Idle' /\ storage' = storage /\ rows' = rows /\ raced' = raced
      /\ gc' = [gc EXCEPT !.pc = "thumbnails", !.active = UNION {Objects(e) : e \in rows}]
      /\ dep' = [d \in Requests |-> [dep[d] EXCEPT !.beside = @ \/ Unfinished(d)]]
      /\ thumbnail' = [thumbnail EXCEPT !.beside = thumbnail.pc = "stored"]
  BY DEF ReadScenes, Idle, IInv, Typed, TypeOK, Collector
<1>2. ASSUME NEW d \in Requests
      PROVE  /\ dep'[d] \in Deployment /\ dep'[d].conn = dep[d].conn /\ Sound(dep'[d], storage', Idle')
  <2> DEFINE s == dep'[d]
  <2>1. /\ s \in Deployment /\ s.pc = dep[d].pc /\ s.scene = dep[d].scene /\ s.active = dep[d].active
        /\ s.cancelled = dep[d].cancelled /\ s.failed = dep[d].failed /\ s.conn = dep[d].conn
        /\ s.outcome = dep[d].outcome /\ s.answer = dep[d].answer /\ (Open(s) => s.beside)
    BY <1>1, RequestFacts DEF Deployment, Unfinished, Open
  <2> HIDE DEF s
  <2>2. Sound(s, storage', Idle')
    BY <2>1, RequestFacts DEF Sound, Runs, Connects, Tells, Stores, Open, Working, Reading
  <2> QED BY <2>1, <2>2 DEF s
<1>3. EachSound' /\ Held' = Held
  BY <1>1, <1>2 DEF EachSound, Held
<1>4. ASSUME NEW e \in rows PROVE Objects(e) \subseteq Keys
  BY <1>4 DEF IInv, Typed, TypeOK, Keys
<1>5. UNION {Objects(e) : e \in rows} \subseteq Keys
  BY <1>4
<1>6. gc.batch = {} /\ gc \in Collector
  BY <1>1 DEF IInv, Typed, TypeOK, Spares, Idle
<1>7. /\ gc'.pc = "thumbnails" /\ gc'.active = UNION {Objects(e) : e \in rows} /\ gc'.batch = {} /\ gc' \in Collector
  BY <1>1, <1>5, <1>6 DEF Collector
<1>8. Typed'
  BY <1>1, <1>3, <1>6, <1>7 DEF IInv, Typed, TypeOK, EachSound
<1>9. Spares' /\ ThumbnailStored' /\ ContentKept'
  <2>1. \A e \in rows \ raced : Objects(e) \subseteq gc'.active
    BY <1>7
  <2>2. thumbnail'.saved = thumbnail.saved /\ thumbnail'.pc = thumbnail.pc /\ (thumbnail.pc = "stored" => thumbnail'.beside)
    BY <1>1 DEF IInv, Typed, TypeOK
  <2> QED BY <1>1, <1>7, <2>1, <2>2 DEF IInv, Spares, ThumbnailStored, ContentKept
<1> QED BY <1>3, <1>8, <1>9 DEF IInv

(* A collector at work leaves the deployments sound, having met them all,   *)
(* and what the database refers to where it is.                             *)
LEMMA CollectorKept ==
    ASSUME IInv, ~Idle, UNCHANGED <<dep, rows, thumbnail, raced>>, Typed', Spares',
           storage' \subseteq storage, storage \ storage' \subseteq gc.batch
    PROVE  IInv'
<1>1. ASSUME NEW d \in Requests PROVE Sound(dep'[d], storage', Idle')
  <2>1. Idle = FALSE
    BY IdleBoolean
  <2>2. Sound(dep[d], storage, FALSE)
    BY <2>1, RequestFacts
  <2> QED BY <2>2, SoundBeside
<1>2. EachSound' /\ Held' = Held
  BY <1>1 DEF IInv, EachSound, Held
<1>3. storage \cap gc.active \subseteq storage'
  BY DEF IInv, Spares
<1>4. ContentKept'
  <2>1. ASSUME NEW e \in rows' \ raced' PROVE Objects(e) \subseteq storage'
    BY <1>3, <2>1 DEF IInv, ContentKept, Spares
  <2>2. thumbnail'.saved /\ Thumbnail \notin raced' => Thumbnail \in storage'
    <3>1. CASE gc.pc = "sweep"
      BY <1>3, <3>1 DEF IInv, ContentKept, Spares
    <3>2. CASE gc.pc # "sweep"
      BY <3>2 DEF IInv, ContentKept, Spares
    <3> QED BY <3>1, <3>2
  <2> QED BY <2>1, <2>2 DEF ContentKept
<1>5. ThumbnailStored'
  BY DEF IInv, ThumbnailStored
<1> QED BY <1>2, <1>4, <1>5 DEF IInv

LEMMA CollectKept ==
    ASSUME IInv, Collect
    PROVE  IInv'
<1> USE DEF IInv, Typed, TypeOK, Collector, Spares, Idle
<1>1. CASE ReadScenes
  BY <1>1, ReadScenesKept
<1>2. CASE ReadThumbnails
  <2>1. Thumbnail \in Keys
    BY ThumbnailKey
  <2>2. /\ ~Idle /\ UNCHANGED <<dep, storage, rows, thumbnail, raced>> /\ gc' \in Collector
        /\ gc'.pc = "sweep" /\ gc'.batch = {} /\ gc.batch = {} /\ gc.active \subseteq gc'.active
        /\ thumbnail.saved => Thumbnail \in gc'.active
    BY <1>2, <2>1 DEF ReadThumbnails
  <2>3. Typed' /\ Spares'
    BY <2>2
  <2> QED BY <2>2, <2>3, CollectorKept
<1>3. CASE ListKey
  <2>1. PICK k \in storage \ (gc.active \cup gc.batch) : gc' = [gc EXCEPT !.batch = @ \cup {k}]
    BY <1>3 DEF ListKey
  <2>2. /\ ~Idle /\ UNCHANGED <<dep, storage, rows, thumbnail, raced>> /\ gc' \in Collector
        /\ gc'.pc = "sweep" /\ gc.pc = "sweep" /\ gc'.batch = gc.batch \cup {k} /\ gc'.active = gc.active
    BY <1>3, <2>1 DEF ListKey
  <2>3. IsFiniteSet(gc'.batch) /\ Cardinality(gc'.batch) <= BatchSize
    <3>1. Cardinality(gc.batch) < BatchSize /\ IsFiniteSet(gc.batch) /\ BatchSize \in Nat
      BY <1>3, RequestsAssumption DEF ListKey
    <3>2. IsFiniteSet(gc.batch \cup {k}) /\ Cardinality(gc.batch \cup {k}) = Cardinality(gc.batch) + 1
      BY <2>1, <3>1, FS_AddElement
    <3>3. Cardinality(gc.batch) \in Nat
      BY <3>1, FS_CardinalityType
    <3> QED BY <2>2, <3>1, <3>2, <3>3
  <2>4. Typed' /\ Spares'
    BY <2>1, <2>2, <2>3
  <2> QED BY <2>2, <2>4, CollectorKept
<1>4. CASE DeleteBatch \/ EndSweep
  <2>1. /\ ~Idle /\ UNCHANGED <<dep, rows, thumbnail, raced>> /\ gc' \in Collector /\ gc'.batch = {}
        /\ storage' \subseteq storage /\ storage \ storage' \subseteq gc.batch
        /\ gc'.pc = "idle" \/ (gc'.pc = gc.pc /\ gc'.active = gc.active)
    BY <1>4 DEF DeleteBatch, EndSweep
  <2>2. IsFiniteSet(gc'.batch) /\ Cardinality(gc'.batch) <= BatchSize
    BY <2>1, FS_EmptySet, RequestsAssumption
  <2>3. Typed' /\ Spares'
    BY <2>1, <2>2
  <2> QED BY <2>1, <2>3, CollectorKept
<1> QED BY <1>1, <1>2, <1>3, <1>4 DEF Collect

THEOREM Invariant == Spec => []IInv
<1>1. Init => IInv
  <2> SUFFICES ASSUME Init PROVE IInv
    OBVIOUS
  <2> USE DEF Init
  <2>1. /\ Fresh \in Deployment /\ Fresh.pc = "idle" /\ Fresh.active = {} /\ ~Fresh.cancelled
        /\ Fresh.conn = "none" /\ Fresh.outcome = "none"
    BY DEF Fresh, Deployment, Stages, Answers
  <2>2. Sound(Fresh, storage, Idle)
    BY <2>1 DEF Sound, Runs, Connects, Tells, Stores, Open, Working, Reading
  <2>3. EachSound
    BY <2>1, <2>2 DEF EachSound
  <2>4. IsFiniteSet(gc.batch) /\ Cardinality(gc.batch) <= BatchSize
    BY FS_EmptySet, RequestsAssumption
  <2>5. Typed
    BY <2>3, <2>4 DEF Typed, TypeOK, EachSound, Collector
  <2>6. Held = {}
    BY <2>1 DEF Held
  <2>7. Cardinality(Held) <= MaxConnections
    BY <2>6, FS_EmptySet, RequestsAssumption
  <2> QED BY <2>3, <2>5, <2>7 DEF IInv, Spares, ThumbnailStored, ContentKept, Idle
<1>2. IInv /\ [Next]_vars => IInv'
  <2> SUFFICES ASSUME IInv, [Next]_vars PROVE IInv'
    OBVIOUS
  <2>1. CASE UNCHANGED vars
    <3>1. dep' = dep /\ storage' = storage /\ rows' = rows /\ thumbnail' = thumbnail /\ gc' = gc /\ raced' = raced
      BY <2>1 DEF vars
    <3> QED BY <3>1 DEF IInv, Typed, TypeOK, EachSound, Spares, ThumbnailStored, ContentKept, Held, Idle
  <2> QED BY <2>1, StepKept, OthersKept, CollectKept DEF Next
<1> QED BY <1>1, <1>2, PTL DEF Spec

-----------------------------------------------------------------------------
(* What follows                                                             *)

(* TypeOK of Deployments: the variables have their types, and a batch of    *)
(* the collector no more keys than BatchSize.                               *)
THEOREM TypeCorrect == Spec => []TypeOK
<1>1. IInv => TypeOK
  BY DEF IInv, Typed
<1> QED BY <1>1, Invariant, PTL

(* ContentKept of Deployments: the stages, the pools of workers, the        *)
(* cancellation and the collector lose no file of a scene in the database,  *)
(* or of the thumbnail, that was not committed beside a collector.          *)
THEOREM ContentIsKept == Spec => []ContentKept
<1>1. IInv => ContentKept
  BY DEF IInv
<1> QED BY <1>1, Invariant, PTL

(* AnswerTellsOutcome of Deployments: success is answered exactly when the  *)
(* database confirmed the COMMIT, whatever is cancelled when.               *)
THEOREM AnswersTellOutcomes == Spec => []AnswerTellsOutcome
<1>1. IInv => AnswerTellsOutcome
  BY DEF IInv, EachSound, Sound, Tells, AnswerTellsOutcome, At
<1> QED BY <1>1, Invariant, PTL

(* FilesOutliveReaders of Deployments: an answered request has no worker    *)
(* left that reads one of its files.                                        *)
THEOREM ReadersAreDone == Spec => []FilesOutliveReaders
<1>1. IInv => FilesOutliveReaders
  BY DEF IInv, EachSound, Sound, Runs, FilesOutliveReaders, At, Working, Reading
<1> QED BY <1>1, Invariant, PTL

(* NoConnectionLeaks of Deployments: the pool is never exceeded, and what   *)
(* is checked out belongs to a transaction that runs.                       *)
THEOREM ConnectionsAreReturned == Spec => []NoConnectionLeaks
<1>1. IInv => NoConnectionLeaks
  BY DEF IInv, Held, EachSound, Sound, Connects, NoConnectionLeaks
<1> QED BY <1>1, Invariant, PTL
=============================================================================
