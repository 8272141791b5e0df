------------------------- MODULE Permissions_proofs -------------------------
(***************************************************************************)
(* The events of the grants match their rows, a grant widens only when that *)
(* was asked for, and an undeployment was allowed, for any number of        *)
(* requests, wallets, scenes and parcels.                                   *)
(***************************************************************************)
EXTENDS Permissions, FiniteSetTheorems, TLAPS

-----------------------------------------------------------------------------
(* The invariant                                                            *)

\* What a request is about, at each of its statements.
StagesOf(op) ==
    CASE op = "grant" -> {"insert", "clear", "commit", "granted"}
      [] op = "revoke" -> {"revoke", "cascade", "revoked"}
      [] op = "set" -> {"read", "revoke", "cascade", "revoked", "insert", "clear", "commit", "granted"}
      [] op = "add" -> {"select", "write", "parcels", "commit", "granted"}
      [] op = "remove" -> {"select", "delete", "touch", "commit"}
      [] op = "undeploy" -> {"footprint", "wide", "record", "count", "undeploy"}
      [] op = "deploy" -> {}
      [] op = "none" -> {"idle"}

Staged(q) ==
    /\ q.pc \in StagesOf(q.op)
    /\ q.list # {} => q.op = "set"
    /\ q.row # "none" => q.op \in {"add", "remove", "undeploy"}
    /\ q.op \in {"add", "undeploy"} => \E w \in Wallets : q.wallets = {w}
    /\ q.op = "add" => q.area # {}

\* The locks of a transaction are on rows that are, or are not yet, committed, ...
Locks(q, ws) ==
    /\ q.inserted \subseteq q.wallets \ ws /\ (q.inserted # {} => q.pc \in {"clear", "parcels", "commit"} /\ q.op # "remove")
    /\ q.locked \subseteq ws /\ (q.locked # {} => q.pc \in {"parcels", "commit"})
    /\ q.removed \subseteq ws /\ (q.removed # {} => q.pc = "cascade")
    /\ q.row = "live" => q.wallets \subseteq ws

\* ... and its parcels those of its wallets; new ones belong to a row that stays.
Writes(q) ==
    /\ Of(q.deleted) \subseteq q.wallets /\ (q.deleted # {} => q.pc \in {"touch", "commit"} /\ q.op # "add")
    /\ Of(q.added) \subseteq q.wallets /\ (q.added # {} => q.pc = "commit" /\ q.op = "add")
    /\ q.op = "add" /\ q.pc = "parcels" => q.row = "gone" \/ q.wallets \in {q.locked, q.inserted}
    /\ q.op = "add" /\ q.pc = "commit"
         => q.wallets = q.locked \/ (q.wallets = q.inserted /\ q.wallets \subseteq Of(q.added))

\* What is allowed now has been allowed, and an undeployment about to happen was.
Checks(q, ws, rows) ==
    q.op = "undeploy" /\ q.pc # "footprint" =>
        /\ \A e \in q.seen : ParcelsOf[e] \subseteq q.area
        /\ (q.pc = "undeploy" \/ \E w \in q.wallets : Allows(ws, rows, w, q.area)) => q.held

Sound(q, ws, rows) == q \in Request /\ Staged(q) /\ Locks(q, ws) /\ Writes(q) /\ Checks(q, ws, rows)

EachSound == req \in [Requests -> Request] /\ \A r \in Requests : Sound(req[r], exists, parcelRows)

\* Two transactions never hold the same row.
Apart(q, s) == q.inserted \cap s.inserted = {} /\ q.removed \cap (s.removed \cup s.locked) = {}
Exclusive == \A r, s \in Requests : r # s => Apart(req[r], req[s])

IInv == TypeOK /\ EachSound /\ Exclusive /\ EventsMatchRows

-----------------------------------------------------------------------------
(* Requests that hold nothing                                               *)

Bare(q) == q.inserted = {} /\ q.locked = {} /\ q.removed = {} /\ q.deleted = {} /\ q.added = {}

LEMMA OfEmpty == Of({}) = {}
  BY DEF Of

LEMMA FreshSound ==
    ASSUME NEW ws, NEW rows
    PROVE  Sound(Fresh, ws, rows) /\ Bare(Fresh) /\ Fresh.pc = "idle" /\ Fresh \in Request
<1>1. Fresh \in Request /\ Bare(Fresh)
  BY DEF Fresh, Request, Stages, AllOperations, Bare
<1>2. Fresh.pc = "idle" /\ Fresh.op = "none" /\ Fresh.row = "none" /\ Fresh.list = {}
  BY DEF Fresh
<1> QED BY <1>1, <1>2, OfEmpty DEF Sound, Staged, StagesOf, Locks, Writes, Checks, Bare

(* What comes after a statement: the wallets to add, or the end.            *)
LEMMA ThenSound ==
    ASSUME NEW ws, NEW rows, NEW q \in Request, Bare(q), q.list # {} => q.op = "set",
           q.op = "set" => q.row = "none"
    PROVE  Sound(Then(q), ws, rows) /\ Bare(Then(q)) /\ Then(q).pc \in {"idle", "insert"}
<1>1. CASE q.list = {}
  BY <1>1, FreshSound DEF Then
<1>2. CASE q.list # {}
  <2> DEFINE s == Then(q)
  <2>1. /\ s \in Request /\ s.pc = "insert" /\ s.op = "set" /\ s.row = "none" /\ s.list = {} /\ Bare(s)
    BY <1>2 DEF Then, Request, Stages, Bare
  <2> HIDE DEF s
  <2>2. Sound(s, ws, rows)
    BY <2>1, OfEmpty DEF Sound, Staged, StagesOf, Locks, Writes, Checks, Bare
  <2> QED BY <2>1, <2>2 DEF s
<1> QED BY <1>1, <1>2

-----------------------------------------------------------------------------
(* Steps that change nothing but a request                                  *)

\* Those at which there is something to announce.
Telling == {"granted", "revoked"}

ApartFromOthers(r, q) == \A s \in Requests \ {r} : Apart(q, req[s]) /\ Apart(req[s], q)

Quietly(r) ==
    \E q : /\ Only(r, q) /\ Sound(q, exists, parcelRows) /\ ApartFromOthers(r, q)
          /\ q.pc \notin Telling /\ req[r].pc \notin Telling

LEMMA RequestFacts ==
    ASSUME IInv, NEW r \in Requests
    PROVE  req[r] \in Request /\ Sound(req[r], exists, parcelRows) /\ ApartFromOthers(r, req[r])
  BY DEF IInv, EachSound, Exclusive, ApartFromOthers

(* Who takes no further lock stays apart from the others.                   *)
LEMMA FewerLocks ==
    ASSUME IInv, NEW r \in Requests, NEW q, q.inserted \subseteq req[r].inserted,
           q.locked \subseteq req[r].locked, q.removed \subseteq req[r].removed
    PROVE  ApartFromOthers(r, q)
  BY RequestFacts DEF ApartFromOthers, Apart

LEMMA BareApart ==
    ASSUME NEW r \in Requests, NEW q, Bare(q)
    PROVE  ApartFromOthers(r, q)
  BY DEF ApartFromOthers, Apart, Bare

LEMMA AbortQuietly ==
    ASSUME IInv, NEW r \in Requests, Abort(r), req[r].pc \notin Telling
    PROVE  Quietly(r)
  BY FreshSound, BareApart DEF Abort, Quietly, Telling

(* What a statement that is executed does not have to wait for.             *)
LEMMA Free ==
    ASSUME NEW r \in Requests, Waits(r) = {}, NEW s \in Requests \ {r}
    PROVE  /\ req[r].pc = "insert" => req[r].wallets \cap (req[s].inserted \cup req[s].removed) = {}
           /\ req[r].pc = "revoke" => req[r].wallets \cap exists \cap (req[s].locked \cup req[s].removed) = {}
           /\ req[r].pc = "write" /\ req[r].row = "none"
                => req[r].wallets \cap (req[s].inserted \cup req[s].removed) = {}
           /\ req[r].pc \in {"write", "touch"} /\ req[r].row = "live" => req[r].wallets \cap req[s].removed = {}
  BY DEF Waits

LEMMA BeginQuietly ==
    ASSUME IInv, NEW r \in Requests, Begin(r)
    PROVE  Quietly(r)
<1>1. ASSUME NEW q \in Request, Only(r, q), Bare(q), Sound(q, exists, parcelRows), q.pc \notin Telling, At(r, "idle")
      PROVE  Quietly(r)
  BY <1>1, BareApart DEF Quietly, Telling, At
<1>2. CASE BeginGrant(r)
  <2>1. PICK w \in Wallets : Only(r, [Fresh EXCEPT !.op = "grant", !.pc = "insert", !.wallets = {w}])
    BY <1>2 DEF BeginGrant
  <2> DEFINE q == [Fresh EXCEPT !.op = "grant", !.pc = "insert", !.wallets = {w}]
  <2>2. /\ q \in Request /\ Bare(q) /\ q.op = "grant" /\ q.pc = "insert" /\ q.row = "none" /\ q.list = {}
    BY DEF Fresh, Request, Stages, AllOperations, Bare
  <2>3. Only(r, q)
    BY <2>1
  <2> HIDE DEF q
  <2>4. Sound(q, exists, parcelRows)
    BY <2>2, OfEmpty DEF Sound, Staged, StagesOf, Locks, Writes, Checks, Bare
  <2> QED BY <1>1, <1>2, <2>2, <2>3, <2>4 DEF BeginGrant, Telling
<1>3. CASE BeginRevoke(r)
  <2>1. PICK w \in Wallets : Only(r, [Fresh EXCEPT !.op = "revoke", !.pc = "revoke", !.wallets = {w}])
    BY <1>3 DEF BeginRevoke
  <2> DEFINE q == [Fresh EXCEPT !.op = "revoke", !.pc = "revoke", !.wallets = {w}]
  <2>2. /\ q \in Request /\ Bare(q) /\ q.op = "revoke" /\ q.pc = "revoke" /\ q.row = "none" /\ q.list = {}
    BY DEF Fresh, Request, Stages, AllOperations, Bare
  <2>3. Only(r, q)
    BY <2>1
  <2> HIDE DEF q
  <2>4. Sound(q, exists, parcelRows)
    BY <2>2, OfEmpty DEF Sound, Staged, StagesOf, Locks, Writes, Checks, Bare
  <2> QED BY <1>1, <1>3, <2>2, <2>3, <2>4 DEF BeginRevoke, Telling
<1>4. CASE BeginSet(r)
  <2>1. PICK list \in SUBSET Wallets : Only(r, [Fresh EXCEPT !.op = "set", !.pc = "read", !.list = list])
    BY <1>4 DEF BeginSet
  <2> DEFINE q == [Fresh EXCEPT !.op = "set", !.pc = "read", !.list = list]
  <2>2. /\ q \in Request /\ Bare(q) /\ q.op = "set" /\ q.pc = "read" /\ q.row = "none"
    BY DEF Fresh, Request, Stages, AllOperations, Bare
  <2>3. Only(r, q)
    BY <2>1
  <2> HIDE DEF q
  <2>4. Sound(q, exists, parcelRows)
    BY <2>2, OfEmpty DEF Sound, Staged, StagesOf, Locks, Writes, Checks, Bare
  <2> QED BY <1>1, <1>4, <2>2, <2>3, <2>4 DEF BeginSet, Telling
<1>5. CASE BeginParcels(r)
  <2>1. PICK op \in {"add", "remove"}, w \in Wallets, area \in (SUBSET Parcels) \ {{}} :
           Only(r, [Fresh EXCEPT !.op = op, !.pc = "select", !.wallets = {w}, !.area = area])
    BY <1>5 DEF BeginParcels
  <2> DEFINE q == [Fresh EXCEPT !.op = op, !.pc = "select", !.wallets = {w}, !.area = area]
  <2>2. /\ q \in Request /\ Bare(q) /\ q.op \in {"add", "remove"} /\ q.pc = "select" /\ q.row = "none"
        /\ q.list = {} /\ q.wallets = {w} /\ q.area # {}
    BY DEF Fresh, Request, Stages, AllOperations, Bare
  <2>3. Only(r, q)
    BY <2>1
  <2> HIDE DEF q
  <2>4. Sound(q, exists, parcelRows)
    BY <2>2, OfEmpty DEF Sound, Staged, StagesOf, Locks, Writes, Checks, Bare
  <2> QED BY <1>1, <1>5, <2>2, <2>3, <2>4 DEF BeginParcels, Telling
<1>6. CASE BeginUndeploy(r)
  <2>1. PICK w \in Wallets, p \in Parcels :
           Only(r, [Fresh EXCEPT !.op = "undeploy", !.pc = "footprint", !.wallets = {w}, !.target = {p}])
    BY <1>6 DEF BeginUndeploy
  <2> DEFINE q == [Fresh EXCEPT !.op = "undeploy", !.pc = "footprint", !.wallets = {w}, !.target = {p}]
  <2>2. /\ q \in Request /\ Bare(q) /\ q.op = "undeploy" /\ q.pc = "footprint" /\ q.row = "none"
        /\ q.list = {} /\ q.wallets = {w}
    BY DEF Fresh, Request, Stages, AllOperations, Bare
  <2>3. Only(r, q)
    BY <2>1
  <2> HIDE DEF q
  <2>4. Sound(q, exists, parcelRows)
    BY <2>2, OfEmpty DEF Sound, Staged, StagesOf, Locks, Writes, Checks, Bare
  <2> QED BY <1>1, <1>6, <2>2, <2>3, <2>4 DEF BeginUndeploy, Telling
<1> QED BY <1>2, <1>3, <1>4, <1>5, <1>6 DEF Begin

-----------------------------------------------------------------------------
(* The statements that write nothing committed                              *)

LEMMA InsertAddressesQuietly ==
    ASSUME IInv, NEW r \in Requests, InsertAddresses(r)
    PROVE  Quietly(r)
<1> req[r] \in Request /\ Sound(req[r], exists, parcelRows)
  BY RequestFacts
<1> DEFINE q == [req[r] EXCEPT !.pc = "clear", !.inserted = req[r].wallets \ exists]
<1>1. req[r].pc = "insert" /\ Waits(r) = {} /\ Only(r, q)
  BY DEF InsertAddresses, Ready, At
<1>2. /\ q \in Request /\ q.pc = "clear" /\ q.inserted = q.wallets \ exists /\ q.wallets = req[r].wallets
      /\ q.op = req[r].op /\ q.list = req[r].list /\ q.row = req[r].row /\ q.locked = req[r].locked
      /\ q.removed = req[r].removed /\ q.deleted = req[r].deleted /\ q.added = req[r].added
  BY DEF Request, Stages
<1> HIDE DEF q
<1>3. Sound(q, exists, parcelRows)
  BY <1>1, <1>2 DEF Sound, Staged, StagesOf, Locks, Writes, Checks, Request, AllOperations
<1>4. ASSUME NEW s \in Requests \ {r} PROVE Apart(q, req[s]) /\ Apart(req[s], q)
  <2>1. q.wallets \cap req[s].inserted = {}
    BY <1>1, <1>2, Free
  <2>2. Apart(req[r], req[s]) /\ Apart(req[s], req[r])
    BY RequestFacts DEF ApartFromOthers
  <2> QED BY <1>2, <2>1, <2>2 DEF Apart
<1> QED BY <1>1, <1>2, <1>3, <1>4 DEF Quietly, Telling, ApartFromOthers

LEMMA ClearParcelsQuietly ==
    ASSUME IInv, NEW r \in Requests, ClearParcels(r)
    PROVE  Quietly(r)
<1> req[r] \in Request /\ Sound(req[r], exists, parcelRows)
  BY RequestFacts
<1> DEFINE q == [req[r] EXCEPT !.pc = "commit", !.deleted = Matched(r)]
<1>1. req[r].pc = "clear" /\ Only(r, q)
  BY DEF ClearParcels, Ready, At
<1>2. Matched(r) \subseteq Wallets \X Parcels /\ Of(Matched(r)) \subseteq req[r].wallets
  BY DEF Matched, Of, IInv, TypeOK
<1>3. /\ q \in Request /\ q.pc = "commit" /\ q.inserted = req[r].inserted /\ q.wallets = req[r].wallets
      /\ q.op = req[r].op /\ q.list = req[r].list /\ q.row = req[r].row /\ q.locked = req[r].locked
      /\ q.removed = req[r].removed /\ q.deleted = Matched(r) /\ q.added = req[r].added
  BY <1>2 DEF Request, Stages
<1> HIDE DEF q
<1>4. Sound(q, exists, parcelRows)
  BY <1>1, <1>2, <1>3 DEF Sound, Staged, StagesOf, Locks, Writes, Checks, Request, AllOperations
<1>5. ApartFromOthers(r, q)
  BY <1>3, FewerLocks
<1> QED BY <1>1, <1>3, <1>4, <1>5 DEF Quietly, Telling

LEMMA RevokeRowsQuietly ==
    ASSUME IInv, NEW r \in Requests, RevokeRows(r)
    PROVE  Quietly(r)
<1> req[r] \in Request /\ Sound(req[r], exists, parcelRows)
  BY RequestFacts
<1> DEFINE q == [req[r] EXCEPT !.pc = "cascade", !.removed = req[r].wallets \cap exists]
<1>1. req[r].pc = "revoke" /\ Waits(r) = {} /\ Only(r, q)
  BY DEF RevokeRows, Ready, At
<1>2. /\ q \in Request /\ q.pc = "cascade" /\ q.inserted = req[r].inserted /\ q.wallets = req[r].wallets
      /\ q.op = req[r].op /\ q.list = req[r].list /\ q.row = req[r].row /\ q.locked = req[r].locked
      /\ q.removed = req[r].wallets \cap exists /\ q.deleted = req[r].deleted /\ q.added = req[r].added
  BY DEF Request, Stages
<1> HIDE DEF q
<1>3. Sound(q, exists, parcelRows)
  BY <1>1, <1>2 DEF Sound, Staged, StagesOf, Locks, Writes, Checks, Request, AllOperations
<1>4. ASSUME NEW s \in Requests \ {r} PROVE Apart(q, req[s]) /\ Apart(req[s], q)
  <2>1. q.removed \cap (req[s].removed \cup req[s].locked) = {}
    BY <1>1, <1>2, Free
  <2>2. Apart(req[r], req[s]) /\ Apart(req[s], req[r])
    BY RequestFacts DEF ApartFromOthers
  <2>3. req[r].locked = {}
    BY <1>1 DEF Sound, Locks
  <2> QED BY <1>2, <2>1, <2>2, <2>3 DEF Apart
<1> QED BY <1>1, <1>2, <1>3, <1>4 DEF Quietly, Telling, ApartFromOthers

LEMMA ReadCurrentQuietly ==
    ASSUME IInv, NEW r \in Requests, ReadCurrent(r)
    PROVE  Quietly(r)
<1> req[r] \in Request /\ Sound(req[r], exists, parcelRows)
  BY RequestFacts
<1> DEFINE q == [req[r] EXCEPT !.wallets = exists \ req[r].list, !.list = @ \ exists]
<1>1. /\ req[r].pc = "read"
      /\ Only(r, IF q.wallets = {} THEN Then(q) ELSE [q EXCEPT !.pc = "revoke"])
  BY DEF ReadCurrent, At
<1>2. /\ req[r].op = "set" /\ Bare(req[r]) /\ req[r].row = "none"
  BY <1>1, OfEmpty DEF Sound, Staged, StagesOf, Locks, Writes, Checks, Request, AllOperations, Bare
<1>3. q \in Request /\ Bare(q) /\ q.op = "set" /\ q.row = "none"
  BY <1>2 DEF Request, Bare, IInv, TypeOK
<1> HIDE DEF q
<1>4. CASE q.wallets = {}
  BY <1>1, <1>3, <1>4, ThenSound, BareApart DEF Quietly, Telling
<1>5. CASE q.wallets # {}
  <2> DEFINE s == [q EXCEPT !.pc = "revoke"]
  <2>1. s \in Request /\ Bare(s) /\ s.op = "set" /\ s.row = "none" /\ s.pc = "revoke"
    BY <1>3 DEF Request, Stages, Bare
  <2>2. Only(r, s)
    BY <1>1, <1>5
  <2> HIDE DEF s
  <2>3. Sound(s, exists, parcelRows)
    BY <2>1, OfEmpty DEF Sound, Staged, StagesOf, Locks, Writes, Checks, Bare
  <2> QED BY <1>1, <2>1, <2>2, <2>3, BareApart DEF Quietly, Telling
<1> QED BY <1>4, <1>5

LEMMA SelectRowQuietly ==
    ASSUME IInv, NEW r \in Requests, SelectRow(r)
    PROVE  Quietly(r)
<1> req[r] \in Request /\ Sound(req[r], exists, parcelRows)
  BY RequestFacts
<1> DEFINE row == IF req[r].wallets \subseteq exists THEN "live" ELSE "none"
           q == [req[r] EXCEPT !.row = row]
           s == [q EXCEPT !.pc = IF req[r].op = "add" THEN "write" ELSE "delete"]
<1>1. req[r].pc = "select" /\ req[r].op \in {"add", "remove"} /\ Bare(req[r])
  BY OfEmpty DEF SelectRow, At, Sound, Staged, StagesOf, Locks, Writes, Checks, Request, AllOperations, Bare
<1>2. /\ q \in Request /\ q.op = req[r].op
  BY DEF Request
<1>a. row \in {"live", "none"} /\ (row = "live" => req[r].wallets \subseteq exists)
  OBVIOUS
<1> HIDE DEF row
<1>3. /\ s \in Request /\ s.op = req[r].op /\ Bare(s) /\ s.row = row /\ s.wallets = req[r].wallets
      /\ s.area = req[r].area /\ s.list = req[r].list
      /\ s.pc = IF req[r].op = "add" THEN "write" ELSE "delete"
  BY <1>1, <1>a DEF Request, Stages, Bare
<1>4. Only(r, s) \/ Abort(r)
  <2>1. CASE req[r].op = "add"
    BY <1>2, <2>1 DEF SelectRow, row
  <2>2. CASE req[r].op = "remove"
    BY <1>2, <2>2 DEF SelectRow, row
  <2> QED BY <1>1, <2>1, <2>2
<1>5. s.row = "live" => s.wallets \subseteq exists
  BY <1>3, <1>a
<1> HIDE DEF s
<1>6. Sound(s, exists, parcelRows)
  BY <1>1, <1>3, <1>5, OfEmpty DEF Sound, Staged, StagesOf, Locks, Writes, Checks, Bare
<1>7. s.pc \notin Telling /\ req[r].pc \notin Telling
  BY <1>1, <1>3 DEF Telling
<1> QED BY <1>3, <1>4, <1>6, <1>7, AbortQuietly, BareApart DEF Quietly

LEMMA WriteRowQuietly ==
    ASSUME IInv, NEW r \in Requests, WriteRow(r)
    PROVE  Quietly(r)
<1> req[r] \in Request /\ Sound(req[r], exists, parcelRows)
  BY RequestFacts
<1> DEFINE w == req[r].wallets
<1>1. req[r].pc = "write" /\ Waits(r) = {}
  BY DEF WriteRow, Ready, At
<1>2. req[r].op = "add" /\ Bare(req[r]) /\ req[r].area # {} /\ req[r].list = {}
      /\ \E x \in Wallets : w = {x}
  BY <1>1, OfEmpty DEF Sound, Staged, StagesOf, Locks, Writes, Checks, Request, AllOperations, Bare
<1>3. req[r].pc \notin Telling
  BY <1>1 DEF Telling
<1>4. ASSUME NEW inserted \in SUBSET w, NEW locked \in SUBSET w,
             Only(r, [req[r] EXCEPT !.pc = "parcels", !.inserted = inserted, !.locked = locked]),
             \/ req[r].row = "none" /\ inserted = w /\ locked = {} /\ ~(w \subseteq exists)
             \/ req[r].row = "live" /\ inserted = {} /\ locked = w
             \/ req[r].row = "gone" /\ inserted = {} /\ locked = {}
      PROVE  Quietly(r)
  <2> DEFINE q == [req[r] EXCEPT !.pc = "parcels", !.inserted = inserted, !.locked = locked]
  <2>1. /\ q \in Request /\ q.pc = "parcels" /\ q.inserted = inserted /\ q.wallets = w /\ q.area # {}
        /\ q.op = "add" /\ q.list = {} /\ q.row = req[r].row /\ q.locked = locked
        /\ q.removed = {} /\ q.deleted = {} /\ q.added = {}
    BY <1>2 DEF Request, Stages, Bare
  <2>2. Only(r, q)
    BY <1>4
  <2> HIDE DEF q
  <2>3. req[r].row = "live" => w \subseteq exists
    BY DEF Sound, Locks
  <2>4. Locks(q, exists)
    BY <1>2, <1>4, <2>1, <2>3 DEF Locks
  <2>5. Sound(q, exists, parcelRows)
    BY <1>2, <1>4, <2>1, <2>4, OfEmpty DEF Sound, Staged, StagesOf, Writes, Checks
  <2>6. ASSUME NEW s \in Requests \ {r} PROVE Apart(q, req[s]) /\ Apart(req[s], q)
    <3>1. req[r].row = "none" => w \cap req[s].inserted = {}
      BY <1>1, Free
    <3>2. req[r].row = "live" => w \cap req[s].removed = {}
      BY <1>1, Free
    <3> QED BY <1>4, <2>1, <3>1, <3>2 DEF Apart
  <2> QED BY <1>3, <2>1, <2>2, <2>5, <2>6 DEF Quietly, ApartFromOthers, Telling
<1>5. CASE req[r].row = "none" /\ w \subseteq exists
  BY <1>3, <1>5, AbortQuietly DEF WriteRow
<1>6. CASE req[r].row = "none" /\ ~(w \subseteq exists)
  <2>1. Only(r, [req[r] EXCEPT !.pc = "parcels", !.inserted = w])
    BY <1>6 DEF WriteRow
  <2>2. [req[r] EXCEPT !.pc = "parcels", !.inserted = w] = [req[r] EXCEPT !.pc = "parcels", !.inserted = w, !.locked = {}]
    BY <1>2 DEF Request, Bare
  <2> QED BY <1>4, <1>6, <2>1, <2>2
<1>7. CASE req[r].row = "live"
  <2>1. Only(r, [req[r] EXCEPT !.pc = "parcels", !.locked = w])
    BY <1>7 DEF WriteRow
  <2>2. [req[r] EXCEPT !.pc = "parcels", !.locked = w] = [req[r] EXCEPT !.pc = "parcels", !.inserted = {}, !.locked = w]
    BY <1>2 DEF Request, Bare
  <2> QED BY <1>4, <1>7, <2>1, <2>2
<1>8. CASE req[r].row = "gone"
  <2>1. Only(r, [req[r] EXCEPT !.pc = "parcels"])
    BY <1>8 DEF WriteRow
  <2>2. [req[r] EXCEPT !.pc = "parcels"] = [req[r] EXCEPT !.pc = "parcels", !.inserted = {}, !.locked = {}]
    BY <1>2 DEF Request, Bare
  <2> QED BY <1>4, <1>8, <2>1, <2>2
<1> QED BY <1>5, <1>6, <1>7, <1>8 DEF Request

LEMMA AddParcelsQuietly ==
    ASSUME IInv, NEW r \in Requests, AddParcels(r)
    PROVE  Quietly(r)
<1> req[r] \in Request /\ Sound(req[r], exists, parcelRows)
  BY RequestFacts
<1> DEFINE added == (req[r].wallets \X req[r].area) \ parcelRows
           q == [req[r] EXCEPT !.pc = "commit", !.added = added]
<1>1. req[r].pc = "parcels" /\ (Abort(r) \/ (req[r].row # "gone" /\ Only(r, q)))
  BY DEF AddParcels, Ready, At
<1>2. req[r].op = "add" /\ req[r].area # {}
  BY <1>1 DEF Sound, Staged, StagesOf, Locks, Writes, Checks, Request, AllOperations
<1>3. /\ q \in Request /\ q.pc = "commit" /\ q.inserted = req[r].inserted /\ q.wallets = req[r].wallets
      /\ q.op = req[r].op /\ q.list = req[r].list /\ q.row = req[r].row /\ q.locked = req[r].locked
      /\ q.removed = req[r].removed /\ q.deleted = req[r].deleted /\ q.added = added /\ q.area = req[r].area
  <2>1. added \subseteq Wallets \X Parcels
    BY DEF Request
  <2> HIDE DEF added
  <2> QED BY <2>1 DEF Request, Stages
<1>4. Of(added) \subseteq req[r].wallets
  BY DEF Of
<1>5. req[r].wallets \cap exists = {} => req[r].wallets \subseteq Of(added)
  <2> SUFFICES ASSUME req[r].wallets \cap exists = {}, NEW w \in req[r].wallets PROVE w \in Of(added)
    OBVIOUS
  <2>1. PICK p \in req[r].area : TRUE
    BY <1>2
  <2>2. <<w, p>> \notin parcelRows
    BY DEF IInv, TypeOK
  <2>3. <<w, p>> \in added
    BY <2>1, <2>2
  <2> QED BY <2>3 DEF Of
<1> HIDE DEF q, added
<1>6. req[r].row # "gone" => Sound(q, exists, parcelRows)
  BY <1>1, <1>2, <1>3, <1>4, <1>5 DEF Sound, Staged, StagesOf, Locks, Writes, Checks
<1>7. ApartFromOthers(r, q)
  BY <1>3, FewerLocks
<1>8. q.pc \notin Telling /\ req[r].pc \notin Telling
  BY <1>1, <1>3 DEF Telling
<1> QED BY <1>1, <1>6, <1>7, <1>8, AbortQuietly DEF Quietly

LEMMA DeleteParcelsQuietly ==
    ASSUME IInv, NEW r \in Requests, DeleteParcels(r)
    PROVE  Quietly(r)
<1> req[r] \in Request /\ Sound(req[r], exists, parcelRows)
  BY RequestFacts
<1> DEFINE q == [req[r] EXCEPT !.pc = "touch", !.deleted = Matched(r)]
<1>1. req[r].pc = "delete" /\ Only(r, q)
  BY DEF DeleteParcels, Ready, At
<1>2. Matched(r) \subseteq Wallets \X Parcels /\ Of(Matched(r)) \subseteq req[r].wallets
  BY DEF Matched, Of, IInv, TypeOK
<1>3. /\ q \in Request /\ q.pc = "touch" /\ q.inserted = req[r].inserted /\ q.wallets = req[r].wallets
      /\ q.op = req[r].op /\ q.list = req[r].list /\ q.row = req[r].row /\ q.locked = req[r].locked
      /\ q.removed = req[r].removed /\ q.deleted = Matched(r) /\ q.added = req[r].added
  BY <1>2 DEF Request, Stages
<1> HIDE DEF q
<1>4. Sound(q, exists, parcelRows)
  BY <1>1, <1>2, <1>3 DEF Sound, Staged, StagesOf, Locks, Writes, Checks, Request, AllOperations
<1>5. ApartFromOthers(r, q)
  BY <1>3, FewerLocks
<1> QED BY <1>1, <1>3, <1>4, <1>5 DEF Quietly, Telling

LEMMA TouchRowQuietly ==
    ASSUME IInv, NEW r \in Requests, TouchRow(r)
    PROVE  Quietly(r)
<1> req[r] \in Request /\ Sound(req[r], exists, parcelRows)
  BY RequestFacts
<1> DEFINE locked == IF req[r].row = "live" THEN req[r].wallets ELSE {}
           q == [req[r] EXCEPT !.pc = "commit", !.locked = locked]
<1>1. req[r].pc = "touch" /\ Waits(r) = {} /\ Only(r, q)
  BY DEF TouchRow, Ready, At
<1>2. /\ q \in Request /\ q.pc = "commit" /\ q.inserted = req[r].inserted /\ q.wallets = req[r].wallets
      /\ q.op = req[r].op /\ q.list = req[r].list /\ q.row = req[r].row /\ q.locked = locked
      /\ q.removed = req[r].removed /\ q.deleted = req[r].deleted /\ q.added = req[r].added
  BY DEF Request, Stages
<1> HIDE DEF q
<1>3. Sound(q, exists, parcelRows)
  BY <1>1, <1>2 DEF Sound, Staged, StagesOf, Locks, Writes, Checks, Request, AllOperations
<1>4. ASSUME NEW s \in Requests \ {r} PROVE Apart(q, req[s]) /\ Apart(req[s], q)
  <2>1. locked \cap req[s].removed = {}
    BY <1>1, Free
  <2>2. Apart(req[r], req[s]) /\ Apart(req[s], req[r])
    BY RequestFacts DEF ApartFromOthers
  <2> QED BY <1>2, <2>1, <2>2 DEF Apart
<1> QED BY <1>1, <1>2, <1>3, <1>4 DEF Quietly, Telling, ApartFromOthers

-----------------------------------------------------------------------------
(* The checks of an undeployment                                            *)

(* The scenes that stand on a parcel lie inside its footprint.              *)
LEMMA FootprintCovers ==
    ASSUME IInv, NEW p \in Parcels
    PROVE  /\ Footprint(p) \subseteq Parcels /\ Map!Standing({p}, deployed) \subseteq Scenes
           /\ \A e \in Map!Standing({p}, deployed) : ParcelsOf[e] \subseteq Footprint(p)
<1> DEFINE standing == Map!Standing({p}, deployed)
           all == UNION {ParcelsOf[e] : e \in standing}
<1>1. standing \subseteq Scenes
  BY DEF Map!Standing, IInv, TypeOK
<1>2. all \subseteq Parcels /\ \A e \in standing : ParcelsOf[e] \subseteq all
  BY <1>1, PermissionsAssumption
<1>3. Footprint(p) = IF all = {} THEN {p} ELSE all
  BY DEF Footprint
<1> HIDE DEF all, standing
<1>4. Footprint(p) \subseteq Parcels /\ \A e \in standing : ParcelsOf[e] \subseteq Footprint(p)
  BY <1>2, <1>3
<1> QED BY <1>1, <1>4 DEF standing

(* A request for an undeployment holds nothing.                             *)
LEMMA UndeployFacts ==
    ASSUME IInv, NEW r \in Requests, req[r].pc \in {"footprint", "wide", "record", "count", "undeploy"}
    PROVE  /\ req[r] \in Request /\ req[r].op = "undeploy" /\ Bare(req[r]) /\ req[r].list = {}
           /\ \E w \in Wallets : req[r].wallets = {w}
           /\ req[r].row = "live" => req[r].wallets \subseteq exists
           /\ Checks(req[r], exists, parcelRows) /\ req[r].pc \notin Telling
<1> req[r] \in Request /\ Sound(req[r], exists, parcelRows)
  BY RequestFacts
<1> QED BY OfEmpty DEF Sound, Staged, StagesOf, Locks, Writes, Checks, Request, AllOperations, Bare, Telling

LEMMA UndeploySound ==
    ASSUME NEW q \in Request, q.op = "undeploy", q.pc \in {"footprint", "wide", "record", "count", "undeploy"},
           Bare(q), q.list = {}, \E w \in Wallets : q.wallets = {w},
           q.row = "live" => q.wallets \subseteq exists, Checks(q, exists, parcelRows)
    PROVE  Sound(q, exists, parcelRows) /\ q.pc \notin Telling
  BY OfEmpty DEF Sound, Staged, StagesOf, Locks, Writes, Bare, Telling

LEMMA ReadFootprintQuietly ==
    ASSUME IInv, NEW r \in Requests, ReadFootprint(r)
    PROVE  Quietly(r)
<1>1. PICK w \in req[r].wallets, p \in req[r].target :
         Only(r, [req[r] EXCEPT !.pc = "wide", !.area = Footprint(p), !.seen = Map!Standing({p}, deployed),
                                !.held = Allows(exists, parcelRows, w, Footprint(p))])
  BY DEF ReadFootprint
<1> DEFINE held == Allows(exists, parcelRows, w, Footprint(p))
           q == [req[r] EXCEPT !.pc = "wide", !.area = Footprint(p), !.seen = Map!Standing({p}, deployed),
                               !.held = held]
<1>2. req[r].pc = "footprint"
  BY DEF ReadFootprint, At
<1>3. /\ req[r] \in Request /\ req[r].op = "undeploy" /\ Bare(req[r]) /\ req[r].list = {}
      /\ \E x \in Wallets : req[r].wallets = {x}
      /\ req[r].row = "live" => req[r].wallets \subseteq exists
      /\ req[r].pc \notin Telling
  BY <1>2, UndeployFacts
<1>4. p \in Parcels /\ req[r].wallets = {w}
  BY <1>3 DEF Request
<1>5. Footprint(p) \subseteq Parcels /\ Map!Standing({p}, deployed) \subseteq Scenes
  BY <1>4, FootprintCovers
<1>6. held \in BOOLEAN
  BY DEF Allows
<1> HIDE DEF held
<1>7. /\ q \in Request /\ q.op = "undeploy" /\ q.pc = "wide" /\ Bare(q) /\ q.list = {} /\ q.wallets = req[r].wallets
      /\ q.row = req[r].row /\ q.area = Footprint(p) /\ q.seen = Map!Standing({p}, deployed) /\ q.held = held
  BY <1>3, <1>5, <1>6 DEF Request, Stages, Bare
<1>8. Only(r, q)
  BY <1>1 DEF held
<1> HIDE DEF q
<1>9. Checks(q, exists, parcelRows)
  BY <1>4, <1>7, FootprintCovers DEF Checks, held
<1> QED BY <1>3, <1>7, <1>8, <1>9, UndeploySound, BareApart DEF Quietly

LEMMA CheckWideQuietly ==
    ASSUME IInv, NEW r \in Requests, CheckWide(r)
    PROVE  Quietly(r)
<1>1. PICK w \in req[r].wallets :
         Only(r, [req[r] EXCEPT !.pc = IF WorldWide(w) THEN "undeploy" ELSE "record"])
  BY DEF CheckWide
<1> DEFINE pc == IF WorldWide(w) THEN "undeploy" ELSE "record"
           q == [req[r] EXCEPT !.pc = pc]
<1>2. req[r].pc = "wide"
  BY DEF CheckWide, At
<1>3. /\ req[r] \in Request /\ req[r].op = "undeploy" /\ Bare(req[r]) /\ req[r].list = {}
      /\ \E x \in Wallets : req[r].wallets = {x}
      /\ req[r].row = "live" => req[r].wallets \subseteq exists
      /\ req[r].pc \notin Telling /\ Checks(req[r], exists, parcelRows)
  BY <1>2, UndeployFacts
<1>4. pc \in {"undeploy", "record"} /\ (pc = "undeploy" => WorldWide(w))
  OBVIOUS
<1>5. WorldWide(w) => Allows(exists, parcelRows, w, req[r].area)
  BY DEF WorldWide, Allows
<1>6. Only(r, q)
  BY <1>1
<1> HIDE DEF pc
<1>7. /\ q \in Request /\ q.op = "undeploy" /\ q.pc = pc /\ Bare(q) /\ q.list = {} /\ q.wallets = req[r].wallets
      /\ q.row = req[r].row /\ q.area = req[r].area /\ q.seen = req[r].seen /\ q.held = req[r].held
  BY <1>3, <1>4 DEF Request, Stages, Bare
<1> HIDE DEF q
<1>8. Checks(q, exists, parcelRows)
  BY <1>2, <1>3, <1>4, <1>5, <1>7 DEF Checks
<1> QED BY <1>3, <1>4, <1>6, <1>7, <1>8, UndeploySound, BareApart DEF Quietly

LEMMA FindRecordQuietly ==
    ASSUME IInv, NEW r \in Requests, FindRecord(r)
    PROVE  Quietly(r)
<1> DEFINE q == [req[r] EXCEPT !.pc = "count", !.row = "live"]
<1>1. req[r].pc = "record" /\ (Abort(r) \/ (req[r].wallets \subseteq exists /\ Only(r, q)))
  BY DEF FindRecord, At
<1>2. /\ req[r] \in Request /\ req[r].op = "undeploy" /\ Bare(req[r]) /\ req[r].list = {}
      /\ \E x \in Wallets : req[r].wallets = {x}
      /\ req[r].pc \notin Telling /\ Checks(req[r], exists, parcelRows)
  BY <1>1, UndeployFacts
<1>3. /\ q \in Request /\ q.op = "undeploy" /\ q.pc = "count" /\ Bare(q) /\ q.list = {} /\ q.wallets = req[r].wallets
      /\ q.row = "live" /\ q.area = req[r].area /\ q.seen = req[r].seen /\ q.held = req[r].held
  BY <1>2 DEF Request, Stages, Bare
<1> HIDE DEF q
<1>4. Checks(q, exists, parcelRows)
  BY <1>1, <1>2, <1>3 DEF Checks
<1>5. CASE Abort(r)
  BY <1>2, <1>5, AbortQuietly
<1>6. CASE req[r].wallets \subseteq exists /\ Only(r, q)
  BY <1>2, <1>3, <1>4, <1>6, UndeploySound, BareApart DEF Quietly
<1> QED BY <1>1, <1>5, <1>6

LEMMA CountParcelsQuietly ==
    ASSUME IInv, NEW r \in Requests, CountParcels(r)
    PROVE  Quietly(r)
<1> DEFINE q == [req[r] EXCEPT !.pc = "undeploy"]
<1>1. req[r].pc = "count"
  BY DEF CountParcels, At
<1>2. PICK w \in req[r].wallets :
         \/ Abort(r)
         \/ req[r].row = "live" /\ req[r].area \subseteq ParcelsOfRow(w, parcelRows) /\ Only(r, q)
  BY DEF CountParcels
<1>3. /\ req[r] \in Request /\ req[r].op = "undeploy" /\ Bare(req[r]) /\ req[r].list = {}
      /\ \E x \in Wallets : req[r].wallets = {x}
      /\ req[r].row = "live" => req[r].wallets \subseteq exists
      /\ req[r].pc \notin Telling /\ Checks(req[r], exists, parcelRows)
  BY <1>1, UndeployFacts
<1>4. /\ q \in Request /\ q.op = "undeploy" /\ q.pc = "undeploy" /\ Bare(q) /\ q.list = {} /\ q.wallets = req[r].wallets
      /\ q.row = req[r].row /\ q.area = req[r].area /\ q.seen = req[r].seen /\ q.held = req[r].held
  BY <1>3 DEF Request, Stages, Bare
<1> HIDE DEF q
<1>5. CASE Abort(r)
  BY <1>3, <1>5, AbortQuietly
<1>6. CASE req[r].row = "live" /\ req[r].area \subseteq ParcelsOfRow(w, parcelRows) /\ Only(r, q)
  <2>1. Allows(exists, parcelRows, w, req[r].area)
    BY <1>3, <1>6 DEF Allows
  <2>2. Checks(q, exists, parcelRows)
    BY <1>1, <1>3, <1>4, <2>1 DEF Checks
  <2> QED BY <1>3, <1>4, <1>6, <2>2, UndeploySound, BareApart DEF Quietly
<1> QED BY <1>2, <1>5, <1>6

(* Whatever changes nothing but a request, its end by a failure included.   *)
LEMMA QuietSteps ==
    ASSUME IInv, NEW r \in Requests,
           \/ Begin(r) \/ InsertAddresses(r) \/ ClearParcels(r) \/ RevokeRows(r) \/ ReadCurrent(r) \/ SelectRow(r)
           \/ WriteRow(r) \/ AddParcels(r) \/ DeleteParcels(r) \/ TouchRow(r) \/ ReadFootprint(r) \/ CheckWide(r)
           \/ FindRecord(r) \/ CountParcels(r) \/ Fail(r) \/ DeadlockVictim(r)
    PROVE  Quietly(r)
<1>1. CASE Fail(r)
  BY <1>1, AbortQuietly DEF Fail, Telling
<1>2. CASE DeadlockVictim(r)
  <2>1. Waits(r) # {}
    BY <1>2 DEF DeadlockVictim
  <2>2. req[r].pc \notin Telling
    BY <2>1 DEF Waits, Telling
  <2> QED BY <1>2, <2>2, AbortQuietly DEF DeadlockVictim
<1> QED BY <1>1, <1>2, BeginQuietly, InsertAddressesQuietly, ClearParcelsQuietly, RevokeRowsQuietly, ReadCurrentQuietly,
           SelectRowQuietly, WriteRowQuietly, AddParcelsQuietly, DeleteParcelsQuietly, TouchRowQuietly,
           ReadFootprintQuietly, CheckWideQuietly, FindRecordQuietly, CountParcelsQuietly

-----------------------------------------------------------------------------
(* Events still to be sent                                                  *)

Tells(q, pc, w) == q.pc = pc /\ w \in q.told
Pending(pc, w) == {r \in Requests : Tells(req[r], pc, w)}
Matches(w) ==
    announced[w] + Cardinality(Pending("granted", w)) - Cardinality(Pending("revoked", w)) = IF w \in exists THEN 1 ELSE 0

LEMMA EventsMatch == EventsMatchRows <=> \A w \in Wallets : Matches(w)
  BY DEF EventsMatchRows, Matches, Pending, Tells, At

LEMMA EventsMatchAfter == (\A w \in Wallets : Matches(w)') => EventsMatchRows'
  BY DEF EventsMatchRows, Matches, Pending, Tells, At

LEMMA PendingFinite == \A pc, w : IsFiniteSet(Pending(pc, w)) /\ Cardinality(Pending(pc, w)) \in Nat
<1> SUFFICES ASSUME NEW pc, NEW w PROVE IsFiniteSet(Pending(pc, w)) /\ Cardinality(Pending(pc, w)) \in Nat
  OBVIOUS
<1>1. Pending(pc, w) \subseteq Requests
  BY DEF Pending
<1>2. IsFiniteSet(Pending(pc, w))
  BY <1>1, PermissionsAssumption, FS_Subset
<1> QED BY <1>2, FS_CardinalityType

LEMMA PendingFiniteAfter ==
    ASSUME NEW pc, NEW w
    PROVE  IsFiniteSet(Pending(pc, w)')
<1>1. Pending(pc, w)' \subseteq Requests
  BY DEF Pending
<1> QED BY <1>1, PermissionsAssumption, FS_Subset

(* One request changes what there is to tell by one at most.                *)
LEMMA PendingMoves ==
    ASSUME NEW r \in Requests, NEW pc, NEW w,
           \A s \in Requests \ {r} : req'[s].pc = req[s].pc /\ req'[s].told = req[s].told
    PROVE  /\ Tells(req[r], pc, w) /\ ~Tells(req'[r], pc, w)
                => Cardinality(Pending(pc, w)') = Cardinality(Pending(pc, w)) - 1
           /\ ~Tells(req[r], pc, w) /\ Tells(req'[r], pc, w)
                => Cardinality(Pending(pc, w)') = Cardinality(Pending(pc, w)) + 1
           /\ (Tells(req[r], pc, w) <=> Tells(req'[r], pc, w))
                => Cardinality(Pending(pc, w)') = Cardinality(Pending(pc, w))
<1> DEFINE before == Pending(pc, w)
           after == Pending(pc, w)'
<1>1. /\ r \in before <=> Tells(req[r], pc, w)
      /\ r \in after <=> Tells(req'[r], pc, w)
      /\ \A s \in Requests \ {r} : s \in before <=> s \in after
  BY DEF Pending, Tells
<1>2. before \subseteq Requests /\ after \subseteq Requests
  BY DEF Pending
<1>3. IsFiniteSet(before) /\ IsFiniteSet(after) /\ Cardinality(before) \in Nat
  BY PendingFinite, PendingFiniteAfter
<1> HIDE DEF before, after
<1>4. CASE r \in before /\ r \notin after
  <2>1. after = before \ {r}
    BY <1>1, <1>2, <1>4
  <2> QED BY <1>1, <1>3, <1>4, <2>1, FS_RemoveElement DEF before, after
<1>5. CASE r \notin before /\ r \in after
  <2>1. after = before \cup {r}
    BY <1>1, <1>2, <1>5
  <2> QED BY <1>1, <1>3, <1>5, <2>1, FS_AddElement DEF before, after
<1>6. CASE r \in before <=> r \in after
  <2>1. after = before
    BY <1>1, <1>2, <1>6
  <2> QED BY <1>1, <1>6, <2>1 DEF before, after
<1> QED BY <1>4, <1>5, <1>6

-----------------------------------------------------------------------------
(* The invariant is kept                                                    *)

LEMMA ExclusiveKept ==
    ASSUME IInv, NEW r \in Requests, NEW q, ApartFromOthers(r, q),
           req'[r] = q,
           \A s \in Requests \ {r} : /\ req'[s].inserted = req[s].inserted /\ req'[s].locked = req[s].locked
                                       /\ req'[s].removed = req[s].removed
    PROVE  Exclusive'
<1> SUFFICES ASSUME NEW s \in Requests, NEW t \in Requests, s # t PROVE Apart(req'[s], req'[t])
  BY DEF Exclusive
<1>1. Apart(req[s], req[t])
  BY DEF IInv, Exclusive
<1>2. CASE s # r /\ t # r
  BY <1>1, <1>2 DEF Apart
<1>3. CASE s = r
  BY <1>3 DEF ApartFromOthers, Apart
<1>4. CASE t = r
  BY <1>4 DEF ApartFromOthers, Apart
<1> QED BY <1>2, <1>3, <1>4

LEMMA QuietKept ==
    ASSUME IInv, NEW r \in Requests, Quietly(r)
    PROVE  IInv'
<1>1. PICK q : /\ Only(r, q) /\ Sound(q, exists, parcelRows) /\ ApartFromOthers(r, q)
               /\ q.pc \notin Telling /\ req[r].pc \notin Telling
  BY DEF Quietly
<1>2. /\ req' = [req EXCEPT ![r] = q] /\ req \in [Requests -> Request] /\ q \in Request
      /\ exists' = exists /\ parcelRows' = parcelRows /\ announced' = announced /\ deployed' = deployed
  BY <1>1 DEF Only, Become, IInv, EachSound, Sound, grants
<1>3. EachSound'
  BY <1>1, <1>2, RequestFacts DEF EachSound
<1>4. TypeOK'
  BY <1>2 DEF IInv, TypeOK
<1>5. Exclusive'
  BY <1>1, <1>2, ExclusiveKept
<1>6. ASSUME NEW w \in Wallets PROVE Matches(w)'
  <2>1. Pending("granted", w)' = Pending("granted", w) /\ Pending("revoked", w)' = Pending("revoked", w)
    BY <1>1, <1>2 DEF Pending, Tells, Telling
  <2> QED BY <1>2, <2>1, EventsMatch DEF IInv, Matches
<1>7. EventsMatchRows'
  BY <1>6, EventsMatchAfter
<1> QED BY <1>3, <1>4, <1>5, <1>7 DEF IInv

(* An announcement: one event less to send.                                 *)
LEMMA AnnounceKept ==
    ASSUME IInv, NEW r \in Requests, AnnounceGranted(r) \/ AnnounceRevoked(r)
    PROVE  IInv'
<1> DEFINE sign == IF req[r].pc = "granted" THEN 1 ELSE -1
<1> req[r] \in Request /\ Sound(req[r], exists, parcelRows)
  BY RequestFacts
<1>1. /\ (req[r].pc = "granted" /\ sign = 1) \/ (req[r].pc = "revoked" /\ sign = -1)
      /\ announced' = [w \in Wallets |-> announced[w] + (IF w \in req[r].told THEN sign ELSE 0)]
      /\ Become(r, Then([req[r] EXCEPT !.told = {}])) \/ Become(r, Fresh)
      /\ exists' = exists /\ parcelRows' = parcelRows /\ deployed' = deployed
  BY DEF AnnounceGranted, AnnounceRevoked, Announce, At, grants
<1> HIDE DEF sign
<1>2. Bare(req[r]) /\ (req[r].list # {} => req[r].op = "set") /\ (req[r].op = "set" => req[r].row = "none")
  BY <1>1, OfEmpty DEF Sound, Staged, StagesOf, Locks, Writes, Checks, Request, AllOperations, Bare
<1>3. PICK q : Become(r, q) /\ Sound(q, exists, parcelRows) /\ Bare(q) /\ q.pc \notin Telling
  <2> DEFINE p == [req[r] EXCEPT !.told = {}]
  <2>1. p \in Request /\ Bare(p) /\ (p.list # {} => p.op = "set") /\ (p.op = "set" => p.row = "none")
    BY <1>2 DEF Request, Bare
  <2> HIDE DEF p
  <2>2. CASE Become(r, Then(p))
    BY <2>1, <2>2, ThenSound DEF Telling
  <2>3. CASE Become(r, Fresh)
    BY <2>3, FreshSound DEF Telling
  <2> QED BY <1>1, <2>2, <2>3 DEF p
<1>4. req' = [req EXCEPT ![r] = q] /\ req \in [Requests -> Request] /\ q \in Request
  BY <1>3 DEF Become, IInv, EachSound, Sound
<1>5. EachSound'
  BY <1>1, <1>3, <1>4, RequestFacts DEF EachSound
<1>6. TypeOK'
  BY <1>1, <1>4 DEF IInv, TypeOK
<1>7. Exclusive'
  BY <1>3, <1>4, BareApart, ExclusiveKept
<1>8. ASSUME NEW w \in Wallets PROVE Matches(w)'
  <2>2. ~Tells(req'[r], "granted", w) /\ ~Tells(req'[r], "revoked", w)
    BY <1>3, <1>4 DEF Tells, Telling
  <2>3. \A s \in Requests \ {r} : req'[s].pc = req[s].pc /\ req'[s].told = req[s].told
    BY <1>4
  <2>4. announced'[w] = announced[w] + (IF w \in req[r].told THEN sign ELSE 0) /\ announced[w] \in Int
    BY <1>1 DEF IInv, TypeOK
  <2>5. Matches(w) /\ Cardinality(Pending("granted", w)) \in Nat /\ Cardinality(Pending("revoked", w)) \in Nat
    BY EventsMatch, PendingFinite DEF IInv
  <2>6. Tells(req[r], "granted", w) <=> w \in req[r].told /\ sign = 1
    BY <1>1 DEF Tells
  <2>7. Tells(req[r], "revoked", w) <=> w \in req[r].told /\ sign = -1
    BY <1>1 DEF Tells
  <2> DEFINE g == Cardinality(Pending("granted", w))
             v == Cardinality(Pending("revoked", w))
  <2>8. g' = IF Tells(req[r], "granted", w) THEN g - 1 ELSE g
    BY <2>2, <2>3, PendingMoves
  <2>9. v' = IF Tells(req[r], "revoked", w) THEN v - 1 ELSE v
    BY <2>2, <2>3, PendingMoves
  <2>10. announced[w] + g - v = IF w \in exists THEN 1 ELSE 0
    BY <2>5 DEF Matches
  <2>11. g \in Nat /\ v \in Nat
    BY <2>5
  <2> HIDE DEF g, v
  <2>12. announced'[w] + g' - v' = IF w \in exists' THEN 1 ELSE 0
    BY <1>1, <2>4, <2>6, <2>7, <2>8, <2>9, <2>10, <2>11
  <2> QED BY <2>12 DEF Matches, g, v
<1>9. EventsMatchRows'
  BY <1>8, EventsMatchAfter
<1> QED BY <1>5, <1>6, <1>7, <1>9 DEF IInv

(* A request whose locks are respected stays sound as the rows change.      *)
LEMMA NoticedSound ==
    ASSUME NEW q, NEW ws, NEW rows, Sound(q, exists, parcelRows),
           q.inserted \cap ws = {}, q.locked \subseteq ws, q.removed \subseteq ws
    PROVE  /\ Sound(Noticed(q, exists \ ws, ws, rows), ws, rows)
           /\ LET s == Noticed(q, exists \ ws, ws, rows)
              IN  /\ s.pc = q.pc /\ s.told = q.told /\ s.inserted = q.inserted
                  /\ s.locked = q.locked /\ s.removed = q.removed
<1> DEFINE gone == exists \ ws
           allowed == q.op = "undeploy" /\ \E w \in q.wallets : Allows(ws, rows, w, q.area)
           row == IF q.row = "live" /\ q.wallets \cap gone # {} THEN "gone" ELSE q.row
           s == Noticed(q, gone, ws, rows)
<1> q \in Request
  BY DEF Sound
<1>1. s = [q EXCEPT !.row = row, !.held = @ \/ allowed]
  BY DEF Noticed, Request
<1>2. allowed \in BOOLEAN
  OBVIOUS
<1>3. row \in {"none", "live", "gone"} /\ (row = "none" <=> q.row = "none") /\ (q.row = "gone" => row = "gone")
      /\ (row = "live" => q.wallets \subseteq ws)
  BY DEF Request, Sound, Locks
<1>4. /\ s \in Request /\ s.pc = q.pc /\ s.told = q.told /\ s.inserted = q.inserted /\ s.locked = q.locked
      /\ s.removed = q.removed /\ s.added = q.added /\ s.deleted = q.deleted /\ s.op = q.op /\ s.list = q.list
      /\ s.wallets = q.wallets /\ s.area = q.area /\ s.seen = q.seen /\ s.row = row /\ s.held = (q.held \/ allowed)
  <2> HIDE DEF allowed, row, s
  <2> QED BY <1>1, <1>2, <1>3 DEF Request
<1> HIDE DEF row, s
<1>5. Checks(s, ws, rows)
  BY <1>4 DEF Sound, Checks, Request
<1> HIDE DEF allowed
<1>6. Staged(s) /\ Locks(s, ws)
  BY <1>3, <1>4 DEF Sound, Staged, Locks
<1>7. Writes(s)
  BY <1>3, <1>4 DEF Sound, Writes
<1> QED BY <1>4, <1>5, <1>6, <1>7 DEF Sound, s, gone

LEMMA ChangeKept ==
    ASSUME IInv, NEW r \in Requests, NEW q, NEW ws \in SUBSET Wallets, NEW rows \in SUBSET (ws \X Parcels),
           Change(r, q, ws, rows), Sound(q, ws, rows), Bare(q),
           \A s \in Requests \ {r} : /\ req[s].inserted \cap ws = {}
                                       /\ req[s].locked \subseteq ws /\ req[s].removed \subseteq ws,
           \A w \in Wallets : Matches(w)'
    PROVE  IInv'
<1>1. /\ exists' = ws /\ parcelRows' = rows /\ announced' = announced /\ deployed' = deployed /\ q \in Request
      /\ req' = [s \in Requests |-> IF s = r THEN q ELSE Noticed(req[s], exists \ ws, ws, rows)]
  BY DEF Change, Sound
<1>2. ASSUME NEW s \in Requests \ {r}
      PROVE  /\ Sound(req'[s], ws, rows) /\ req'[s].inserted = req[s].inserted
             /\ req'[s].locked = req[s].locked /\ req'[s].removed = req[s].removed
  <2>1. req'[s] = Noticed(req[s], exists \ ws, ws, rows)
    BY <1>1
  <2>2. Sound(req[s], exists, parcelRows)
    BY RequestFacts
  <2> QED BY <2>1, <2>2, NoticedSound
<1>3. req'[r] = q
  BY <1>1
<1>4. \A s \in Requests : Sound(req'[s], ws, rows)
  BY <1>2, <1>3
<1>5. EachSound'
  BY <1>1, <1>4 DEF EachSound, Sound
<1>6. TypeOK'
  BY <1>1, <1>5 DEF IInv, TypeOK, EachSound
<1>7. Exclusive'
  BY <1>2, <1>3, BareApart, ExclusiveKept
<1>8. EventsMatchRows'
  BY EventsMatchAfter
<1> QED BY <1>5, <1>6, <1>7, <1>8 DEF IInv

(* What the next event of a request is, once its rows have changed.         *)
LEMMA TellSound ==
    ASSUME NEW ws, NEW rows, NEW p \in Request, Bare(p), p.pc \in Telling, p.pc \in StagesOf(p.op),
           p.list # {} => p.op = "set", p.op = "set" => p.row = "none",
           p.row # "none" => p.op \in {"add", "remove", "undeploy"}, p.row = "live" => p.wallets \subseteq ws,
           p.op \in {"add", "undeploy"} => \E w \in Wallets : p.wallets = {w}, p.op = "add" => p.area # {}
    PROVE  /\ Sound(Tell(p), ws, rows) /\ Bare(Tell(p))
           /\ \A pc \in Telling : \A w : Tells(Tell(p), pc, w) <=> p.pc = pc /\ w \in p.told
<1>1. CASE p.told = {}
  <2>1. Sound(Then(p), ws, rows) /\ Bare(Then(p)) /\ Then(p).pc \in {"idle", "insert"}
    BY ThenSound
  <2> QED BY <1>1, <2>1 DEF Tell, Tells, Telling
<1>2. CASE p.told # {}
  <2>1. Tell(p) = p
    BY <1>2 DEF Tell
  <2>2. p.op # "undeploy"
    BY DEF StagesOf, Telling
  <2>3. Sound(p, ws, rows)
    BY <2>2, OfEmpty DEF Sound, Staged, Locks, Writes, Checks, Bare, Telling
  <2> QED BY <2>1, <2>3 DEF Tells
<1> QED BY <1>1, <1>2

LEMMA CommitKept ==
    ASSUME IInv, NEW r \in Requests, Commit(r)
    PROVE  IInv'
<1> DEFINE p == [req[r] EXCEPT !.pc = "granted", !.told = req[r].inserted, !.inserted = {},
                               !.locked = {}, !.added = {}, !.deleted = {}]
           ws == exists \cup req[r].inserted
           rows == (parcelRows \ req[r].deleted) \cup req[r].added
<1> req[r] \in Request /\ Sound(req[r], exists, parcelRows)
  BY RequestFacts
<1>1. req[r].pc = "commit" /\ Change(r, Tell(p), ws, rows)
  BY DEF Commit, At
<1>2. /\ p \in Request /\ Bare(p) /\ p.pc = "granted" /\ p.told = req[r].inserted /\ p.op = req[r].op
      /\ p.list = req[r].list /\ p.row = req[r].row /\ p.wallets = req[r].wallets /\ p.area = req[r].area
  BY <1>1 DEF Request, Stages, Bare, Sound, Locks
<1> HIDE DEF p
<1>a. req[r].op \in {"grant", "set", "add", "remove"}
  BY <1>1 DEF Sound, Staged, StagesOf, Request, AllOperations
<1>b. req[r].op = "remove" => req[r].inserted = {} /\ req[r].list = {}
  BY DEF Sound, Staged, Locks
<1>3. \/ p.op = "remove" /\ p.told = {} /\ p.list = {}
      \/ p.op \in {"grant", "set", "add"}
  BY <1>2, <1>a, <1>b
<1>4. p.op # "remove" => p.pc \in StagesOf(p.op)
  BY <1>2, <1>3 DEF StagesOf
<1>5. /\ p.list # {} => p.op = "set"
      /\ p.op = "set" => p.row = "none"
      /\ p.row # "none" => p.op \in {"add", "remove", "undeploy"}
      /\ p.row = "live" => p.wallets \subseteq ws
      /\ p.op \in {"add", "undeploy"} => \E w \in Wallets : p.wallets = {w}
      /\ p.op = "add" => p.area # {}
  BY <1>2, <1>3 DEF Sound, Staged, Locks
<1>6. /\ Sound(Tell(p), ws, rows) /\ Bare(Tell(p))
      /\ \A pc \in Telling : \A w : Tells(Tell(p), pc, w) <=> pc = "granted" /\ w \in p.told
  <2>1. CASE p.op = "remove"
    <3>1. Tell(p) = Fresh
      BY <1>3, <2>1 DEF Tell, Then
    <3> QED BY <1>3, <2>1, <3>1, FreshSound DEF Tells, Telling
  <2>2. CASE p.op # "remove"
    BY <1>2, <1>4, <1>5, <2>2, TellSound DEF Telling
  <2> QED BY <2>1, <2>2
<1>7. ws \in SUBSET Wallets /\ rows \in SUBSET (ws \X Parcels)
  <2>1. req[r].added \subseteq ws \X Parcels
    <3>1. req[r].added \subseteq Wallets \X Parcels /\ Of(req[r].added) \subseteq req[r].wallets
      BY DEF Request, Sound, Writes
    <3>2. req[r].added # {} => req[r].wallets \subseteq ws
      BY <1>1 DEF Sound, Writes, Locks
    <3>3. \A x \in req[r].added : x[1] \in ws
      BY <3>1, <3>2 DEF Of
    <3> QED BY <3>1, <3>3
  <2>2. parcelRows \subseteq ws \X Parcels /\ exists \subseteq Wallets /\ req[r].inserted \subseteq Wallets
    BY DEF IInv, TypeOK, Request
  <2> QED BY <2>1, <2>2
<1>8. ASSUME NEW s \in Requests \ {r}
      PROVE  /\ req[s].inserted \cap ws = {} /\ req[s].locked \subseteq ws /\ req[s].removed \subseteq ws
             /\ Sound(req[s], exists, parcelRows)
  <2>1. Apart(req[r], req[s]) /\ Sound(req[s], exists, parcelRows)
    BY RequestFacts DEF ApartFromOthers
  <2> QED BY <2>1 DEF Apart, Sound, Locks
<1>9. ASSUME NEW w \in Wallets PROVE Matches(w)'
  <2>1. req'[r] = Tell(p) /\ announced' = announced /\ exists' = ws
    BY <1>1 DEF Change
  <2>2. \A s \in Requests \ {r} : req'[s].pc = req[s].pc /\ req'[s].told = req[s].told
    <3> SUFFICES ASSUME NEW s \in Requests \ {r} PROVE req'[s].pc = req[s].pc /\ req'[s].told = req[s].told
      OBVIOUS
    <3>1. req'[s] = Noticed(req[s], exists \ ws, ws, rows)
      BY <1>1 DEF Change
    <3> QED BY <1>8, <3>1, NoticedSound
  <2>3. ~Tells(req[r], "granted", w) /\ ~Tells(req[r], "revoked", w)
    BY <1>1 DEF Tells
  <2>4. ~Tells(req'[r], "revoked", w) /\ (Tells(req'[r], "granted", w) <=> w \in req[r].inserted)
    BY <1>2, <1>6, <2>1 DEF Telling
  <2>5. Cardinality(Pending("revoked", w)') = Cardinality(Pending("revoked", w))
    BY <2>2, <2>3, <2>4, PendingMoves
  <2>6. Cardinality(Pending("granted", w)')
          = IF w \in req[r].inserted THEN Cardinality(Pending("granted", w)) + 1 ELSE Cardinality(Pending("granted", w))
    BY <2>2, <2>3, <2>4, PendingMoves
  <2>7. Matches(w) /\ Cardinality(Pending("granted", w)) \in Nat /\ Cardinality(Pending("revoked", w)) \in Nat
        /\ announced[w] \in Int
    BY EventsMatch, PendingFinite DEF IInv, TypeOK
  <2>8. req[r].inserted \cap exists = {}
    BY DEF Sound, Locks
  <2> QED BY <2>1, <2>5, <2>6, <2>7, <2>8 DEF Matches
<1> HIDE DEF ws, rows
<1> QED BY <1>1, <1>6, <1>7, <1>8, <1>9, ChangeKept

LEMMA CascadeKept ==
    ASSUME IInv, NEW r \in Requests, Cascade(r)
    PROVE  IInv'
<1> DEFINE gone == req[r].removed
           p == [req[r] EXCEPT !.pc = "revoked", !.told = gone, !.removed = {}]
           ws == exists \ gone
           rows == {row \in parcelRows : row[1] \notin gone}
<1> req[r] \in Request /\ Sound(req[r], exists, parcelRows)
  BY RequestFacts
<1>1. req[r].pc = "cascade" /\ Change(r, Tell(p), ws, rows)
  BY DEF Cascade, Ready, At
<1>2. /\ p \in Request /\ Bare(p) /\ p.pc = "revoked" /\ p.told = gone /\ p.op = req[r].op
      /\ p.list = req[r].list /\ p.row = req[r].row
  BY <1>1, OfEmpty DEF Request, Stages, Bare, Sound, Locks, Writes
<1> HIDE DEF p
<1>3. p.op \in {"revoke", "set"} /\ p.row = "none" /\ (p.list # {} => p.op = "set")
  BY <1>1, <1>2 DEF Sound, Staged, StagesOf, Locks, Writes, Checks, Request, AllOperations
<1>4. p.pc \in StagesOf(p.op)
  BY <1>2, <1>3 DEF StagesOf
<1>5. /\ Sound(Tell(p), ws, rows) /\ Bare(Tell(p))
      /\ \A pc \in Telling : \A w : Tells(Tell(p), pc, w) <=> pc = "revoked" /\ w \in p.told
  BY <1>2, <1>3, <1>4, TellSound DEF Telling
<1>6. ws \in SUBSET Wallets /\ rows \in SUBSET (ws \X Parcels)
  BY DEF IInv, TypeOK
<1>7. ASSUME NEW s \in Requests \ {r}
      PROVE  /\ req[s].inserted \cap ws = {} /\ req[s].locked \subseteq ws /\ req[s].removed \subseteq ws
             /\ Sound(req[s], exists, parcelRows)
  <2>1. Apart(req[r], req[s]) /\ Sound(req[s], exists, parcelRows)
    BY RequestFacts DEF ApartFromOthers
  <2> QED BY <2>1 DEF Apart, Sound, Locks
<1>8. ASSUME NEW w \in Wallets PROVE Matches(w)'
  <2>1. req'[r] = Tell(p) /\ announced' = announced /\ exists' = ws
    BY <1>1 DEF Change
  <2>2. \A s \in Requests \ {r} : req'[s].pc = req[s].pc /\ req'[s].told = req[s].told
    <3> SUFFICES ASSUME NEW s \in Requests \ {r} PROVE req'[s].pc = req[s].pc /\ req'[s].told = req[s].told
      OBVIOUS
    <3>1. req'[s] = Noticed(req[s], exists \ ws, ws, rows)
      BY <1>1 DEF Change
    <3> QED BY <1>7, <3>1, NoticedSound
  <2>3. ~Tells(req[r], "granted", w) /\ ~Tells(req[r], "revoked", w)
    BY <1>1 DEF Tells
  <2>4. ~Tells(req'[r], "granted", w) /\ (Tells(req'[r], "revoked", w) <=> w \in gone)
    BY <1>2, <1>5, <2>1 DEF Telling
  <2>5. Cardinality(Pending("granted", w)') = Cardinality(Pending("granted", w))
    BY <2>2, <2>3, <2>4, PendingMoves
  <2>6. Cardinality(Pending("revoked", w)')
          = IF w \in gone THEN Cardinality(Pending("revoked", w)) + 1 ELSE Cardinality(Pending("revoked", w))
    BY <2>2, <2>3, <2>4, PendingMoves
  <2>7. Matches(w) /\ Cardinality(Pending("granted", w)) \in Nat /\ Cardinality(Pending("revoked", w)) \in Nat
        /\ announced[w] \in Int
    BY EventsMatch, PendingFinite DEF IInv, TypeOK
  <2>8. gone \subseteq exists
    BY DEF Sound, Locks
  <2> QED BY <2>1, <2>5, <2>6, <2>7, <2>8 DEF Matches
<1> HIDE DEF ws, rows
<1> QED BY <1>1, <1>5, <1>6, <1>7, <1>8, ChangeKept

(* The map changes: nothing of the grants, and at most a request ends.      *)
LEMMA MapKept ==
    ASSUME IInv, (\E r \in Requests : Undeploy(r)) \/ (\E e \in Scenes : Deploy(e))
    PROVE  IInv'
<1> USE DEF grants
<1>1. ASSUME NEW r \in Requests, Undeploy(r) PROVE IInv'
  <2>1. /\ req' = [req EXCEPT ![r] = Fresh] /\ req \in [Requests -> Request] /\ Fresh \in Request
        /\ exists' = exists /\ parcelRows' = parcelRows /\ announced' = announced /\ deployed' \subseteq deployed
        /\ req[r].pc = "undeploy"
    BY <1>1, FreshSound DEF Undeploy, Become, At, IInv, EachSound
  <2>2. EachSound'
    BY <2>1, RequestFacts, FreshSound DEF EachSound
  <2>3. TypeOK'
    BY <2>1 DEF IInv, TypeOK
  <2>4. Exclusive'
    BY <2>1, FreshSound, BareApart, ExclusiveKept
  <2>5. ASSUME NEW w \in Wallets PROVE Matches(w)'
    <3>1. Pending("granted", w)' = Pending("granted", w) /\ Pending("revoked", w)' = Pending("revoked", w)
      BY <2>1, FreshSound DEF Pending, Tells
    <3> QED BY <2>1, <3>1, EventsMatch DEF IInv, Matches
  <2> QED BY <2>2, <2>3, <2>4, <2>5, EventsMatchAfter DEF IInv
<1>2. ASSUME NEW e \in Scenes, Deploy(e) PROVE IInv'
  <2>1. /\ req' = req /\ exists' = exists /\ parcelRows' = parcelRows /\ announced' = announced
        /\ deployed' \subseteq deployed \cup {e}
    BY <1>2 DEF Deploy
  <2> QED BY <2>1 DEF IInv, TypeOK, EachSound, Exclusive, EventsMatchRows, At
<1> QED BY <1>1, <1>2

THEOREM Invariant == Spec => []IInv
<1>1. Init => IInv
  <2> SUFFICES ASSUME Init PROVE IInv
    OBVIOUS
  <2> USE DEF Init
  <2>1. EachSound
    BY FreshSound DEF EachSound
  <2>2. TypeOK
    BY FreshSound DEF TypeOK
  <2>3. Exclusive
    BY FreshSound DEF Exclusive, Apart, Bare
  <2>4. ASSUME NEW w \in Wallets PROVE Matches(w)
    <3>1. Pending("granted", w) = {} /\ Pending("revoked", w) = {}
      BY FreshSound DEF Pending, Tells
    <3> QED BY <3>1, FS_EmptySet DEF Matches
  <2> QED BY <2>1, <2>2, <2>3, <2>4, EventsMatch DEF IInv
<1>2. IInv /\ [Next]_vars => IInv'
  <2> SUFFICES ASSUME IInv, [Next]_vars PROVE IInv'
    OBVIOUS
  <2>1. CASE UNCHANGED vars
    BY <2>1 DEF vars, IInv, TypeOK, EachSound, Exclusive, EventsMatchRows, At
  <2>2. ASSUME NEW r \in Requests, AnnounceGranted(r) \/ AnnounceRevoked(r) PROVE IInv'
    BY <2>2, AnnounceKept
  <2>3. ASSUME NEW r \in Requests, Begin(r) \/ Proceed(r) \/ Fail(r) \/ DeadlockVictim(r) PROVE IInv'
    BY <2>2, <2>3, QuietSteps, QuietKept, CommitKept, CascadeKept, MapKept DEF Proceed
  <2> QED BY <2>1, <2>3, MapKept DEF Next
<1> QED BY <1>1, <1>2, PTL DEF Spec

-----------------------------------------------------------------------------
(* What holds of every step                                                 *)

LEMMA NoRows == \A w, rows : ParcelsOfRow(w, rows) = {} <=> \A x \in rows : x[1] # w
  BY DEF ParcelsOfRow

(* The rows of the others stay as they are, and a scoped grant keeps a row.  *)
LEMMA CommitWidens ==
    ASSUME IInv, NEW r \in Requests, Commit(r), NEW w \in Wallets, ~WorldWide(w), WorldWide(w)'
    PROVE  /\ req[r].op \in {"grant", "set", "remove"} /\ w \in req[r].wallets
           /\ At(r, "commit") /\ ~At(r, "commit")'
<1> DEFINE p == [req[r] EXCEPT !.pc = "granted", !.told = req[r].inserted, !.inserted = {},
                               !.locked = {}, !.added = {}, !.deleted = {}]
<1> req[r] \in Request /\ Sound(req[r], exists, parcelRows)
  BY RequestFacts
<1>1. /\ req[r].pc = "commit" /\ exists' = exists \cup req[r].inserted
      /\ parcelRows' = (parcelRows \ req[r].deleted) \cup req[r].added
      /\ req'[r] = Tell(p)
  BY DEF Commit, Change, At
<1>2. Tell(p).pc # "commit"
  <2>1. p \in Request /\ p.pc = "granted"
    BY <1>1 DEF Request, Stages, Sound
  <2>2. Then(p).pc \in {"idle", "insert"}
    <3>1. CASE p.list = {}
      BY <3>1, FreshSound DEF Then
    <3>2. CASE p.list # {}
      BY <2>1, <3>2 DEF Then, Request
    <3> QED BY <3>1, <3>2
  <2> QED BY <2>1, <2>2 DEF Tell
<1>3. /\ \A x \in req[r].deleted : x[1] \in req[r].wallets
      /\ \A x \in req[r].added : x[1] \in req[r].wallets
  BY DEF Sound, Writes, Of
<1>4. w \in exists \cup req[r].inserted /\ \A x \in (parcelRows \ req[r].deleted) \cup req[r].added : x[1] # w
  BY <1>1, NoRows DEF WorldWide
<1>5. w \notin exists \/ \E x \in parcelRows : x[1] = w
  BY NoRows DEF WorldWide
<1>6. w \in req[r].wallets
  BY <1>3, <1>4, <1>5 DEF Sound, Locks
<1>7. req[r].op # "add"
  <2> SUFFICES ASSUME req[r].op = "add" PROVE FALSE
    OBVIOUS
  <2>1. req[r].deleted = {}
    BY DEF Sound, Writes
  <2>2. w \notin exists
    BY <1>4, <1>5, <2>1
  <2>3. w \in Of(req[r].added)
    BY <1>1, <1>6, <2>2 DEF Sound, Writes, Locks
  <2> QED BY <1>4, <2>3 DEF Of
<1>8. req[r].op \in {"grant", "set", "add", "remove"}
  BY <1>1 DEF Sound, Staged, StagesOf, Request, AllOperations
<1> QED BY <1>1, <1>2, <1>6, <1>7, <1>8 DEF At

LEMMA CascadeNarrows ==
    ASSUME NEW r \in Requests, Cascade(r), NEW w \in Wallets, WorldWide(w)'
    PROVE  WorldWide(w)
<1>1. exists' = exists \ req[r].removed /\ parcelRows' = {row \in parcelRows : row[1] \notin req[r].removed}
  BY DEF Cascade, Change
<1>2. w \in exists \ req[r].removed /\ \A x \in parcelRows : x[1] \notin req[r].removed => x[1] # w
  BY <1>1, NoRows DEF WorldWide
<1> QED BY <1>2, NoRows DEF WorldWide

(* Everything but a commit and a cascade leaves the grants alone.           *)
LEMMA GrantsStay ==
    ASSUME IInv, [Next]_vars, \A r \in Requests : ~Commit(r) /\ ~Cascade(r)
    PROVE  UNCHANGED grants
<1>1. CASE UNCHANGED vars
  BY <1>1 DEF vars, grants
<1>2. ASSUME NEW r \in Requests, Quietly(r) PROVE UNCHANGED grants
  BY <1>2 DEF Quietly, Only
<1>3. ASSUME NEW r \in Requests, AnnounceGranted(r) \/ AnnounceRevoked(r) \/ Undeploy(r) PROVE UNCHANGED grants
  BY <1>3 DEF AnnounceGranted, AnnounceRevoked, Announce, Undeploy
<1>4. ASSUME NEW r \in Requests, Begin(r) \/ Proceed(r) \/ Fail(r) \/ DeadlockVictim(r) PROVE UNCHANGED grants
  BY <1>2, <1>3, <1>4, QuietSteps DEF Proceed
<1>5. ASSUME NEW e \in Scenes, Deploy(e) PROVE UNCHANGED grants
  BY <1>5 DEF Deploy
<1> QED BY <1>1, <1>4, <1>5 DEF Next

LEMMA OnlyUndeployTakes ==
    ASSUME IInv, [Next]_vars, NEW e \in Taken
    PROVE  \E r \in Requests : Undeploy(r)
<1>1. deployed' \subseteq deployed /\ e \in deployed \ deployed'
  BY DEF Taken
<1>2. ~UNCHANGED vars
  BY <1>1 DEF vars
<1>3. ASSUME NEW s \in Scenes, Deploy(s) PROVE FALSE
  BY <1>1, <1>3 DEF Deploy
<1>4. ASSUME NEW r \in Requests, Quietly(r) PROVE FALSE
  BY <1>1, <1>4 DEF Quietly, Only
<1>5. ASSUME NEW r \in Requests, AnnounceGranted(r) \/ AnnounceRevoked(r) \/ Commit(r) \/ Cascade(r) PROVE FALSE
  BY <1>1, <1>5 DEF AnnounceGranted, AnnounceRevoked, Announce, Commit, Cascade, Change
<1>6. ASSUME NEW r \in Requests, Begin(r) \/ Proceed(r) \/ Fail(r) \/ DeadlockVictim(r) PROVE Undeploy(r)
  BY <1>4, <1>5, <1>6, QuietSteps DEF Proceed
<1> QED BY <1>2, <1>3, <1>6 DEF Next

-----------------------------------------------------------------------------
(* The theorems                                                             *)

THEOREM TypeCorrect == Spec => []TypeOK
  BY Invariant, PTL DEF IInv

(* Each row that is inserted is announced once, and each one deleted is     *)
(* revoked once, whatever the requests do at the same time: ON CONFLICT DO  *)
(* NOTHING RETURNING and DELETE RETURNING name the rows that were changed.  *)
THEOREM EventsMatchTheRows == Spec => []EventsMatchRows
  BY Invariant, PTL DEF IInv

(* A wallet becomes world-wide only by the commit of a request that may     *)
(* make it so: addParcelsToPermission never shows a row without its parcels. *)
THEOREM GrantsWidenOnRequest == Spec => WidensOnlyOnRequest
<1> DEFINE A == \A w \in Wallets :
                   ~WorldWide(w) /\ WorldWide(w)'
                      => \E r \in Requests : /\ req[r].op \in {"grant", "set", "remove"}
                                             /\ w \in req[r].wallets
                                             /\ At(r, "commit") /\ ~At(r, "commit")'
<1>1. IInv /\ [Next]_vars => A
  <2> SUFFICES ASSUME IInv, [Next]_vars, NEW w \in Wallets, ~WorldWide(w), WorldWide(w)'
               PROVE  \E r \in Requests : /\ req[r].op \in {"grant", "set", "remove"}
                                          /\ w \in req[r].wallets
                                          /\ At(r, "commit") /\ ~At(r, "commit")'
    OBVIOUS
  <2>1. CASE \E r \in Requests : Commit(r)
    BY <2>1, CommitWidens
  <2>2. CASE \E r \in Requests : Cascade(r)
    BY <2>2, CascadeNarrows
  <2>3. CASE \A r \in Requests : ~Commit(r) /\ ~Cascade(r)
    BY <2>3, GrantsStay DEF grants, WorldWide
  <2> QED BY <2>1, <2>2, <2>3
<1>2. WidensOnlyOnRequest <=> [][A]_vars
  BY DEF WidensOnlyOnRequest
<1> HIDE DEF A
<1> QED BY <1>1, <1>2, Invariant, PTL DEF Spec

(* A wallet that undeploys was allowed the whole footprint at one instant   *)
(* since the scenes were read, although its check is made of three queries; *)
(* and of the scenes read then, those taken lie inside of it.               *)
THEOREM UndeploymentsWereAllowed == Spec => UndeployWasAllowed
<1> DEFINE A == \A e \in Taken :
                   \E r \in Requests : /\ At(r, "undeploy") /\ req[r].held
                                      /\ e \in req[r].seen => ParcelsOf[e] \subseteq req[r].area
<1>1. IInv /\ [Next]_vars => A
  <2> SUFFICES ASSUME IInv, [Next]_vars, NEW e \in Taken
               PROVE  \E r \in Requests : /\ At(r, "undeploy") /\ req[r].held
                                          /\ e \in req[r].seen => ParcelsOf[e] \subseteq req[r].area
    OBVIOUS
  <2>1. PICK r \in Requests : Undeploy(r)
    BY OnlyUndeployTakes
  <2> req[r] \in Request /\ Sound(req[r], exists, parcelRows)
    BY RequestFacts
  <2>2. req[r].pc = "undeploy"
    BY <2>1 DEF Undeploy, At
  <2>3. req[r].op = "undeploy"
    BY <2>2 DEF Sound, Staged, StagesOf, Request, AllOperations
  <2> QED BY <2>2, <2>3 DEF Sound, Checks, At
<1>2. UndeployWasAllowed <=> [][A]_vars
  BY DEF UndeployWasAllowed
<1> HIDE DEF A
<1> QED BY <1>1, <1>2, Invariant, PTL DEF Spec

=============================================================================
