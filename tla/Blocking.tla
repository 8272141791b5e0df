------------------------------ MODULE Blocking ------------------------------
(***************************************************************************)
(* The quota of a wallet and what happens to who exceeds it.  A deployment  *)
(* is checked against what is left of its owner's allowance                 *)
(* (limits-manager.ts); a job copies the owners of the names, and blocks    *)
(* the wallets over their quota (update-owner-job.ts, blocking); a          *)
(* deployment or an undeployment unblocks a wallet that is back under it    *)
(* (blocking, worlds).  What each of them decides follows from sums whose   *)
(* terms are read one by one (wallet-stats.ts) while the others write.      *)
(*                                                                          *)
(* One action is what runs between two awaits.                              *)
(***************************************************************************)
EXTENDS Integers, FiniteSets, FiniteSetsExt

CONSTANTS
    Wallets, Nobody,
    Worlds,         \* worlds of .dcl.eth names: the others have no quota
    Places, WorldOf(_), \* where a scene may stand, and in which world
    MaxSize,        \* of a scene
    Whitelisted, WhitelistedMax,
    Allowances,     \* what the holdings of a wallet may allow
    FirstOwners, FirstAllowances, \* whose the names are at first, and what is allowed
    Requests,
    MaxChanges,     \* bound: names sold and holdings changed
    MaxFailures     \* bound: queries and calls that fail

Job == "job"
Holdings == "holdings"
Readers == Requests \cup {Job}

ASSUME BlockingAssumption ==
    /\ IsFiniteSet(Worlds) /\ IsFiniteSet(Places) /\ IsFiniteSet(Wallets)
    /\ \A p \in Places : WorldOf(p) \in Worlds
    /\ Nobody \notin Wallets /\ Job \notin Requests /\ Holdings \notin Worlds
    /\ Allowances \subseteq Nat /\ WhitelistedMax \in Nat /\ MaxSize \in Nat \ {0}
    /\ Whitelisted \subseteq Worlds
    /\ FirstOwners \subseteq Wallets /\ FirstAllowances \subseteq Allowances

VARIABLES
    size,       \* world_scenes: the size of the scene on each place, 0 without one
    owner,      \* worlds.owner
    chain,      \* who owns the name
    allowance,  \* what the holdings of a wallet allow
    blocked,    \* the rows of the table blocked
    aged,       \* those created more than two days ago
    refreshed,  \* those updated since the job's run started
    job,        \* the job's run
    req,        \* deployments and undeployments
    reading,    \* the WalletStats that each of them is reading
    changes, failures,  \* how many there have been
    fitted,     \* history: the requests whose wallet was within its quota since they began
    fittedInRun,\* history: the blocked wallets that were so since the job's run began
    overtaken   \* history: the changes since the statistics of each were begun: 0, 1, or 2 for more

rows == <<size, owner>>
table == <<blocked, aged, refreshed>>
environment == <<chain, allowance, changes>>
vars == <<size, owner, chain, allowance, blocked, aged, refreshed, job, req, reading,
          changes, failures, fitted, fittedInRun, overtaken>>

PlacesOf(w) == {p \in Places : WorldOf(p) = w}
TotalSize(w) == MapThenSumSet(LAMBDA p : size[p], PlacesOf(w))
Owned(x) == {w \in Worlds : owner[w] = x}
usedSpace(x) == MapThenSumSet(TotalSize, Owned(x))

\* The space of whitelisted worlds does not count.
effectiveUsedSpace(x) == MapThenSumSet(TotalSize, Owned(x) \ Whitelisted)
Over(x) == allowance[x] < effectiveUsedSpace(x)

NotReading == [wallet |-> Nobody, todo |-> {}, used |-> 0, allowed |-> 0]
IdleJob == [pc |-> "idle", rows |-> {}, known |-> {}, owners |-> {}, failed |-> {}, unanswered |-> {}]
IdleReq == [pc |-> "idle", places |-> {}, size |-> 0, owner |-> Nobody]

TypeOK ==
    /\ size \in [Places -> 0 .. MaxSize]
    /\ owner \in [Worlds -> Wallets \cup {Nobody}]
    /\ chain \in [Worlds -> Wallets]
    /\ allowance \in [Wallets -> Allowances]
    /\ blocked \subseteq Wallets /\ aged \subseteq blocked /\ refreshed \subseteq blocked
    /\ job.pc \in {"idle", "lookup", "owners", "blocks", "decide", "collect"}
    /\ \A r \in Requests : req[r].pc \in {"idle", "owner", "limit", "store", "commit", "undeploy", "publish",
                                          "row", "recheck", "unblock"}
    /\ \A r \in Readers : /\ reading[r].wallet \in Wallets \cup {Nobody}
                          /\ reading[r].todo \subseteq Worlds \cup {Holdings}
                          /\ reading[r].used \in Nat /\ reading[r].allowed \in Nat

-----------------------------------------------------------------------------
(* Histories: what every step does to them.                                 *)

Deciding(r) == IF r = Job THEN job.pc = "decide" ELSE req[r].pc \in {"limit", "store", "commit", "recheck", "unblock"}

History ==
    /\ overtaken' = [r \in Readers |->
           IF ~Deciding(r)' THEN 0
           ELSE IF Deciding(r) /\ overtaken[r] < 2 /\ <<rows, chain, allowance>> # <<rows, chain, allowance>>'
                THEN overtaken[r] + 1 ELSE overtaken[r]]
    /\ fitted' = {r \in Requests : \E x \in Wallets :
                     /\ reading'[r].wallet = x
                     /\ ~Over(x) \/ ~Over(x)' \/ (r \in fitted /\ reading[r].wallet = x)}
    /\ fittedInRun' = {x \in blocked' :
                     /\ job'.pc # "idle"
                     /\ \/ ~Over(x) \/ ~Over(x)' \/ x \in fittedInRun
                        \/ reading[Job].wallet = x /\ overtaken[Job] = 2}

At(r, pc) == req[r].pc = pc
Target(r) == WorldOf(CHOOSE p \in req[r].places : TRUE)
Become(r, q) == req' = [req EXCEPT ![r] = q]
Fails == failures < MaxFailures /\ failures' = failures + 1

-----------------------------------------------------------------------------
(* walletStats.get                                                          *)

\* The names are queried, then the size of each world; the holdings are fetched beside them.
StartStats(r, x) ==
    reading' = [reading EXCEPT ![r] = [wallet |-> x, todo |-> Owned(x) \cup {Holdings}, used |-> 0, allowed |-> 0]]
EndStats(r) == reading' = [reading EXCEPT ![r] = NotReading]

\* A deployment's quota counts every world, a block only those not whitelisted.
Counts(r, w) == w \notin Whitelisted \/ (r \in Requests /\ At(r, "limit"))

ReadStats(r, item) ==
    LET q == [reading[r] EXCEPT !.todo = @ \ {item}]
    IN  /\ item \in reading[r].todo
        /\ reading' = [reading EXCEPT ![r] =
              IF item = Holdings THEN [q EXCEPT !.allowed = allowance[q.wallet]]
              ELSE IF Counts(r, item) THEN [q EXCEPT !.used = @ + TotalSize(item)] ELSE q]
        /\ UNCHANGED <<rows, table, environment, job, req, failures>>

Read(r) == reading[r].wallet # Nobody /\ reading[r].todo = {}
SeenOver(r) == reading[r].allowed < reading[r].used

-----------------------------------------------------------------------------
(* A deployment                                                             *)

\* The whitelist's own limit, or the owner's statistics.
BeginDeploy(r, p, n) ==
    /\ At(r, "idle")
    /\ Become(r, [pc |-> IF WorldOf(p) \in Whitelisted THEN "limit" ELSE "owner", places |-> {p}, size |-> n,
                  owner |-> Nobody])
    /\ UNCHANGED <<rows, table, environment, job, reading, failures>>

\* findOwners: a name without an answer is an error.
FindOwner(r) ==
    /\ At(r, "owner")
    /\ \/ /\ Become(r, [req[r] EXCEPT !.pc = "limit"])
          /\ StartStats(r, chain[Target(r)])
          /\ UNCHANGED failures
       \/ Fails /\ Become(r, IdleReq) /\ UNCHANGED reading
    /\ UNCHANGED <<rows, table, environment, job>>

\* Mutant: the whole world is given back, whatever of it is replaced.
AllowedWhole(r) ==
    LET left == reading[r].allowed - (reading[r].used - TotalSize(Target(r)))
    IN  IF Target(r) \in Whitelisted THEN WhitelistedMax ELSE IF left > 0 THEN left ELSE 0

\* What is left, with the space of the scenes that are replaced given back, or nothing.
Allowed(r) ==
    LET left == reading[r].allowed - (reading[r].used - MapThenSumSet(LAMBDA p : size[p], req[r].places))
    IN  IF Target(r) \in Whitelisted THEN WhitelistedMax ELSE IF left > 0 THEN left ELSE 0

CheckSize(r) ==
    /\ At(r, "limit") /\ reading[r].todo = {}
    /\ EndStats(r)
    /\ Become(r, IF req[r].size > Allowed(r) THEN IdleReq ELSE [req[r] EXCEPT !.pc = "store"])
    /\ UNCHANGED <<rows, table, environment, job, failures>>

\* entity-deployer looks for the owner once more.
StoreOwner(r) ==
    /\ At(r, "store")
    /\ \/ /\ Become(r, [req[r] EXCEPT !.pc = "commit", !.owner = chain[Target(r)]])
          /\ UNCHANGED failures
       \/ Fails /\ Become(r, IdleReq)
    /\ UNCHANGED <<rows, table, environment, job, reading>>

\* deployScene, and then the owner may be back under its quota.
CommitDeploy(r) ==
    /\ At(r, "commit")
    /\ size' = [p \in Places |-> IF p \in req[r].places THEN req[r].size ELSE size[p]]
    /\ owner' = [owner EXCEPT ![Target(r)] = req[r].owner]
    /\ Become(r, [IdleReq EXCEPT !.pc = "row", !.owner = req[r].owner])
    /\ UNCHANGED <<table, environment, job, reading, failures>>

-----------------------------------------------------------------------------
(* undeployWorldScenes                                                      *)

\* getBlockedOwner: only who is blocked now is checked again.  n is 1 if there will be an event.
BeginUndeploy(r, w, places, n) ==
    /\ At(r, "idle")
    /\ Become(r, [pc |-> "undeploy", places |-> places, size |-> n,
                  owner |-> IF owner[w] \in blocked THEN owner[w] ELSE Nobody])
    /\ UNCHANGED <<rows, table, environment, job, reading, failures>>

\* The scenes of some parcels were queried first: without any there is no event.
UndeployWorldScenes(r, p) == BeginUndeploy(r, WorldOf(p), {p}, IF size[p] > 0 THEN 1 ELSE 0)
UndeployWorld(r, w) == BeginUndeploy(r, w, PlacesOf(w), 1)

Undeploy(r) ==
    /\ At(r, "undeploy")
    /\ size' = [p \in Places |-> IF p \in req[r].places THEN 0 ELSE size[p]]
    /\ Become(r, [req[r] EXCEPT !.pc = IF req[r].size = 1 THEN "publish" ELSE "row", !.places = {}, !.size = 0])
    /\ UNCHANGED <<owner, table, environment, job, reading, failures>>

\* Without its event nothing is checked again.
PublishUndeployment(r) ==
    /\ At(r, "publish")
    /\ \/ Become(r, [req[r] EXCEPT !.pc = "row"]) /\ UNCHANGED failures
       \/ Fails /\ Become(r, IdleReq)
    /\ UNCHANGED <<rows, table, environment, job, reading>>

-----------------------------------------------------------------------------
(* unblockIfUnderQuota                                                      *)

\* Of an owner that was not blocked before an undeployment nothing is read.
ReadRow(r) ==
    /\ At(r, "row")
    /\ \/ /\ req[r].owner \in blocked
          /\ Become(r, [IdleReq EXCEPT !.pc = "recheck"])
          /\ StartStats(r, req[r].owner)
       \/ /\ req[r].owner \notin blocked
          /\ Become(r, IdleReq)
          /\ UNCHANGED reading
    /\ UNCHANGED <<rows, table, environment, job, failures>>

\* Mutant: who is over the quota is unblocked like the others.
RecheckAll(r) ==
    /\ At(r, "recheck") /\ Read(r)
    /\ Become(r, [req[r] EXCEPT !.pc = "unblock"])
    /\ UNCHANGED <<rows, table, environment, job, reading, failures>>

Recheck(r) ==
    /\ At(r, "recheck") /\ Read(r)
    /\ \/ ~SeenOver(r) /\ Become(r, [req[r] EXCEPT !.pc = "unblock"]) /\ UNCHANGED <<reading, failures>>
       \/ SeenOver(r) /\ Become(r, IdleReq) /\ EndStats(r) /\ UNCHANGED failures
       \/ Fails /\ Become(r, IdleReq) /\ EndStats(r)
    /\ UNCHANGED <<rows, table, environment, job>>

Without(x) == blocked' = blocked \ x /\ aged' = aged \ x /\ refreshed' = refreshed \ x

\* The row, whichever it is now.
Unblock(r) ==
    /\ At(r, "unblock")
    /\ Without({reading[r].wallet})
    /\ Become(r, IdleReq) /\ EndStats(r)
    /\ UNCHANGED <<rows, environment, job, failures>>

-----------------------------------------------------------------------------
(* update-owner-job                                                         *)

JobStays == UNCHANGED <<rows, table, environment, req, reading>>

\* The worlds with scenes and the owners they are stored with.
StartJob ==
    /\ job.pc = "idle"
    /\ job' = [IdleJob EXCEPT !.pc = "lookup",
                  !.rows = {<<w, owner[w]>> : w \in {v \in Worlds : TotalSize(v) > 0}}]
    /\ refreshed' = {}
    /\ UNCHANGED <<rows, blocked, aged, environment, req, reading, failures>>

\* findOwners: some names may be left without an answer, or the call fails and the run ends.
LookUpOwners ==
    /\ job.pc = "lookup"
    /\ \/ \E lost \in SUBSET {x[1] : x \in job.rows} :
             /\ IF lost = {} THEN UNCHANGED failures ELSE Fails
             /\ LET known == {<<x[1], IF x[1] \in lost THEN Nobody ELSE chain[x[1]]>> : x \in job.rows}
                IN  job' = [job EXCEPT !.pc = "owners", !.known = known \ job.rows,
                               !.rows = {x \in job.rows : x[2] = Nobody},
                               !.owners = {y[2] : y \in known} \ {Nobody}, !.unanswered = lost]
       \/ Fails /\ job' = IdleJob
    /\ JobStays

\* One world after the other.  A stored owner that is NULL ends the run.
UpdateOwner ==
    /\ job.pc = "owners"
    /\ \/ \E x \in job.known :
             /\ x[1] \notin {y[1] : y \in job.rows}
             /\ owner' = [owner EXCEPT ![x[1]] = x[2]]
             /\ job' = [job EXCEPT !.known = @ \ {x}]
       \/ job.rows # {} /\ job' = IdleJob /\ UNCHANGED owner
       \/ job.rows = {} /\ job.known = {} /\ job' = [job EXCEPT !.pc = "blocks"] /\ UNCHANGED owner
    /\ UNCHANGED <<size, table, environment, req, reading, failures>>

\* One owner after the other, or their turn is over.
EvaluateOwner ==
    /\ job.pc = "blocks"
    /\ \/ \E x \in job.owners :
             /\ StartStats(Job, x)
             /\ job' = [job EXCEPT !.pc = "decide", !.owners = @ \ {x}]
       \/ job.owners = {} /\ job' = [job EXCEPT !.pc = "collect"] /\ UNCHANGED reading
    /\ UNCHANGED <<rows, table, environment, req, failures>>

\* Mutant: the row is written anew, and its two days start again.
UpsertAnew(x) == blocked' = blocked \cup {x} /\ refreshed' = refreshed \cup {x} /\ aged' = aged \ {x}

\* upsertBlockingRecord, whose event may fail after the row is in.
Upsert(x) == blocked' = blocked \cup {x} /\ refreshed' = refreshed \cup {x} /\ UNCHANGED aged

BlockIfOverQuota ==
    LET x == reading[Job].wallet
        next == [job EXCEPT !.pc = "blocks"]
        failed == [next EXCEPT !.failed = @ \cup {x}]
    IN  /\ job.pc = "decide" /\ Read(Job)
        /\ EndStats(Job)
        /\ \/ ~SeenOver(Job) /\ job' = next /\ UNCHANGED <<table, failures>>
           \/ SeenOver(Job) /\ job' = next /\ Upsert(x) /\ UNCHANGED failures
           \/ SeenOver(Job) /\ job' = failed /\ Upsert(x) /\ Fails
           \/ job' = failed /\ UNCHANGED table /\ Fails
        /\ UNCHANGED <<rows, environment, req>>

\* Mutants: the rows of earlier runs are taken for refreshed; those of failed owners are collected too.
CollectedNone == {}
CollectedFailed == blocked \ refreshed

Collected == blocked \ (refreshed \cup job.failed)

CollectStale ==
    /\ job.pc = "collect"
    /\ job' = IdleJob
    /\ \/ Without(Collected) /\ UNCHANGED failures
       \/ Fails /\ UNCHANGED table
    /\ UNCHANGED <<rows, environment, req, reading>>

-----------------------------------------------------------------------------
(* Time, names and holdings                                                 *)

Age(x) ==
    /\ x \in blocked \ aged
    /\ aged' = aged \cup {x}
    /\ UNCHANGED <<rows, blocked, refreshed, environment, job, req, reading, failures>>

Changes == changes < MaxChanges /\ changes' = changes + 1
Elsewhere == UNCHANGED <<rows, table, job, req, reading, failures>>

Transfer(w, x) ==
    /\ Changes /\ Elsewhere
    /\ chain[w] # x /\ chain' = [chain EXCEPT ![w] = x]
    /\ UNCHANGED allowance

ChangeHoldings(x, n) ==
    /\ Changes /\ Elsewhere
    /\ allowance[x] # n /\ allowance' = [allowance EXCEPT ![x] = n]
    /\ UNCHANGED chain

-----------------------------------------------------------------------------
Init ==
    /\ size = [p \in Places |-> 0]
    /\ chain \in [Worlds -> FirstOwners]
    /\ owner = chain
    /\ allowance \in [Wallets -> FirstAllowances]
    /\ blocked = {} /\ aged = {} /\ refreshed = {}
    /\ job = IdleJob
    /\ req = [r \in Requests |-> IdleReq]
    /\ reading = [r \in Readers |-> NotReading]
    /\ changes = 0 /\ failures = 0
    /\ fitted = {} /\ fittedInRun = {} /\ overtaken = [r \in Readers |-> 0]

Proceed(r) ==
    \/ FindOwner(r) \/ CheckSize(r) \/ StoreOwner(r) \/ CommitDeploy(r)
    \/ Undeploy(r) \/ PublishUndeployment(r)
    \/ ReadRow(r) \/ Recheck(r) \/ Unblock(r)

RunJob == StartJob \/ LookUpOwners \/ UpdateOwner \/ EvaluateOwner \/ BlockIfOverQuota \/ CollectStale

Reads(r) == \E item \in reading[r].todo : ReadStats(r, item)

Step ==
    \/ \E r \in Requests, p \in Places : (\E n \in 1 .. MaxSize : BeginDeploy(r, p, n)) \/ UndeployWorldScenes(r, p)
    \/ \E r \in Requests, w \in Worlds : UndeployWorld(r, w)
    \/ \E r \in Requests : Proceed(r)
    \/ \E r \in Readers : Reads(r)
    \/ RunJob
    \/ \E x \in Wallets : Age(x)
    \/ \E w \in Worlds, x \in Wallets : Transfer(w, x)
    \/ \E x \in Wallets, n \in Allowances : ChangeHoldings(x, n)

Next == Step /\ History

Spec == Init /\ [][Next]_vars

\* Requests and readings go on, the cron job runs again and again, and time passes.
steps == <<rows, table, environment, job, req, reading, failures>>
FairSpec ==
    /\ Spec
    /\ \A r \in Requests : WF_steps(Proceed(r) \/ Reads(r))
    /\ WF_steps(RunJob \/ Reads(Job))
    /\ WF_steps(\E x \in Wallets : Age(x))

-----------------------------------------------------------------------------
(* A deployment whose check was not overtaken leaves its owner within the   *)
(* allowance: what it replaces is given back once, and only that            *)
(* (getMaxAllowedSizeInBytesFor).  The check and the COMMIT are far apart,  *)
(* and nothing holds the quota in between.  The world must be stored as its *)
(* owner's: of a name just bought, what is given back was never counted.    *)
QuotaHolds ==
    [][\A r \in Requests :
          LET w == Target(r)
              x == req[r].owner
          IN  At(r, "commit") /\ req'[r] # req[r] /\ overtaken[r] = 0 /\ w \notin Whitelisted /\ owner[w] = x
                => usedSpace(x)' <= allowance[x]]_vars

(* Nobody is unblocked by a deployment or an undeployment who was over its  *)
(* quota all the time since the statistics were begun, were they overtaken  *)
(* by one change.  (By two, their terms may be of no one moment.)           *)
UnblocksAreDeserved ==
    [][\A r \in Requests : At(r, "unblock") /\ req'[r] # req[r] /\ overtaken[r] < 2 => r \in fitted]_vars

(* The job takes no block from a wallet that was over its quota all through *)
(* its run, but one whose names got no answer.                              *)
CollectsAreDeserved ==
    [][job.pc = "collect" /\ job' # job /\ job.unanswered = {} => blocked \ blocked' \subseteq fittedInRun]_vars

(* Once the deployments settle, a wallet over its quota is restricted for   *)
(* good, its two days counted from the first run that found it, and one     *)
(* within it is not blocked: whatever was decided on old sums is mended by  *)
(* a later run.  Every deployed world must have an owner, for a run ends at *)
(* a stored owner that is NULL.                                             *)
OwnersKnown == \A w \in Worlds : owner[w] # Nobody
Settled == \A r \in Requests : At(r, "idle")
OverQuotaIsRestricted ==
    \A x \in Wallets : []OwnersKnown /\ <>[](Settled /\ Over(x)) => <>[](x \in aged)
WithinQuotaIsRestored ==
    \A x \in Wallets : []OwnersKnown /\ <>[](Settled /\ ~Over(x)) => <>[](x \notin blocked)
=============================================================================
