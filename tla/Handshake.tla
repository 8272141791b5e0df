----------------------------- MODULE Handshake -----------------------------
(***************************************************************************)
(* The handshake of a peer that wants a token for a room of one world:      *)
(* world-comms-handler and logic/comms, for the room of the world or of a   *)
(* scene, and comms-adapter-handler.  One action is what runs between two   *)
(* awaits.  The setting, the bans, the denylist and the rooms change while  *)
(* a handshake is under way; the denylist and the number of participants    *)
(* are cached; a service that fails bars nobody.                            *)
(***************************************************************************)
EXTENDS RateLimiter, Sequences

CONSTANTS
    Wallets, Owner, \* Owner owns the name
    Secrets,
    Tells,          \* the secret that each wallet tells
    MaxUsers,       \* of a room
    MaxChanges,     \* bound: changes of the setting, the bans, the denylist and the rooms
    MaxFailures     \* bound: services that fail and locks that expire

Rooms == {"world", "scene"}
Registers == {"platform", "scene", "denylist"}
Settings == {"open", "closed"} \cup Secrets

ASSUME HandshakeAssumption == MaxUsers \in Nat \ {0} /\ Owner \in Wallets /\ Tells \in [Wallets -> Secrets]

VARIABLES
    access,     \* what the world's setting comes to: open, closed, or one secret
    barred,     \* who is banned from the platform or the scene, or on the denylist
    users,      \* participants of each room
    denylist,   \* the cached list, in a set of its own, or nothing
    status,     \* the cached participants of the world's room, fresh or stale, or nothing
    req,
    changes, failures,
    held,       \* history: what has barred each request at every moment since it began
    forgiven    \* history: the attempts that a success has cleared

world == <<access, barred, users>>
caches == <<denylist, status>>
vars == <<limiter, world, caches, req, changes, failures, held, forgiven>>

\* What the handlers await, in order.
Path == [world   |-> <<"setting", "limit", "ban", "denylist", "valid", "access", "room", "clear", "token">>,
         scene   |-> <<"setting", "limit", "ban", "denylist", "valid", "access", "parcel", "sceneBan", "room",
                       "clear", "token">>,
         adapter |-> <<"valid", "setting", "limit", "access", "clear", "token">>]
Endpoints == {"world", "scene", "adapter"}
Steps == {"setting", "limit", "ban", "denylist", "valid", "access", "parcel", "sceneBan", "room", "clear", "token"}
Answers == {"token", "guess", "limited", "refused"} \* refused: denied, not found, full, or an error

Idle == [pc |-> "idle", wallet |-> Owner, endpoint |-> "world", shared |-> FALSE]

TypeOK ==
    /\ LimiterTypeOK
    /\ access \in Settings /\ barred \subseteq Wallets \X Registers
    /\ users \in [Rooms -> 0 .. MaxUsers]
    /\ denylist \in {{}} \cup {{L} : L \in SUBSET Wallets}
    /\ status \in {{}} \cup {{[n |-> n, fresh |-> f]} : n \in 0 .. MaxUsers, f \in BOOLEAN}
    /\ \A r \in Requests : /\ req[r].wallet \in Wallets /\ req[r].endpoint \in Endpoints
                           /\ req[r].pc \in {"idle", "record"} \cup Answers \cup Steps

At(r, pc) == req[r].pc = pc
Become(r, pc) == req' = [req EXCEPT ![r] = IF pc \in Answers THEN [Idle EXCEPT !.pc = pc] ELSE [@ EXCEPT !.pc = pc]]
Fails == failures < MaxFailures /\ failures' = failures + 1

\* The rate limiter is only asked about shared secrets.
Needed(shared, pc) == shared \/ pc \notin {"limit", "clear"}
After(endpoint, shared, pc) ==
    {next \in Steps : \E i, j \in DOMAIN Path[endpoint] :
        /\ i < j /\ Path[endpoint][i] = pc /\ Path[endpoint][j] = next /\ Needed(shared, next)
        /\ \A k \in i + 1 .. j - 1 : ~Needed(shared, Path[endpoint][k])}
Following == [endpoint \in Endpoints |-> [shared \in BOOLEAN |-> [pc \in Steps |-> After(endpoint, shared, pc)]]]
Pass(r) == \E pc \in Following[req[r].endpoint][req[r].shared][req[r].pc] : Become(r, pc)

-----------------------------------------------------------------------------
(* History: what bars a request, as the services know it and as it is       *)
(* cached.                                                                  *)

Is(q, register) == <<q.wallet, register>> \in barred
Entitled(q) == q.wallet = Owner \/ access \in {"open", Tells[q.wallet]}
Full(room) == users[room] = MaxUsers

Checked == [world   |-> {"access", "platform", "denylist", "worldFull"},
            scene   |-> {"access", "platform", "denylist", "scene", "sceneFull"},
            adapter |-> {"access"}]

Bars(q) == {why \in Checked[q.endpoint] :
    CASE why = "access" -> ~Entitled(q)
      [] why = "denylist" -> Is(q, "denylist") /\ \A L \in denylist : q.wallet \in L
      [] why = "worldFull" -> Full("world") /\ \A s \in status : s.fresh => s.n = MaxUsers
      [] why = "sceneFull" -> Full("scene")
      [] OTHER -> Is(q, why)}

BarsOf(r) == IF req[r].pc \in Answers \cup {"idle"} \/ failures > 0 THEN {} ELSE Bars(req[r])
History == held' = [r \in Requests |-> IF At(r, "idle") THEN BarsOf(r)' ELSE held[r] \cap BarsOf(r)']

-----------------------------------------------------------------------------
(* The handlers                                                             *)

Begin(r, x, e) ==
    /\ At(r, "idle")
    /\ req' = [req EXCEPT ![r] = [pc |-> Path[e][1], wallet |-> x, endpoint |-> e, shared |-> FALSE]]
    /\ UNCHANGED <<limiter, world, caches, changes, failures, forgiven>>

\* getAccessForWorld: whether the rate limiter will be asked is settled here.
ReadSetting(r) ==
    /\ At(r, "setting")
    /\ \E pc \in Following[req[r].endpoint][(access \in Secrets)]["setting"] :
           req' = [req EXCEPT ![r] = [@ EXCEPT !.pc = pc, !.shared = access \in Secrets]]
    /\ UNCHANGED <<limiter, world, caches, changes, failures, forgiven>>

CheckLimit(r) ==
    /\ At(r, "limit")
    /\ \/ isRateLimited /\ Become(r, "limited") /\ UNCHANGED failures
       \/ ~isRateLimited /\ Pass(r) /\ UNCHANGED failures
       \/ Fails /\ Pass(r)
    /\ UNCHANGED <<limiter, world, caches, changes, forgiven>>

\* isPlayerBanned and isUserBannedFromScene, each time anew.
CheckBan(r, pc, register) ==
    /\ At(r, pc)
    /\ \/ Is(req[r], register) /\ Become(r, "refused") /\ UNCHANGED failures
       \/ ~Is(req[r], register) /\ Pass(r) /\ UNCHANGED failures
       \/ Fails /\ Pass(r)
    /\ UNCHANGED <<limiter, world, caches, changes, forgiven>>

\* A list that could not be fetched is cached as an empty one.
CheckDenylist(r) ==
    /\ At(r, "denylist")
    /\ \/ denylist # {} /\ UNCHANGED <<denylist, failures>>
       \/ denylist = {} /\ denylist' = {{x \in Wallets : <<x, "denylist">> \in barred}} /\ UNCHANGED failures
       \/ denylist = {} /\ denylist' = {{}} /\ Fails
    /\ IF req[r].wallet \in UNION denylist' THEN Become(r, "refused") ELSE Pass(r)
    /\ UNCHANGED <<limiter, world, status, changes, forgiven>>

\* isWorldValid, and the scene whose room is asked for: they may not be there.
Find(r, pc) ==
    /\ At(r, pc)
    /\ Pass(r) \/ Become(r, "refused")
    /\ UNCHANGED <<limiter, world, caches, changes, failures, forgiven>>

\* checkPermission and checkAccess.
CheckAccess(r) ==
    /\ At(r, "access")
    /\ \/ Entitled(req[r]) /\ Pass(r) /\ UNCHANGED limiter
       \/ ~Entitled(req[r]) /\ req[r].shared /\ Become(r, "record") /\ recordFailedAttempt(r)
       \/ ~Entitled(req[r]) /\ ~req[r].shared /\ Become(r, "refused") /\ UNCHANGED limiter
    /\ UNCHANGED <<world, caches, changes, failures, forgiven>>

Record(r) ==
    /\ \/ Acquire(r) /\ UNCHANGED failures
       \/ GiveUp(r) /\ UNCHANGED failures
       \/ ReadAttempts(r) /\ UNCHANGED failures
       \/ WriteAttempts(r) /\ UNCHANGED failures
       \/ Release(r) /\ UNCHANGED failures
       \/ LimiterFails(r) /\ Fails
    /\ UNCHANGED <<world, caches, req, changes, forgiven>>

Recorded(r) ==
    /\ At(r, "record") /\ Answered(r)
    /\ Become(r, IF r \in limited THEN "limited" ELSE "guess")
    /\ UNCHANGED <<world, caches, changes, failures, forgiven>>

\* Mutant: one more than the room takes.
LetInOneMore(r, n) == IF n > MaxUsers THEN Become(r, "refused") ELSE Pass(r)

LetIn(r, n) == IF n >= MaxUsers THEN Become(r, "refused") ELSE Pass(r)

\* listRoomsWithParticipantCounts.
Count(room) == users[room]

\* When it fails, LiveKit's adapter answers without rooms, and that of the ws-room with what is left of the last one.
RoomsStatus == {[n |-> Count("world"), fresh |-> TRUE]}
FailedStatus == {{[n |-> 0, fresh |-> TRUE]}, {[s EXCEPT !.fresh = TRUE] : s \in status}}

\* The status of the rooms is cached for a minute.
CheckWorldRoom(r) ==
    /\ At(r, "room") /\ req[r].endpoint = "world"
    /\ \/ \E s \in status : s.fresh /\ LetIn(r, s.n) /\ UNCHANGED <<status, failures>>
       \/ /\ \A s \in status : ~s.fresh
          /\ \/ status' = RoomsStatus /\ UNCHANGED failures
             \/ Fails /\ status' \in FailedStatus
          /\ IF status' = {} THEN Pass(r) ELSE \A s \in status' : LetIn(r, s.n)
    /\ UNCHANGED <<limiter, world, denylist, changes, forgiven>>

\* The rooms of scenes are counted each time; only LiveKit's adapter counts none when that fails.
CheckSceneRoom(r) ==
    /\ At(r, "room") /\ req[r].endpoint = "scene"
    /\ \/ LetIn(r, Count("scene")) /\ UNCHANGED failures
       \/ Fails /\ (Pass(r) \/ Become(r, "refused"))
    /\ UNCHANGED <<limiter, world, caches, changes, forgiven>>

\* clearAttempts, which takes no lock, and whose failure is not caught.
Clear(r) ==
    /\ At(r, "clear")
    /\ \/ clearAttempts /\ forgiven' = forgiven \cup attempts /\ Pass(r) /\ UNCHANGED failures
       \/ Fails /\ Become(r, "refused") /\ UNCHANGED <<limiter, forgiven>>
    /\ UNCHANGED <<world, caches, changes>>

\* The database or the owners of names fail, which nobody catches.
Break(r) ==
    /\ \E pc \in {"setting", "valid", "access", "parcel"} : At(r, pc)
    /\ Fails /\ Become(r, "refused")
    /\ UNCHANGED <<limiter, world, caches, changes, forgiven>>

-----------------------------------------------------------------------------
(* The rest of the world                                                    *)

\* The answer is out, and nothing holds its attempt any more: the place is that of another request.
Forget(r) ==
    /\ req[r].pc \in Answers /\ r \notin recent \cup attempts \cup UNION {seen[s] : s \in Requests}
    /\ req' = [req EXCEPT ![r] = Idle]
    /\ forgiven' = forgiven \ {r}
    /\ UNCHANGED <<limiter, world, caches, changes, failures>>

Changes == changes < MaxChanges /\ changes' = changes + 1

Change ==
    /\ Changes
    /\ \/ access' \in Settings \ {access} /\ UNCHANGED <<barred, users>>
       \/ \E x \in Wallets, why \in Registers : barred' \in {barred \cup {<<x, why>>}, barred \ {<<x, why>>}} \ {barred}
          /\ UNCHANGED <<access, users>>
       \/ \E room \in Rooms : \E n \in (0 .. MaxUsers) \ {users[room]} : users' = [users EXCEPT ![room] = n]
          /\ UNCHANGED <<access, barred>>
    /\ UNCHANGED <<limiter, caches, req, failures, forgiven>>

Expire ==
    /\ \/ denylist # {} /\ denylist' = {} /\ UNCHANGED status
       \/ \E s \in status : s.fresh /\ status' = {[s EXCEPT !.fresh = FALSE]} /\ UNCHANGED denylist
    /\ UNCHANGED <<limiter, world, req, changes, failures, forgiven>>

Time ==
    /\ \/ \E r \in Requests : LeaveWindow(r) /\ UNCHANGED failures
       \/ KeyExpires /\ UNCHANGED failures
       \/ LockExpires /\ Fails
    /\ UNCHANGED <<world, caches, req, changes, forgiven>>

-----------------------------------------------------------------------------
Init ==
    /\ RateLimiterInit
    /\ access \in Settings
    /\ barred = {}
    /\ users = [room \in Rooms |-> MaxUsers - 1]
    /\ denylist = {} /\ status = {}
    /\ req = [r \in Requests |-> Idle]
    /\ changes = 0 /\ failures = 0
    /\ held = [r \in Requests |-> {}] /\ forgiven = {}

Handle(r) ==
    \/ ReadSetting(r) \/ CheckLimit(r)
    \/ CheckBan(r, "ban", "platform") \/ CheckBan(r, "sceneBan", "scene") \/ CheckDenylist(r)
    \/ Find(r, "valid") \/ Find(r, "parcel")
    \/ CheckAccess(r) \/ Record(r) \/ Recorded(r)
    \/ CheckWorldRoom(r) \/ CheckSceneRoom(r) \/ Clear(r) \/ Break(r)

Step ==
    \/ \E r \in Requests, x \in Wallets, e \in Endpoints : Begin(r, x, e)
    \/ \E r \in Requests : Handle(r) \/ Forget(r)
    \/ Change \/ Expire \/ Time

Next == Step /\ History

Spec == Init /\ [][Next]_vars

-----------------------------------------------------------------------------
(* A wrong guess at the secret that was answered as one counts against the  *)
(* limit for a minute, unless a right one has cleared the attempts since,   *)
(* Redis failed, or a lock was lost while it was needed.  The attempts are  *)
(* read and written apart, by requests that run at once.                    *)
GuessesAreCounted ==
    ~lapsed /\ failures = 0 => {r \in recent : At(r, "guess")} \subseteq attempts \cup forgiven

(* Who is turned away for too many guesses comes after as many of them      *)
(* within the last minute, whatever was cleared or expired meanwhile.       *)
LimitsAreDeserved ==
    [][\A r \in Requests : req'[r].pc = "limited" /\ At(r, "limit") =>
          Cardinality({s \in recent \ {r} : At(s, "guess") \/ At(s, "record")}) >= MaxAttempts]_vars

(* While every service answers, nobody gets a token who was barred on one   *)
(* ground all through the handshake, in truth and in what was cached of it: *)
(* the grounds are checked one by one, and change in between.               *)
TokensAreJustified ==
    [][\A r \in Requests : req'[r].pc = "token" /\ ~At(r, "token") /\ failures' = 0 => held[r] = {}]_vars
=============================================================================
