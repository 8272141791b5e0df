-------------------------- MODULE Handshake_proofs --------------------------
(***************************************************************************)
(* No guess is lost, nobody is limited without the guesses and nobody gets  *)
(* in who was barred all through, for any number of requests, wallets,      *)
(* secrets, changes and failures.                                           *)
(***************************************************************************)
EXTENDS Handshake, FiniteSetTheorems, TLAPS

Request == [pc : {"idle", "record"} \cup Answers \cup Steps, wallet : Wallets, endpoint : Endpoints, shared : BOOLEAN]

-----------------------------------------------------------------------------
(* The invariant                                                            *)

Typed == LimiterTypeOK /\ req \in [Requests -> Request] /\ forgiven \subseteq Requests /\ failures \in Nat

\* A call of the limiter is that of a request that waits for it.
Calling == \A r \in Requests : call[r] # "none" <=> At(r, "record")

\* As long as no lock was lost, one call at a time is between its reading and its writing,
Exclusive == ~lapsed => \A r \in Requests : call[r] \in {"read", "write"} => lock = r

\* so that what it has read is all there is.
UpToDate == ~lapsed => \A r \in Requests : call[r] = "write" => attempts \cap recent \subseteq seen[r] \cup {r}

\* A failure is timed by a call that has read, and stays so when it is answered.
Timed == \A r \in recent : call[r] \in {"write", "release", "done"} \/ req[r].pc \in {"guess", "limited"}

\* Who is limited is told so next.
Limited == \A r \in limited : call[r] \in {"release", "done"}

\* What is stored or was read are guesses, answered or to be answered as such.
Counted(r) == req[r].pc = "guess" \/ (call[r] \in {"release", "done"} /\ r \notin limited)
Remembered == \A r \in Requests : \A s \in attempts \cup seen[r] : Counted(s)

\* And those guesses are stored, or were cleared.
Kept == failures = 0 /\ ~lapsed => \A r \in recent : Counted(r) => r \in attempts \cup forgiven

IInv == Typed /\ Calling /\ Exclusive /\ UpToDate /\ Timed /\ Limited /\ Remembered /\ Kept

-----------------------------------------------------------------------------
(* Steps                                                                    *)

\* A handler goes on from one of its checks, which is not the answer to a guess.
Walks(r) ==
    /\ req[r].pc \in Steps \cup {"idle"}
    /\ \E q \in Request : /\ q.pc \in Steps \cup (Answers \ {"guess"})
                          /\ req' = [req EXCEPT ![r] = q]
FailuresGrow == failures' \in {failures, failures + 1}

LEMMA IdleTyped == Idle \in Request
  BY HandshakeAssumption DEF Idle, Request, Endpoints

LEMMA PathStarts == \A e \in Endpoints : Path[e][1] \in Steps
  BY DEF Endpoints, Path, Steps

LEMMA FollowingIsAfter ==
    ASSUME NEW e \in Endpoints, NEW shared \in BOOLEAN, NEW pc \in Steps
    PROVE  Following[e][shared][pc] = After(e, shared, pc)
  BY SMT DEF Following

LEMMA FollowingTyped ==
    ASSUME NEW e \in Endpoints, NEW shared \in BOOLEAN, NEW pc \in Steps
    PROVE  Following[e][shared][pc] \subseteq Steps
  BY FollowingIsAfter DEF After

(* Nothing but Recorded answers a guess, and nothing but CheckAccess asks   *)
(* for the limiter to record one.                                           *)
LEMMA BecomeWalks ==
    ASSUME Typed, NEW r \in Requests, req[r].pc \in Steps,
           NEW pc \in Steps \cup (Answers \ {"guess"}), Become(r, pc)
    PROVE  Walks(r)
<1>2. [req[r] EXCEPT !.pc = pc] \in Request /\ [Idle EXCEPT !.pc = pc] \in Request
  BY IdleTyped DEF Typed, Request
<1>3. [req[r] EXCEPT !.pc = pc].pc = pc /\ [Idle EXCEPT !.pc = pc].pc = pc
  BY IdleTyped DEF Typed, Request
<1> DEFINE q == IF pc \in Answers THEN [Idle EXCEPT !.pc = pc] ELSE [req[r] EXCEPT !.pc = pc]
<1>4. req' = [req EXCEPT ![r] = q]
  BY DEF Become
<1>5. q \in Request /\ q.pc = pc
  BY <1>2, <1>3
<1> HIDE DEF q
<1> QED BY <1>4, <1>5 DEF Walks

LEMMA PassWalks ==
    ASSUME Typed, NEW r \in Requests, req[r].pc \in Steps, Pass(r)
    PROVE  Walks(r)
<1>1. req[r].endpoint \in Endpoints /\ req[r].shared \in BOOLEAN
  BY DEF Typed, Request
<1>2. PICK pc \in Following[req[r].endpoint][req[r].shared][req[r].pc] : Become(r, pc)
  BY DEF Pass
<1>3. pc \in Steps
  BY <1>1, <1>2, FollowingTyped
<1> QED BY <1>2, <1>3, BecomeWalks

Checks(r) ==
    \/ ReadSetting(r) \/ CheckLimit(r)
    \/ CheckBan(r, "ban", "platform") \/ CheckBan(r, "sceneBan", "scene") \/ CheckDenylist(r)
    \/ Find(r, "valid") \/ Find(r, "parcel")
    \/ CheckWorldRoom(r) \/ CheckSceneRoom(r) \/ Break(r)

LEMMA LetInWalks ==
    ASSUME Typed, NEW r \in Requests, req[r].pc \in Steps, NEW n, LetIn(r, n)
    PROVE  Walks(r)
<1>1. CASE Become(r, "refused")
  BY <1>1, BecomeWalks DEF Answers
<1>2. CASE Pass(r)
  BY <1>2, PassWalks
<1> QED BY <1>1, <1>2 DEF LetIn

LEMMA ChecksWalk ==
    ASSUME Typed, NEW r \in Requests, Checks(r)
    PROVE  Walks(r) /\ UNCHANGED <<limiter, forgiven>> /\ FailuresGrow
<1>1. "refused" \in Answers \ {"guess"} /\ "limited" \in Answers \ {"guess"}
  BY DEF Answers
<1>2. UNCHANGED <<limiter, forgiven>>
  BY DEF Checks, ReadSetting, CheckLimit, CheckBan, CheckDenylist, Find, CheckWorldRoom, CheckSceneRoom, Break
<1>3. FailuresGrow
  <2>1. CASE CheckWorldRoom(r)
    BY <2>1 DEF CheckWorldRoom, Fails, FailuresGrow
  <2>2. CASE ~CheckWorldRoom(r)
    BY <2>2 DEF Checks, ReadSetting, CheckLimit, CheckBan, CheckDenylist, Find, CheckSceneRoom, Break, Fails, FailuresGrow
  <2> QED BY <2>1, <2>2
<1>4. req[r].pc \in Steps
  BY DEF Checks, ReadSetting, CheckLimit, CheckBan, CheckDenylist, Find, CheckWorldRoom, CheckSceneRoom, Break, At, Steps
<1>5. CASE ReadSetting(r)
  <2>1. PICK pc \in Following[req[r].endpoint][(access \in Secrets)]["setting"] :
            req' = [req EXCEPT ![r] = [@ EXCEPT !.pc = pc, !.shared = access \in Secrets]]
    BY <1>5 DEF ReadSetting
  <2>2. (access \in Secrets) \in BOOLEAN /\ req[r] \in Request /\ req[r].endpoint \in Endpoints
    BY DEF Typed, Request
  <2>3. pc \in Steps
    <3>1. "setting" \in Steps
      BY DEF Steps
    <3> QED BY <2>1, <2>2, <3>1, FollowingTyped
  <2> DEFINE q == [req[r] EXCEPT !.pc = pc, !.shared = access \in Secrets]
  <2>4. q \in Request /\ q.pc = pc
    BY <2>2, <2>3 DEF Request
  <2>5. req' = [req EXCEPT ![r] = q]
    BY <2>1 DEF Typed
  <2> HIDE DEF q
  <2> QED BY <2>3, <2>4, <2>5, <1>2, <1>3, <1>4 DEF Walks
<1>6. CASE \E pc \in Steps \cup (Answers \ {"guess"}) : Become(r, pc)
  BY <1>2, <1>3, <1>4, <1>6, BecomeWalks
<1>7. CASE Pass(r)
  BY <1>2, <1>3, <1>4, <1>7, PassWalks
<1>8. CASE \E n : LetIn(r, n)
  BY <1>2, <1>3, <1>4, <1>8, LetInWalks
<1>9. CheckLimit(r) => Become(r, "limited") \/ Pass(r)
  BY DEF CheckLimit
<1>10. CheckBan(r, "ban", "platform") \/ CheckBan(r, "sceneBan", "scene") \/ CheckDenylist(r) => Become(r, "refused") \/ Pass(r)
  BY DEF CheckBan, CheckDenylist
<1>11. Find(r, "valid") \/ Find(r, "parcel") \/ Break(r) => Become(r, "refused") \/ Pass(r)
  BY DEF Find, Break
<1>12. CheckSceneRoom(r) => Become(r, "refused") \/ Pass(r) \/ \E n : LetIn(r, n)
  BY DEF CheckSceneRoom
<1>13. CheckWorldRoom(r) => Pass(r) \/ \E n : LetIn(r, n)
  BY DEF CheckWorldRoom
<1> QED BY <1>1, <1>5, <1>6, <1>7, <1>8, <1>9, <1>10, <1>11, <1>12, <1>13 DEF Checks

-----------------------------------------------------------------------------
(* Every step keeps the invariant                                           *)

USE DEF At

(* A handler that goes on has no call of the limiter, and no failure of its *)
(* own is stored or timed.                                                  *)
LEMMA WalkerHasNoCall ==
    ASSUME IInv, NEW r \in Requests, req[r].pc \in Steps \cup {"idle"}
    PROVE  call[r] = "none" /\ r \notin recent /\ r \notin attempts /\ \A s \in Requests : r \notin seen[s]
<1>1. req[r].pc \notin {"record", "guess", "limited"}
  BY DEF Steps
<1>2. call[r] = "none" /\ r \notin recent
  BY <1>1 DEF IInv, Calling, Timed
<1> QED BY <1>1, <1>2 DEF IInv, Remembered, Counted

LEMMA WalkTyped ==
    ASSUME Typed, NEW r \in Requests, Walks(r)
    PROVE  /\ req' \in [Requests -> Request]
           /\ req'[r].pc \in Steps \cup (Answers \ {"guess"})
           /\ \A s \in Requests \ {r} : req'[s] = req[s]
  BY DEF Walks, Typed

LEMMA WalkKeeps ==
    ASSUME IInv, NEW r \in Requests, Walks(r), UNCHANGED <<limiter, forgiven>>, FailuresGrow
    PROVE  IInv'
<1>1. call[r] = "none" /\ r \notin recent /\ r \notin attempts /\ \A s \in Requests : r \notin seen[s]
  BY WalkerHasNoCall DEF Walks
<1>2. /\ req' \in [Requests -> Request]
      /\ req'[r].pc \in Steps \cup (Answers \ {"guess"})
      /\ \A s \in Requests \ {r} : req'[s] = req[s]
  BY WalkTyped DEF IInv
<1>3. Typed' /\ (failures' = 0 => failures = 0)
  BY <1>2 DEF IInv, Typed, LimiterTypeOK, limiter, FailuresGrow
<1>4. Calling'
  <2>1. req'[r].pc # "record"
    BY <1>2 DEF Steps, Answers
  <2> QED BY <2>1, <1>1, <1>2 DEF IInv, Calling, limiter
<1>5. (Exclusive /\ UpToDate /\ Limited)'
  BY DEF IInv, Exclusive, UpToDate, Limited, limiter
<1>6. (Timed /\ Remembered /\ Kept)'
  BY <1>1, <1>2, <1>3 DEF IInv, Typed, LimiterTypeOK, Timed, Remembered, Counted, Kept, limiter
<1> QED BY <1>3, <1>4, <1>5, <1>6 DEF IInv

(* A success clears what is stored; what was cleared is remembered.         *)
LEMMA ClearKeeps ==
    ASSUME IInv, NEW r \in Requests, Clear(r)
    PROVE  IInv'
<1>1. req[r].pc \in Steps
  BY DEF Clear, Steps
<1>2. CASE Fails /\ Become(r, "refused") /\ UNCHANGED <<limiter, forgiven>>
  <2>1. Walks(r)
    BY <1>1, <1>2, BecomeWalks DEF IInv, Answers
  <2> QED BY <1>2, <2>1, WalkKeeps DEF Fails, FailuresGrow
<1>3. CASE clearAttempts /\ forgiven' = forgiven \cup attempts /\ Pass(r) /\ UNCHANGED failures
  <2>1. Walks(r)
    BY <1>1, <1>3, PassWalks DEF IInv
  <2>2. call[r] = "none" /\ r \notin recent /\ r \notin attempts /\ \A s \in Requests : r \notin seen[s]
    BY <1>1, WalkerHasNoCall
  <2>3. /\ req' \in [Requests -> Request]
        /\ req'[r].pc \in Steps \cup (Answers \ {"guess"})
        /\ \A s \in Requests \ {r} : req'[s] = req[s]
    BY <2>1, WalkTyped DEF IInv
  <2>4. /\ attempts' = {} /\ forgiven' = forgiven \cup attempts
        /\ UNCHANGED <<lock, recent, call, seen, limited, lapsed, failures>>
    BY <1>3 DEF clearAttempts
  <2>5. Typed'
    BY <2>3, <2>4 DEF IInv, Typed, LimiterTypeOK
  <2>6. Calling'
    <3>1. req'[r].pc # "record"
      BY <2>3 DEF Steps, Answers
    <3> QED BY <3>1, <2>2, <2>3, <2>4 DEF IInv, Calling
  <2>7. (Exclusive /\ UpToDate /\ Limited)'
    BY <2>4 DEF IInv, Exclusive, UpToDate, Limited
  <2>8. (Timed /\ Remembered /\ Kept)'
    BY <2>2, <2>3, <2>4 DEF IInv, Typed, LimiterTypeOK, Timed, Remembered, Counted, Kept
  <2> QED BY <2>5, <2>6, <2>7, <2>8 DEF IInv
<1> QED BY <1>2, <1>3 DEF Clear

(* A wrong secret begins a call of the limiter.                             *)
LEMMA AccessKeeps ==
    ASSUME IInv, NEW r \in Requests, CheckAccess(r)
    PROVE  IInv'
<1>1. req[r].pc = "access" /\ "access" \in Steps
  BY DEF CheckAccess, Steps
<1>2. CASE (Pass(r) \/ Become(r, "refused")) /\ UNCHANGED limiter
  <2>1. Walks(r)
    BY <1>1, <1>2, BecomeWalks, PassWalks DEF IInv, Answers
  <2> QED BY <1>2, <2>1, WalkKeeps DEF CheckAccess, FailuresGrow
<1>3. CASE Become(r, "record") /\ recordFailedAttempt(r)
  <2>1. call[r] = "none" /\ r \notin recent /\ r \notin attempts /\ \A s \in Requests : r \notin seen[s]
    BY <1>1, WalkerHasNoCall
  <2>2. /\ req' \in [Requests -> Request] /\ req'[r].pc = "record"
        /\ \A s \in Requests \ {r} : req'[s] = req[s]
    BY <1>3 DEF Become, Answers, IInv, Typed, Request
  <2>3. /\ call' = [call EXCEPT ![r] = "lock"]
        /\ UNCHANGED <<attempts, lock, recent, seen, limited, lapsed, failures, forgiven>>
    BY <1>3 DEF CheckAccess, recordFailedAttempt, Go
  <2>4. Typed'
    BY <2>2, <2>3 DEF IInv, Typed, LimiterTypeOK
  <2>5. Calling'
    BY <2>1, <2>2, <2>3 DEF IInv, Calling, Typed, LimiterTypeOK
  <2>6. (Exclusive /\ UpToDate /\ Limited)'
    BY <2>1, <2>3 DEF IInv, Exclusive, UpToDate, Limited, Typed, LimiterTypeOK
  <2>7. (Timed /\ Remembered /\ Kept)'
    BY <2>1, <2>2, <2>3 DEF IInv, Typed, LimiterTypeOK, Timed, Remembered, Counted, Kept
  <2> QED BY <2>4, <2>5, <2>6, <2>7 DEF IInv
<1> QED BY <1>2, <1>3 DEF CheckAccess

-----------------------------------------------------------------------------
(* The limiter.  The request waits while its call goes on.                  *)

LEMMA AcquireKeeps ==
    ASSUME IInv, NEW r \in Requests, Acquire(r), UNCHANGED <<req, failures, forgiven>>
    PROVE  IInv'
<1>1. Typed'
  BY DEF IInv, Typed, LimiterTypeOK, Acquire, Go
<1>2. (Calling /\ UpToDate /\ Timed /\ Limited /\ Remembered /\ Kept)'
  BY DEF IInv, Typed, LimiterTypeOK, Acquire, Go, Calling, UpToDate, Timed, Limited, Remembered, Counted, Kept
<1>3. Exclusive'
  BY RateLimiterAssumption DEF IInv, Typed, LimiterTypeOK, Acquire, Go, Exclusive
<1> QED BY <1>1, <1>2, <1>3 DEF IInv

(* A call that gives up has timed nothing.                                  *)
LEMMA GiveUpKeeps ==
    ASSUME IInv, NEW r \in Requests, GiveUp(r), UNCHANGED <<req, failures, forgiven>>
    PROVE  IInv'
<1>1. r \notin recent
  BY DEF IInv, Timed, Calling, GiveUp
<1>2. Typed'
  BY DEF IInv, Typed, LimiterTypeOK, GiveUp, Go
<1>3. (Calling /\ Exclusive /\ UpToDate /\ Timed /\ Limited)'
  BY DEF IInv, Typed, LimiterTypeOK, GiveUp, Go, Calling, Exclusive, UpToDate, Timed, Limited
<1>4. Remembered' /\ Kept'
  BY <1>1 DEF IInv, Typed, LimiterTypeOK, GiveUp, Go, Limited, Remembered, Counted, Kept
<1> QED BY <1>2, <1>3, <1>4 DEF IInv

LEMMA ReadKeeps ==
    ASSUME IInv, NEW r \in Requests, ReadAttempts(r), UNCHANGED <<req, failures, forgiven>>
    PROVE  IInv'
<1> USE DEF ReadAttempts, Go
<1>1. req[r].pc = "record" /\ r \notin recent /\ r \notin limited
  BY DEF IInv, Calling, Timed, Limited
<1>2. r \notin attempts /\ \A s \in Requests : r \notin seen[s]
  BY <1>1 DEF IInv, Remembered, Counted
<1>3. Typed'
  BY DEF IInv, Typed, LimiterTypeOK
<1>4. (Calling /\ Exclusive /\ Timed /\ Limited)'
  BY DEF IInv, Typed, LimiterTypeOK, Calling, Exclusive, Timed, Limited
<1>5. UpToDate'
  BY <1>2 DEF IInv, Typed, LimiterTypeOK, UpToDate, Exclusive
<1>6. Remembered'
  BY <1>1, <1>2 DEF IInv, Typed, LimiterTypeOK, Remembered, Counted
<1>7. Kept'
  BY <1>1 DEF IInv, Typed, LimiterTypeOK, Kept, Counted
<1> QED BY <1>3, <1>4, <1>5, <1>6, <1>7 DEF IInv

(* What a call writes is all there is, and its own attempt.                 *)
LEMMA WriteKeeps ==
    ASSUME IInv, NEW r \in Requests, WriteAttempts(r), UNCHANGED <<req, failures, forgiven>>
    PROVE  IInv'
<1> USE DEF WriteAttempts, Go
<1>1. req[r].pc = "record" /\ r \notin limited
  BY DEF IInv, Calling, Limited
<1>2. Typed'
  BY DEF IInv, Typed, LimiterTypeOK
<1>3. (Calling /\ Exclusive /\ Timed /\ Limited)'
  BY DEF IInv, Typed, LimiterTypeOK, Calling, Exclusive, Timed, Limited
<1>4. UpToDate'
  BY DEF IInv, Typed, LimiterTypeOK, UpToDate, Exclusive
<1>5. Remembered'
  BY <1>1 DEF IInv, Typed, LimiterTypeOK, Remembered, Counted
<1>6. Kept'
  BY <1>1 DEF IInv, Typed, LimiterTypeOK, Kept, Counted, UpToDate
<1> QED BY <1>2, <1>3, <1>4, <1>5, <1>6 DEF IInv

LEMMA FailsKeeps ==
    ASSUME IInv, NEW r \in Requests, LimiterFails(r), Fails, UNCHANGED <<req, forgiven>>
    PROVE  IInv'
<1> USE DEF LimiterFails, Go
<1>1. req[r].pc = "record" /\ r \notin limited
  BY DEF IInv, Calling, Limited
<1>2. Typed' /\ failures' # 0
  BY DEF IInv, Typed, LimiterTypeOK, Fails
<1>3. (Calling /\ Exclusive /\ UpToDate /\ Timed /\ Limited)'
  BY DEF IInv, Typed, LimiterTypeOK, Calling, Exclusive, UpToDate, Timed, Limited
<1>4. Remembered'
  BY <1>1 DEF IInv, Typed, LimiterTypeOK, Remembered, Counted
<1>5. Kept'
  BY <1>2 DEF Kept
<1> QED BY <1>2, <1>3, <1>4, <1>5 DEF IInv

(* A release that frees the lock of another call is in lapsed.              *)
LEMMA ReleaseKeeps ==
    ASSUME IInv, NEW r \in Requests, Release(r), UNCHANGED <<req, failures, forgiven>>
    PROVE  IInv'
<1> USE DEF Release, Go
<1>1. Typed' /\ (~lapsed' => ~lapsed)
  BY DEF IInv, Typed, LimiterTypeOK
<1>2. (Calling /\ UpToDate /\ Timed /\ Limited)'
  BY <1>1 DEF IInv, Typed, LimiterTypeOK, Calling, UpToDate, Timed, Limited
<1>3. Exclusive'
  <2> SUFFICES ASSUME ~lapsed', NEW s \in Requests, call'[s] \in {"read", "write"}
               PROVE  lock' = s
    BY DEF Exclusive
  <2>1. s # r /\ call[s] \in {"read", "write"}
    BY DEF IInv, Typed, LimiterTypeOK
  <2>2. lock = s /\ Holding(s)
    BY <1>1, <2>1 DEF IInv, Exclusive, Holding
  <2> QED BY <2>2
<1>4. Remembered' /\ Kept'
  BY <1>1 DEF IInv, Typed, LimiterTypeOK, Remembered, Counted, Kept
<1> QED BY <1>1, <1>2, <1>3, <1>4 DEF IInv

(* A call that was not limited is answered as a guess, and counted as one.  *)
LEMMA RecordedKeeps ==
    ASSUME IInv, NEW r \in Requests, Recorded(r)
    PROVE  IInv'
<1>1. /\ call[r] = "done" /\ call' = [call EXCEPT ![r] = "none"]
      /\ limited' = limited \ {r}
      /\ UNCHANGED <<attempts, lock, recent, seen, lapsed, failures, forgiven>>
  BY DEF Recorded, Answered, Go
<1>2. /\ req' \in [Requests -> Request]
      /\ req'[r].pc = IF r \in limited THEN "limited" ELSE "guess"
      /\ \A s \in Requests \ {r} : req'[s] = req[s]
  BY IdleTyped DEF Recorded, Become, Answers, IInv, Typed, Request
<1>3. Typed'
  BY <1>1, <1>2 DEF IInv, Typed, LimiterTypeOK
<1>4. Calling'
  BY <1>1, <1>2 DEF IInv, Typed, LimiterTypeOK, Calling
<1>5. (Exclusive /\ UpToDate /\ Limited)'
  BY <1>1 DEF IInv, Typed, LimiterTypeOK, Exclusive, UpToDate, Limited
<1>6. \A s \in Requests : Counted(s)' <=> Counted(s)
  <2>1. ASSUME NEW s \in Requests \ {r} PROVE Counted(s)' <=> Counted(s)
    BY <1>1, <1>2 DEF IInv, Typed, LimiterTypeOK, Counted
  <2>2. req[r].pc # "guess"
    BY <1>1 DEF IInv, Calling
  <2>3. Counted(r)' <=> Counted(r)
    BY <1>1, <1>2, <2>2 DEF IInv, Typed, LimiterTypeOK, Counted
  <2> QED BY <2>1, <2>3
<1>7. Timed'
  BY <1>1, <1>2 DEF IInv, Typed, LimiterTypeOK, Timed
<1>8. Remembered' /\ Kept'
  BY <1>1, <1>6 DEF IInv, Typed, LimiterTypeOK, Remembered, Kept
<1> QED BY <1>3, <1>4, <1>5, <1>7, <1>8 DEF IInv

-----------------------------------------------------------------------------
(* The rest                                                                 *)

LEMMA BeginKeeps ==
    ASSUME IInv, NEW r \in Requests, NEW x \in Wallets, NEW e \in Endpoints, Begin(r, x, e)
    PROVE  IInv'
<1> DEFINE q == [pc |-> Path[e][1], wallet |-> x, endpoint |-> e, shared |-> FALSE]
<1>1. q \in Request /\ q.pc \in Steps
  BY PathStarts DEF Request
<1>2. req[r].pc = "idle" /\ req' = [req EXCEPT ![r] = q]
  BY DEF Begin
<1> HIDE DEF q
<1>3. Walks(r)
  BY <1>1, <1>2 DEF Walks
<1> QED BY <1>3, WalkKeeps DEF Begin, FailuresGrow

LEMMA ForgetKeeps ==
    ASSUME IInv, NEW r \in Requests, Forget(r)
    PROVE  IInv'
<1>1. /\ req[r].pc \in Answers /\ r \notin recent /\ r \notin attempts
      /\ \A s \in Requests : r \notin seen[s]
      /\ forgiven' = forgiven \ {r} /\ UNCHANGED <<limiter, failures>>
  BY DEF Forget
<1>2. req' \in [Requests -> Request] /\ req'[r].pc = "idle" /\ \A s \in Requests \ {r} : req'[s] = req[s]
  BY IdleTyped DEF Forget, Idle, IInv, Typed
<1>3. Typed'
  BY <1>1, <1>2 DEF IInv, Typed, LimiterTypeOK, limiter
<1>4. Calling'
  <2>1. req[r].pc # "record"
    BY <1>1 DEF Answers
  <2> QED BY <2>1, <1>1, <1>2 DEF IInv, Calling, limiter
<1>5. (Exclusive /\ UpToDate /\ Limited)'
  BY <1>1 DEF IInv, Exclusive, UpToDate, Limited, limiter
<1>6. (Timed /\ Remembered /\ Kept)'
  BY <1>1, <1>2 DEF IInv, Typed, LimiterTypeOK, Timed, Remembered, Counted, Kept, limiter
<1> QED BY <1>3, <1>4, <1>5, <1>6 DEF IInv

(* A lock that expires while it is needed is in lapsed.                     *)
LEMMA TimeKeeps ==
    ASSUME IInv, Time
    PROVE  IInv'
<1>1. ASSUME NEW r \in Requests, LeaveWindow(r), UNCHANGED <<req, failures, forgiven>> PROVE IInv'
  BY <1>1 DEF IInv, Typed, LimiterTypeOK, LeaveWindow, Calling, Exclusive, UpToDate, Timed, Limited, Remembered, Counted, Kept
<1>2. ASSUME KeyExpires, UNCHANGED <<req, failures, forgiven>> PROVE IInv'
  BY <1>2 DEF IInv, Typed, LimiterTypeOK, KeyExpires, Calling, Exclusive, UpToDate, Timed, Limited, Remembered, Counted, Kept
<1>3. ASSUME LockExpires, Fails, UNCHANGED <<req, forgiven>> PROVE IInv'
  <2>1. Typed' /\ failures' # 0 /\ (~lapsed' => ~lapsed)
    BY <1>3 DEF IInv, Typed, LimiterTypeOK, LockExpires, Fails
  <2>2. (Calling /\ UpToDate /\ Timed /\ Limited /\ Remembered /\ Kept)'
    BY <1>3, <2>1 DEF IInv, LockExpires, Calling, UpToDate, Timed, Limited, Remembered, Counted, Kept
  <2>3. Exclusive'
    <3> SUFFICES ASSUME ~lapsed', NEW s \in Requests, call[s] \in {"read", "write"} PROVE FALSE
      BY <1>3 DEF Exclusive, LockExpires
    <3>1. lock = s /\ Holding(lock)
      BY <2>1 DEF IInv, Exclusive, Holding
    <3> QED BY <1>3, <3>1 DEF LockExpires
  <2> QED BY <2>1, <2>2, <2>3 DEF IInv
<1> QED BY <1>1, <1>2, <1>3 DEF Time

LEMMA ElsewhereKeeps ==
    ASSUME IInv, UNCHANGED <<limiter, req, failures, forgiven>>
    PROVE  IInv'
  BY DEF limiter, IInv, Typed, LimiterTypeOK, Calling, Exclusive, UpToDate, Timed, Limited, Remembered, Counted, Kept

LEMMA Initially == Init => IInv
<1> SUFFICES ASSUME Init PROVE IInv
  OBVIOUS
<1> USE DEF Init, RateLimiterInit
<1>1. Typed
  BY IdleTyped DEF Typed, LimiterTypeOK
<1>2. Calling
  BY DEF Calling, Idle
<1> QED BY <1>1, <1>2 DEF IInv, Exclusive, UpToDate, Timed, Limited, Remembered, Kept

LEMMA StepKeeps == IInv /\ [Next]_vars => IInv'
<1> SUFFICES ASSUME IInv, [Next]_vars PROVE IInv'
  OBVIOUS
<1>1. CASE UNCHANGED vars
  BY <1>1, ElsewhereKeeps DEF vars
<1>2. ASSUME NEW r \in Requests, NEW x \in Wallets, NEW e \in Endpoints, Begin(r, x, e) PROVE IInv'
  BY <1>2, BeginKeeps
<1>3. ASSUME NEW r \in Requests, Handle(r) PROVE IInv'
  <2>1. CASE Checks(r)
    BY <2>1, ChecksWalk, WalkKeeps DEF IInv
  <2>2. CASE Record(r)
    BY <2>2, AcquireKeeps, GiveUpKeeps, ReadKeeps, WriteKeeps, ReleaseKeeps, FailsKeeps DEF Record
  <2>3. CASE CheckAccess(r) \/ Recorded(r) \/ Clear(r)
    BY <2>3, AccessKeeps, RecordedKeeps, ClearKeeps
  <2> QED BY <1>3, <2>1, <2>2, <2>3 DEF Handle, Checks
<1>4. ASSUME NEW r \in Requests, Forget(r) PROVE IInv'
  BY <1>4, ForgetKeeps
<1>5. CASE Change \/ Expire
  BY <1>5, ElsewhereKeeps DEF Change, Expire
<1>6. CASE Time
  BY <1>6, TimeKeeps
<1> QED BY <1>1, <1>2, <1>3, <1>4, <1>5, <1>6 DEF Next, Step

LEMMA Invariant == Spec => []IInv
<1>1. Init => IInv
  BY Initially
<1>2. IInv /\ [Next]_vars => IInv'
  BY StepKeeps
<1> QED BY <1>1, <1>2, PTL DEF Spec

(* GuessesAreCounted, for any number of requests: a guess that was answered *)
(* as one is stored until its minute is over or a success clears it, though *)
(* reading and writing are apart, as long as no lock was lost and Redis did *)
(* not fail.                                                                *)
THEOREM NoGuessIsLost == Spec => []GuessesAreCounted
<1>1. IInv => GuessesAreCounted
  BY DEF IInv, Kept, Counted, GuessesAreCounted
<1> QED BY <1>1, Invariant, PTL

-----------------------------------------------------------------------------
(* Who is limited                                                           *)

TooMany(r) == Cardinality({s \in recent \ {r} : At(s, "guess") \/ At(s, "record")}) >= MaxAttempts
Deserved == \A r \in Requests : req'[r].pc = "limited" /\ At(r, "limit") => TooMany(r)

(* What is stored and recent are the guesses of other requests.             *)
LEMMA LimitedByGuesses ==
    ASSUME IInv, NEW r \in Requests, req[r].pc = "limit", isRateLimited
    PROVE  TooMany(r)
<1> DEFINE Guesses == {s \in recent \ {r} : At(s, "guess") \/ At(s, "record")}
<1>1. attempts \cap recent \subseteq Guesses
  BY DEF IInv, Typed, LimiterTypeOK, Remembered, Counted, Calling
<1>2. IsFiniteSet(Guesses)
  <2>1. Guesses \subseteq Requests
    BY DEF IInv, Typed, LimiterTypeOK
  <2> HIDE DEF Guesses
  <2> QED BY <2>1, RateLimiterAssumption, FS_Subset
<1> HIDE DEF Guesses
<1>3. Cardinality(attempts \cap recent) <= Cardinality(Guesses)
  BY <1>1, <1>2, FS_Subset
<1>4. IsFiniteSet(attempts \cap recent)
  BY <1>1, <1>2, FS_Subset
<1>5. Cardinality(attempts \cap recent) \in Nat /\ Cardinality(Guesses) \in Nat
  BY <1>2, <1>4, FS_CardinalityType
<1>6. Cardinality(Guesses) >= MaxAttempts
  BY <1>3, <1>5, RateLimiterAssumption DEF isRateLimited
<1> QED BY <1>6 DEF TooMany, Guesses

(* A handler changes its own request only.                                  *)
LEMMA OthersUntouched ==
    ASSUME IInv, NEW r \in Requests, NEW s \in Requests, s # r, Handle(s)
    PROVE  req'[r] = req[r]
<1>1. CASE Checks(s)
  BY <1>1, ChecksWalk, WalkTyped DEF IInv
<1>2. CASE Record(s)
  BY <1>2 DEF Record
<1>3. CASE CheckAccess(s) \/ Recorded(s) \/ Clear(s)
  BY <1>3 DEF CheckAccess, Recorded, Clear, Become, Pass, IInv, Typed
<1> QED BY <1>1, <1>2, <1>3 DEF Handle, Checks

(* Only CheckLimit turns a request away that is at its limit check.         *)
LEMMA OnlyCheckLimitLimits ==
    ASSUME IInv, Next, NEW r \in Requests, req[r].pc = "limit", req'[r].pc = "limited"
    PROVE  isRateLimited
<1>1. ASSUME NEW s \in Requests, NEW x \in Wallets, NEW e \in Endpoints, Begin(s, x, e) PROVE FALSE
  BY <1>1 DEF Begin, IInv, Typed
<1>2. ASSUME NEW s \in Requests, Forget(s) PROVE FALSE
  BY <1>2, IdleTyped DEF Forget, Idle, IInv, Typed, Answers
<1>3. CASE Change \/ Expire \/ Time
  BY <1>3 DEF Change, Expire, Time
<1>4. ASSUME NEW s \in Requests, Handle(s) PROVE isRateLimited
  <2>1. CASE s # r
    <3>1. req'[r] = req[r]
      BY <1>4, <2>1, OthersUntouched
    <3> QED BY <3>1
  <2>2. CASE s = r
    <3>1. CheckLimit(r) \/ Record(r)
      BY <1>4, <2>2 DEF Handle, ReadSetting, CheckBan, CheckDenylist, Find, CheckAccess, Recorded,
                        CheckWorldRoom, CheckSceneRoom, Clear, Break
    <3>2. ~Record(r)
      BY DEF Record
    <3>3. ~Pass(r)
      <4>1. req[r].pc \in Steps /\ req[r].endpoint \in Endpoints /\ req[r].shared \in BOOLEAN
        BY DEF IInv, Typed, Request, Steps
      <4>2. ASSUME NEW pc \in Steps, Become(r, pc) PROVE FALSE
        BY <4>2, IdleTyped DEF Become, Steps, IInv, Typed, Request
      <4> QED BY <4>1, <4>2, FollowingTyped DEF Pass
    <3> QED BY <3>1, <3>2, <3>3 DEF CheckLimit
  <2> QED BY <2>1, <2>2
<1> QED BY <1>1, <1>2, <1>3, <1>4 DEF Next, Step

(* LimitsAreDeserved, for any limit and number of requests: who is turned   *)
(* away comes after as many guesses of others within the last minute, those *)
(* that are stored being no more than were made.                            *)
THEOREM LimitsFollowGuesses == Spec => LimitsAreDeserved
<1>1. IInv /\ [Next]_vars => [Deserved]_vars
  BY OnlyCheckLimitLimits, LimitedByGuesses DEF Deserved
<1>2. LimitsAreDeserved <=> [][Deserved]_vars
  BY DEF LimitsAreDeserved, Deserved, TooMany
<1> QED BY <1>1, <1>2, Invariant, PTL DEF Spec
-----------------------------------------------------------------------------
(* Who gets a token                                                         *)

\* The check that asks for each ground.
CheckOf == [access |-> "access", platform |-> "ban", denylist |-> "denylist", scene |-> "sceneBan",
            worldFull |-> "room", sceneFull |-> "room"]

\* What a handler at pc has still to ask for.
Ahead(e, pc) ==
    {why \in Checked[e] : \E i, j \in DOMAIN Path[e] : i <= j /\ Path[e][i] = pc /\ Path[e][j] = CheckOf[why]}

\* What has barred a request all through bars it now, and was not asked for yet.
Justified ==
    \A r \in Requests : /\ held[r] \subseteq BarsOf(r)
                        /\ req[r].pc \in Steps => held[r] \subseteq Ahead(req[r].endpoint, req[r].pc)

(* The paths visit no step twice, and end with the token.                   *)
LEMMA PathsDiffer ==
    ASSUME NEW e \in Endpoints
    PROVE  /\ DOMAIN Path[e] \subseteq Nat
           /\ \A i, j \in DOMAIN Path[e] : Path[e][i] = Path[e][j] => i = j
           /\ \A i, j \in DOMAIN Path[e] : i <= j /\ Path[e][i] = "token" => i = j
           /\ 1 \in DOMAIN Path[e]
           /\ \A i \in DOMAIN Path[e] : 1 <= i
<1>1. CASE e = "world"
  BY <1>1 DEF Path
<1>2. CASE e = "scene"
  BY <1>2 DEF Path
<1>3. CASE e = "adapter"
  BY <1>3 DEF Path
<1> QED BY <1>1, <1>2, <1>3 DEF Endpoints

(* Each ground has its check on the path, and the token is none.            *)
LEMMA ChecksOnPath ==
    ASSUME NEW e \in Endpoints, NEW why \in Checked[e]
    PROVE  /\ \E j \in DOMAIN Path[e] : Path[e][j] = CheckOf[why]
           /\ CheckOf[why] \in Steps \ {"limit", "clear", "token"}
<1>1. CASE e = "world"
  <2>1. /\ 3 \in DOMAIN Path[e] /\ Path[e][3] = "ban" /\ 4 \in DOMAIN Path[e] /\ Path[e][4] = "denylist"
        /\ 6 \in DOMAIN Path[e] /\ Path[e][6] = "access" /\ 7 \in DOMAIN Path[e] /\ Path[e][7] = "room"
    BY <1>1 DEF Path
  <2> QED BY <1>1, <2>1 DEF Checked, CheckOf, Steps
<1>2. CASE e = "scene"
  <2>1. /\ 3 \in DOMAIN Path[e] /\ Path[e][3] = "ban" /\ 4 \in DOMAIN Path[e] /\ Path[e][4] = "denylist"
        /\ 6 \in DOMAIN Path[e] /\ Path[e][6] = "access" /\ 8 \in DOMAIN Path[e] /\ Path[e][8] = "sceneBan"
        /\ 9 \in DOMAIN Path[e] /\ Path[e][9] = "room"
    BY <1>2 DEF Path
  <2> QED BY <1>2, <2>1 DEF Checked, CheckOf, Steps
<1>3. CASE e = "adapter"
  <2>1. 4 \in DOMAIN Path[e] /\ Path[e][4] = "access"
    BY <1>3 DEF Path
  <2> QED BY <1>3, <2>1 DEF Checked, CheckOf, Steps
<1> QED BY <1>1, <1>2, <1>3 DEF Endpoints

(* All is ahead of a handler that begins, nothing of one that has the       *)
(* token, and one that goes on leaves only the check behind that it made:   *)
(* what it skips is the limiter.                                            *)
LEMMA AllAheadAtFirst ==
    ASSUME NEW e \in Endpoints
    PROVE  Checked[e] \subseteq Ahead(e, Path[e][1])
  BY PathsDiffer, ChecksOnPath DEF Ahead

LEMMA NothingAheadAtLast ==
    ASSUME NEW e \in Endpoints
    PROVE  Ahead(e, "token") = {}
<1> SUFFICES ASSUME NEW why \in Checked[e], NEW i \in DOMAIN Path[e], NEW j \in DOMAIN Path[e],
                    i <= j, Path[e][i] = "token", Path[e][j] = CheckOf[why]
             PROVE  FALSE
  BY DEF Ahead
<1>1. i = j
  BY PathsDiffer
<1>2. CheckOf[why] # "token"
  BY ChecksOnPath
<1> QED BY <1>1, <1>2

LEMMA AheadOfNext ==
    ASSUME NEW e \in Endpoints, NEW shared \in BOOLEAN, NEW pc \in Steps, NEW next \in After(e, shared, pc),
           NEW why \in Ahead(e, pc), CheckOf[why] # pc
    PROVE  why \in Ahead(e, next)
<1>1. PICK i, j \in DOMAIN Path[e] :
         /\ i < j /\ Path[e][i] = pc /\ Path[e][j] = next
         /\ \A k \in i + 1 .. j - 1 : ~Needed(shared, Path[e][k])
  BY DEF After
<1>2. PICK h, k \in DOMAIN Path[e] : h <= k /\ Path[e][h] = pc /\ Path[e][k] = CheckOf[why]
  BY DEF Ahead
<1>3. why \in Checked[e] /\ CheckOf[why] \notin {"limit", "clear"}
  BY ChecksOnPath DEF Ahead
<1>4. h = i /\ k # i /\ i \in Nat /\ j \in Nat /\ k \in Nat
  BY <1>1, <1>2, PathsDiffer
<1>5. Needed(shared, Path[e][k])
  BY <1>2, <1>3 DEF Needed
<1>6. k \notin i + 1 .. j - 1
  BY <1>1, <1>5
<1>7. j <= k
  BY <1>2, <1>4, <1>6
<1> QED BY <1>1, <1>2, <1>3, <1>7 DEF Ahead

(* A check that lets a handler go on rules its own ground out.              *)
LEMMA PassRulesOut ==
    ASSUME IInv, NEW r \in Requests, Handle(r), req'[r] # req[r], req'[r].pc \in Steps, failures' = 0,
           NEW why \in Bars(req[r])
    PROVE  CheckOf[why] # req[r].pc
<1>1. req[r] \in Request /\ why \in Checked[req[r].endpoint] /\ req \in [Requests -> Request]
  BY DEF Bars, IInv, Typed
<1>2. ~Become(r, "refused") /\ ~Become(r, "record")
  BY <1>1 DEF Become, Idle, Answers, Request, Steps
<1>3. ~Fails /\ ~Record(r)
  BY DEF Fails, Record, IInv, Typed
<1>4. why \in {"access", "platform", "denylist", "scene", "worldFull", "sceneFull"}
  BY <1>1 DEF Checked, Request, Endpoints
<1> SUFFICES ASSUME req[r].pc = CheckOf[why] PROVE FALSE
  OBVIOUS
<1>5. CASE why = "access"
  <2>1. ~Entitled(req[r])
    BY <1>5 DEF Bars
  <2>2. CheckAccess(r)
    BY <1>2, <1>3, <1>5 DEF CheckOf, Handle, ReadSetting, CheckLimit, CheckBan, CheckDenylist, Find, CheckAccess, Recorded, CheckWorldRoom,
           CheckSceneRoom, Clear, Break
  <2> QED BY <1>2, <2>1, <2>2 DEF CheckAccess
<1>6. CASE why = "platform"
  <2>1. Is(req[r], "platform")
    BY <1>6 DEF Bars
  <2>2. CheckBan(r, "ban", "platform")
    BY <1>3, <1>6 DEF CheckOf, Handle, ReadSetting, CheckLimit, CheckBan, CheckDenylist, Find, CheckAccess, Recorded, CheckWorldRoom,
           CheckSceneRoom, Clear, Break
  <2> QED BY <1>2, <1>3, <2>1, <2>2 DEF CheckBan
<1>7. CASE why = "scene"
  <2>1. Is(req[r], "scene")
    BY <1>7 DEF Bars
  <2>2. CheckBan(r, "sceneBan", "scene")
    BY <1>3, <1>7 DEF CheckOf, Handle, ReadSetting, CheckLimit, CheckBan, CheckDenylist, Find, CheckAccess, Recorded, CheckWorldRoom,
           CheckSceneRoom, Clear, Break
  <2> QED BY <1>2, <1>3, <2>1, <2>2 DEF CheckBan
<1>8. CASE why = "denylist"
  <2>1. Is(req[r], "denylist") /\ \A L \in denylist : req[r].wallet \in L
    BY <1>8 DEF Bars
  <2>2. CheckDenylist(r)
    BY <1>3, <1>8 DEF CheckOf, Handle, ReadSetting, CheckLimit, CheckBan, CheckDenylist, Find, CheckAccess, Recorded, CheckWorldRoom,
           CheckSceneRoom, Clear, Break
  <2>3. req[r].wallet \in Wallets
    BY <1>1 DEF Request
  <2>4. req[r].wallet \notin UNION denylist'
    BY <1>2, <2>2 DEF CheckDenylist
  <2>5. (denylist # {} /\ denylist' = denylist) \/ denylist' = {{x \in Wallets : <<x, "denylist">> \in barred}}
    BY <1>3, <2>2 DEF CheckDenylist
  <2> QED BY <2>1, <2>3, <2>4, <2>5 DEF Is
<1>9. CASE why = "worldFull"
  <2>1. users["world"] = MaxUsers /\ \A s \in status : s.fresh => s.n = MaxUsers
    BY <1>9 DEF Bars, Full
  <2>2. ~LetIn(r, MaxUsers)
    BY <1>2, HandshakeAssumption DEF LetIn
  <2>3. CheckWorldRoom(r)
    <3>1. req[r].endpoint # "scene"
      BY <1>1, <1>9 DEF Checked
    <3> QED BY <1>3, <1>9, <3>1 DEF CheckOf, Handle, ReadSetting, CheckLimit, CheckBan, CheckDenylist, Find, CheckAccess, Recorded, CheckWorldRoom,
           CheckSceneRoom, Clear, Break
  <2>4. \A s \in status : ~s.fresh
    BY <2>1, <2>2, <2>3 DEF CheckWorldRoom
  <2>5. status' = RoomsStatus
    BY <1>3, <2>3, <2>4 DEF CheckWorldRoom
  <2>6. status' # {} /\ \A s \in status' : s.n = MaxUsers
    BY <2>1, <2>5 DEF RoomsStatus, Count
  <2>7. \A s \in status' : LetIn(r, s.n)
    BY <2>3, <2>4, <2>6 DEF CheckWorldRoom
  <2> QED BY <2>2, <2>6, <2>7
<1>10. CASE why = "sceneFull"
  <2>1. users["scene"] = MaxUsers
    BY <1>10 DEF Bars, Full
  <2>2. ~LetIn(r, Count("scene"))
    BY <1>2, <2>1, HandshakeAssumption DEF LetIn, Count
  <2>3. CheckSceneRoom(r)
    <3>1. req[r].endpoint # "world"
      BY <1>1, <1>10 DEF Checked
    <3> QED BY <1>3, <1>10, <3>1 DEF CheckOf, Handle, ReadSetting, CheckLimit, CheckBan, CheckDenylist, Find, CheckAccess, Recorded, CheckWorldRoom,
           CheckSceneRoom, Clear, Break
  <2> QED BY <1>3, <2>2, <2>3 DEF CheckSceneRoom
<1> QED BY <1>4, <1>5, <1>6, <1>7, <1>8, <1>9, <1>10

(* A handler that has not failed goes on along its path.                    *)
LEMMA GoesOn ==
    ASSUME IInv, NEW r \in Requests, Handle(r), req'[r] # req[r], req'[r].pc \in Steps
    PROVE  /\ req[r].pc \in Steps
           /\ \E shared \in BOOLEAN : req'[r].pc \in After(req[r].endpoint, shared, req[r].pc)
           /\ req'[r].pc # "token" => req'[r].endpoint = req[r].endpoint
<1>1. /\ req[r] \in Request /\ req \in [Requests -> Request]
      /\ req[r].endpoint \in Endpoints /\ req[r].shared \in BOOLEAN
  BY DEF IInv, Typed, Request
<1>2. \A pc \in {"refused", "limited", "guess", "record"} : ~Become(r, pc)
  BY <1>1 DEF Become, Idle, Answers, Request, Steps
<1>3. ~Record(r) /\ ~Recorded(r)
  BY <1>2 DEF Record, Recorded
<1>4. req[r].pc \in Steps
  BY <1>3 DEF Handle, ReadSetting, CheckLimit, CheckBan, CheckDenylist, Find, CheckAccess, CheckWorldRoom,
              CheckSceneRoom, Clear, Break, Steps
<1>5. CASE ReadSetting(r)
  <2>1. PICK pc \in Following[req[r].endpoint][(access \in Secrets)]["setting"] :
            req' = [req EXCEPT ![r] = [@ EXCEPT !.pc = pc, !.shared = access \in Secrets]]
    BY <1>5 DEF ReadSetting
  <2> DEFINE q == [req[r] EXCEPT !.pc = pc, !.shared = access \in Secrets]
  <2>2. req'[r] = q
    BY <1>1, <2>1
  <2>3. q.pc = pc /\ q.endpoint = req[r].endpoint
    BY <1>1 DEF Request
  <2>4. (access \in Secrets) \in BOOLEAN /\ "setting" \in Steps /\ req[r].pc = "setting"
    BY <1>5 DEF Steps, ReadSetting
  <2>5. pc \in After(req[r].endpoint, (access \in Secrets), req[r].pc)
    BY <1>1, <2>1, <2>4, FollowingIsAfter
  <2> HIDE DEF q
  <2> QED BY <1>4, <2>2, <2>3, <2>4, <2>5
<1>6. CASE Pass(r)
  <2>1. PICK pc \in Following[req[r].endpoint][req[r].shared][req[r].pc] : Become(r, pc)
    BY <1>6 DEF Pass
  <2>2. pc \in After(req[r].endpoint, req[r].shared, req[r].pc)
    BY <1>1, <1>4, <2>1, FollowingIsAfter
  <2>3. pc \in Steps
    BY <2>2 DEF After
  <2>4. req'[r].pc = pc
    BY <1>1, <2>1, IdleTyped DEF Become, Request
  <2>5. pc # "token" => req'[r].endpoint = req[r].endpoint
    BY <1>1, <2>1, <2>3 DEF Become, Request, Answers, Steps
  <2> QED BY <1>1, <1>4, <2>2, <2>4, <2>5
<1>7. ASSUME ~Pass(r), NEW n PROVE ~LetIn(r, n)
  BY <1>2, <1>7 DEF LetIn
<1> QED BY <1>2, <1>3, <1>5, <1>6, <1>7
        DEF Handle, CheckLimit, CheckBan, CheckDenylist, Find, CheckAccess, CheckWorldRoom, CheckSceneRoom, Clear, Break

(* A request begins with Begin, and goes on with its handler only.          *)
LEMMA OnlyHandleGoesOn ==
    ASSUME IInv, Step, NEW r \in Requests, req[r].pc # "idle", req'[r] # req[r], req'[r].pc \in Steps
    PROVE  Handle(r)
<1>1. req \in [Requests -> Request] /\ "idle" \notin Steps
  BY DEF IInv, Typed, Steps
<1>2. ASSUME NEW s \in Requests, NEW x \in Wallets, NEW e \in Endpoints, Begin(s, x, e) PROVE FALSE
  BY <1>1, <1>2 DEF Begin
<1>3. ASSUME NEW s \in Requests, Forget(s) PROVE FALSE
  BY <1>1, <1>3 DEF Forget, Idle
<1>4. ~Change /\ ~Expire /\ ~Time
  BY DEF Change, Expire, Time
<1>5. ASSUME NEW s \in Requests, s # r, Handle(s) PROVE FALSE
  BY <1>5, OthersUntouched
<1> QED BY <1>2, <1>3, <1>4, <1>5 DEF Step

LEMMA OnlyBeginBegins ==
    ASSUME IInv, Next, NEW r \in Requests, req[r].pc = "idle", req'[r] # req[r]
    PROVE  \E x \in Wallets, e \in Endpoints : Begin(r, x, e)
<1>1. req \in [Requests -> Request]
  BY DEF IInv, Typed
<1>2. ASSUME NEW s \in Requests, s # r, NEW x \in Wallets, NEW e \in Endpoints, Begin(s, x, e) PROVE FALSE
  BY <1>1, <1>2 DEF Begin
<1>3. ASSUME NEW s \in Requests, Forget(s) PROVE FALSE
  BY <1>1, <1>3 DEF Forget, Answers
<1>4. ~Change /\ ~Expire /\ ~Time
  BY DEF Change, Expire, Time
<1>5. ASSUME NEW s \in Requests, s # r, Handle(s) PROVE FALSE
  BY <1>5, OthersUntouched
<1>6. ASSUME Handle(r) PROVE FALSE
  <2>1. ~Record(r)
    BY DEF Record
  <2> QED BY <1>6, <2>1 DEF Handle, ReadSetting, CheckLimit, CheckBan, CheckDenylist, Find, CheckAccess, Recorded,
             CheckWorldRoom, CheckSceneRoom, Clear, Break
<1> QED BY <1>2, <1>3, <1>4, <1>5, <1>6 DEF Next, Step

(* What is left that barred it is ahead of it still.                        *)
LEMMA HandleJustified ==
    ASSUME IInv, Justified, NEW r \in Requests, Handle(r), req'[r] # req[r], req'[r].pc \in Steps, failures' = 0
    PROVE  \E e \in Endpoints : /\ held[r] \subseteq Ahead(e, req'[r].pc)
                                /\ req'[r].pc # "token" => req'[r].endpoint = e
<1>1. req[r].pc \in Steps
  BY GoesOn
<1>2. PICK shared \in BOOLEAN : req'[r].pc \in After(req[r].endpoint, shared, req[r].pc)
  BY GoesOn
<1>3. req'[r].pc # "token" => req'[r].endpoint = req[r].endpoint
  BY GoesOn
<1>4. req[r].endpoint \in Endpoints
  BY DEF IInv, Typed, Request
<1>5. ASSUME NEW why \in held[r] PROVE why \in Ahead(req[r].endpoint, req'[r].pc)
  <2>1. why \in BarsOf(r) /\ why \in Ahead(req[r].endpoint, req[r].pc)
    BY <1>1, <1>5 DEF Justified
  <2>2. why \in Bars(req[r])
    BY <2>1 DEF BarsOf
  <2>3. CheckOf[why] # req[r].pc
    BY <2>2, PassRulesOut
  <2> QED BY <1>1, <1>2, <1>4, <2>1, <2>3, AheadOfNext
<1> QED BY <1>3, <1>4, <1>5

LEMMA StepJustified ==
    ASSUME IInv, Justified, IInv', Next
    PROVE  Justified'
<1> SUFFICES ASSUME NEW r \in Requests
             PROVE  /\ held'[r] \subseteq BarsOf(r)'
                    /\ req'[r].pc \in Steps => held'[r] \subseteq Ahead(req'[r].endpoint, req'[r].pc)
  BY DEF Justified
<1>1. held'[r] = IF At(r, "idle") THEN BarsOf(r)' ELSE held[r] \cap BarsOf(r)'
  BY DEF Next, History
<1>2. held'[r] \subseteq BarsOf(r)'
  BY <1>1
<1>3. ASSUME NEW why \in held'[r], req'[r].pc \in Steps
      PROVE  why \in Ahead(req'[r].endpoint, req'[r].pc)
  <2>1. /\ req'[r].pc \notin Answers /\ failures' = 0 /\ why \in Checked[req'[r].endpoint]
    <3>1. BarsOf(r)' # {} /\ why \in BarsOf(r)'
      BY <1>2, <1>3
    <3>2. req'[r].pc \notin Answers /\ ~(failures' > 0) /\ BarsOf(r)' = Bars(req[r])'
      BY <3>1 DEF BarsOf
    <3>3. failures' \in Nat
      BY DEF IInv, Typed
    <3>4. why \in Checked[req'[r].endpoint]
      BY <3>1, <3>2 DEF Bars
    <3> QED BY <3>2, <3>3, <3>4
  <2>2. req'[r].pc # "token"
    BY <2>1 DEF Answers
  <2>3. CASE req[r].pc = "idle"
    <3>1. PICK x \in Wallets, e \in Endpoints : Begin(r, x, e)
      <4>1. req'[r] # req[r]
        BY <1>3, <2>3 DEF Steps
      <4> QED BY <2>3, <4>1, OnlyBeginBegins
    <3>2. req'[r].endpoint = e /\ req'[r].pc = Path[e][1]
      BY <3>1 DEF Begin, IInv, Typed
    <3> QED BY <2>1, <3>2, AllAheadAtFirst
  <2>4. CASE req[r].pc # "idle" /\ req'[r] = req[r]
    BY <1>1, <1>3, <2>4 DEF Justified
  <2>5. CASE req[r].pc # "idle" /\ req'[r] # req[r]
    <3>1. Handle(r)
      BY <1>3, <2>5, OnlyHandleGoesOn DEF Next
    <3>2. why \in held[r]
      BY <1>1, <1>3, <2>5
    <3> QED BY <1>3, <2>1, <2>2, <2>5, <3>1, <3>2, HandleJustified
  <2> QED BY <2>3, <2>4, <2>5
<1> QED BY <1>2, <1>3

LEMMA JustifiedInvariant == Spec => []Justified
<1>1. Init => Justified
  BY DEF Init, Justified
<1>2. IInv /\ Justified /\ IInv' /\ [Next]_vars => Justified'
  <2> SUFFICES ASSUME IInv, Justified, IInv', [Next]_vars PROVE Justified'
    OBVIOUS
  <2>1. CASE Next
    BY <2>1, StepJustified
  <2>2. CASE UNCHANGED vars
    <3>1. UNCHANGED <<access, barred, users, denylist, status, req, failures, held>>
      BY <2>2 DEF vars, world, caches
    <3>2. ASSUME NEW r \in Requests PROVE BarsOf(r)' = BarsOf(r)
      BY <3>1 DEF BarsOf, Bars, Entitled, Is, Full
    <3> QED BY <3>1, <3>2 DEF Justified
  <2> QED BY <2>1, <2>2
<1> QED BY <1>1, <1>2, Invariant, PTL DEF Spec

(* TokensAreJustified, for any wallets, secrets, room size and caches that  *)
(* expire at any moment: every ground is ruled out by its own check, and    *)
(* the path to the token leaves out none.                                   *)
THEOREM NobodyBarredGetsIn == Spec => TokensAreJustified
<1> DEFINE Fair(r) == req'[r].pc = "token" /\ ~At(r, "token") /\ failures' = 0 => held[r] = {}
<1>1. IInv /\ Justified /\ [Next]_vars => [\A r \in Requests : Fair(r)]_vars
  <2> SUFFICES ASSUME IInv, Justified, Next,
                      NEW r \in Requests, req'[r].pc = "token", req[r].pc # "token", failures' = 0
               PROVE  held[r] = {}
    OBVIOUS
  <2>1. req'[r].pc \in Steps
    BY DEF Steps
  <2>2. CASE req[r].pc = "idle"
    <3>1. held[r] \subseteq BarsOf(r)
      BY DEF Justified
    <3> QED BY <2>2, <3>1 DEF BarsOf
  <2>3. CASE req[r].pc # "idle"
    <3>1. Handle(r)
      BY <2>1, <2>3, OnlyHandleGoesOn DEF Next
    <3> QED BY <2>1, <3>1, HandleJustified, NothingAheadAtLast
  <2> QED BY <2>2, <2>3
<1>2. TokensAreJustified <=> [][\A r \in Requests : Fair(r)]_vars
  BY DEF TokensAreJustified
<1> QED BY <1>1, <1>2, Invariant, JustifiedInvariant, PTL DEF Spec
=============================================================================
