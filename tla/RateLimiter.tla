---------------------------- MODULE RateLimiter ----------------------------
(***************************************************************************)
(* The limit on the guesses of a world's shared secret                     *)
(* (logic/rate-limiter): the failed attempts of one subject on one world,   *)
(* kept in Redis and changed under a lock that expires, that may not be     *)
(* obtained in time, and that clearAttempts does not take.                  *)
(*                                                                          *)
(* An attempt is the request it is recorded for.  Time is what leaves the   *)
(* window of a minute, and what expires.                                    *)
(***************************************************************************)
EXTENDS Naturals, FiniteSets

CONSTANTS Requests, Nobody, MaxAttempts

ASSUME RateLimiterAssumption ==
    IsFiniteSet(Requests) /\ Nobody \notin Requests /\ MaxAttempts \in Nat \ {0}

VARIABLES
    attempts,   \* stored under the key of the attempts
    lock,       \* who holds the key of the lock, or Nobody
    recent,     \* the requests whose failure was timed less than a minute ago
    call,       \* where recordFailedAttempt is, for each request
    seen,       \* the recent attempts it read
    limited,    \* the requests that it found rate limited
    lapsed      \* history: a lock was lost by a call that had read and not written

limiter == <<attempts, lock, recent, call, seen, limited, lapsed>>

RateLimiterInit ==
    /\ attempts = {} /\ recent = {} /\ limited = {}
    /\ lock = Nobody
    /\ call = [r \in Requests |-> "none"]
    /\ seen = [r \in Requests |-> {}]
    /\ lapsed = FALSE

LimiterTypeOK ==
    /\ attempts \subseteq Requests /\ recent \subseteq Requests /\ limited \subseteq Requests
    /\ lock \in Requests \cup {Nobody}
    /\ call \in [Requests -> {"none", "lock", "read", "write", "release", "done"}]
    /\ seen \in [Requests -> SUBSET Requests]
    /\ lapsed \in BOOLEAN

-----------------------------------------------------------------------------
\* Mutant: every stored attempt counts, however old.
isRateLimitedForever == Cardinality(attempts) >= MaxAttempts

isRateLimited == Cardinality(attempts \cap recent) >= MaxAttempts

Go(r, pc) == call' = [call EXCEPT ![r] = pc]

\* The caller asks for recordFailedAttempt.
recordFailedAttempt(r) ==
    /\ Go(r, "lock")
    /\ UNCHANGED <<attempts, lock, recent, seen, limited, lapsed>>

\* Mutant: the lock is taken by whoever asks.
AcquireHeld(r) ==
    /\ call[r] = "lock"
    /\ lock' = r /\ Go(r, "read")
    /\ UNCHANGED <<attempts, recent, seen, limited, lapsed>>

Acquire(r) ==
    /\ call[r] = "lock" /\ lock = Nobody
    /\ lock' = r /\ Go(r, "read")
    /\ UNCHANGED <<attempts, recent, seen, limited, lapsed>>

\* The retries are over: the attempt is not tracked, but the lock is released as always.
GiveUp(r) ==
    /\ call[r] = "lock" /\ lock # Nobody
    /\ Go(r, "release")
    /\ UNCHANGED <<attempts, lock, recent, seen, limited, lapsed>>

\* The attempt is timed and the recent ones are read.
ReadAttempts(r) ==
    /\ call[r] = "read"
    /\ recent' = recent \cup {r}
    /\ seen' = [seen EXCEPT ![r] = attempts \cap recent]
    /\ \/ isRateLimited /\ limited' = limited \cup {r} /\ Go(r, "release")
       \/ ~isRateLimited /\ UNCHANGED limited /\ Go(r, "write")
    /\ UNCHANGED <<attempts, lock, lapsed>>

WriteAttempts(r) ==
    /\ call[r] = "write"
    /\ attempts' = seen[r] \cup {r}
    /\ Go(r, "release")
    /\ UNCHANGED <<lock, recent, seen, limited, lapsed>>

\* Redis does not answer: the caller is not limited.
LimiterFails(r) ==
    /\ call[r] \in {"lock", "read", "write"}
    /\ Go(r, "release")
    /\ UNCHANGED <<attempts, lock, recent, seen, limited, lapsed>>

Holding(r) == lock = r /\ call[r] \in {"read", "write"}

\* tryReleaseLock, which may free the lock of another call or not.
Release(r) ==
    /\ call[r] = "release"
    /\ Go(r, "done")
    /\ seen' = [seen EXCEPT ![r] = {}]
    /\ lock' \in IF lock = r THEN {Nobody} ELSE {lock, Nobody}
    /\ lapsed' = (lapsed \/ (lock' # lock /\ \E s \in Requests : Holding(s)))
    /\ UNCHANGED <<attempts, recent, limited>>

\* The caller has the result.
Answered(r) ==
    /\ call[r] = "done"
    /\ Go(r, "none")
    /\ limited' = limited \ {r}
    /\ UNCHANGED <<attempts, lock, recent, seen, lapsed>>

clearAttempts ==
    /\ attempts' = {}
    /\ UNCHANGED <<lock, recent, call, seen, limited, lapsed>>

-----------------------------------------------------------------------------
(* Time                                                                     *)

\* The lock is kept for five seconds.
LockExpires ==
    /\ lock # Nobody
    /\ lock' = Nobody
    /\ lapsed' = (lapsed \/ Holding(lock))
    /\ UNCHANGED <<attempts, recent, call, seen, limited>>

\* A minute has gone by since the failure of r.
LeaveWindow(r) ==
    /\ r \in recent /\ call[r] = "none"
    /\ recent' = recent \ {r}
    /\ UNCHANGED <<attempts, lock, call, seen, limited, lapsed>>

\* The key of the attempts is kept ten seconds longer than the window.
KeyExpires ==
    /\ attempts # {} /\ attempts \cap recent = {}
    /\ attempts' = {}
    /\ UNCHANGED <<lock, recent, call, seen, limited, lapsed>>
=============================================================================
