---------------------------- MODULE UploadBudget ----------------------------
(***************************************************************************)
(* The admission of uploads, src/src/logic/multipart.ts: the budget shared  *)
(* by every multipart route (createInFlightUploadBudget) and the requests   *)
(* that hold a lease of it while they parse a body into temporary files     *)
(* and run their handler (multipartParserWrapper, parseAndHandle).          *)
(*                                                                          *)
(* JavaScript runs one callback at a time: an action is a callback, and     *)
(* other requests run between any two of them.  The budget lives in memory. *)
(***************************************************************************)
EXTENDS Integers, FiniteSets

CONSTANTS
    Uploads,    \* requests in progress; a finished one stands for a new one
    Capacity,   \* maxInFlightUploadBytes
    MaxFiles,   \* maxInFlightUploadFiles
    MaxUploads, \* maxConcurrentUploads
    MaxOrphans, \* maxOrphanedUploadDirectories
    MaxSize,    \* maxSizeInBytes, of one request
    Retries,    \* the number of cleanupRetryDelaysMs
    Chunks      \* the sizes of a field or of a piece of a file

\* createInFlightUploadBudget and multipartParserWrapper check these at start-up.
ASSUME LimitsAssumption ==
    /\ IsFiniteSet(Uploads)
    /\ {Capacity, MaxFiles, MaxUploads, MaxOrphans, MaxSize} \subseteq Nat \ {0}
    /\ MaxSize <= Capacity
    /\ Retries \in Nat
    /\ Chunks \subseteq Nat

VARIABLES
    reservedBytes, orphanedBytes, reservedFiles, orphanedFiles,
    orphanedDirectories, activeUploads, activeRejectedBodyDrains,
    bytes,      \* leaseBytes of each request, retainedBytes once it is released
    files,      \* leaseFiles of each request, retainedFiles once it is released
    up          \* what each request has parsed and where it is

budget == <<reservedBytes, orphanedBytes, reservedFiles, orphanedFiles,
            orphanedDirectories, activeUploads>>
vars == <<budget, activeRejectedBodyDrains, bytes, files, up>>

-----------------------------------------------------------------------------
Stages == {"idle", "draining", "admitted", "parsing", "flushing", "handling",
           "cleaning", "orphaned"}

Fresh == [pc |-> "idle", failed |-> FALSE, torn |-> FALSE, totalBytes |-> 0,
          totalFileBytes |-> 0, totalFiles |-> 0, attempt |-> 0]

Requests == [pc : Stages, failed : BOOLEAN, torn : BOOLEAN, totalBytes : Nat,
             totalFileBytes : Nat, totalFiles : Nat, attempt : 0 .. Retries]

TypeOK ==
    /\ {reservedBytes, orphanedBytes, reservedFiles, orphanedFiles} \subseteq Nat
    /\ {orphanedDirectories, activeUploads, activeRejectedBodyDrains} \subseteq Nat
    /\ bytes \in [Uploads -> 0 .. Capacity]
    /\ files \in [Uploads -> 0 .. MaxFiles]
    /\ up \in [Uploads -> Requests]

At(u, pc) == up[u].pc = pc
Goto(u, pc) == up' = [up EXCEPT ![u].pc = pc]

-----------------------------------------------------------------------------
(* The budget                                                               *)

\* Mutant: a lease is compared with the capacity and not with what others reserved.
FitsAlone(u, n) == n <= Capacity

\* lease.resize and lease.resizeFiles
Fits(u, n) == reservedBytes - bytes[u] + n <= Capacity
FitsFiles(u, n) == reservedFiles - files[u] + n <= MaxFiles

Resize(u, n) ==
    /\ reservedBytes' = reservedBytes - bytes[u] + n
    /\ bytes' = [bytes EXCEPT ![u] = n]
    /\ UNCHANGED <<orphanedBytes, reservedFiles, orphanedFiles, orphanedDirectories,
                   activeUploads, activeRejectedBodyDrains, files>>

ResizeFiles(u, n) ==
    /\ reservedFiles' = reservedFiles - files[u] + n
    /\ files' = [files EXCEPT ![u] = n]
    /\ UNCHANGED <<reservedBytes, orphanedBytes, orphanedFiles, orphanedDirectories,
                   activeUploads, activeRejectedBodyDrains, bytes>>

\* lease.release() of a request that left nothing on disk.
Release(u) ==
    /\ reservedBytes' = reservedBytes - bytes[u]
    /\ reservedFiles' = reservedFiles - files[u]
    /\ activeUploads' = activeUploads - 1
    /\ bytes' = [bytes EXCEPT ![u] = 0]
    /\ files' = [files EXCEPT ![u] = 0]
    /\ UNCHANGED <<orphanedBytes, orphanedFiles, orphanedDirectories,
                   activeRejectedBodyDrains>>

\* Mutant: the retained bytes are subtracted from nothing but the orphans.
RetainForgets(u, b, f) ==
    /\ reservedBytes' = reservedBytes - bytes[u]
    /\ reservedFiles' = reservedFiles - files[u]
    /\ orphanedBytes' = orphanedBytes + b
    /\ orphanedFiles' = orphanedFiles + f
    /\ orphanedDirectories' = orphanedDirectories + 1
    /\ activeUploads' = activeUploads - 1
    /\ bytes' = [bytes EXCEPT ![u] = b]
    /\ files' = [files EXCEPT ![u] = f]
    /\ UNCHANGED activeRejectedBodyDrains

\* lease.release({ retainBytes, retainFiles, retainDirectory: true }); it throws
\* when more is retained than was leased, which RetainedFitsLease excludes.
Retain(u, b, f) ==
    /\ reservedBytes' = reservedBytes - (bytes[u] - b)
    /\ reservedFiles' = reservedFiles - (files[u] - f)
    /\ orphanedBytes' = orphanedBytes + b
    /\ orphanedFiles' = orphanedFiles + f
    /\ orphanedDirectories' = orphanedDirectories + 1
    /\ activeUploads' = activeUploads - 1
    /\ bytes' = [bytes EXCEPT ![u] = b]
    /\ files' = [files EXCEPT ![u] = f]
    /\ UNCHANGED activeRejectedBodyDrains

ReleaseRetained(u) ==
    /\ reservedBytes' = reservedBytes - bytes[u]
    /\ reservedFiles' = reservedFiles - files[u]
    /\ orphanedBytes' = orphanedBytes - bytes[u]
    /\ orphanedFiles' = orphanedFiles - files[u]
    /\ orphanedDirectories' = orphanedDirectories - 1
    /\ bytes' = [bytes EXCEPT ![u] = 0]
    /\ files' = [files EXCEPT ![u] = 0]
    /\ UNCHANGED <<activeUploads, activeRejectedBodyDrains>>

-----------------------------------------------------------------------------
(* Admission                                                                *)

\* Mutant: the directories left behind do not stop admission.
AdmissibleBesideOrphans ==
    /\ activeUploads < MaxUploads
    /\ reservedBytes <= Capacity

Admissible ==
    /\ activeUploads < MaxUploads
    /\ orphanedDirectories < MaxOrphans
    /\ reservedBytes <= Capacity

Acquire(u) ==
    /\ At(u, "idle")
    /\ Admissible
    /\ activeUploads' = activeUploads + 1
    /\ Goto(u, "admitted")
    /\ UNCHANGED <<reservedBytes, orphanedBytes, reservedFiles, orphanedFiles,
                   orphanedDirectories, activeRejectedBodyDrains, bytes, files>>

\* A request that is not admitted, or whose Content-Length is refused before: its
\* body is read to the end if there is a drain for it, and destroyed if not.
Reject(u) ==
    /\ At(u, "idle")
    /\ activeRejectedBodyDrains < MaxUploads
    /\ activeRejectedBodyDrains' = activeRejectedBodyDrains + 1
    /\ Goto(u, "draining")
    /\ UNCHANGED <<budget, bytes, files>>

\* The end of the body, its failure, or the drain's timer.
DrainEnds(u) ==
    /\ At(u, "draining")
    /\ activeRejectedBodyDrains' = activeRejectedBodyDrains - 1
    /\ Goto(u, "idle")
    /\ UNCHANGED <<budget, bytes, files>>

MakeDirectory(u) ==
    /\ At(u, "admitted")
    /\ Goto(u, "parsing")
    /\ UNCHANGED <<budget, activeRejectedBodyDrains, bytes, files>>

\* No multipart boundary, or mkdtemp fails: nothing is on disk yet.
NoDirectory(u) ==
    /\ At(u, "admitted")
    /\ Release(u)
    /\ up' = [up EXCEPT ![u] = Fresh]

-----------------------------------------------------------------------------
(* Parsing                                                                  *)

\* Mutant: a piece that does not fit is counted before it is refused.
ReceiveCountsFirst(u, n, onDisk) ==
    LET total == up[u].totalBytes + n IN
    /\ At(u, "parsing")
    /\ ~up[u].failed
    /\ IF total <= MaxSize /\ Fits(u, total)
       THEN /\ Resize(u, total)
            /\ up' = [up EXCEPT ![u].totalBytes = total, ![u].totalFileBytes = @ + onDisk]
       ELSE /\ up' = [up EXCEPT ![u].totalBytes = total, ![u].totalFileBytes = @ + onDisk,
                               ![u].failed = TRUE, ![u].torn = TRUE]
            /\ UNCHANGED <<budget, activeRejectedBodyDrains, bytes, files>>

\* accountBytes: a field (no bytes on disk) or a piece of a file (all of it).
Receive(u, n, onDisk) ==
    LET total == up[u].totalBytes + n IN
    /\ At(u, "parsing")
    /\ ~up[u].failed
    /\ IF total <= MaxSize /\ Fits(u, total)
       THEN /\ Resize(u, total)
            /\ up' = [up EXCEPT ![u].totalBytes = total, ![u].totalFileBytes = @ + onDisk]
       ELSE /\ up' = [up EXCEPT ![u].totalBytes = total, ![u].failed = TRUE, ![u].torn = TRUE]
            /\ UNCHANGED <<budget, activeRejectedBodyDrains, bytes, files>>

Field(u, n) == Receive(u, n, 0)
FileData(u, n) == up[u].totalFiles > 0 /\ Receive(u, n, n)

\* A new file part.  One that does not fit fails the request, but the rest of the
\* body is still read; a part may also come while the pipeline is torn down.
File(u) ==
    /\ At(u, "parsing")
    /\ IF FitsFiles(u, up[u].totalFiles + 1)
       THEN /\ ResizeFiles(u, up[u].totalFiles + 1)
            /\ up' = [up EXCEPT ![u].totalFiles = @ + 1]
       ELSE /\ up' = [up EXCEPT ![u].failed = TRUE]
            /\ UNCHANGED <<budget, activeRejectedBodyDrains, bytes, files>>

\* Mutant: only the first error tears the pipeline down.
AbortParsingOnce(u) ==
    /\ At(u, "parsing")
    /\ up' = [up EXCEPT ![u].failed = TRUE, ![u].torn = @ \/ ~up[u].failed]
    /\ UNCHANGED <<budget, activeRejectedBodyDrains, bytes, files>>

\* abortParsing keeps the first error and tears the pipeline down.
AbortParsing(u) ==
    /\ At(u, "parsing")
    /\ up' = [up EXCEPT ![u].failed = TRUE, ![u].torn = TRUE]
    /\ UNCHANGED <<budget, activeRejectedBodyDrains, bytes, files>>

\* The timer of the whole upload.
Timeout(u) == ~up[u].torn /\ AbortParsing(u)

\* A limit of the parser or of the wire, a malformed body, a lost connection.
Malformed(u) == ~up[u].torn /\ AbortParsing(u)

\* A temporary file cannot be written, perhaps after the body has ended.
WriteError(u) ==
    /\ up[u].totalFiles > 0
    /\ \/ AbortParsing(u)
       \/ /\ At(u, "flushing")
          /\ up' = [up EXCEPT ![u].failed = TRUE]
          /\ UNCHANGED <<budget, activeRejectedBodyDrains, bytes, files>>

\* pipeline() resolves when the body has been read to its end ...
BodyEnds(u) ==
    /\ At(u, "parsing")
    /\ ~up[u].torn
    /\ Goto(u, "flushing")
    /\ UNCHANGED <<budget, activeRejectedBodyDrains, bytes, files>>

\* ... and rejects once it was torn down.
Teardown(u) ==
    /\ At(u, "parsing")
    /\ up[u].torn
    /\ Goto(u, "cleaning")
    /\ UNCHANGED <<budget, activeRejectedBodyDrains, bytes, files>>

\* Mutant: parsingError is not checked again after the files are written.
FlushedUnchecked(u) ==
    /\ At(u, "flushing")
    /\ Goto(u, "handling")
    /\ UNCHANGED <<budget, activeRejectedBodyDrains, bytes, files>>

\* Promise.all(fileWrites), the check of parsingError and the last resize.
Flushed(u) ==
    /\ At(u, "flushing")
    /\ IF ~up[u].failed /\ Fits(u, up[u].totalBytes)
       THEN Resize(u, up[u].totalBytes) /\ Goto(u, "handling")
       ELSE /\ up' = [up EXCEPT ![u].pc = "cleaning", ![u].failed = TRUE]
            /\ UNCHANGED <<budget, activeRejectedBodyDrains, bytes, files>>

HandlerReturns(u) ==
    /\ At(u, "handling")
    /\ Goto(u, "cleaning")
    /\ UNCHANGED <<budget, activeRejectedBodyDrains, bytes, files>>

-----------------------------------------------------------------------------
(* Cleanup: the files are closed, the directory is removed, and then the    *)
(* lease is released; what cannot be removed stays reserved.                *)

\* Mutant: the finally block releases the lease once more after Retain.
RemoveFailsReleasingTwice(u) ==
    /\ At(u, "cleaning")
    /\ reservedBytes' = reservedBytes - (bytes[u] - up[u].totalFileBytes)
    /\ reservedFiles' = reservedFiles - (files[u] - up[u].totalFiles)
    /\ orphanedBytes' = orphanedBytes + up[u].totalFileBytes
    /\ orphanedFiles' = orphanedFiles + up[u].totalFiles
    /\ orphanedDirectories' = orphanedDirectories + 1
    /\ activeUploads' = activeUploads - 2
    /\ bytes' = [bytes EXCEPT ![u] = up[u].totalFileBytes]
    /\ files' = [files EXCEPT ![u] = up[u].totalFiles]
    /\ UNCHANGED activeRejectedBodyDrains
    /\ Goto(u, "orphaned")

RemoveDirectory(u) ==
    /\ At(u, "cleaning")
    /\ Release(u)
    /\ up' = [up EXCEPT ![u] = Fresh]

RemoveFails(u) ==
    /\ At(u, "cleaning")
    /\ Retain(u, up[u].totalFileBytes, up[u].totalFiles)
    /\ Goto(u, "orphaned")

\* scheduleCleanupRetry; after the last retry the resources stay retained.
RetryRemoves(u) ==
    /\ At(u, "orphaned")
    /\ up[u].attempt < Retries
    /\ ReleaseRetained(u)
    /\ up' = [up EXCEPT ![u] = Fresh]

RetryFails(u) ==
    /\ At(u, "orphaned")
    /\ up[u].attempt < Retries
    /\ up' = [up EXCEPT ![u].attempt = @ + 1]
    /\ UNCHANGED <<budget, activeRejectedBodyDrains, bytes, files>>

-----------------------------------------------------------------------------
Init ==
    /\ reservedBytes = 0 /\ orphanedBytes = 0
    /\ reservedFiles = 0 /\ orphanedFiles = 0
    /\ orphanedDirectories = 0 /\ activeUploads = 0
    /\ activeRejectedBodyDrains = 0
    /\ bytes = [u \in Uploads |-> 0]
    /\ files = [u \in Uploads |-> 0]
    /\ up = [u \in Uploads |-> Fresh]

\* What the client and the disk decide.
Input(u) ==
    \/ Acquire(u) \/ Reject(u) \/ NoDirectory(u)
    \/ \E n \in Chunks : Field(u, n) \/ FileData(u, n)
    \/ File(u) \/ BodyEnds(u) \/ Malformed(u) \/ WriteError(u)
    \/ RetryRemoves(u) \/ RetryFails(u)

\* What the server does by itself.
Progress(u) ==
    \/ MakeDirectory(u) \/ Timeout(u) \/ Teardown(u) \/ Flushed(u)
    \/ HandlerReturns(u) \/ RemoveDirectory(u) \/ RemoveFails(u) \/ DrainEnds(u)

Next == \E u \in Uploads : Input(u) \/ Progress(u)

Spec == Init /\ [][Next]_vars

\* Timers fire, file operations settle and handlers return; clients owe nothing.
FairSpec == Spec /\ \A u \in Uploads : WF_vars(Progress(u))

-----------------------------------------------------------------------------
(* Properties                                                               *)

\* The sum of f over the requests, for f in [Uploads -> Nat], counted as a set.
Units(f) == UNION {{u} \X (1 .. f[u]) : u \in Uploads}
Total(f) == Cardinality(Units(f))

\* The stages at which a request holds a place among the MaxUploads.
ActiveStages == {"admitted", "parsing", "flushing", "handling", "cleaning"}

Active == {u \in Uploads : up[u].pc \in ActiveStages}
Orphaned == {u \in Uploads : At(u, "orphaned")}
Draining == {u \in Uploads : At(u, "draining")}

OrphanedOf(f) == [u \in Uploads |-> IF u \in Orphaned THEN f[u] ELSE 0]

(* The seven counters of the budget say exactly what the requests hold,      *)
(* however they interleave and end: nothing is released twice and nothing    *)
(* is forgotten, so the capacity neither grows nor leaks.                    *)
LedgerExact ==
    /\ reservedBytes = Total(bytes)
    /\ reservedFiles = Total(files)
    /\ orphanedBytes = Total(OrphanedOf(bytes))
    /\ orphanedFiles = Total(OrphanedOf(files))
    /\ activeUploads = Cardinality(Active)
    /\ orphanedDirectories = Cardinality(Orphaned)
    /\ activeRejectedBodyDrains = Cardinality(Draining)

DiskBytes == Total([u \in Uploads |-> up[u].totalFileBytes])
DiskFiles == Total([u \in Uploads |-> up[u].totalFiles])

(* The temporary files of all the requests together, those whose removal     *)
(* failed included, never exceed the limits: "Bound aggregate temporary disk *)
(* usage".  A file is on disk from its first byte until its directory is     *)
(* removed.                                                                  *)
DiskBounded == DiskBytes <= Capacity /\ DiskFiles <= MaxFiles

(* Requests that run at once, and directories left behind: admission stops   *)
(* at MaxOrphans, and only the requests admitted by then can add to them.    *)
RequestsBounded ==
    /\ activeUploads <= MaxUploads
    /\ activeRejectedBodyDrains <= MaxUploads
    /\ activeUploads + orphanedDirectories < MaxUploads + MaxOrphans

(* What is left on disk is never more than was leased, so that release never *)
(* throws in the cleanup, which would lose the retry and the accounting.     *)
RetainedFitsLease ==
    \A u \in Active : up[u].totalFileBytes <= bytes[u] /\ up[u].totalFiles <= files[u]

(* A handler runs only for a body that was read and written completely, and  *)
(* with its size reserved.  The first half of the condition also says that   *)
(* the last resize of Flushed cannot be refused.                             *)
HandlerSeesWholeUpload ==
    /\ \A u \in Uploads : up[u].pc \in {"parsing", "flushing"} /\ ~up[u].failed
                          => bytes[u] = up[u].totalBytes
    /\ \A u \in Uploads : At(u, "handling")
                          => /\ ~up[u].failed
                             /\ bytes[u] = up[u].totalBytes
                             /\ up[u].totalBytes <= MaxSize

(* No request keeps its place among the MaxUploads forever, and no rejected  *)
(* body its drain: "a client cannot retain capacity by stalling".            *)
EveryUploadEnds ==
    \A u \in Uploads : up[u].pc \notin {"idle", "orphaned"} ~> up[u].pc \in {"idle", "orphaned"}

=============================================================================
