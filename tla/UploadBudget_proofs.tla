------------------------ MODULE UploadBudget_proofs ------------------------
(***************************************************************************)
(* The budget of UploadBudget.tla is exact and respected, for any number of *)
(* requests and any limits.                                                 *)
(*                                                                          *)
(* Sums over the requests are cardinalities (Total), so that the sum after  *)
(* a change of one request follows from the cardinality of a union.  Every  *)
(* action changes one request u: its bytes to b, its files to f and its     *)
(* record to r.  Step(u, b, f, r) says what that does to the seven counters *)
(* and Legal(u, b, f, r) why it is allowed; the invariant is preserved by   *)
(* every such step, and each action is shown to be one.                     *)
(***************************************************************************)
EXTENDS UploadBudget, FiniteSetTheorems, TLAPS

-----------------------------------------------------------------------------
(* Sums                                                                     *)

\* A row of n units.
LEMMA RowCount ==
    ASSUME NEW u, NEW n \in Nat
    PROVE  /\ IsFiniteSet({u} \X (1 .. n))
           /\ Cardinality({u} \X (1 .. n)) = n
  <1>1. IsFiniteSet({u}) /\ Cardinality({u}) = 1
    BY FS_Singleton
  <1>2. IsFiniteSet(1 .. n) /\ Cardinality(1 .. n) = n
    BY FS_Interval
  <1>3. /\ IsFiniteSet({u} \X (1 .. n))
        /\ Cardinality({u} \X (1 .. n)) = Cardinality({u}) * Cardinality(1 .. n)
    BY <1>1, <1>2, FS_Product, Zenon
  <1>4. 1 * n = n
    OBVIOUS
  <1>. QED
    BY <1>1, <1>2, <1>3, <1>4, Zenon

LEMMA UnitsFinite ==
    ASSUME NEW M \in Nat, NEW f \in [Uploads -> 0 .. M]
    PROVE  IsFiniteSet(Units(f)) /\ Total(f) \in Nat
  <1>1. Units(f) \subseteq Uploads \X (1 .. M)
    BY DEF Units
  <1>2. IsFiniteSet(Uploads \X (1 .. M))
    <2>1. IsFiniteSet(Uploads)
      BY LimitsAssumption
    <2>2. IsFiniteSet(1 .. M)
      BY FS_Interval
    <2>. QED
      BY <2>1, <2>2, FS_Product, Zenon
  <1>3. IsFiniteSet(Units(f))
    BY <1>1, <1>2, FS_Subset
  <1>. QED
    BY <1>3, FS_CardinalityType DEF Total

\* The sum grows with its terms.
LEMMA TotalMonotone ==
    ASSUME NEW M \in Nat, NEW f \in [Uploads -> 0 .. M], NEW g \in [Uploads -> 0 .. M],
           \A u \in Uploads : f[u] <= g[u]
    PROVE  Total(f) <= Total(g)
  <1>1. Units(f) \subseteq Units(g)
    BY DEF Units
  <1>. QED
    BY <1>1, UnitsFinite, FS_Subset DEF Total

\* The sum after one term has changed.
LEMMA TotalUpdate ==
    ASSUME NEW M \in Nat, NEW f \in [Uploads -> 0 .. M],
           NEW u \in Uploads, NEW n \in 0 .. M
    PROVE  /\ Total([f EXCEPT ![u] = n]) = Total(f) - f[u] + n
           /\ f[u] <= Total(f)
  <1> DEFINE Rest == UNION {{v} \X (1 .. f[v]) : v \in Uploads \ {u}}
             Row(k) == {u} \X (1 .. k)
             g == [f EXCEPT ![u] = n]
  <1>1. Units(f) = Rest \cup Row(f[u])
    BY DEF Units
  <1>2. Units(g) = Rest \cup Row(n)
    <2>1. g \in [Uploads -> 0 .. M] /\ g[u] = n /\ \A v \in Uploads \ {u} : g[v] = f[v]
      OBVIOUS
    <2>2. ASSUME NEW x PROVE x \in Units(g) <=> x \in Rest \/ x \in Row(n)
      <3>1. x \in Units(g) <=> \E v \in Uploads : x \in {v} \X (1 .. g[v])
        BY DEF Units
      <3>2. x \in Rest <=> \E v \in Uploads \ {u} : x \in {v} \X (1 .. f[v])
        OBVIOUS
      <3>3. \A v \in Uploads : g[v] = IF v = u THEN n ELSE f[v]
        BY <2>1
      <3> HIDE DEF g, Rest
      <3>. QED
        BY <3>1, <3>2, <3>3
    <2>. QED
      BY <2>2
  <1>3. IsFiniteSet(Rest)
    BY <1>1, UnitsFinite, FS_Subset
  <1>4. \A k \in Nat : Rest \cap Row(k) = {}
    OBVIOUS
  <1>5. \A k \in Nat : IsFiniteSet(Row(k)) /\ Cardinality(Row(k)) = k
    BY RowCount, Zenon
  <1>6. Cardinality(Rest) \in Nat
    BY <1>3, FS_CardinalityType
  <1>7. ASSUME NEW k \in Nat
        PROVE  Cardinality(Rest \cup Row(k)) = Cardinality(Rest) + k
    <2>1. Cardinality(Rest \cup Row(k))
            = Cardinality(Rest) + Cardinality(Row(k)) - Cardinality(Rest \cap Row(k))
      BY <1>3, <1>5, FS_Union, Zenon
    <2>2. Cardinality(Rest \cap Row(k)) = 0
      BY <1>4, FS_EmptySet, Zenon
    <2>3. Cardinality(Row(k)) = k
      BY <1>5
    <2> HIDE DEF Rest, Row
    <2>. QED
      BY <2>1, <2>2, <2>3, <1>6
  <1> HIDE DEF Rest, Row
  <1>8. f[u] \in Nat /\ n \in Nat
    OBVIOUS
  <1>9. Total(f) = Cardinality(Rest) + f[u] /\ Total(g) = Cardinality(Rest) + n
    BY <1>1, <1>2, <1>7, <1>8 DEF Total
  <1>. QED
    BY <1>6, <1>8, <1>9

LEMMA TotalZero == Total([u \in Uploads |-> 0]) = 0
  <1>1. Units([u \in Uploads |-> 0]) = {}
    BY DEF Units
  <1>. QED
    BY <1>1, FS_EmptySet DEF Total

\* The requests of g at one of the stages of X.
Chosen(g, X) == {v \in Uploads : g[v].pc \in X}

\* What one request counts for.
One(r, X) == IF r.pc \in X THEN 1 ELSE 0

\* Their number, after one request has moved.
LEMMA CountUpdate ==
    ASSUME NEW X, NEW u \in Uploads, NEW r \in Requests,
           NEW g \in [Uploads -> Requests]
    PROVE  Cardinality(Chosen([g EXCEPT ![u] = r], X))
             = Cardinality(Chosen(g, X)) - One(g[u], X) + One(r, X)
  <1> DEFINE h == [g EXCEPT ![u] = r]
             C(k) == {v \in Uploads : k[v].pc \in X}
             Others == C(g) \ {u}
  <1>1. IsFiniteSet(C(g))
    BY LimitsAssumption, FS_Subset, C(g) \subseteq Uploads, Zenon
  <1>2. C(h) = IF r.pc \in X THEN Others \cup {u} ELSE Others
    OBVIOUS
  <1>3. /\ IsFiniteSet(Others)
        /\ Cardinality(Others) = IF u \in C(g) THEN Cardinality(C(g)) - 1 ELSE Cardinality(C(g))
    BY <1>1, FS_RemoveElement, Zenon
  <1>4. Cardinality(Others \cup {u}) = Cardinality(Others) + 1
    <2>1. u \notin Others
      OBVIOUS
    <2>. QED
      BY <2>1, <1>3, FS_AddElement, Zenon
  <1>5. Cardinality(C(g)) \in Nat /\ Cardinality(Others) \in Nat
    BY <1>1, <1>3, FS_CardinalityType, Zenon
  <1>6. u \in C(g) <=> g[u].pc \in X
    OBVIOUS
  <1> HIDE DEF C, Others, h
  <1>7. Cardinality(C(h)) = Cardinality(C(g)) - (IF g[u].pc \in X THEN 1 ELSE 0)
                                              + (IF r.pc \in X THEN 1 ELSE 0)
    BY <1>2, <1>3, <1>4, <1>5, <1>6
  <1>. QED
    BY <1>7 DEF C, Chosen, h, One

\* A set of requests has a size.
LEMMA CountType ==
    ASSUME NEW S, S \subseteq Uploads
    PROVE  Cardinality(S) \in Nat
  <1>1. IsFiniteSet(S)
    BY LimitsAssumption, FS_Subset, Zenon
  <1>. QED
    BY <1>1, FS_CardinalityType

-----------------------------------------------------------------------------
(* The invariant                                                            *)

\* What a request has parsed and what it has leased.
Sized(r, b, f) ==
    /\ r.totalFileBytes <= b
    /\ r.totalFiles = f
    /\ r.pc \in Stages \ {"cleaning", "orphaned"} /\ ~r.failed
         => b = r.totalBytes /\ b <= MaxSize
    /\ r.pc = "handling" => ~r.failed

Limits ==
    /\ reservedBytes <= Capacity
    /\ reservedFiles <= MaxFiles
    /\ RequestsBounded

IInv ==
    /\ TypeOK
    /\ LedgerExact
    /\ Limits
    /\ \A u \in Uploads : Sized(up[u], bytes[u], files[u])

Step(u, b, f, r) ==
    /\ up' = [up EXCEPT ![u] = r]
    /\ bytes' = [bytes EXCEPT ![u] = b]
    /\ files' = [files EXCEPT ![u] = f]
    /\ reservedBytes' = reservedBytes - bytes[u] + b
    /\ reservedFiles' = reservedFiles - files[u] + f
    /\ orphanedBytes' = orphanedBytes - (IF At(u, "orphaned") THEN bytes[u] ELSE 0)
                                      + (IF r.pc = "orphaned" THEN b ELSE 0)
    /\ orphanedFiles' = orphanedFiles - (IF At(u, "orphaned") THEN files[u] ELSE 0)
                                      + (IF r.pc = "orphaned" THEN f ELSE 0)
    /\ activeUploads' = activeUploads - (IF up[u].pc \in ActiveStages THEN 1 ELSE 0)
                                      + (IF r.pc \in ActiveStages THEN 1 ELSE 0)
    /\ orphanedDirectories' = orphanedDirectories - (IF At(u, "orphaned") THEN 1 ELSE 0)
                                                  + (IF r.pc = "orphaned" THEN 1 ELSE 0)
    /\ activeRejectedBodyDrains' = activeRejectedBodyDrains - (IF At(u, "draining") THEN 1 ELSE 0)
                                                            + (IF r.pc = "draining" THEN 1 ELSE 0)

Legal(u, b, f, r) ==
    /\ b \in Nat /\ f \in Nat /\ r \in Requests
    /\ Sized(r, b, f)
    /\ reservedBytes - bytes[u] + b <= Capacity
    /\ reservedFiles - files[u] + f <= MaxFiles
    /\ r.pc \in ActiveStages => \/ up[u].pc \in ActiveStages
                                \/ activeUploads < MaxUploads /\ orphanedDirectories < MaxOrphans
    /\ r.pc = "orphaned" => up[u].pc \in ActiveStages \cup {"orphaned"}
    /\ r.pc = "draining" => At(u, "draining") \/ activeRejectedBodyDrains < MaxUploads

-----------------------------------------------------------------------------
(* A legal step preserves the invariant                                     *)

\* The terms of the sums stay within the limits.
LEMMA TermsBounded ==
    ASSUME IInv, NEW u \in Uploads, NEW b, NEW f, NEW r, Legal(u, b, f, r)
    PROVE  b \in 0 .. Capacity /\ f \in 0 .. MaxFiles
  <1>1. bytes[u] <= reservedBytes
    <2>1. bytes \in [Uploads -> 0 .. Capacity] /\ Capacity \in Nat /\ bytes[u] \in 0 .. Capacity
      BY LimitsAssumption DEF IInv, TypeOK
    <2>2. bytes[u] <= Total(bytes)
      BY <2>1, TotalUpdate
    <2>. QED
      BY <2>2 DEF IInv, LedgerExact
  <1>2. files[u] <= reservedFiles
    <2>1. files \in [Uploads -> 0 .. MaxFiles] /\ MaxFiles \in Nat /\ files[u] \in 0 .. MaxFiles
      BY LimitsAssumption DEF IInv, TypeOK
    <2>2. files[u] <= Total(files)
      BY <2>1, TotalUpdate
    <2>. QED
      BY <2>2 DEF IInv, LedgerExact
  <1>3. /\ Capacity \in Nat /\ MaxFiles \in Nat /\ reservedBytes \in Nat /\ reservedFiles \in Nat
        /\ bytes[u] \in Nat /\ files[u] \in Nat
    BY LimitsAssumption DEF IInv, TypeOK
  <1>. QED
    BY <1>1, <1>2, <1>3 DEF Legal

LEMMA StepKeepsLedger ==
    ASSUME IInv, NEW u \in Uploads, NEW b, NEW f, NEW r, Legal(u, b, f, r), Step(u, b, f, r)
    PROVE  LedgerExact' /\ TypeOK'
  <1>0. /\ Capacity \in Nat /\ MaxFiles \in Nat
        /\ bytes \in [Uploads -> 0 .. Capacity] /\ files \in [Uploads -> 0 .. MaxFiles]
        /\ up \in [Uploads -> Requests] /\ r \in Requests
        /\ b \in 0 .. Capacity /\ f \in 0 .. MaxFiles
    BY LimitsAssumption, TermsBounded DEF IInv, TypeOK, Legal
  <1>1. /\ bytes' \in [Uploads -> 0 .. Capacity]
        /\ files' \in [Uploads -> 0 .. MaxFiles]
        /\ up' \in [Uploads -> Requests]
    BY <1>0 DEF Step
  <1>2. reservedBytes' = Total(bytes)'
    <2>1. Total([bytes EXCEPT ![u] = b]) = Total(bytes) - bytes[u] + b
      BY <1>0, TotalUpdate
    <2>. QED
      BY <2>1 DEF Step, IInv, LedgerExact, Total, Units
  <1>3. reservedFiles' = Total(files)'
    <2>1. Total([files EXCEPT ![u] = f]) = Total(files) - files[u] + f
      BY <1>0, TotalUpdate
    <2>. QED
      BY <2>1 DEF Step, IInv, LedgerExact, Total, Units
  <1>4. orphanedBytes' = Total(OrphanedOf(bytes))'
    <2> DEFINE o == OrphanedOf(bytes)
               k == IF r.pc = "orphaned" THEN b ELSE 0
    <2>1. o \in [Uploads -> 0 .. Capacity] /\ k \in 0 .. Capacity
      BY <1>0 DEF OrphanedOf
    <2>2. OrphanedOf(bytes)' = [o EXCEPT ![u] = k]
      BY <1>0, <1>1 DEF OrphanedOf, Orphaned, At, Step, Requests
    <2>3. Total([o EXCEPT ![u] = k]) = Total(o) - o[u] + k
      BY <1>0, <2>1, TotalUpdate
    <2>4. o[u] = IF At(u, "orphaned") THEN bytes[u] ELSE 0
      BY DEF OrphanedOf, Orphaned
    <2>5. orphanedBytes = Total(o)
      BY DEF IInv, LedgerExact
    <2>6. orphanedBytes' = orphanedBytes - o[u] + k
      BY <2>4 DEF Step
    <2>7. Total(OrphanedOf(bytes))' = Total([o EXCEPT ![u] = k])
      BY <2>2 DEF Total, Units
    <2>. QED
      BY <2>3, <2>5, <2>6, <2>7
  <1>5. orphanedFiles' = Total(OrphanedOf(files))'
    <2> DEFINE o == OrphanedOf(files)
               k == IF r.pc = "orphaned" THEN f ELSE 0
    <2>1. o \in [Uploads -> 0 .. MaxFiles] /\ k \in 0 .. MaxFiles
      BY <1>0 DEF OrphanedOf
    <2>2. OrphanedOf(files)' = [o EXCEPT ![u] = k]
      BY <1>0, <1>1 DEF OrphanedOf, Orphaned, At, Step, Requests
    <2>3. Total([o EXCEPT ![u] = k]) = Total(o) - o[u] + k
      BY <1>0, <2>1, TotalUpdate
    <2>4. o[u] = IF At(u, "orphaned") THEN files[u] ELSE 0
      BY DEF OrphanedOf, Orphaned
    <2>5. orphanedFiles = Total(o)
      BY DEF IInv, LedgerExact
    <2>6. orphanedFiles' = orphanedFiles - o[u] + k
      BY <2>4 DEF Step
    <2>7. Total(OrphanedOf(files))' = Total([o EXCEPT ![u] = k])
      BY <2>2 DEF Total, Units
    <2>. QED
      BY <2>3, <2>5, <2>6, <2>7
  <1>6. activeUploads' = Cardinality(Active)'
    <2>1. Cardinality(Chosen([up EXCEPT ![u] = r], ActiveStages))
            = Cardinality(Chosen(up, ActiveStages)) - One(up[u], ActiveStages) + One(r, ActiveStages)
      BY <1>0, CountUpdate, Zenon
    <2>2. /\ Active = Chosen(up, ActiveStages)
          /\ Active' = Chosen([up EXCEPT ![u] = r], ActiveStages)
      BY DEF Step, Active, At, Chosen
    <2>3. Cardinality(Active)' = Cardinality(Active) - (IF up[u].pc \in ActiveStages THEN 1 ELSE 0)
                                                      + (IF r.pc \in ActiveStages THEN 1 ELSE 0)
      BY <2>1, <2>2 DEF At, One
    <2>. QED
      BY <2>3 DEF Step, IInv, LedgerExact
  <1>7. orphanedDirectories' = Cardinality(Orphaned)'
    <2>1. Cardinality(Chosen([up EXCEPT ![u] = r], {"orphaned"}))
            = Cardinality(Chosen(up, {"orphaned"})) - One(up[u], {"orphaned"}) + One(r, {"orphaned"})
      BY <1>0, CountUpdate, Zenon
    <2>2. /\ Orphaned = Chosen(up, {"orphaned"})
          /\ Orphaned' = Chosen([up EXCEPT ![u] = r], {"orphaned"})
      BY DEF Step, Orphaned, At, Chosen
    <2>3. Cardinality(Orphaned)' = Cardinality(Orphaned) - (IF At(u, "orphaned") THEN 1 ELSE 0)
                                                      + (IF r.pc = "orphaned" THEN 1 ELSE 0)
      BY <2>1, <2>2 DEF At, One
    <2>. QED
      BY <2>3 DEF Step, IInv, LedgerExact
  <1>8. activeRejectedBodyDrains' = Cardinality(Draining)'
    <2>1. Cardinality(Chosen([up EXCEPT ![u] = r], {"draining"}))
            = Cardinality(Chosen(up, {"draining"})) - One(up[u], {"draining"}) + One(r, {"draining"})
      BY <1>0, CountUpdate, Zenon
    <2>2. /\ Draining = Chosen(up, {"draining"})
          /\ Draining' = Chosen([up EXCEPT ![u] = r], {"draining"})
      BY DEF Step, Draining, At, Chosen
    <2>3. Cardinality(Draining)' = Cardinality(Draining) - (IF At(u, "draining") THEN 1 ELSE 0)
                                                      + (IF r.pc = "draining" THEN 1 ELSE 0)
      BY <2>1, <2>2 DEF At, One
    <2>. QED
      BY <2>3 DEF Step, IInv, LedgerExact
  <1>9. LedgerExact'
    BY <1>2, <1>3, <1>4, <1>5, <1>6, <1>7, <1>8 DEF LedgerExact
  <1>10. /\ Total(bytes)' \in Nat
         /\ Total(files)' \in Nat
    BY <1>0, <1>1, UnitsFinite DEF Total, Units
  <1>11. /\ Total(OrphanedOf(bytes))' \in Nat
         /\ Total(OrphanedOf(files))' \in Nat
    <2>1. /\ OrphanedOf(bytes)' \in [Uploads -> 0 .. Capacity]
          /\ OrphanedOf(files)' \in [Uploads -> 0 .. MaxFiles]
      BY <1>0, <1>1 DEF OrphanedOf
    <2>. QED
      BY <1>0, <2>1, UnitsFinite DEF Total, Units
  <1>12. Cardinality(Active)' \in Nat /\ Cardinality(Orphaned)' \in Nat /\ Cardinality(Draining)' \in Nat
    BY CountType DEF Active, Orphaned, Draining
  <1>13. TypeOK'
    BY <1>1, <1>2, <1>3, <1>4, <1>5, <1>6, <1>7, <1>8, <1>10, <1>11, <1>12 DEF TypeOK
  <1>. QED
    BY <1>9, <1>13

LEMMA StepKeepsLimits ==
    ASSUME IInv, NEW u \in Uploads, NEW b, NEW f, NEW r, Legal(u, b, f, r), Step(u, b, f, r)
    PROVE  /\ Limits'
           /\ \A v \in Uploads : Sized(up[v], bytes[v], files[v])'
  <1>0. /\ reservedBytes \in Nat /\ reservedFiles \in Nat /\ activeUploads \in Nat
        /\ orphanedDirectories \in Nat /\ activeRejectedBodyDrains \in Nat
        /\ bytes \in [Uploads -> 0 .. Capacity] /\ files \in [Uploads -> 0 .. MaxFiles]
        /\ up \in [Uploads -> Requests]
        /\ MaxUploads \in Nat \ {0} /\ MaxOrphans \in Nat \ {0}
    BY LimitsAssumption DEF IInv, TypeOK
  <1>1. reservedBytes' <= Capacity /\ reservedFiles' <= MaxFiles
    BY DEF Step, Legal
  <1>2. RequestsBounded'
    <2> DEFINE a == IF up[u].pc \in ActiveStages THEN 1 ELSE 0
               c == IF r.pc \in ActiveStages THEN 1 ELSE 0
               o == IF At(u, "orphaned") THEN 1 ELSE 0
               p == IF r.pc = "orphaned" THEN 1 ELSE 0
               d == IF At(u, "draining") THEN 1 ELSE 0
               e == IF r.pc = "draining" THEN 1 ELSE 0
    <2>0. {a, c, o, p, d, e} \subseteq {0, 1}
      OBVIOUS
    <2>1. /\ c = 1 <=> r.pc \in ActiveStages
          /\ a = 1 <=> up[u].pc \in ActiveStages
          /\ p = 1 <=> r.pc = "orphaned"
          /\ o = 1 <=> At(u, "orphaned")
          /\ e = 1 <=> r.pc = "draining"
          /\ d = 1 <=> At(u, "draining")
      OBVIOUS
    <2>2. /\ activeUploads' = activeUploads - a + c
          /\ orphanedDirectories' = orphanedDirectories - o + p
          /\ activeRejectedBodyDrains' = activeRejectedBodyDrains - d + e
      BY DEF Step
    <2>3. /\ activeUploads <= MaxUploads
          /\ activeRejectedBodyDrains <= MaxUploads
          /\ activeUploads + orphanedDirectories < MaxUploads + MaxOrphans
      BY DEF IInv, Limits, RequestsBounded
    <2> HIDE DEF a, c, o, p, d, e
    <2>4. /\ c = 1 => a = 1 \/ (activeUploads < MaxUploads /\ orphanedDirectories < MaxOrphans)
          /\ p = 1 => a = 1 \/ o = 1
          /\ e = 1 => d = 1 \/ activeRejectedBodyDrains < MaxUploads
      <3>1. r.pc \in ActiveStages
              => \/ up[u].pc \in ActiveStages
                 \/ activeUploads < MaxUploads /\ orphanedDirectories < MaxOrphans
        BY DEF Legal
      <3>2. r.pc = "orphaned" => up[u].pc \in ActiveStages \/ At(u, "orphaned")
        BY DEF Legal, At
      <3>3. r.pc = "draining" => At(u, "draining") \/ activeRejectedBodyDrains < MaxUploads
        BY DEF Legal
      <3>. QED
        BY <2>1, <3>1, <3>2, <3>3, Zenon
    <2>5. (c = 1 => p = 0) /\ (a = 1 => o = 0)
      BY <2>0, <2>1 DEF At, ActiveStages
    <2>. QED
      BY <1>0, <2>0, <2>2, <2>3, <2>4, <2>5 DEF RequestsBounded
  <1>3. ASSUME NEW v \in Uploads
        PROVE  Sized(up'[v], bytes'[v], files'[v])
    <2>1. CASE v = u
      <3>1. up'[v] = r /\ bytes'[v] = b /\ files'[v] = f
        BY <1>0, <2>1 DEF Step
      <3>. QED
        BY <3>1 DEF Legal
    <2>2. CASE v # u
      <3>1. up'[v] = up[v] /\ bytes'[v] = bytes[v] /\ files'[v] = files[v]
        BY <1>0, <2>2 DEF Step
      <3>. QED
        BY <3>1 DEF IInv
    <2>. QED
      BY <2>1, <2>2
  <1>. QED
    BY <1>1, <1>2, <1>3 DEF Limits, Sized

LEMMA StepKeepsIInv ==
    ASSUME IInv, NEW u \in Uploads, NEW b, NEW f, NEW r, Legal(u, b, f, r), Step(u, b, f, r)
    PROVE  IInv'
  BY StepKeepsLedger, StepKeepsLimits DEF IInv

LEMMA InitHolds == Init => IInv
  <1> SUFFICES ASSUME Init
               PROVE  IInv
    OBVIOUS
  <1>1. Capacity \in Nat /\ MaxFiles \in Nat /\ MaxUploads \in Nat \ {0}
        /\ MaxOrphans \in Nat \ {0} /\ MaxSize \in Nat /\ Retries \in Nat
    BY LimitsAssumption
  <1>2. TypeOK
    BY <1>1 DEF Init, TypeOK, Fresh, Requests, Stages
  <1>3. Active = {} /\ Orphaned = {} /\ Draining = {}
    BY DEF Init, Active, Orphaned, Draining, At, Fresh, ActiveStages
  <1>4. OrphanedOf(bytes) = [u \in Uploads |-> 0] /\ OrphanedOf(files) = [u \in Uploads |-> 0]
    BY <1>3 DEF OrphanedOf
  <1>5. LedgerExact
    BY <1>3, <1>4, TotalZero, FS_EmptySet DEF LedgerExact, Init
  <1>6. Limits
    BY <1>1 DEF Limits, RequestsBounded, Init
  <1>7. \A u \in Uploads : Sized(up[u], bytes[u], files[u])
    BY <1>1 DEF Sized, Init, Fresh
  <1>. QED
    BY <1>2, <1>5, <1>6, <1>7 DEF IInv

-----------------------------------------------------------------------------
(* The steps the actions are made of                                        *)

\* What the lemmas below need of the types.
LEMMA Typed ==
    ASSUME IInv, NEW u \in Uploads
    PROVE  /\ reservedBytes \in Nat /\ reservedFiles \in Nat /\ orphanedBytes \in Nat
           /\ orphanedFiles \in Nat /\ orphanedDirectories \in Nat /\ activeUploads \in Nat
           /\ activeRejectedBodyDrains \in Nat
           /\ bytes \in [Uploads -> 0 .. Capacity] /\ files \in [Uploads -> 0 .. MaxFiles]
           /\ up \in [Uploads -> Requests] /\ up[u] \in Requests
           /\ bytes[u] \in Nat /\ files[u] \in Nat
           /\ Capacity \in Nat /\ MaxFiles \in Nat /\ MaxUploads \in Nat /\ MaxSize \in Nat
           /\ reservedBytes <= Capacity /\ reservedFiles <= MaxFiles
           /\ Sized(up[u], bytes[u], files[u])
  BY LimitsAssumption DEF IInv, TypeOK, Limits

\* A request goes on and holds what it held.
LEMMA MoveKeepsIInv ==
    ASSUME IInv, NEW u \in Uploads, NEW r \in Requests,
           up' = [up EXCEPT ![u] = r],
           UNCHANGED <<budget, activeRejectedBodyDrains, bytes, files>>,
           Sized(r, bytes[u], files[u]),
           up[u].pc \in ActiveStages <=> r.pc \in ActiveStages,
           At(u, "orphaned") <=> r.pc = "orphaned",
           At(u, "draining") <=> r.pc = "draining"
    PROVE  IInv'
  <1>1. Step(u, bytes[u], files[u], r)
    <2>1. bytes' = [bytes EXCEPT ![u] = bytes[u]] /\ files' = [files EXCEPT ![u] = files[u]]
      BY Typed
    <2>2. /\ reservedBytes' = reservedBytes - bytes[u] + bytes[u]
          /\ reservedFiles' = reservedFiles - files[u] + files[u]
      BY Typed DEF budget
    <2>3. /\ orphanedBytes' = orphanedBytes - (IF At(u, "orphaned") THEN bytes[u] ELSE 0)
                                            + (IF r.pc = "orphaned" THEN bytes[u] ELSE 0)
          /\ orphanedFiles' = orphanedFiles - (IF At(u, "orphaned") THEN files[u] ELSE 0)
                                            + (IF r.pc = "orphaned" THEN files[u] ELSE 0)
      BY Typed DEF budget
    <2>4. /\ activeUploads' = activeUploads - (IF up[u].pc \in ActiveStages THEN 1 ELSE 0)
                                            + (IF r.pc \in ActiveStages THEN 1 ELSE 0)
          /\ orphanedDirectories' = orphanedDirectories - (IF At(u, "orphaned") THEN 1 ELSE 0)
                                                        + (IF r.pc = "orphaned" THEN 1 ELSE 0)
          /\ activeRejectedBodyDrains' = activeRejectedBodyDrains
                                             - (IF At(u, "draining") THEN 1 ELSE 0)
                                             + (IF r.pc = "draining" THEN 1 ELSE 0)
      BY Typed DEF budget
    <2>. QED
      BY <2>1, <2>2, <2>3, <2>4 DEF Step
  <1>2. Legal(u, bytes[u], files[u], r)
    BY Typed DEF Legal, At
  <1>. QED
    BY <1>1, <1>2, Typed, StepKeepsIInv

\* A request that runs changes its lease.
LEMMA LeaseKeepsIInv ==
    ASSUME IInv, NEW u \in Uploads, NEW r \in Requests, NEW n \in Nat, NEW m \in Nat,
           up' = [up EXCEPT ![u] = r],
           bytes' = [bytes EXCEPT ![u] = n],
           files' = [files EXCEPT ![u] = m],
           reservedBytes' = reservedBytes - bytes[u] + n,
           reservedFiles' = reservedFiles - files[u] + m,
           UNCHANGED <<orphanedBytes, orphanedFiles, orphanedDirectories, activeUploads,
                       activeRejectedBodyDrains>>,
           Fits(u, n), FitsFiles(u, m), Sized(r, n, m),
           up[u].pc \in ActiveStages, r.pc \in ActiveStages
    PROVE  IInv'
  <1>1. ~At(u, "orphaned") /\ ~At(u, "draining") /\ r.pc # "orphaned" /\ r.pc # "draining"
    BY DEF At, ActiveStages
  <1>2. Step(u, n, m, r)
    BY <1>1, Typed DEF Step
  <1>3. Legal(u, n, m, r)
    BY <1>1, Typed DEF Legal, Fits, FitsFiles
  <1>. QED
    BY <1>2, <1>3, StepKeepsIInv

LEMMA FreshIsRequest == Fresh \in Requests /\ Sized(Fresh, 0, 0)
  BY LimitsAssumption DEF Fresh, Requests, Stages, Sized

\* A request that left nothing behind gives everything back.
LEMMA ReleaseKeepsIInv ==
    ASSUME IInv, NEW u \in Uploads, up[u].pc \in ActiveStages,
           Release(u), up' = [up EXCEPT ![u] = Fresh]
    PROVE  IInv'
  <1>1. ~At(u, "orphaned") /\ ~At(u, "draining")
    BY DEF At, ActiveStages
  <1>2. Fresh.pc = "idle" /\ Fresh.pc \notin ActiveStages
    BY DEF Fresh, ActiveStages
  <1>3. Step(u, 0, 0, Fresh)
    BY <1>1, <1>2, Typed DEF Step, Release
  <1>4. Legal(u, 0, 0, Fresh)
    BY <1>1, <1>2, Typed, FreshIsRequest DEF Legal
  <1>. QED
    BY <1>3, <1>4, StepKeepsIInv

-----------------------------------------------------------------------------
(* The actions                                                              *)

\* Admission and the drain of a rejected body.
LEMMA AdmissionKeepsIInv ==
    ASSUME IInv, NEW u \in Uploads, Acquire(u) \/ Reject(u) \/ DrainEnds(u)
    PROVE  IInv'
  <1> DEFINE to(pc) == [up[u] EXCEPT !.pc = pc]
  <1>1. ASSUME NEW pc \in {"admitted", "draining", "idle"}
        PROVE  to(pc) \in Requests /\ to(pc).pc = pc
    BY Typed DEF Requests, Stages
  <1>2. ASSUME NEW pc \in {"admitted", "draining", "idle"}, At(u, "idle") \/ At(u, "draining")
        PROVE  Sized(to(pc), bytes[u], files[u])
    <2>1. Sized(up[u], bytes[u], files[u]) /\ up[u] \in Requests
      BY Typed
    <2>. QED
      BY <1>2, <2>1 DEF Sized, At, Requests, Stages
  <1>3. /\ bytes = [bytes EXCEPT ![u] = bytes[u]]
        /\ files = [files EXCEPT ![u] = files[u]]
    BY Typed
  <1>4. CASE Acquire(u)
    <2>1. Step(u, bytes[u], files[u], to("admitted"))
      BY <1>3, <1>4, Typed DEF Acquire, Goto, Step, At, ActiveStages
    <2>2. Legal(u, bytes[u], files[u], to("admitted"))
      BY <1>1, <1>2, <1>4, Typed DEF Acquire, Admissible, Legal
    <2>. QED
      BY <2>1, <2>2, Typed, StepKeepsIInv
  <1>5. CASE Reject(u)
    <2>1. Step(u, bytes[u], files[u], to("draining"))
      BY <1>3, <1>5, Typed DEF Reject, Goto, Step, At, ActiveStages, budget
    <2>2. Legal(u, bytes[u], files[u], to("draining"))
      BY <1>1, <1>2, <1>5, Typed DEF Reject, Legal, ActiveStages
    <2>. QED
      BY <2>1, <2>2, Typed, StepKeepsIInv
  <1>6. CASE DrainEnds(u)
    <2>1. Step(u, bytes[u], files[u], to("idle"))
      BY <1>3, <1>6, Typed DEF DrainEnds, Goto, Step, At, ActiveStages, budget
    <2>2. Legal(u, bytes[u], files[u], to("idle"))
      BY <1>1, <1>2, <1>6, Typed DEF DrainEnds, Legal, ActiveStages
    <2>. QED
      BY <2>1, <2>2, Typed, StepKeepsIInv
  <1>. QED
    BY <1>4, <1>5, <1>6

\* A request goes from one active stage to another and holds what it held.
LEMMA StageKeepsIInv ==
    ASSUME IInv, NEW u \in Uploads, NEW r \in Requests,
           up' = [up EXCEPT ![u] = r],
           UNCHANGED <<budget, activeRejectedBodyDrains, bytes, files>>,
           up[u].pc \in ActiveStages, r.pc \in ActiveStages,
           r.totalFileBytes = up[u].totalFileBytes, r.totalFiles = up[u].totalFiles,
           \/ r.failed /\ r.pc # "handling"
           \/ r.pc = "cleaning"
           \/ ~r.failed /\ ~up[u].failed /\ r.totalBytes = up[u].totalBytes /\ ~At(u, "cleaning")
           \/ r.failed = up[u].failed /\ r.totalBytes = up[u].totalBytes /\ ~At(u, "cleaning")
              /\ r.pc # "handling"
    PROVE  IInv'
  <1>1. Sized(r, bytes[u], files[u])
    <2>1. Sized(up[u], bytes[u], files[u])
      BY Typed
    <2>. QED
      BY <2>1 DEF Sized, At, ActiveStages, Requests, Stages
  <1>. QED
    BY <1>1, MoveKeepsIInv DEF At, ActiveStages

LEMMA ReceiveKeepsIInv ==
    ASSUME IInv, NEW u \in Uploads, NEW n \in Chunks, NEW onDisk \in {0, n}, Receive(u, n, onDisk)
    PROVE  IInv'
  <1> DEFINE total == up[u].totalBytes + n
  <1>1. /\ n \in Nat /\ onDisk \in Nat /\ onDisk <= n /\ total \in Nat
        /\ up[u] \in Requests
        /\ At(u, "parsing") /\ ~up[u].failed
    BY LimitsAssumption, Typed DEF Receive, Requests
  <1>2. CASE total <= MaxSize /\ Fits(u, total)
    <2> DEFINE disk == up[u].totalFileBytes + onDisk
               r == [up[u] EXCEPT !.totalBytes = total, !.totalFileBytes = disk]
    <2>1. Resize(u, total) /\ up' = [up EXCEPT ![u] = r]
      BY <1>2, Typed DEF Receive
    <2>2. r \in Requests /\ r.pc = up[u].pc /\ r.pc \in ActiveStages
      <3>1. disk \in Nat
        BY <1>1 DEF Requests
      <3> HIDE DEF disk, total
      <3>. QED
        BY <1>1, <3>1 DEF Requests, At, ActiveStages
    <2>3. Sized(r, total, files[u])
      <3>1. /\ up[u].totalFileBytes <= bytes[u] /\ up[u].totalFiles = files[u]
            /\ bytes[u] = up[u].totalBytes
        BY <1>1, Typed DEF Sized, At, Stages
      <3>2. up[u].totalFileBytes + onDisk <= total
        BY <1>1, <3>1 DEF Requests
      <3>. QED
        BY <1>1, <1>2, <3>1, <3>2 DEF Sized, At, Requests
    <2>4. FitsFiles(u, files[u]) /\ files' = [files EXCEPT ![u] = files[u]]
          /\ reservedFiles' = reservedFiles - files[u] + files[u]
      BY <2>1, Typed DEF FitsFiles, Resize
    <2> HIDE DEF total, r
    <2>. QED
      BY <1>1, <1>2, <2>1, <2>2, <2>3, <2>4, Typed, LeaseKeepsIInv DEF Resize
  <1>3. CASE ~(total <= MaxSize /\ Fits(u, total))
    <2> DEFINE r == [up[u] EXCEPT !.totalBytes = total, !.failed = TRUE, !.torn = TRUE]
    <2>1. up' = [up EXCEPT ![u] = r]
          /\ UNCHANGED <<budget, activeRejectedBodyDrains, bytes, files>>
      BY <1>3, Typed DEF Receive
    <2>2. /\ r \in Requests /\ r.pc = up[u].pc /\ r.pc \in ActiveStages /\ r.pc # "handling"
          /\ r.failed /\ r.totalFileBytes = up[u].totalFileBytes /\ r.totalFiles = up[u].totalFiles
      BY <1>1 DEF Requests, At, ActiveStages
    <2> HIDE DEF total, r
    <2>. QED
      BY <2>1, <2>2, StageKeepsIInv
  <1>. QED
    BY <1>2, <1>3

LEMMA FileKeepsIInv ==
    ASSUME IInv, NEW u \in Uploads, File(u)
    PROVE  IInv'
  <1> DEFINE m == up[u].totalFiles + 1
  <1>1. up[u] \in Requests /\ At(u, "parsing") /\ m \in Nat
    BY Typed DEF File, Requests
  <1>2. CASE FitsFiles(u, m)
    <2> DEFINE r == [up[u] EXCEPT !.totalFiles = m]
    <2>1. ResizeFiles(u, m) /\ up' = [up EXCEPT ![u] = r]
      BY <1>2, Typed DEF File
    <2>2. r \in Requests /\ r.pc = up[u].pc /\ r.pc \in ActiveStages
      BY <1>1 DEF Requests, At, ActiveStages
    <2>3. Sized(r, bytes[u], m)
      BY <1>1, Typed DEF Sized, At, Requests
    <2>4. Fits(u, bytes[u]) /\ bytes' = [bytes EXCEPT ![u] = bytes[u]]
          /\ reservedBytes' = reservedBytes - bytes[u] + bytes[u]
      BY <2>1, Typed DEF Fits, ResizeFiles
    <2> HIDE DEF m, r
    <2>. QED
      BY <1>1, <1>2, <2>1, <2>2, <2>3, <2>4, Typed, LeaseKeepsIInv DEF ResizeFiles
  <1>3. CASE ~FitsFiles(u, m)
    <2> DEFINE r == [up[u] EXCEPT !.failed = TRUE]
    <2>1. up' = [up EXCEPT ![u] = r]
          /\ UNCHANGED <<budget, activeRejectedBodyDrains, bytes, files>>
      BY <1>3, Typed DEF File
    <2>2. /\ r \in Requests /\ r.pc = up[u].pc /\ r.pc \in ActiveStages /\ r.pc # "handling"
          /\ r.failed /\ r.totalFileBytes = up[u].totalFileBytes /\ r.totalFiles = up[u].totalFiles
      BY <1>1 DEF Requests, At, ActiveStages
    <2> HIDE DEF m, r
    <2>. QED
      BY <2>1, <2>2, StageKeepsIInv
  <1>. QED
    BY <1>2, <1>3

\* The stages between a body that is read and a lease that is given back.
LEMMA ParsingKeepsIInv ==
    ASSUME IInv, NEW u \in Uploads,
           \/ MakeDirectory(u) \/ AbortParsing(u) \/ WriteError(u) \/ BodyEnds(u)
           \/ Teardown(u) \/ HandlerReturns(u)
    PROVE  IInv'
  <1>1. up[u] \in Requests /\ up \in [Uploads -> Requests]
    BY Typed
  <1>2. CASE MakeDirectory(u)
    <2> DEFINE r == [up[u] EXCEPT !.pc = "parsing"]
    <2>1. /\ r \in Requests /\ r.pc = "parsing" /\ r.failed = up[u].failed
          /\ r.totalBytes = up[u].totalBytes /\ r.totalFileBytes = up[u].totalFileBytes
          /\ r.totalFiles = up[u].totalFiles
      BY <1>1 DEF Requests, Stages
    <2>2. up' = [up EXCEPT ![u] = r]
          /\ UNCHANGED <<budget, activeRejectedBodyDrains, bytes, files>>
      BY <1>1, <1>2 DEF MakeDirectory, Goto
    <2> HIDE DEF r
    <2>. QED
      BY <1>2, <2>1, <2>2, StageKeepsIInv DEF MakeDirectory, At, ActiveStages
  <1>3. CASE AbortParsing(u)
    <2> DEFINE r == [up[u] EXCEPT !.failed = TRUE, !.torn = TRUE]
    <2>1. /\ r \in Requests /\ r.pc = up[u].pc /\ r.failed
          /\ r.totalFileBytes = up[u].totalFileBytes /\ r.totalFiles = up[u].totalFiles
      BY <1>1 DEF Requests
    <2>2. up' = [up EXCEPT ![u] = r]
          /\ UNCHANGED <<budget, activeRejectedBodyDrains, bytes, files>>
      BY <1>1, <1>3 DEF AbortParsing
    <2> HIDE DEF r
    <2>. QED
      BY <1>3, <2>1, <2>2, StageKeepsIInv DEF AbortParsing, At, ActiveStages
  <1>4. CASE WriteError(u)
    <2>1. CASE AbortParsing(u)
      BY <1>3, <2>1
    <2>2. CASE At(u, "flushing") /\ up' = [up EXCEPT ![u].failed = TRUE]
               /\ UNCHANGED <<budget, activeRejectedBodyDrains, bytes, files>>
      <3> DEFINE r == [up[u] EXCEPT !.failed = TRUE]
      <3>1. /\ r \in Requests /\ r.pc = up[u].pc /\ r.failed
            /\ r.totalFileBytes = up[u].totalFileBytes /\ r.totalFiles = up[u].totalFiles
        BY <1>1 DEF Requests
      <3>2. up' = [up EXCEPT ![u] = r]
        BY <1>1, <2>2
      <3> HIDE DEF r
      <3>. QED
        BY <2>2, <3>1, <3>2, StageKeepsIInv DEF At, ActiveStages
    <2>. QED
      BY <1>4, <2>1, <2>2 DEF WriteError
  <1>5. CASE BodyEnds(u)
    <2> DEFINE r == [up[u] EXCEPT !.pc = "flushing"]
    <2>1. /\ r \in Requests /\ r.pc = "flushing" /\ r.failed = up[u].failed
          /\ r.totalBytes = up[u].totalBytes /\ r.totalFileBytes = up[u].totalFileBytes
          /\ r.totalFiles = up[u].totalFiles
      BY <1>1 DEF Requests, Stages
    <2>2. up' = [up EXCEPT ![u] = r]
          /\ UNCHANGED <<budget, activeRejectedBodyDrains, bytes, files>>
      BY <1>1, <1>5 DEF BodyEnds, Goto
    <2> HIDE DEF r
    <2>. QED
      BY <1>5, <2>1, <2>2, StageKeepsIInv DEF BodyEnds, At, ActiveStages
  <1>6. CASE Teardown(u) \/ HandlerReturns(u)
    <2> DEFINE r == [up[u] EXCEPT !.pc = "cleaning"]
    <2>1. /\ r \in Requests /\ r.pc = "cleaning"
          /\ r.totalFileBytes = up[u].totalFileBytes /\ r.totalFiles = up[u].totalFiles
      BY <1>1 DEF Requests, Stages
    <2>2. up' = [up EXCEPT ![u] = r]
          /\ UNCHANGED <<budget, activeRejectedBodyDrains, bytes, files>>
      BY <1>1, <1>6 DEF Teardown, HandlerReturns, Goto
    <2> HIDE DEF r
    <2>. QED
      BY <1>6, <2>1, <2>2, StageKeepsIInv DEF Teardown, HandlerReturns, At, ActiveStages
  <1>. QED
    BY <1>2, <1>3, <1>4, <1>5, <1>6

LEMMA FlushedKeepsIInv ==
    ASSUME IInv, NEW u \in Uploads, Flushed(u)
    PROVE  IInv'
  <1>1. up[u] \in Requests /\ up \in [Uploads -> Requests] /\ At(u, "flushing")
    BY Typed DEF Flushed
  <1>2. CASE ~up[u].failed /\ Fits(u, up[u].totalBytes)
    <2> DEFINE n == up[u].totalBytes
               r == [up[u] EXCEPT !.pc = "handling"]
    <2>1. Resize(u, n) /\ up' = [up EXCEPT ![u] = r]
      BY <1>1, <1>2 DEF Flushed, Goto
    <2>2. r \in Requests /\ r.pc \in ActiveStages /\ up[u].pc \in ActiveStages /\ n \in Nat
      BY <1>1 DEF Requests, Stages, At, ActiveStages
    <2>3. Sized(r, n, files[u])
      BY <1>1, <1>2, Typed DEF Sized, At, Requests, Stages
    <2>4. FitsFiles(u, files[u]) /\ files' = [files EXCEPT ![u] = files[u]]
          /\ reservedFiles' = reservedFiles - files[u] + files[u]
      BY <2>1, Typed DEF FitsFiles, Resize
    <2> HIDE DEF n, r
    <2>5. Fits(u, n)
      BY <1>2 DEF n
    <2>. QED
      BY <2>1, <2>2, <2>3, <2>4, <2>5, Typed, LeaseKeepsIInv DEF Resize
  <1>3. CASE ~(~up[u].failed /\ Fits(u, up[u].totalBytes))
    <2> DEFINE r == [up[u] EXCEPT !.pc = "cleaning", !.failed = TRUE]
    <2>1. /\ r \in Requests /\ r.pc = "cleaning"
          /\ r.totalFileBytes = up[u].totalFileBytes /\ r.totalFiles = up[u].totalFiles
      BY <1>1 DEF Requests, Stages
    <2>2. up' = [up EXCEPT ![u] = r]
          /\ UNCHANGED <<budget, activeRejectedBodyDrains, bytes, files>>
      BY <1>1, <1>3 DEF Flushed
    <2> HIDE DEF r
    <2>. QED
      BY <1>1, <2>1, <2>2, StageKeepsIInv DEF At, ActiveStages
  <1>. QED
    BY <1>2, <1>3

\* The end of a lease, the directories that stay, and their retries.
LEMMA CleanupKeepsIInv ==
    ASSUME IInv, NEW u \in Uploads,
           \/ NoDirectory(u) \/ RemoveDirectory(u) \/ RemoveFails(u)
           \/ RetryRemoves(u) \/ RetryFails(u)
    PROVE  IInv'
  <1>1. up[u] \in Requests /\ up \in [Uploads -> Requests]
    BY Typed
  <1>2. CASE NoDirectory(u) \/ RemoveDirectory(u)
    <2>1. up[u].pc \in ActiveStages
      BY <1>2 DEF NoDirectory, RemoveDirectory, At, ActiveStages
    <2>. QED
      BY <1>2, <2>1, ReleaseKeepsIInv DEF NoDirectory, RemoveDirectory
  <1>3. CASE RemoveFails(u)
    <2> DEFINE b == up[u].totalFileBytes
               r == [up[u] EXCEPT !.pc = "orphaned"]
    <2>1. /\ r \in Requests /\ r.pc = "orphaned" /\ r.totalFileBytes = b
          /\ r.totalFiles = files[u] /\ up[u].totalFiles = files[u]
          /\ b \in Nat /\ b <= bytes[u]
      BY <1>1, Typed DEF Requests, Stages, Sized
    <2>2. /\ up' = [up EXCEPT ![u] = r] /\ Retain(u, b, files[u])
          /\ ~At(u, "orphaned") /\ ~At(u, "draining") /\ up[u].pc \in ActiveStages
      BY <1>1, <1>3, <2>1 DEF RemoveFails, Goto, At, ActiveStages
    <2> HIDE DEF b, r
    <2>3. Step(u, b, files[u], r)
      <3>1. r.pc \notin ActiveStages /\ r.pc # "draining"
        BY <2>1 DEF ActiveStages
      <3>2. /\ reservedBytes' = reservedBytes - bytes[u] + b
            /\ reservedFiles' = reservedFiles - files[u] + files[u]
        BY <2>1, <2>2, Typed DEF Retain
      <3>. QED
        BY <2>1, <2>2, <3>1, <3>2, Typed DEF Step, Retain
    <2>4. Legal(u, b, files[u], r)
      <3>1. r.pc \notin ActiveStages /\ r.pc # "draining" /\ r.pc # "handling"
        BY <2>1 DEF ActiveStages
      <3>2. Sized(r, b, files[u])
        BY <2>1, Typed DEF Sized
      <3>3. /\ reservedBytes - bytes[u] + b <= Capacity
            /\ reservedFiles - files[u] + files[u] <= MaxFiles
        BY <2>1, Typed
      <3>. QED
        BY <2>1, <2>2, <3>1, <3>2, <3>3, Typed DEF Legal
    <2>. QED
      BY <2>1, <2>3, <2>4, Typed, StepKeepsIInv
  <1>4. CASE RetryRemoves(u)
    <2>1. ~At(u, "draining") /\ At(u, "orphaned") /\ up[u].pc \notin ActiveStages
      BY <1>4 DEF RetryRemoves, At, ActiveStages
    <2>2. Fresh.pc = "idle" /\ Fresh.pc \notin ActiveStages
      BY DEF Fresh, ActiveStages
    <2>3. Step(u, 0, 0, Fresh)
      BY <1>4, <2>1, <2>2, Typed DEF Step, RetryRemoves, ReleaseRetained
    <2>4. Legal(u, 0, 0, Fresh)
      BY <2>1, <2>2, Typed, FreshIsRequest DEF Legal
    <2>. QED
      BY <2>3, <2>4, StepKeepsIInv
  <1>5. CASE RetryFails(u)
    <2> DEFINE r == [up[u] EXCEPT !.attempt = @ + 1]
    <2>1. up[u].attempt \in 0 .. Retries /\ up[u].attempt < Retries /\ Retries \in Nat
      BY <1>1, <1>5, LimitsAssumption DEF RetryFails, Requests
    <2>2. /\ r \in Requests /\ r.pc = up[u].pc /\ r.failed = up[u].failed
          /\ r.totalBytes = up[u].totalBytes /\ r.totalFileBytes = up[u].totalFileBytes
          /\ r.totalFiles = up[u].totalFiles
      BY <1>1, <2>1 DEF Requests
    <2>3. up' = [up EXCEPT ![u] = r]
          /\ UNCHANGED <<budget, activeRejectedBodyDrains, bytes, files>>
      BY <1>1, <1>5 DEF RetryFails
    <2>4. Sized(r, bytes[u], files[u])
      BY <2>2, Typed DEF Sized
    <2> HIDE DEF r
    <2>. QED
      BY <2>2, <2>3, <2>4, MoveKeepsIInv DEF At
  <1>. QED
    BY <1>2, <1>3, <1>4, <1>5

LEMMA NextKeepsIInv == IInv /\ [Next]_vars => IInv'
  <1> SUFFICES ASSUME IInv, [Next]_vars
               PROVE  IInv'
    OBVIOUS
  <1>1. CASE UNCHANGED vars
    BY <1>1 DEF vars, budget, IInv, TypeOK, LedgerExact, Limits, RequestsBounded, Sized,
                Total, Units, OrphanedOf, Active, Orphaned, Draining, At
  <1>2. ASSUME NEW u \in Uploads, Input(u)
        PROVE  IInv'
    <2>1. CASE Acquire(u) \/ Reject(u)
      BY <2>1, AdmissionKeepsIInv
    <2>2. ASSUME NEW n \in Chunks, Field(u, n) \/ FileData(u, n)
          PROVE  IInv'
      BY <2>2, ReceiveKeepsIInv DEF Field, FileData
    <2>3. CASE File(u)
      BY <2>3, FileKeepsIInv
    <2>4. CASE BodyEnds(u) \/ Malformed(u) \/ WriteError(u)
      BY <2>4, ParsingKeepsIInv DEF Malformed
    <2>5. CASE NoDirectory(u) \/ RetryRemoves(u) \/ RetryFails(u)
      BY <2>5, CleanupKeepsIInv
    <2>. QED
      BY <1>2, <2>1, <2>2, <2>3, <2>4, <2>5 DEF Input
  <1>3. ASSUME NEW u \in Uploads, Progress(u)
        PROVE  IInv'
    <2>1. CASE DrainEnds(u)
      BY <2>1, AdmissionKeepsIInv
    <2>2. CASE MakeDirectory(u) \/ Timeout(u) \/ Teardown(u) \/ HandlerReturns(u)
      BY <2>2, ParsingKeepsIInv DEF Timeout
    <2>3. CASE Flushed(u)
      BY <2>3, FlushedKeepsIInv
    <2>4. CASE RemoveDirectory(u) \/ RemoveFails(u)
      BY <2>4, CleanupKeepsIInv
    <2>. QED
      BY <1>3, <2>1, <2>2, <2>3, <2>4 DEF Progress
  <1>. QED
    BY <1>1, <1>2, <1>3 DEF Next

-----------------------------------------------------------------------------
(* The theorems                                                             *)

LEMMA Invariant == Spec => []IInv
  BY InitHolds, NextKeepsIInv, PTL DEF Spec

(* The types, and with them that no counter of the budget goes below zero.   *)
THEOREM TypeCorrect == Spec => []TypeOK
  <1>1. IInv => TypeOK
    BY DEF IInv
  <1>. QED
    BY <1>1, Invariant, PTL

(* The counters of createInFlightUploadBudget are the sums of the leases,    *)
(* whatever the order in which requests are admitted, fail and are cleaned.  *)
THEOREM BudgetIsExact == Spec => []LedgerExact
  <1>1. IInv => LedgerExact
    BY DEF IInv
  <1>. QED
    BY <1>1, Invariant, PTL

(* The temporary files of all the requests together stay within              *)
(* maxInFlightUploadBytes and maxInFlightUploadFiles.                        *)
THEOREM DiskStaysBounded == Spec => []DiskBounded
  <1>1. ASSUME IInv
        PROVE  DiskBounded
    <2> DEFINE disk == [u \in Uploads |-> up[u].totalFileBytes]
    <2>1. /\ bytes \in [Uploads -> 0 .. Capacity] /\ Capacity \in Nat
          /\ up \in [Uploads -> Requests]
      BY <1>1, LimitsAssumption DEF IInv, TypeOK
    <2>2. \A u \in Uploads : up[u].totalFileBytes \in Nat /\ up[u].totalFileBytes <= bytes[u]
                             /\ up[u].totalFiles = files[u]
      BY <1>1, <2>1 DEF IInv, Sized, Requests
    <2>3. disk \in [Uploads -> 0 .. Capacity]
      BY <2>1, <2>2
    <2>4. \A u \in Uploads : disk[u] <= bytes[u]
      BY <2>2
    <2>5. DiskBytes <= Total(bytes)
      <3> HIDE DEF disk
      <3>1. Total(disk) <= Total(bytes)
        BY <2>1, <2>3, <2>4, TotalMonotone
      <3>. QED
        BY <3>1 DEF DiskBytes, disk
    <2>6. DiskFiles = Total(files)
      <3>1. [u \in Uploads |-> up[u].totalFiles] = files
        BY <1>1, <2>2 DEF IInv, TypeOK
      <3>. QED
        BY <3>1 DEF DiskFiles
    <2>7. /\ Total(bytes) \in Nat /\ Total(bytes) <= Capacity /\ Total(files) <= MaxFiles
          /\ DiskBytes \in Nat
      BY <1>1, <2>1, <2>3, UnitsFinite DEF IInv, LedgerExact, Limits, TypeOK, DiskBytes
    <2>. QED
      BY <2>1, <2>5, <2>6, <2>7 DEF DiskBounded
  <1>. QED
    BY <1>1, Invariant, PTL

(* maxConcurrentUploads, and the bound of maxOrphanedUploadDirectories with  *)
(* the requests that were already admitted.                                  *)
THEOREM RequestsStayBounded == Spec => []RequestsBounded
  <1>1. IInv => RequestsBounded
    BY DEF IInv, Limits
  <1>. QED
    BY <1>1, Invariant, PTL

(* release never throws when a directory cannot be removed.                  *)
THEOREM RetainedAlwaysFits == Spec => []RetainedFitsLease
  <1>1. ASSUME IInv
        PROVE  RetainedFitsLease
    <2>1. ASSUME NEW u \in Active
          PROVE  up[u].totalFileBytes <= bytes[u] /\ up[u].totalFiles <= files[u]
      <3>1. u \in Uploads
        BY DEF Active
      <3>. QED
        BY <1>1, <3>1, Typed DEF Sized
    <2>. QED
      BY <2>1 DEF RetainedFitsLease
  <1>. QED
    BY <1>1, Invariant, PTL

(* A handler of a multipart route sees only uploads that were parsed and     *)
(* written without an error, with all of their bytes leased.                 *)
THEOREM HandlersSeeWholeUploads == Spec => []HandlerSeesWholeUpload
  <1>1. ASSUME IInv
        PROVE  HandlerSeesWholeUpload
    <2>1. ASSUME NEW u \in Uploads
          PROVE  /\ up[u].pc \in {"parsing", "flushing"} /\ ~up[u].failed => bytes[u] = up[u].totalBytes
                 /\ At(u, "handling") => /\ ~up[u].failed
                                         /\ bytes[u] = up[u].totalBytes
                                         /\ up[u].totalBytes <= MaxSize
      BY <1>1, Typed DEF Sized, At, Stages
    <2>. QED
      BY <2>1 DEF HandlerSeesWholeUpload
  <1>. QED
    BY <1>1, Invariant, PTL

=============================================================================
