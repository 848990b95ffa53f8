-------------------------- MODULE BatchQueueProofs --------------------------
(***************************************************************************)
(* Theorems about BatchQueue, for every number of workers, batches, users  *)
(* and subjects, every stale limit and every bound on crashes.             *)
(***************************************************************************)
EXTENDS BatchQueue, FiniteSetTheorems, TLAPS

USE BatchesAssumption, SubjectsAssumption, SubjectOfAssumption,
    StaleAfterAssumption, MaxCrashesAssumption

-----------------------------------------------------------------------------
(* The rows of a batch, and any selection of them, are finitely many.      *)
LEMMA FiniteRows ==
    ASSUME NEW b, NEW R \in SUBSET RowsOf(b)
    PROVE  IsFiniteSet(R) /\ Cardinality(R) \in Nat
<1>1. IsFiniteSet({b}) BY FS_Singleton
<1>2. IsFiniteSet(RowsOf(b)) BY <1>1, FS_Product DEF RowsOf
<1>3. IsFiniteSet(R) BY <1>2, FS_Subset
<1> QED BY <1>3, FS_CardinalityType

(* The initial state has the types.                                        *)
LEMMA TypeInit == Init => TypeOK
BY DEF Init, TypeOK, RowStatus, BatchStatus, ScanStatus, Ages, Steps, Terminal, NoTally

(* Every claim, scan, finish, crash and restart keeps them.                *)
LEMMA TypeStep == TypeOK /\ [Next]_vars => TypeOK'
<1> SUFFICES ASSUME TypeOK, [Next]_vars PROVE TypeOK'
  OBVIOUS
<1> USE DEF TypeOK, rowVars, batchVars, localVars, txVars
<1>1. ASSUME NEW b \in Batches, CreateBatch(b) PROVE TypeOK'
  <2>1. PICK matched \in (SUBSET Users) \ {{}} :
           /\ status' = [r \in Rows |-> IF r \in {<<b, SubjectOf[u]>> : u \in matched}
                                        THEN "queued" ELSE status[r]]
           /\ total' = [total EXCEPT ![b] = Cardinality(matched)]
    BY <1>1 DEF CreateBatch
  <2>2. Cardinality(matched) \in Nat
    BY <2>1, UsersAssumption, FS_Subset, FS_CardinalityType
  <2>3. status' \in [Rows -> RowStatus] BY <2>1 DEF RowStatus
  <2>4. total' \in [Batches -> Nat] BY <2>1, <2>2
  <2> QED BY <1>1, <2>3, <2>4 DEF CreateBatch, BatchStatus
<1>2. ASSUME NEW w \in Workers, Claim(w) PROVE TypeOK'
  <2>1. PICK r \in Rows :
           /\ status' = [status EXCEPT ![r] = "running"]
           /\ lockedBy' = [lockedBy EXCEPT ![r] = w]
           /\ age' = [age EXCEPT ![r] = 0]
           /\ bstatus' = [bstatus EXCEPT ![r[1]] = IF @ = "pending" THEN "running" ELSE @]
           /\ work' = [work EXCEPT ![w] = r]
    BY <1>2 DEF Claim
  <2>2. bstatus' \in [Batches -> BatchStatus] BY <2>1 DEF BatchStatus
  <2>3. /\ status' \in [Rows -> RowStatus]
        /\ lockedBy' \in [Rows -> Workers \cup {NoWorker}]
        /\ age' \in [Rows -> Ages]
        /\ work' \in [Workers -> Rows \cup {NoRow}]
    BY <2>1 DEF RowStatus, Ages
  <2> QED BY <1>2, <2>2, <2>3 DEF Claim, Ages, Steps
<1>3. ASSUME NEW w \in Workers, Lose(w), crashes' \in 0 .. MaxCrashes PROVE TypeOK'
  BY <1>3 DEF Lose, Steps, ScanStatus, NoTally, Ages
<1>4. ASSUME NEW w \in Workers, BuildClient(w) PROVE TypeOK'
  BY <1>4 DEF BuildClient, Steps
<1>5. ASSUME NEW w \in Workers, InsertScan(w) PROVE TypeOK'
  BY <1>5 DEF InsertScan, Steps, ScanStatus
<1>6. ASSUME NEW w \in Workers, StartScan(w) PROVE TypeOK'
  BY <1>6 DEF StartScan, Steps, ScanStatus
<1>7. ASSUME NEW w \in Workers, EndScan(w) PROVE TypeOK'
  <2>1. PICK outcome \in Terminal :
           /\ scan' = [scan EXCEPT ![w] = outcome]
           /\ scanned' = [scanned EXCEPT ![work[w]] = @ \cup {outcome}]
    BY <1>7 DEF EndScan
  <2>2. scan' \in [Workers -> ScanStatus] BY <2>1 DEF ScanStatus
  <2>3. scanned' \in [Rows -> SUBSET Terminal] BY <2>1
  <2> QED BY <1>7, <2>2, <2>3 DEF EndScan, Steps
<1>8. ASSUME NEW w \in Workers, FinishRow(w) PROVE TypeOK'
  BY <1>8 DEF FinishRow, Steps
<1>9. ASSUME NEW w \in Workers, CountRows(w) PROVE TypeOK'
  <2> DEFINE b == work[w][1]
             S(x) == {r \in ExistingRows(b) : Seen(w, r) = x}
  <2>1. /\ Cardinality(S("succeeded")) \in Nat
        /\ Cardinality(S("failed")) \in Nat
        /\ Cardinality(ExistingRows(b)) \in Nat
    <3>1. ExistingRows(b) \in SUBSET RowsOf(b) BY DEF ExistingRows
    <3>2. \A x : S(x) \in SUBSET RowsOf(b) BY <3>1
    <3> HIDE DEF S, b
    <3> QED BY <3>1, <3>2, FiniteRows
  <2>2. tally' \in [Workers -> [completed : Nat, failed : Nat, total : Nat]]
    BY <1>9, <2>1 DEF CountRows
  <2> QED BY <1>9, <2>2 DEF CountRows, Steps
<1>10. ASSUME NEW w \in Workers, CommitFinish(w) PROVE TypeOK'
  <2>1. status' \in [Rows -> RowStatus] /\ lockedBy' \in [Rows -> Workers \cup {NoWorker}]
        /\ age' \in [Rows -> Ages]
    <3>1. RowOutcome(w) \in RowStatus BY DEF RowOutcome, RowStatus, Terminal
    <3> DEFINE o == RowOutcome(w)
    <3> HIDE DEF o
    <3>0. 0 \in Ages BY DEF Ages
    <3>2. CASE wrote[w]
      <4>1. /\ status' = [status EXCEPT ![work[w]] = o]
            /\ lockedBy' = [lockedBy EXCEPT ![work[w]] = NoWorker]
            /\ age' = [age EXCEPT ![work[w]] = 0]
        BY <1>10, <3>2 DEF CommitFinish, o
      <4>2. o \in RowStatus BY <3>1 DEF o
      <4> QED BY <4>1, <4>2, <3>0
    <3>3. CASE ~wrote[w] BY <1>10, <3>3 DEF CommitFinish
    <3> QED BY <3>2, <3>3
  <2>2. tally[w] \in [completed : Nat, failed : Nat, total : Nat] OBVIOUS
  <2>3. bstatus' \in [Batches -> BatchStatus]
    BY <1>10 DEF CommitFinish, Verdict, BatchStatus
  <2>4. completed' \in [Batches -> Nat] /\ failed' \in [Batches -> Nat]
    BY <1>10, <2>2 DEF CommitFinish
  <2> QED BY <1>10, <2>1, <2>3, <2>4 DEF CommitFinish, Steps, ScanStatus, NoTally, Ages
<1>11. ASSUME NEW w \in Workers, Restart(w) PROVE TypeOK'
  BY <1>11 DEF Restart, Steps
<1>12. CASE SetKey
  BY <1>12 DEF SetKey
<1>13. CASE Tick
  BY <1>13 DEF Tick, Older, Ages
<1>14. CASE UNCHANGED vars
  BY <1>14 DEF vars
<1> QED
  BY <1>1, <1>2, <1>3, <1>4, <1>5, <1>6, <1>7, <1>8, <1>9, <1>10, <1>11, <1>12, <1>13, <1>14
     DEF Next, WorkerStep, MissingKey, Crash

(* The columns of batches, subjects and scans, and each worker's locals,   *)
(* hold values the enums of models.py allow, in every reachable state.     *)
THEOREM TypeCorrect == Spec => []TypeOK
BY TypeInit, TypeStep, PTL DEF Spec
-----------------------------------------------------------------------------
(* A row is a batch and a subject, and belongs to that batch alone.        *)
LEMMA RowFacts ==
    /\ \A r \in Rows : r[1] \in Batches /\ r \in RowsOf(r[1]) /\ r # NoRow
    /\ \A b \in Batches : \A r \in RowsOf(b) : r \in Rows /\ r[1] = b
<1>1. ASSUME NEW r \in Rows PROVE r[1] \in Batches /\ r \in RowsOf(r[1]) /\ r # NoRow
  <2>1. r = <<r[1], r[2]>> /\ r[1] \in Batches /\ r[2] \in Subjects
    BY DEF Rows
  <2>2. r \in RowsOf(r[1])
    BY <2>1 DEF RowsOf
  <2>3. r # NoRow
    <3>1. 1 \in DOMAIN r
      BY DEF Rows
    <3>2. 1 \notin DOMAIN NoRow
      BY DEF NoRow
    <3> QED BY <3>1, <3>2, Zenon
  <2> QED BY <2>1, <2>2, <2>3
<1>2. ASSUME NEW b \in Batches, NEW r \in RowsOf(b) PROVE r \in Rows /\ r[1] = b
  BY DEF Rows, RowsOf
<1> QED BY <1>1, <1>2

(* create_batch touches no row that exists.                                *)
LEMMA CreateFacts ==
    ASSUME TypeOK, AbsentInv, NEW b \in Batches, CreateBatch(b)
    PROVE  /\ \A r \in Rows : status[r] # "absent" => status'[r] = status[r] /\ r[1] # b
           /\ \A r \in Rows : status'[r] # status[r] => status'[r] = "queued" /\ r[1] = b
<1>1. PICK matched \in (SUBSET Users) \ {{}} :
         status' = [r \in Rows |-> IF r \in {<<b, SubjectOf[u]>> : u \in matched}
                                   THEN "queued" ELSE status[r]]
  BY DEF CreateBatch
<1>2. ASSUME NEW r \in Rows, r \in {<<b, SubjectOf[u]>> : u \in matched}
      PROVE  r[1] = b /\ status[r] = "absent"
  <2>1. r[1] = b BY <1>2
  <2> QED BY <1>2, <2>1 DEF CreateBatch, AbsentInv
<1>3. \A r \in Rows : bstatus[r[1]] = "absent" => status[r] = "absent" BY DEF AbsentInv
<1>4. bstatus[b] = "absent" BY DEF CreateBatch
<1>5. \A r \in Rows : r[1] = b => status[r] = "absent" BY <1>3, <1>4
<1> QED BY <1>1, <1>2, <1>5

(* A worker at a scan or a finish works on a row that exists, and one      *)
(* worker at a time has that row and its batch locked.                     *)
LEMMA WorkStep ==
    TypeOK /\ WorkInv /\ LockInv /\ AbsentInv /\ [Next]_vars => WorkInv' /\ LockInv' /\ AbsentInv'
<1> SUFFICES ASSUME TypeOK, WorkInv, LockInv, AbsentInv, [Next]_vars
             PROVE  WorkInv' /\ LockInv' /\ AbsentInv'
  OBVIOUS
<1> DEFINE G == WorkInv' /\ LockInv' /\ AbsentInv'
<1> USE DEF TypeOK, rowVars, batchVars, localVars, txVars
<1>1. ASSUME NEW b \in Batches, CreateBatch(b) PROVE G
  <2>1. /\ \A r \in Rows : status[r] # "absent" => status'[r] = status[r] /\ r[1] # b
        /\ \A r \in Rows : status'[r] # status[r] => status'[r] = "queued" /\ r[1] = b
    BY <1>1, CreateFacts
  <2>2. UNCHANGED <<step, work, wrote>> /\ bstatus' = [bstatus EXCEPT ![b] = "pending"]
    BY <1>1 DEF CreateBatch
  <2>3. LockInv' BY <2>2 DEF LockInv
  <2>4. WorkInv' BY <2>1, <2>2 DEF WorkInv, AtWork, Steps, Terminal
  <2>5. AbsentInv' BY <2>1, <2>2, RowFacts DEF AbsentInv
  <2> QED BY <2>3, <2>4, <2>5
<1>2. ASSUME NEW w \in Workers, Claim(w) PROVE G
  <2>1. PICK r \in Rows :
           /\ Claimable(r)
           /\ status' = [status EXCEPT ![r] = "running"]
           /\ bstatus' = [bstatus EXCEPT ![r[1]] = IF @ = "pending" THEN "running" ELSE @]
           /\ work' = [work EXCEPT ![w] = r]
    BY <1>2 DEF Claim
  <2>2. step[w] = "idle" /\ step' = [step EXCEPT ![w] = "claimed"] /\ UNCHANGED wrote
    BY <1>2 DEF Claim
  <2>3. status[r] \in {"queued", "running"} /\ \A v \in Workers : wrote[v] => work[v] # r
    BY <2>1 DEF Claimable, Locked
  <2>4. ~wrote[w] BY <2>2 DEF WorkInv
  <2>5. WorkInv' BY <2>1, <2>2, <2>3, <2>4 DEF WorkInv, AtWork, Steps, Terminal
  <2>6. LockInv' BY <2>1, <2>2, <2>4 DEF LockInv
  <2>7. AbsentInv' BY <2>1, <2>3, RowFacts DEF AbsentInv
  <2> QED BY <2>5, <2>6, <2>7
<1>3. ASSUME NEW w \in Workers, Lose(w) PROVE G
  BY <1>3 DEF Lose, WorkInv, LockInv, AbsentInv, AtWork, Steps
<1>4. ASSUME NEW w \in Workers, BuildClient(w) PROVE G
  BY <1>4 DEF BuildClient, WorkInv, LockInv, AbsentInv, AtWork, Steps
<1>5. ASSUME NEW w \in Workers, InsertScan(w) PROVE G
  BY <1>5 DEF InsertScan, WorkInv, LockInv, AbsentInv, AtWork, Steps
<1>6. ASSUME NEW w \in Workers, StartScan(w) PROVE G
  BY <1>6 DEF StartScan, WorkInv, LockInv, AbsentInv, AtWork, Steps
<1>7. ASSUME NEW w \in Workers, EndScan(w) PROVE G
  BY <1>7 DEF EndScan, WorkInv, LockInv, AbsentInv, AtWork, Steps
<1>8. ASSUME NEW w \in Workers, FinishRow(w) PROVE G
  BY <1>8 DEF FinishRow, Locked, WorkInv, LockInv, AbsentInv, AtWork, Steps
<1>9. ASSUME NEW w \in Workers, CountRows(w) PROVE G
  BY <1>9 DEF CountRows, WorkInv, LockInv, AbsentInv, AtWork, Steps
<1>10. ASSUME NEW w \in Workers, CommitFinish(w) PROVE G
  <2>1. /\ step[w] = "writing" /\ work[w] \in Rows
        /\ step' = [step EXCEPT ![w] = "idle"]
        /\ work' = [work EXCEPT ![w] = NoRow]
        /\ wrote' = [wrote EXCEPT ![w] = FALSE]
        /\ bstatus' = [bstatus EXCEPT ![work[w][1]] = Verdict(tally[w], @)]
    BY <1>10 DEF CommitFinish, WorkInv, AtWork, Steps
  <2>2. RowOutcome(w) \in Terminal BY DEF RowOutcome, Terminal
  <2>3. /\ \A r \in Rows : r # work[w] => status'[r] = status[r]
        /\ wrote[w] => status'[work[w]] \in Terminal
        /\ ~wrote[w] => status' = status
    BY <1>10, <2>1, <2>2 DEF CommitFinish
  <2>4. status[work[w]] # "absent" BY <2>1 DEF WorkInv, AtWork, Steps, Terminal
  <2>5. WorkInv'
    <3> SUFFICES ASSUME NEW v \in Workers
                 PROVE  /\ step'[v] \in AtWork =>
                             work'[v] \in Rows /\ status'[work'[v]] \in {"running"} \cup Terminal
                        /\ step'[v] \notin AtWork => work'[v] = NoRow
                        /\ wrote'[v] => step'[v] \in {"counting", "writing"}
                                       /\ status'[work'[v]] = "running"
      BY DEF WorkInv
    <3>1. CASE v = w BY <2>1, <3>1 DEF AtWork
    <3>2. CASE v # w
      <4>1. UNCHANGED <<step[v], work[v], wrote[v]>> BY <2>1, <3>2
      <4>2. wrote[v] /\ wrote[w] => work[v] # work[w] BY <3>2 DEF LockInv
      <4> QED BY <4>1, <4>2, <2>3 DEF WorkInv, AtWork, Steps
    <3> QED BY <3>1, <3>2
  <2>6. LockInv' BY <2>1 DEF LockInv
  <2>7. AbsentInv'
    BY <2>1, <2>3, <2>4, RowFacts DEF AbsentInv, Verdict
  <2> QED BY <2>5, <2>6, <2>7
<1>11. ASSUME NEW w \in Workers, Restart(w) PROVE G
  BY <1>11 DEF Restart, WorkInv, LockInv, AbsentInv, AtWork, Steps
<1>12. CASE SetKey
  BY <1>12 DEF SetKey, WorkInv, LockInv, AbsentInv
<1>13. CASE Tick
  BY <1>13 DEF Tick, WorkInv, LockInv, AbsentInv
<1>14. CASE UNCHANGED vars
  BY <1>14 DEF vars, WorkInv, LockInv, AbsentInv
<1> QED
  BY <1>1, <1>2, <1>3, <1>4, <1>5, <1>6, <1>7, <1>8, <1>9, <1>10, <1>11, <1>12, <1>13, <1>14
     DEF Next, WorkerStep, MissingKey, Crash
-----------------------------------------------------------------------------
(* A claim takes a row only from a worker that has held it past the limit. *)
LEMMA OwnerStep ==
    TypeOK /\ WorkInv /\ LockInv /\ AbsentInv /\ OwnerInv /\ ExclusiveWhileFresh /\ [Next]_vars
        => OwnerInv' /\ ExclusiveWhileFresh'
<1> SUFFICES ASSUME TypeOK, WorkInv, LockInv, AbsentInv, OwnerInv, ExclusiveWhileFresh, [Next]_vars
             PROVE  OwnerInv' /\ ExclusiveWhileFresh'
  OBVIOUS
<1> DEFINE G == OwnerInv' /\ ExclusiveWhileFresh'
<1> USE DEF TypeOK, rowVars, batchVars, localVars, txVars
<1>1. ASSUME NEW b \in Batches, CreateBatch(b) PROVE G
  <2>1. \A r \in Rows : status[r] # "absent" => status'[r] = status[r]
    BY <1>1, CreateFacts
  <2>2. UNCHANGED <<lockedBy, age, work, held>> BY <1>1 DEF CreateBatch
  <2>3. \A w \in Workers : work[w] # NoRow => work[w] \in Rows BY DEF TypeOK
  <2> QED BY <2>1, <2>2, <2>3 DEF OwnerInv, ExclusiveWhileFresh, Fresh, Terminal
<1>2. ASSUME NEW w \in Workers, Claim(w) PROVE G
  <2>1. PICK r \in Rows :
           /\ Claimable(r)
           /\ status' = [status EXCEPT ![r] = "running"]
           /\ lockedBy' = [lockedBy EXCEPT ![r] = w]
           /\ age' = [age EXCEPT ![r] = 0]
           /\ work' = [work EXCEPT ![w] = r]
    BY <1>2 DEF Claim
  <2>2. held' = [held EXCEPT ![w] = 0] BY <1>2 DEF Claim
  <2>3. status[r] = "queued" \/ (status[r] = "running" /\ age[r] > StaleAfter)
    BY <2>1 DEF Claimable
  <2>4. ASSUME NEW v \in Workers, Fresh(v) PROVE work[v] # r
    <3>1. status[work[v]] \in Terminal \/ (status[work[v]] = "running" /\ age[work[v]] = held[v])
      BY <2>4 DEF OwnerInv
    <3>2. held[v] <= StaleAfter BY <2>4 DEF Fresh
    <3> QED BY <2>3, <3>1, <3>2 DEF Terminal, Ages
  <2>5. ASSUME NEW v \in Workers, v # w, Fresh(v)' PROVE Fresh(v) /\ work'[v] = work[v]
    BY <2>1, <2>2, <2>5 DEF Fresh
  <2>6. work'[w] = r /\ held'[w] = 0 /\ status'[r] = "running" /\ lockedBy'[r] = w /\ age'[r] = 0
    BY <2>1, <2>2
  <2>7. ExclusiveWhileFresh' BY <2>4, <2>5, <2>6 DEF ExclusiveWhileFresh
  <2>8. OwnerInv'
    <3> SUFFICES ASSUME NEW v \in Workers, Fresh(v)'
                 PROVE  \/ status'[work'[v]] \in Terminal
                        \/ status'[work'[v]] = "running" /\ lockedBy'[work'[v]] = v
                           /\ age'[work'[v]] = held'[v]
      BY DEF OwnerInv
    <3>1. CASE v = w BY <2>6, <3>1
    <3>2. CASE v # w
      <4>1. Fresh(v) /\ work'[v] = work[v] /\ work[v] # r /\ held'[v] = held[v]
        BY <2>2, <2>4, <2>5, <3>2
      <4> QED BY <4>1, <2>1 DEF OwnerInv
    <3> QED BY <3>1, <3>2
  <2> QED BY <2>7, <2>8
<1>3. ASSUME NEW w \in Workers, Lose(w) PROVE G
  BY <1>3 DEF Lose, OwnerInv, ExclusiveWhileFresh, Fresh
<1>4. ASSUME UNCHANGED <<status, lockedBy, age, work, held>> PROVE G
  BY <1>4 DEF OwnerInv, ExclusiveWhileFresh, Fresh
<1>5. ASSUME NEW w \in Workers, CommitFinish(w) PROVE G
  <2>1. /\ work' = [work EXCEPT ![w] = NoRow]
        /\ held' = [held EXCEPT ![w] = 0]
    BY <1>5 DEF CommitFinish
  <2>2. RowOutcome(w) \in Terminal BY DEF RowOutcome, Terminal
  <2>3. \A r \in Rows : \/ status'[r] \in Terminal
                        \/ /\ status'[r] = status[r]
                           /\ lockedBy'[r] = lockedBy[r]
                           /\ age'[r] = age[r]
    BY <1>5, <2>2 DEF CommitFinish
  <2>4. \A v \in Workers : Fresh(v)' => v # w /\ Fresh(v) /\ work'[v] = work[v] /\ held'[v] = held[v]
    BY <2>1 DEF Fresh
  <2>5. \A v \in Workers : Fresh(v) => work[v] \in Rows BY DEF Fresh
  <2>6. ExclusiveWhileFresh' BY <2>4 DEF ExclusiveWhileFresh
  <2>7. OwnerInv' BY <2>3, <2>4, <2>5 DEF OwnerInv
  <2> QED BY <2>6, <2>7
<1>6. CASE Tick
  <2>1. \A v \in Workers : Fresh(v)' => Fresh(v) /\ work'[v] = work[v] /\ held'[v] = Older(held[v])
    BY <1>6 DEF Tick, Fresh, Older, Ages
  <2>2. \A r \in Rows : status[r] = "running" => age'[r] = Older(age[r])
    BY <1>6 DEF Tick
  <2>3. UNCHANGED <<status, lockedBy>> BY <1>6 DEF Tick
  <2>4. \A v \in Workers : Fresh(v) => work[v] \in Rows BY DEF Fresh
  <2>5. ExclusiveWhileFresh' BY <2>1 DEF ExclusiveWhileFresh
  <2>6. OwnerInv' BY <2>1, <2>2, <2>3, <2>4 DEF OwnerInv
  <2> QED BY <2>5, <2>6
<1>7. ASSUME NEW w \in Workers,
             BuildClient(w) \/ InsertScan(w) \/ StartScan(w) \/ EndScan(w)
             \/ FinishRow(w) \/ CountRows(w) \/ Restart(w)
      PROVE  G
  BY <1>4, <1>7
     DEF BuildClient, InsertScan, StartScan, EndScan, FinishRow, CountRows, Restart
<1>8. CASE SetKey BY <1>4, <1>8 DEF SetKey
<1>9. CASE UNCHANGED vars BY <1>4, <1>9 DEF vars
<1> QED
  BY <1>1, <1>2, <1>3, <1>5, <1>6, <1>7, <1>8, <1>9 DEF Next, WorkerStep, MissingKey, Crash

-----------------------------------------------------------------------------
(* A count of a finite set of rows in which as many rows are settled as    *)
(* there are rows has seen every row settled.                              *)
LEMMA FullCount ==
    ASSUME NEW b, NEW R \in SUBSET RowsOf(b), NEW S \in SUBSET R, NEW F \in SUBSET R,
           S \cap F = {}, Cardinality(S) + Cardinality(F) = Cardinality(R)
    PROVE  R = S \cup F
<1>1. IsFiniteSet(R) /\ IsFiniteSet(S) /\ IsFiniteSet(F) BY FiniteRows
<1>2. Cardinality(S) \in Nat /\ Cardinality(F) \in Nat BY <1>1, FS_CardinalityType
<1>3. Cardinality(S \cup F) = Cardinality(S) + Cardinality(F) - Cardinality(S \cap F)
  BY <1>1, FS_Union
<1>4. Cardinality(S \cap F) = 0 BY FS_EmptySet
<1>5. Cardinality(S \cup F) = Cardinality(R) BY <1>2, <1>3, <1>4
<1> QED BY <1>1, <1>5, FS_Subset
-----------------------------------------------------------------------------
(* No step changes a settled row, and none adds a row to a batch that      *)
(* exists.                                                                 *)
LEMMA SettledRows ==
    ASSUME TypeOK, WorkInv, LockInv, AbsentInv, [Next]_vars
    PROVE  /\ \A r \in Rows : status[r] \in Terminal => status'[r] = status[r]
           /\ \A r \in Rows : bstatus[r[1]] # "absent" /\ status[r] = "absent"
                                => status'[r] = "absent"
           /\ \A r \in Rows : status[r] # "absent" => status'[r] # "absent"
<1> DEFINE G == /\ \A r \in Rows : status[r] \in Terminal => status'[r] = status[r]
                /\ \A r \in Rows : bstatus[r[1]] # "absent" /\ status[r] = "absent"
                                     => status'[r] = "absent"
                /\ \A r \in Rows : status[r] # "absent" => status'[r] # "absent"
<1> USE DEF TypeOK, rowVars, batchVars, localVars, txVars
<1>1. ASSUME NEW b \in Batches, CreateBatch(b) PROVE G
  <2>1. /\ \A r \in Rows : status[r] # "absent" => status'[r] = status[r] /\ r[1] # b
        /\ \A r \in Rows : status'[r] # status[r] => status'[r] = "queued" /\ r[1] = b
    BY <1>1, CreateFacts
  <2>2. bstatus[b] = "absent" BY <1>1 DEF CreateBatch
  <2> QED BY <2>1, <2>2 DEF Terminal
<1>2. ASSUME NEW w \in Workers, Claim(w) PROVE G
  <2>1. PICK r \in Rows : Claimable(r) /\ status' = [status EXCEPT ![r] = "running"]
    BY <1>2 DEF Claim
  <2>2. status[r] \in {"queued", "running"} BY <2>1 DEF Claimable
  <2> QED BY <2>1, <2>2 DEF Terminal
<1>3. ASSUME NEW w \in Workers, CommitFinish(w) PROVE G
  <2>1. RowOutcome(w) \in Terminal BY DEF RowOutcome, Terminal
  <2>2. wrote[w] => status[work[w]] = "running" BY DEF WorkInv
  <2>3. \A r \in Rows : \/ status'[r] = status[r]
                        \/ status[r] = "running" /\ status'[r] \in Terminal
    BY <1>3, <2>1, <2>2 DEF CommitFinish
  <2> QED BY <2>3 DEF Terminal
<1>4. ASSUME UNCHANGED status PROVE G BY <1>4
<1>5. ASSUME NEW w \in Workers,
             BuildClient(w) \/ InsertScan(w) \/ StartScan(w) \/ EndScan(w)
             \/ FinishRow(w) \/ CountRows(w) \/ Restart(w) \/ Lose(w)
      PROVE  G
  BY <1>4, <1>5
     DEF BuildClient, InsertScan, StartScan, EndScan, FinishRow, CountRows, Restart, Lose
<1>6. SetKey \/ Tick \/ UNCHANGED vars => UNCHANGED status BY DEF SetKey, Tick, vars
<1> QED
  BY <1>1, <1>2, <1>3, <1>4, <1>5, <1>6 DEF Next, WorkerStep, MissingKey, Crash

(* Between its count and its commit nobody touches a worker's transaction. *)
LEMMA OpenTransaction ==
    ASSUME TypeOK, [Next]_vars, NEW v \in Workers, step'[v] = "writing"
    PROVE  \/ CountRows(v)
           \/ step[v] = "writing" /\ UNCHANGED <<work[v], wrote[v], scan[v], tally[v]>>
<1> USE DEF TypeOK, rowVars, batchVars, localVars, txVars
<1>1. ASSUME NEW b \in Batches, CreateBatch(b)
      PROVE  step[v] = "writing" /\ UNCHANGED <<work[v], wrote[v], scan[v], tally[v]>>
  BY <1>1 DEF CreateBatch
<1>2. ASSUME NEW w \in Workers, Claim(w)
      PROVE  step[v] = "writing" /\ UNCHANGED <<work[v], wrote[v], scan[v], tally[v]>>
  <2>1. step' = [step EXCEPT ![w] = "claimed"] /\ UNCHANGED <<scan, wrote, tally>>
    BY <1>2 DEF Claim
  <2>2. \E r \in Rows : work' = [work EXCEPT ![w] = r] BY <1>2 DEF Claim
  <2> QED BY <2>1, <2>2
<1>3. ASSUME NEW w \in Workers, Lose(w) \/ CommitFinish(w)
      PROVE  step[v] = "writing" /\ UNCHANGED <<work[v], wrote[v], scan[v], tally[v]>>
  BY <1>3 DEF Lose, CommitFinish
<1>4. ASSUME NEW w \in Workers,
             BuildClient(w) \/ InsertScan(w) \/ StartScan(w) \/ EndScan(w)
             \/ FinishRow(w) \/ Restart(w)
      PROVE  step[v] = "writing" /\ UNCHANGED <<work[v], wrote[v], scan[v], tally[v]>>
  BY <1>4 DEF BuildClient, InsertScan, StartScan, EndScan, FinishRow, Restart
<1>5. ASSUME NEW w \in Workers, CountRows(w), v # w
      PROVE  step[v] = "writing" /\ UNCHANGED <<work[v], wrote[v], scan[v], tally[v]>>
  BY <1>5 DEF CountRows
<1>6. ASSUME SetKey \/ Tick \/ UNCHANGED vars
      PROVE  step[v] = "writing" /\ UNCHANGED <<work[v], wrote[v], scan[v], tally[v]>>
  BY <1>6 DEF SetKey, Tick, vars
<1> QED
  BY <1>1, <1>2, <1>3, <1>4, <1>5, <1>6 DEF Next, WorkerStep, MissingKey, Crash

(* A count that closes a batch stays true until it is written.             *)
LEMMA TallyStep ==
    TypeOK /\ TypeOK' /\ WorkInv /\ WorkInv' /\ LockInv /\ AbsentInv /\ TallyInv /\ [Next]_vars
        => TallyInv'
<1> SUFFICES ASSUME TypeOK, TypeOK', WorkInv, WorkInv', LockInv, AbsentInv, TallyInv, [Next]_vars,
                    NEW v \in Workers, step'[v] = "writing",
                    tally'[v].completed + tally'[v].failed = tally'[v].total
             PROVE  /\ \A r \in ExistingRows(work[v][1])' : Seen(v, r)' \in Terminal
                    /\ tally'[v].failed = 0 <=>
                         \A r \in ExistingRows(work[v][1])' : Seen(v, r)' # "failed"
  BY DEF TallyInv
<1>1. work'[v] \in Rows BY DEF WorkInv, AtWork, Steps
<1>2. CASE CountRows(v)
  <2> DEFINE b == work[v][1]
             R == ExistingRows(b)
             S == {r \in R : Seen(v, r) = "succeeded"}
             F == {r \in R : Seen(v, r) = "failed"}
  <2>1. UNCHANGED <<status, work, wrote, scan>>
    BY <1>2 DEF CountRows, rowVars
  <2>2. ExistingRows(work[v][1])' = R /\ \A r \in R : Seen(v, r)' = Seen(v, r)
    BY <2>1 DEF ExistingRows, RowsOf, Seen, RowOutcome
  <2>3. /\ tally'[v].completed = Cardinality(S)
        /\ tally'[v].failed = Cardinality(F)
        /\ tally'[v].total = Cardinality(R)
    BY <1>2 DEF CountRows, TypeOK
  <2>4. /\ R \in SUBSET RowsOf(b) /\ S \in SUBSET R /\ F \in SUBSET R
        /\ S \cap F = {}
    BY DEF ExistingRows
  <2>5. \A r \in R : (r \in S => Seen(v, r) \in Terminal) /\ (r \in F => Seen(v, r) \in Terminal)
    BY DEF Terminal
  <2>6. \A r \in R : r \in F <=> Seen(v, r) = "failed"
    OBVIOUS
  <2> HIDE DEF b, R, S, F
  <2>7. R = S \cup F BY <2>3, <2>4, FullCount
  <2>8. Cardinality(F) = 0 <=> F = {}
    <3>1. F \in SUBSET RowsOf(b) BY <2>4
    <3> QED BY <3>1, FiniteRows, FS_EmptySet
  <2>9. F = {} <=> \A r \in R : Seen(v, r) # "failed" BY <2>4, <2>6
  <2> QED BY <2>2, <2>3, <2>5, <2>7, <2>8, <2>9
<1>3. CASE step[v] = "writing" /\ UNCHANGED <<work[v], wrote[v], scan[v], tally[v]>>
  <2> DEFINE b == work[v][1]
  <2>1. /\ \A r \in ExistingRows(b) : Seen(v, r) \in Terminal
        /\ tally[v].failed = 0 <=> \A r \in ExistingRows(b) : Seen(v, r) # "failed"
    BY <1>3 DEF TallyInv
  <2>2. work[v] \in Rows /\ status[work[v]] # "absent"
    BY <1>3 DEF WorkInv, AtWork, Steps, Terminal
  <2>3. b \in Batches /\ bstatus[b] # "absent" BY <2>2, RowFacts DEF AbsentInv
  <2>4. \A r \in RowsOf(b) : r \in Rows /\ r[1] = b BY <2>3, RowFacts
  <2>5. ExistingRows(work[v][1])' = ExistingRows(b)
    BY <1>3, <2>3, <2>4, SettledRows DEF ExistingRows, RowsOf
  <2>6. \A r \in ExistingRows(b) : Seen(v, r)' = Seen(v, r)
    <3> SUFFICES ASSUME NEW r \in ExistingRows(b) PROVE Seen(v, r)' = Seen(v, r)
      OBVIOUS
    <3>1. r \in Rows BY <2>4 DEF ExistingRows
    <3>2. CASE wrote[v] /\ r = work[v] BY <1>3, <3>2 DEF Seen, RowOutcome
    <3>3. CASE ~(wrote[v] /\ r = work[v])
      <4>1. Seen(v, r) = status[r] BY <3>3 DEF Seen
      <4>2. status'[r] = status[r] BY <2>1, <3>1, <4>1, SettledRows
      <4> QED BY <1>3, <3>3, <4>1, <4>2 DEF Seen
    <3> QED BY <3>2, <3>3
  <2>7. tally'[v] = tally[v] /\ work'[v][1] = b BY <1>3
  <2> HIDE DEF b
  <2> QED BY <2>1, <2>5, <2>6, <2>7
<1> QED BY <1>2, <1>3, OpenTransaction
-----------------------------------------------------------------------------
(* A batch's status changes only when it is created, when its first row is *)
(* claimed, and when a count closes it.                                    *)
LEMMA VerdictSteps ==
    ASSUME TypeOK, WorkInv, AbsentInv, [Next]_vars, NEW b \in Batches
    PROVE  \/ bstatus'[b] = bstatus[b]
           \/ bstatus[b] = "absent" /\ bstatus'[b] = "pending" /\ CreateBatch(b)
           \/ bstatus[b] = "pending" /\ bstatus'[b] = "running"
           \/ \E w \in Workers :
                  /\ CommitFinish(w)
                  /\ work[w] \in Rows /\ work[w][1] = b
                  /\ tally[w].completed + tally[w].failed = tally[w].total
                  /\ bstatus'[b] = IF tally[w].failed = 0 THEN "succeeded" ELSE "partial"
<1> DEFINE Same == bstatus'[b] = bstatus[b]
<1> USE DEF TypeOK, rowVars, batchVars, localVars, txVars
<1>1. ASSUME NEW c \in Batches, CreateBatch(c)
      PROVE  Same \/ (bstatus[b] = "absent" /\ bstatus'[b] = "pending" /\ c = b)
  BY <1>1 DEF CreateBatch
<1>2. ASSUME NEW w \in Workers, Claim(w)
      PROVE  Same \/ (bstatus[b] = "pending" /\ bstatus'[b] = "running")
  <2>1. PICK r \in Rows :
           bstatus' = [bstatus EXCEPT ![r[1]] = IF @ = "pending" THEN "running" ELSE @]
    BY <1>2 DEF Claim
  <2> QED BY <2>1, RowFacts
<1>3. ASSUME NEW w \in Workers, CommitFinish(w)
      PROVE  \/ Same
             \/ /\ CommitFinish(w)
                /\ work[w] \in Rows /\ work[w][1] = b
                /\ tally[w].completed + tally[w].failed = tally[w].total
                /\ bstatus'[b] = IF tally[w].failed = 0 THEN "succeeded" ELSE "partial"
  <2>1. work[w] \in Rows BY <1>3 DEF CommitFinish, WorkInv, AtWork, Steps
  <2>2. bstatus' = [bstatus EXCEPT ![work[w][1]] = Verdict(tally[w], @)]
    BY <1>3 DEF CommitFinish
  <2>3. CASE work[w][1] # b BY <2>2, <2>3
  <2>4. CASE work[w][1] = b
    <3>1. bstatus'[b] = Verdict(tally[w], bstatus[b]) BY <2>2, <2>4
    <3> QED BY <1>3, <2>1, <2>4, <3>1 DEF Verdict
  <2> QED BY <2>3, <2>4
<1>4. ASSUME NEW w \in Workers,
             BuildClient(w) \/ InsertScan(w) \/ StartScan(w) \/ EndScan(w)
             \/ FinishRow(w) \/ CountRows(w) \/ Restart(w) \/ Lose(w)
      PROVE  Same
  BY <1>4 DEF BuildClient, InsertScan, StartScan, EndScan, FinishRow, CountRows, Restart, Lose
<1>5. SetKey \/ Tick \/ UNCHANGED vars => Same BY DEF SetKey, Tick, vars
<1> QED
  BY <1>1, <1>2, <1>3, <1>4, <1>5 DEF Next, WorkerStep, MissingKey, Crash

(* What a commit whose count closes the batch leaves in the rows.          *)
LEMMA ClosingCommit ==
    ASSUME TypeOK, WorkInv, LockInv, AbsentInv, TallyInv, [Next]_vars,
           NEW w \in Workers, CommitFinish(w), work[w] \in Rows,
           tally[w].completed + tally[w].failed = tally[w].total
    PROVE  /\ \A r \in ExistingRows(work[w][1]) : status'[r] \in Terminal
           /\ tally[w].failed = 0 <=> \A r \in ExistingRows(work[w][1]) : status'[r] # "failed"
<1>1. /\ \A r \in ExistingRows(work[w][1]) : Seen(w, r) \in Terminal
      /\ tally[w].failed = 0 <=> \A r \in ExistingRows(work[w][1]) : Seen(w, r) # "failed"
  BY DEF TallyInv, CommitFinish
<1>2. \A r \in ExistingRows(work[w][1]) : status'[r] = Seen(w, r)
  <2> SUFFICES ASSUME NEW r \in ExistingRows(work[w][1]) PROVE status'[r] = Seen(w, r)
    OBVIOUS
  <2>1. r \in Rows BY RowFacts DEF ExistingRows
  <2>2. CASE wrote[w] /\ r = work[w]
    BY <2>1, <2>2 DEF CommitFinish, Seen, TypeOK
  <2>3. CASE ~(wrote[w] /\ r = work[w])
    BY <1>1, <2>1, <2>3, SettledRows DEF Seen
  <2> QED BY <2>2, <2>3
<1> QED BY <1>1, <1>2

(* No step gives a batch a verdict that its rows do not bear out.          *)
LEMMA VerdictStep ==
    IInv /\ [Next]_vars => VerdictSound'
<1> SUFFICES ASSUME IInv, [Next]_vars, NEW b \in Batches,
                    bstatus'[b] \in {"succeeded", "partial"}
             PROVE  /\ \A r \in ExistingRows(b)' : status'[r] \in Terminal
                    /\ bstatus'[b] = "succeeded" =>
                          \A r \in ExistingRows(b)' : status'[r] # "failed"
                    /\ bstatus'[b] = "partial" =>
                          \E r \in ExistingRows(b)' : status'[r] = "failed"
  BY DEF VerdictSound
<1> USE DEF IInv
<1>1. \A r \in RowsOf(b) : r \in Rows /\ r[1] = b BY RowFacts
<1>2. bstatus[b] # "absent" => ExistingRows(b)' = ExistingRows(b)
  BY <1>1, SettledRows DEF ExistingRows, RowsOf
<1>3. CASE bstatus'[b] = bstatus[b]
  <2>1. \A r \in ExistingRows(b) : status'[r] = status[r]
    BY <1>1, <1>3, SettledRows DEF VerdictSound, ExistingRows
  <2>2. ExistingRows(b)' = ExistingRows(b) BY <1>2, <1>3
  <2> QED BY <1>3, <2>1, <2>2 DEF VerdictSound
<1>4. ASSUME NEW w \in Workers, CommitFinish(w), work[w] \in Rows, work[w][1] = b,
             tally[w].completed + tally[w].failed = tally[w].total,
             bstatus'[b] = IF tally[w].failed = 0 THEN "succeeded" ELSE "partial"
      PROVE  /\ \A r \in ExistingRows(b)' : status'[r] \in Terminal
             /\ bstatus'[b] = "succeeded" => \A r \in ExistingRows(b)' : status'[r] # "failed"
             /\ bstatus'[b] = "partial" => \E r \in ExistingRows(b)' : status'[r] = "failed"
  <2>1. /\ \A r \in ExistingRows(b) : status'[r] \in Terminal
        /\ tally[w].failed = 0 <=> \A r \in ExistingRows(b) : status'[r] # "failed"
    BY <1>4, ClosingCommit
  <2>2. status[work[w]] # "absent" BY <1>4 DEF CommitFinish, WorkInv, AtWork, Steps, Terminal
  <2>3. ExistingRows(b)' = ExistingRows(b) BY <1>2, <1>4, <2>2 DEF AbsentInv
  <2> QED BY <1>4, <2>1, <2>3
<1> QED BY <1>3, <1>4, VerdictSteps

-----------------------------------------------------------------------------
(* The inductive invariant holds before the first batch is created.        *)
LEMMA IInvInit == Init => IInv
<1> SUFFICES ASSUME Init PROVE IInv OBVIOUS
<1>1. TypeOK BY TypeInit
<1>2. WorkInv /\ LockInv /\ AbsentInv /\ OwnerInv /\ ExclusiveWhileFresh /\ TallyInv
  BY RowFacts DEF Init, WorkInv, LockInv, AbsentInv, OwnerInv, ExclusiveWhileFresh, TallyInv,
              Fresh, AtWork
<1>3. VerdictSound BY DEF Init, VerdictSound
<1> QED BY <1>1, <1>2, <1>3 DEF IInv

(* Every step keeps the inductive invariant.                               *)
LEMMA IInvStep == IInv /\ [Next]_vars => IInv'
<1> SUFFICES ASSUME IInv, [Next]_vars PROVE IInv' OBVIOUS
<1>1. TypeOK' BY TypeStep DEF IInv
<1>2. WorkInv' /\ LockInv' /\ AbsentInv' BY WorkStep DEF IInv
<1>3. OwnerInv' /\ ExclusiveWhileFresh' BY OwnerStep DEF IInv
<1>4. TallyInv' BY <1>1, <1>2, TallyStep DEF IInv
<1>5. VerdictSound' BY VerdictStep
<1> QED BY <1>1, <1>2, <1>3, <1>4, <1>5 DEF IInv

(* The inductive invariant holds in every reachable state.                 *)
LEMMA Invariance == Spec => []IInv
BY IInvInit, IInvStep, PTL DEF Spec

(* claim_statement: two workers share a row only when one has held it past *)
(* the stale limit, whatever the others claim, finish or crash.            *)
THEOREM ClaimsAreExclusive == Spec => []ExclusiveWhileFresh
<1>1. IInv => ExclusiveWhileFresh BY DEF IInv
<1> QED BY <1>1, Invariance, PTL

(* finish_work: a batch is closed only with every row settled and with the *)
(* verdict its rows give, for any number of workers sharing the queue.     *)
THEOREM VerdictsAreSound == Spec => []VerdictSound
<1>1. IInv => VerdictSound BY DEF IInv
<1> QED BY <1>1, Invariance, PTL
-----------------------------------------------------------------------------
(* A worker that has ended its scan carries an outcome of that scan, and   *)
(* finish_work settles its row with nothing else.                          *)
LEMMA ScanStep ==
    ASSUME TypeOK, WorkInv, ScanInv, OutcomeFromScan, [Next]_vars
    PROVE  ScanInv' /\ OutcomeFromScan'
<1> DEFINE G == ScanInv' /\ OutcomeFromScan'
<1> USE DEF TypeOK, rowVars, batchVars, localVars, txVars
<1>0. \A w \in Workers : step[w] \in {"scanned", "counting", "writing"} => work[w] \in Rows
  BY DEF WorkInv, AtWork, Steps
<1>1. ASSUME NEW b \in Batches, CreateBatch(b) PROVE G
  <2>1. PICK new : status' = [r \in Rows |-> IF r \in new THEN "queued" ELSE status[r]]
    BY <1>1 DEF CreateBatch
  <2>2. UNCHANGED <<step, work, scan, scanned>> BY <1>1 DEF CreateBatch
  <2> QED BY <2>1, <2>2 DEF ScanInv, OutcomeFromScan, Terminal
<1>2. ASSUME NEW w \in Workers, Claim(w) PROVE G
  <2>1. PICK r \in Rows : /\ status' = [status EXCEPT ![r] = "running"]
                          /\ work' = [work EXCEPT ![w] = r]
    BY <1>2 DEF Claim
  <2>2. step' = [step EXCEPT ![w] = "claimed"] /\ UNCHANGED <<scan, scanned>> BY <1>2 DEF Claim
  <2> QED BY <2>1, <2>2 DEF ScanInv, OutcomeFromScan, Terminal
<1>3. ASSUME NEW w \in Workers, Lose(w) PROVE G
  BY <1>3 DEF Lose, ScanInv, OutcomeFromScan
<1>4. ASSUME NEW w \in Workers, BuildClient(w) \/ InsertScan(w) \/ StartScan(w) \/ Restart(w)
      PROVE  G
  BY <1>4 DEF BuildClient, InsertScan, StartScan, Restart, ScanInv, OutcomeFromScan
<1>5. ASSUME NEW w \in Workers, EndScan(w) PROVE G
  <2>1. PICK outcome \in Terminal :
           /\ scan' = [scan EXCEPT ![w] = outcome]
           /\ scanned' = [scanned EXCEPT ![work[w]] = @ \cup {outcome}]
    BY <1>5 DEF EndScan
  <2>2. /\ step[w] = "scanning" /\ step' = [step EXCEPT ![w] = "scanned"]
        /\ UNCHANGED <<status, work>>
    BY <1>5 DEF EndScan
  <2>3. work[w] \in Rows BY <2>2 DEF WorkInv, AtWork, Steps
  <2>4. outcome \in scanned'[work[w]] /\ \A r \in Rows : scanned[r] \subseteq scanned'[r]
    BY <2>1, <2>3
  <2>5. OutcomeFromScan' BY <2>2, <2>4 DEF OutcomeFromScan
  <2>6. ScanInv'
    <3> SUFFICES ASSUME NEW v \in Workers, step'[v] \in {"scanned", "counting", "writing"}
                 PROVE  scan'[v] \in scanned'[work'[v]]
      BY DEF ScanInv
    <3>1. CASE v = w BY <2>1, <2>2, <2>4, <3>1
    <3>2. CASE v # w
      <4>1. step[v] \in {"scanned", "counting", "writing"} /\ scan'[v] = scan[v]
        BY <2>1, <2>2, <3>2
      <4> QED BY <1>0, <2>2, <2>4, <4>1 DEF ScanInv
    <3> QED BY <3>1, <3>2
  <2> QED BY <2>5, <2>6
<1>6. ASSUME NEW w \in Workers, FinishRow(w) \/ CountRows(w) PROVE G
  BY <1>6 DEF FinishRow, CountRows, ScanInv, OutcomeFromScan
<1>7. ASSUME NEW w \in Workers, CommitFinish(w) PROVE G
  <2>1. step[w] = "writing" /\ work[w] \in Rows /\ scan[w] \in scanned[work[w]]
    BY <1>0, <1>7 DEF CommitFinish, ScanInv
  <2>2. RowOutcome(w) = scan[w] BY <2>1 DEF RowOutcome, Terminal
  <2>3. UNCHANGED scanned /\ step' = [step EXCEPT ![w] = "idle"]
        /\ \A v \in Workers : v # w => work'[v] = work[v] /\ scan'[v] = scan[v]
    BY <1>7 DEF CommitFinish
  <2>4. \A r \in Rows : status'[r] = status[r] \/ (r = work[w] /\ status'[r] = scan[w])
    <3>1. CASE wrote[w] BY <1>7, <2>1, <2>2, <3>1 DEF CommitFinish
    <3>2. CASE ~wrote[w] BY <1>7, <3>2 DEF CommitFinish
    <3> QED BY <3>1, <3>2
  <2>5. OutcomeFromScan' BY <2>1, <2>3, <2>4 DEF OutcomeFromScan
  <2>6. ScanInv' BY <2>3 DEF ScanInv
  <2> QED BY <2>5, <2>6
<1>8. ASSUME SetKey \/ Tick \/ UNCHANGED vars PROVE G
  BY <1>8 DEF SetKey, Tick, vars, ScanInv, OutcomeFromScan
<1> QED
  BY <1>1, <1>2, <1>3, <1>4, <1>5, <1>6, <1>7, <1>8 DEF Next, WorkerStep, MissingKey, Crash

(* Whoever is matched, a batch gets at most one row for each.              *)
LEMMA CreatedRows ==
    ASSUME TypeOK, AbsentInv, NEW b \in Batches, CreateBatch(b)
    PROVE  Cardinality(ExistingRows(b)') <= total'[b]
<1>1. PICK matched \in (SUBSET Users) \ {{}} :
         /\ status' = [r \in Rows |-> IF r \in {<<b, SubjectOf[u]>> : u \in matched}
                                      THEN "queued" ELSE status[r]]
         /\ total' = [total EXCEPT ![b] = Cardinality(matched)]
  BY DEF CreateBatch
<1> DEFINE new == {<<b, SubjectOf[u]>> : u \in matched}
           f == [u \in matched |-> <<b, SubjectOf[u]>>]
<1>2. \A r \in RowsOf(b) : status[r] = "absent" /\ r \in Rows
  BY RowFacts DEF AbsentInv, CreateBatch
<1>3. ExistingRows(b)' \subseteq new
  BY <1>1, <1>2 DEF ExistingRows, RowsOf
<1>4. IsFiniteSet(matched) BY UsersAssumption, FS_Subset
<1>5. f \in Surjection(matched, new) BY DEF Surjection
<1>6. IsFiniteSet(new) /\ Cardinality(new) <= Cardinality(matched)
  <2> HIDE DEF f, new
  <2> QED BY <1>4, <1>5, FS_Surjection
<1>7. /\ Cardinality(ExistingRows(b)') <= Cardinality(new)
      /\ Cardinality(ExistingRows(b)') \in Nat /\ Cardinality(new) \in Nat
      /\ Cardinality(matched) \in Nat
  <2> HIDE DEF new
  <2> QED BY <1>3, <1>4, <1>6, FS_Subset, FS_CardinalityType
<1>8. total'[b] = Cardinality(matched) BY <1>1 DEF TypeOK
<1> HIDE DEF new
<1> QED BY <1>6, <1>7, <1>8

(* The rows of a batch stay the rows create_batch gave it.                 *)
LEMMA TotalStep ==
    ASSUME TypeOK, WorkInv, LockInv, AbsentInv, TotalInv, [Next]_vars
    PROVE  TotalInv'
<1> SUFFICES ASSUME NEW b \in Batches PROVE Cardinality(ExistingRows(b)') <= total'[b]
  BY DEF TotalInv
<1> USE DEF TypeOK, rowVars, batchVars, localVars, txVars
<1>1. CASE CreateBatch(b) BY <1>1, CreatedRows
<1>2. ASSUME total'[b] = total[b], bstatus[b] # "absent" \/ UNCHANGED status
      PROVE  Cardinality(ExistingRows(b)') <= total'[b]
  <2>1. \A r \in RowsOf(b) : r \in Rows /\ r[1] = b BY RowFacts
  <2>2. ExistingRows(b)' = ExistingRows(b)
    BY <1>2, <2>1, SettledRows DEF ExistingRows, RowsOf
  <2> QED BY <1>2, <2>2 DEF TotalInv
<1>3. ASSUME NEW c \in Batches, c # b, CreateBatch(c)
      PROVE  Cardinality(ExistingRows(b)') <= total'[b]
  <2>1. total'[b] = total[b] BY <1>3 DEF CreateBatch
  <2>2. \A r \in RowsOf(b) : status'[r] = status[r]
    BY SMTT(30), <1>3, CreateFacts, RowFacts
  <2>3. ExistingRows(b)' = ExistingRows(b) BY <2>2 DEF ExistingRows, RowsOf
  <2> QED BY <2>1, <2>3 DEF TotalInv
<1>4. ASSUME NEW w \in Workers, Claim(w) PROVE Cardinality(ExistingRows(b)') <= total'[b]
  <2>1. PICK r \in Rows : Claimable(r) /\ status' = [status EXCEPT ![r] = "running"]
    BY <1>4 DEF Claim
  <2>2. \A s \in Rows : status'[s] # "absent" <=> status[s] # "absent"
    BY <2>1 DEF Claimable
  <2>3. ExistingRows(b)' = ExistingRows(b) BY <2>2, RowFacts DEF ExistingRows, RowsOf
  <2>4. UNCHANGED total BY <1>4 DEF Claim
  <2> QED BY <2>3, <2>4 DEF TotalInv
<1>5. ASSUME NEW w \in Workers, CommitFinish(w) PROVE Cardinality(ExistingRows(b)') <= total'[b]
  <2>1. RowOutcome(w) # "absent" BY DEF RowOutcome
  <2>2. wrote[w] => status[work[w]] # "absent" BY DEF WorkInv
  <2>3. \A s \in Rows : status'[s] # "absent" <=> status[s] # "absent"
    BY <1>5, <2>1, <2>2 DEF CommitFinish
  <2>4. ExistingRows(b)' = ExistingRows(b) BY <2>3, RowFacts DEF ExistingRows, RowsOf
  <2>5. UNCHANGED total BY <1>5 DEF CommitFinish
  <2> QED BY <2>4, <2>5 DEF TotalInv
<1>6. ASSUME NEW w \in Workers,
             BuildClient(w) \/ InsertScan(w) \/ StartScan(w) \/ EndScan(w)
             \/ FinishRow(w) \/ CountRows(w) \/ Restart(w) \/ Lose(w)
      PROVE  UNCHANGED <<status, total>>
  BY <1>6 DEF BuildClient, InsertScan, StartScan, EndScan, FinishRow, CountRows, Restart, Lose
<1>7. SetKey \/ Tick \/ UNCHANGED vars => UNCHANGED <<status, total>> BY DEF SetKey, Tick, vars
<1> QED
  BY <1>1, <1>2, <1>3, <1>4, <1>5, <1>6, <1>7 DEF Next, WorkerStep, MissingKey, Crash
-----------------------------------------------------------------------------
(* Until it is written, a count is not ahead of what its transaction sees: *)
(* other workers only settle more rows.                                    *)
LEMMA CountStep ==
    ASSUME TypeOK, WorkInv, LockInv, AbsentInv, CountInv, [Next]_vars
    PROVE  CountInv'
<1> SUFFICES ASSUME NEW v \in Workers, step'[v] = "writing"
             PROVE  /\ tally'[v].completed <= Cardinality(SeenAs(v, "succeeded")')
                    /\ tally'[v].failed <= Cardinality(SeenAs(v, "failed")')
  BY DEF CountInv
<1>1. CASE CountRows(v)
  <2>1. UNCHANGED <<status, work, wrote, scan>> BY <1>1 DEF CountRows, rowVars
  <2>2. \A s : SeenAs(v, s)' = SeenAs(v, s)
    BY <2>1 DEF SeenAs, Seen, RowOutcome, RowsOf
  <2>3. work[v] \in Rows BY <1>1 DEF CountRows, WorkInv, AtWork, Steps
  <2>4. ASSUME NEW s \in Terminal
        PROVE  {r \in ExistingRows(work[v][1]) : Seen(v, r) = s} \subseteq SeenAs(v, s)
    BY DEF SeenAs, ExistingRows
  <2>5. ASSUME NEW s \in Terminal
        PROVE  Cardinality({r \in ExistingRows(work[v][1]) : Seen(v, r) = s}) <= Cardinality(SeenAs(v, s))
    <3>1. SeenAs(v, s) \in SUBSET RowsOf(work[v][1]) BY DEF SeenAs
    <3>2. IsFiniteSet(SeenAs(v, s)) BY <3>1, FiniteRows
    <3> QED BY <2>4, <3>2, FS_Subset
  <2>6. /\ tally'[v].completed = Cardinality({r \in ExistingRows(work[v][1]) : Seen(v, r) = "succeeded"})
        /\ tally'[v].failed = Cardinality({r \in ExistingRows(work[v][1]) : Seen(v, r) = "failed"})
    BY <1>1 DEF CountRows, TypeOK
  <2> QED BY <2>2, <2>5, <2>6 DEF Terminal
<1>2. CASE step[v] = "writing" /\ UNCHANGED <<work[v], wrote[v], scan[v], tally[v]>>
  <2>1. work[v] \in Rows BY <1>2 DEF WorkInv, AtWork, Steps
  <2>2. ASSUME NEW s \in Terminal PROVE SeenAs(v, s) \subseteq SeenAs(v, s)'
    <3> SUFFICES ASSUME NEW r \in RowsOf(work[v][1]), Seen(v, r) = s PROVE Seen(v, r)' = s
      BY <1>2 DEF SeenAs, RowsOf
    <3>1. r \in Rows BY <2>1, RowFacts
    <3>2. CASE wrote[v] /\ r = work[v] BY <1>2, <3>2 DEF Seen, RowOutcome
    <3>3. CASE ~(wrote[v] /\ r = work[v]) BY <1>2, <3>1, <3>3, SettledRows DEF Seen
    <3> QED BY <3>2, <3>3
  <2>3. ASSUME NEW s \in Terminal
        PROVE  /\ Cardinality(SeenAs(v, s)) <= Cardinality(SeenAs(v, s)')
               /\ Cardinality(SeenAs(v, s)) \in Nat /\ Cardinality(SeenAs(v, s)') \in Nat
    <3>1. SeenAs(v, s) \in SUBSET RowsOf(work[v][1]) BY DEF SeenAs
    <3>2. SeenAs(v, s)' \in SUBSET RowsOf(work'[v][1]) BY DEF SeenAs, RowsOf
    <3> QED BY <2>2, <3>1, <3>2, FiniteRows, FS_Subset
  <2>4. /\ tally[v].completed <= Cardinality(SeenAs(v, "succeeded"))
        /\ tally[v].failed <= Cardinality(SeenAs(v, "failed"))
        /\ tally[v].completed \in Nat /\ tally[v].failed \in Nat
    BY <1>2 DEF CountInv, TypeOK
  <2> QED BY <1>2, <2>3, <2>4 DEF Terminal
<1> QED BY <1>1, <1>2, OpenTransaction

(* Only the commit of finish_work writes a batch's counters.               *)
LEMMA CounterSteps ==
    ASSUME TypeOK, WorkInv, [Next]_vars, NEW b \in Batches
    PROVE  \/ completed'[b] = completed[b] /\ failed'[b] = failed[b]
           \/ \E w \in Workers :
                  /\ CommitFinish(w)
                  /\ work[w] \in Rows /\ work[w][1] = b
                  /\ completed'[b] = tally[w].completed /\ failed'[b] = tally[w].failed
<1> USE DEF TypeOK, rowVars, batchVars, localVars, txVars
<1>1. ASSUME NEW w \in Workers, CommitFinish(w)
      PROVE  \/ completed'[b] = completed[b] /\ failed'[b] = failed[b]
             \/ /\ work[w] \in Rows /\ work[w][1] = b
                /\ completed'[b] = tally[w].completed /\ failed'[b] = tally[w].failed
  <2>1. work[w] \in Rows BY <1>1 DEF CommitFinish, WorkInv, AtWork, Steps
  <2> QED BY <1>1, <2>1 DEF CommitFinish
<1>2. ASSUME NEW w \in Workers,
             Claim(w) \/ BuildClient(w) \/ InsertScan(w) \/ StartScan(w) \/ EndScan(w)
             \/ FinishRow(w) \/ CountRows(w) \/ Restart(w) \/ Lose(w)
      PROVE  UNCHANGED <<completed, failed>>
  BY <1>2 DEF Claim, BuildClient, InsertScan, StartScan, EndScan, FinishRow, CountRows, Restart, Lose
<1>3. ASSUME NEW c \in Batches, CreateBatch(c) PROVE UNCHANGED <<completed, failed>>
  BY <1>3 DEF CreateBatch
<1>4. SetKey \/ Tick \/ UNCHANGED vars => UNCHANGED <<completed, failed>> BY DEF SetKey, Tick, vars
<1> QED BY <1>1, <1>2, <1>3, <1>4 DEF Next, WorkerStep, MissingKey, Crash

(* Counters that no transaction ran ahead with stay within the rows, and   *)
(* their sum within the accounts matched.                                  *)
LEMMA CountersWithinTotal ==
    ASSUME TypeOK, TotalInv, NEW b \in Batches,
           completed[b] <= Cardinality(RowsWith(b, "succeeded")),
           failed[b] <= Cardinality(RowsWith(b, "failed"))
    PROVE  completed[b] + failed[b] <= total[b]
<1> DEFINE S == RowsWith(b, "succeeded")
           F == RowsWith(b, "failed")
           R == ExistingRows(b)
<1>1. /\ S \in SUBSET RowsOf(b) /\ F \in SUBSET RowsOf(b) /\ R \in SUBSET RowsOf(b)
      /\ S \cap F = {} /\ S \cup F \subseteq R
  BY DEF RowsWith, ExistingRows
<1> HIDE DEF S, F, R
<1>2. /\ IsFiniteSet(S) /\ IsFiniteSet(F) /\ IsFiniteSet(R)
      /\ Cardinality(S) \in Nat /\ Cardinality(F) \in Nat /\ Cardinality(R) \in Nat
  BY <1>1, FiniteRows
<1>3. Cardinality(S \cup F) = Cardinality(S) + Cardinality(F)
  <2>1. Cardinality(S \cup F) = Cardinality(S) + Cardinality(F) - Cardinality(S \cap F)
    BY <1>2, FS_Union
  <2>2. Cardinality(S \cap F) = 0 BY <1>1, FS_EmptySet
  <2> QED BY <1>2, <2>1, <2>2
<1>4. Cardinality(S \cup F) <= Cardinality(R) BY <1>1, <1>2, FS_Subset
<1>5. Cardinality(R) <= total[b] BY DEF TotalInv, R
<1>6. completed[b] \in Nat /\ failed[b] \in Nat /\ total[b] \in Nat BY DEF TypeOK
<1>7. completed[b] <= Cardinality(S) /\ failed[b] <= Cardinality(F) BY DEF S, F
<1> QED BY <1>2, <1>3, <1>4, <1>5, <1>6, <1>7

(* No step lets a counter run ahead of its rows.                           *)
LEMMA CountersStep ==
    ASSUME TypeOK, TypeOK', WorkInv, LockInv, AbsentInv, CountInv, TotalInv',
           CountersNeverOverstate, [Next]_vars
    PROVE  CountersNeverOverstate'
<1> SUFFICES ASSUME NEW b \in Batches
             PROVE  /\ completed'[b] <= Cardinality(RowsWith(b, "succeeded")')
                    /\ failed'[b] <= Cardinality(RowsWith(b, "failed")')
                    /\ completed'[b] + failed'[b] <= total'[b]
  BY DEF CountersNeverOverstate
<1>1. \A r \in RowsOf(b) : r \in Rows BY RowFacts
<1>2. ASSUME NEW s
      PROVE  /\ IsFiniteSet(RowsWith(b, s)) /\ Cardinality(RowsWith(b, s)) \in Nat
             /\ IsFiniteSet(RowsWith(b, s)') /\ Cardinality(RowsWith(b, s)') \in Nat
  <2>1. RowsWith(b, s) \in SUBSET RowsOf(b) /\ RowsWith(b, s)' \in SUBSET RowsOf(b)
    BY DEF RowsWith, RowsOf
  <2> QED BY <2>1, FiniteRows
<1>3. /\ completed[b] \in Nat /\ failed[b] \in Nat /\ completed'[b] \in Nat /\ failed'[b] \in Nat
  BY DEF TypeOK
<1>4. /\ completed'[b] <= Cardinality(RowsWith(b, "succeeded")')
      /\ failed'[b] <= Cardinality(RowsWith(b, "failed")')
  <2>1. CASE completed'[b] = completed[b] /\ failed'[b] = failed[b]
    <3>1. ASSUME NEW s \in Terminal PROVE RowsWith(b, s) \subseteq RowsWith(b, s)'
      BY <1>1, SettledRows DEF RowsWith, RowsOf
    <3>2. ASSUME NEW s \in Terminal PROVE Cardinality(RowsWith(b, s)) <= Cardinality(RowsWith(b, s)')
      BY <1>2, <3>1, FS_Subset
    <3> QED BY <1>2, <1>3, <2>1, <3>2 DEF CountersNeverOverstate, Terminal
  <2>2. ASSUME NEW w \in Workers, CommitFinish(w), work[w] \in Rows, work[w][1] = b,
               completed'[b] = tally[w].completed, failed'[b] = tally[w].failed
        PROVE  /\ completed'[b] <= Cardinality(RowsWith(b, "succeeded")')
               /\ failed'[b] <= Cardinality(RowsWith(b, "failed")')
    <3>1. ASSUME NEW s \in Terminal PROVE SeenAs(w, s) \subseteq RowsWith(b, s)'
      <4> SUFFICES ASSUME NEW r \in RowsOf(b), Seen(w, r) = s PROVE status'[r] = s
        BY <2>2 DEF SeenAs, RowsWith, RowsOf
      <4>1. CASE wrote[w] /\ r = work[w]
        BY <1>1, <2>2, <4>1 DEF Seen, CommitFinish, TypeOK
      <4>2. CASE ~(wrote[w] /\ r = work[w]) BY <1>1, <4>2, SettledRows DEF Seen
      <4> QED BY <4>1, <4>2
    <3>2. ASSUME NEW s \in Terminal
          PROVE  /\ Cardinality(SeenAs(w, s)) <= Cardinality(RowsWith(b, s)')
                 /\ Cardinality(SeenAs(w, s)) \in Nat
      <4>1. SeenAs(w, s) \in SUBSET RowsOf(b) BY <2>2 DEF SeenAs
      <4> QED BY <1>2, <3>1, <4>1, FiniteRows, FS_Subset
    <3>3. /\ tally[w].completed <= Cardinality(SeenAs(w, "succeeded"))
          /\ tally[w].failed <= Cardinality(SeenAs(w, "failed"))
      BY <2>2 DEF CommitFinish, CountInv
    <3> QED BY <1>2, <1>3, <2>2, <3>2, <3>3 DEF Terminal
  <2> QED BY <2>1, <2>2, CounterSteps
<1>5. completed'[b] + failed'[b] <= total'[b]
  <2>1. /\ TypeOK /\ TotalInv /\ b \in Batches
        /\ completed[b] <= Cardinality(RowsWith(b, "succeeded"))
        /\ failed[b] <= Cardinality(RowsWith(b, "failed"))
        => completed[b] + failed[b] <= total[b]
    BY CountersWithinTotal
  <2>2. (/\ TypeOK /\ TotalInv /\ b \in Batches
         /\ completed[b] <= Cardinality(RowsWith(b, "succeeded"))
         /\ failed[b] <= Cardinality(RowsWith(b, "failed"))
         => completed[b] + failed[b] <= total[b])'
    BY CountersWithinTotal, PTL
  <2> QED BY <1>4, <2>2
<1> QED BY <1>4, <1>5

(* Every step keeps what the counters and the outcomes rest on.            *)
LEMMA ProgressStep ==
    ProgressInv /\ CountersNeverOverstate /\ OutcomeFromScan /\ [Next]_vars
        => (ProgressInv /\ CountersNeverOverstate /\ OutcomeFromScan)'
<1> SUFFICES ASSUME ProgressInv, CountersNeverOverstate, OutcomeFromScan, [Next]_vars
             PROVE  (ProgressInv /\ CountersNeverOverstate /\ OutcomeFromScan)'
  OBVIOUS
<1>1. IInv' BY IInvStep DEF ProgressInv
<1>2. ScanInv' /\ OutcomeFromScan' BY ScanStep DEF ProgressInv, IInv
<1>3. TotalInv' BY TotalStep DEF ProgressInv, IInv
<1>4. CountInv' BY CountStep DEF ProgressInv, IInv
<1>5. CountersNeverOverstate' BY <1>1, <1>3, CountersStep DEF ProgressInv, IInv
<1> QED BY <1>1, <1>2, <1>3, <1>4, <1>5 DEF ProgressInv

(* It holds before the first batch.                                        *)
LEMMA ProgressInit ==
    Init => ProgressInv /\ CountersNeverOverstate /\ OutcomeFromScan
<1> SUFFICES ASSUME Init PROVE ProgressInv /\ CountersNeverOverstate /\ OutcomeFromScan
  OBVIOUS
<1>1. IInv BY IInvInit
<1>2. \A b \in Batches : ExistingRows(b) = {} BY RowFacts DEF Init, ExistingRows
<1>3. \A b \in Batches : RowsWith(b, "succeeded") = {} /\ RowsWith(b, "failed") = {}
  BY RowFacts DEF Init, RowsWith
<1>4. \A b \in Batches : total[b] = 0 /\ completed[b] = 0 /\ failed[b] = 0 BY DEF Init
<1>5. Cardinality({}) = 0 BY FS_EmptySet
<1>6. ScanInv /\ CountInv /\ OutcomeFromScan
  BY DEF Init, ScanInv, CountInv, OutcomeFromScan, Terminal
<1>7. TotalInv BY <1>2, <1>4, <1>5 DEF TotalInv
<1>8. CountersNeverOverstate
  <2> SUFFICES ASSUME NEW b \in Batches
               PROVE  /\ completed[b] <= Cardinality(RowsWith(b, "succeeded"))
                      /\ failed[b] <= Cardinality(RowsWith(b, "failed"))
                      /\ completed[b] + failed[b] <= total[b]
    BY DEF CountersNeverOverstate
  <2> QED BY <1>3, <1>4, <1>5
<1> QED BY <1>1, <1>6, <1>7, <1>8 DEF ProgressInv

(* finish_work writes counts it read before other workers committed theirs;*)
(* still the progress page never shows more than has happened, nor more    *)
(* than the accounts that were matched.                                    *)
THEOREM CountersHold == Spec => []CountersNeverOverstate
BY ProgressInit, ProgressStep, PTL DEF Spec

(* finish_work settles a row, whoever holds its claim by then, only with   *)
(* the outcome of a scan that was run for that row.                        *)
THEOREM OutcomesHold == Spec => []OutcomeFromScan
BY ProgressInit, ProgressStep, PTL DEF Spec
-----------------------------------------------------------------------------
(* Refinement: outcomeBar and verdictBar are the ledger the tables encode. *)
outcomeBar ==
    [r \in Rows |-> IF status[r] \in {"queued", "running"} THEN "open" ELSE status[r]]
verdictBar ==
    [b \in Batches |-> IF bstatus[b] \in {"pending", "running"} THEN "open" ELSE bstatus[b]]

(* An empty database is an empty ledger.                                   *)
LEMMA LedgerInit == Init => Ledger!Init
BY DEF Init, Ledger!Init, Ledger!Rows, Rows

(* create_batch opens a ledger entry with its subjects.                    *)
LEMMA LedgerOpen ==
    ASSUME IInv, NEW b \in Batches, CreateBatch(b)
    PROVE  Ledger!Open(b)
<1>1. PICK matched \in (SUBSET Users) \ {{}} :
         status' = [r \in Rows |-> IF r \in {<<b, SubjectOf[u]>> : u \in matched}
                                   THEN "queued" ELSE status[r]]
  BY DEF CreateBatch
<1> DEFINE S == {SubjectOf[u] : u \in matched}
<1>2. S \in (SUBSET Subjects) \ {{}} BY <1>1
<1>3. \A r \in Rows : r \in {<<b, SubjectOf[u]>> : u \in matched} <=> r \in {b} \X S
  BY DEF Rows
<1>4. outcomeBar' = [r \in Rows |-> IF r \in {b} \X S THEN "open" ELSE outcomeBar[r]]
  BY <1>1, <1>3 DEF outcomeBar
<1>5. bstatus[b] = "absent" /\ bstatus' = [bstatus EXCEPT ![b] = "pending"] BY DEF CreateBatch
<1>6. verdictBar[b] = "absent" /\ verdictBar' = [verdictBar EXCEPT ![b] = "open"]
  BY <1>5 DEF verdictBar, IInv, TypeOK
<1> HIDE DEF S
<1> QED BY <1>2, <1>4, <1>6 DEF Ledger!Open, Ledger!Rows, Rows, outcomeBar, verdictBar

(* The commit of finish_work settles a row, gives the verdict, does both,  *)
(* or leaves the ledger as it is.                                          *)
LEMMA LedgerCommit ==
    ASSUME IInv, IInv', [Next]_vars, NEW w \in Workers, CommitFinish(w)
    PROVE  Ledger!Next \/ UNCHANGED <<outcomeBar, verdictBar>>
<1> DEFINE full == tally[w].completed + tally[w].failed = tally[w].total
<1> USE DEF IInv
<1>0. PICK q \in Rows, b \in Batches : q = work[w] /\ b = work[w][1]
  <2>1. work[w] \in Rows BY DEF CommitFinish, WorkInv, AtWork, Steps
  <2> QED BY <2>1, RowFacts
<1>1. q \in Rows /\ b \in Batches /\ status[q] # "absent" /\ bstatus[b] # "absent" /\ q \in ExistingRows(b)
  <2>1. q \in Rows /\ status[q] # "absent"
    BY <1>0 DEF CommitFinish, WorkInv, AtWork, Steps, Terminal
  <2> QED BY <1>0, <2>1, RowFacts DEF AbsentInv, ExistingRows
<1>2. bstatus' = [bstatus EXCEPT ![b] = Verdict(tally[w], @)] BY <1>0 DEF CommitFinish
<1>3. bstatus \in [Batches -> BatchStatus] BY DEF TypeOK
<1>4. \A r \in {b} \X Subjects : r \in Rows /\ (status[r] # "absent" => r \in ExistingRows(b))
  BY <1>1, RowFacts DEF ExistingRows, RowsOf
<1>5. \A r \in ExistingRows(b) : r \in {b} \X Subjects BY DEF ExistingRows, RowsOf
<1>6. \A r \in Rows : bstatus[r[1]] # "absent" /\ status[r] = "absent" => status'[r] = "absent"
  BY SettledRows
<1>7. ASSUME full
      PROVE  /\ Ledger!AllSettled(b, outcomeBar')
             /\ verdictBar' = [verdictBar EXCEPT ![b] = Ledger!RightVerdict(b, outcomeBar')]
             /\ bstatus[b] \in {"succeeded", "partial"} => UNCHANGED verdictBar
  <2>1. /\ \A r \in ExistingRows(b) : status'[r] \in Terminal
        /\ tally[w].failed = 0 <=> \A r \in ExistingRows(b) : status'[r] # "failed"
    BY <1>0, <1>1, <1>7, ClosingCommit
  <2>2. \A r \in {b} \X Subjects : outcomeBar'[r] = status'[r] /\ status'[r] \in {"absent"} \cup Terminal
    <3> SUFFICES ASSUME NEW r \in {b} \X Subjects
                 PROVE  outcomeBar'[r] = status'[r] /\ status'[r] \in {"absent"} \cup Terminal
      OBVIOUS
    <3>1. r \in Rows /\ r[1] = b BY <1>4
    <3>2. status'[r] \in {"absent"} \cup Terminal BY <1>1, <1>4, <1>6, <2>1, <3>1
    <3> QED BY <3>1, <3>2 DEF outcomeBar, Terminal
  <2>3. Ledger!AllSettled(b, outcomeBar') BY <2>2 DEF Ledger!AllSettled, Terminal
  <2>4. tally[w].failed = 0 <=> ~\E r \in {b} \X Subjects : outcomeBar'[r] = "failed"
    <3>1. \A r \in {b} \X Subjects : status'[r] = "failed" => r \in ExistingRows(b)
      BY <1>1, <1>4, <1>6
    <3> QED BY <1>5, <2>1, <2>2, <3>1
  <2>5. Ledger!RightVerdict(b, outcomeBar') = IF tally[w].failed = 0 THEN "succeeded" ELSE "partial"
    BY <2>4 DEF Ledger!RightVerdict
  <2>6. bstatus' = [bstatus EXCEPT ![b] = IF tally[w].failed = 0 THEN "succeeded" ELSE "partial"]
    BY <1>2, <1>7 DEF Verdict
  <2>7. verdictBar' = [verdictBar EXCEPT ![b] = Ledger!RightVerdict(b, outcomeBar')]
    BY <1>1, <1>3, <2>5, <2>6 DEF verdictBar
  <2>8. ASSUME bstatus[b] \in {"succeeded", "partial"} PROVE bstatus' = bstatus
    <3>1. \A r \in ExistingRows(b) : status'[r] = status[r]
      BY <1>1, <2>8, SettledRows, RowFacts DEF VerdictSound, ExistingRows
    <3>2. bstatus[b] = IF tally[w].failed = 0 THEN "succeeded" ELSE "partial"
      BY <1>1, <2>1, <2>8, <3>1 DEF VerdictSound
    <3> QED BY <1>3, <2>6, <3>2
  <2> QED BY <2>3, <2>7, <2>8 DEF verdictBar
<1>8. ASSUME ~full PROVE UNCHANGED verdictBar
  <2>1. bstatus' = bstatus BY <1>2, <1>3, <1>8 DEF Verdict
  <2> QED BY <2>1 DEF verdictBar
<1>9. CASE wrote[w]
  <2>1. status[q] = "running" BY <1>0, <1>9 DEF WorkInv
  <2>2. RowOutcome(w) \in Ledger!Outcomes BY DEF RowOutcome, Ledger!Outcomes
  <2>3. status' = [status EXCEPT ![q] = RowOutcome(w)] BY <1>0, <1>9 DEF CommitFinish
  <2>4. outcomeBar' = [outcomeBar EXCEPT ![q] = RowOutcome(w)]
    BY <1>1, <2>3 DEF outcomeBar, RowOutcome, TypeOK
  <2>5. bstatus[b] \in {"pending", "running"}
    BY <1>1, <1>3, <2>1 DEF VerdictSound, BatchStatus, Terminal
  <2>6. outcomeBar[q] = "open" /\ verdictBar[b] = "open" BY <1>1, <2>1, <2>5 DEF outcomeBar, verdictBar
  <2>7. Ledger!MayClose(q[1], outcomeBar')
    BY <1>0, <1>7, <1>8, <2>6 DEF Ledger!MayClose, verdictBar
  <2>8. Ledger!Settle(q)
    BY <2>2, <2>4, <2>6, <2>7 DEF Ledger!Settle, outcomeBar
  <2> QED BY <1>1, <2>8 DEF Ledger!Next, Ledger!Rows, Rows
<1>10. CASE ~wrote[w]
  <2>1. status' = status BY <1>10 DEF CommitFinish, rowVars
  <2>2. outcomeBar' = outcomeBar BY <2>1 DEF outcomeBar
  <2>3. CASE full /\ bstatus[b] \in {"pending", "running"}
    <3>1. verdictBar[b] = "open" BY <1>1, <2>3 DEF verdictBar
    <3>2. Ledger!Close(b)
      BY <1>7, <2>2, <2>3, <3>1 DEF Ledger!Close, outcomeBar, verdictBar
    <3> QED BY <1>1, <3>2 DEF Ledger!Next
  <2>4. CASE ~full BY <1>8, <2>2, <2>4
  <2>5. CASE full /\ bstatus[b] \in {"succeeded", "partial"} BY <1>7, <2>2, <2>5
  <2> QED BY <1>1, <1>3, <2>3, <2>4, <2>5 DEF BatchStatus
<1> QED BY <1>9, <1>10

(* Every step of the queue is a step of the ledger or a stutter.           *)
LEMMA LedgerStep ==
    ASSUME IInv, IInv', [Next]_vars
    PROVE  Ledger!Next \/ UNCHANGED <<outcomeBar, verdictBar>>
<1>1. ASSUME NEW b \in Batches, CreateBatch(b) PROVE Ledger!Next
  BY <1>1, LedgerOpen DEF Ledger!Next
<1>2. ASSUME NEW w \in Workers, Claim(w) PROVE UNCHANGED <<outcomeBar, verdictBar>>
  <2>1. PICK r \in Rows :
           /\ Claimable(r)
           /\ status' = [status EXCEPT ![r] = "running"]
           /\ bstatus' = [bstatus EXCEPT ![r[1]] = IF @ = "pending" THEN "running" ELSE @]
    BY <1>2 DEF Claim
  <2>2. status[r] \in {"queued", "running"} BY <2>1 DEF Claimable
  <2>3. outcomeBar' = outcomeBar BY <2>1, <2>2 DEF outcomeBar, IInv, TypeOK
  <2>4. verdictBar' = verdictBar BY <2>1 DEF verdictBar, IInv, TypeOK
  <2> QED BY <2>3, <2>4
<1>3. ASSUME UNCHANGED <<status, bstatus>> PROVE UNCHANGED <<outcomeBar, verdictBar>>
  BY <1>3 DEF outcomeBar, verdictBar
<1>4. ASSUME NEW w \in Workers,
             BuildClient(w) \/ InsertScan(w) \/ StartScan(w) \/ EndScan(w)
             \/ FinishRow(w) \/ CountRows(w) \/ Restart(w) \/ Lose(w)
      PROVE  UNCHANGED <<status, bstatus>>
  BY <1>4 DEF BuildClient, InsertScan, StartScan, EndScan, FinishRow, CountRows, Restart, Lose,
              rowVars, batchVars
<1>5. SetKey \/ Tick \/ UNCHANGED vars => UNCHANGED <<status, bstatus>>
  BY DEF SetKey, Tick, vars, rowVars, batchVars
<1> QED
  BY <1>1, <1>2, <1>3, <1>4, <1>5, LedgerCommit DEF Next, WorkerStep, MissingKey, Crash

(* The queue and its workers implement the ledger: an outcome is recorded  *)
(* once, a verdict is given once, after the last outcome, and is right.    *)
THEOREM QueueImplementsLedger == Spec => ImplementsLedger
<1>1. Init => Ledger!Init BY LedgerInit
<1>2. IInv /\ IInv' /\ [Next]_vars => [Ledger!Next]_<<outcomeBar, verdictBar>>
  BY LedgerStep
<1>3. Spec => []IInv BY Invariance
<1> QED BY <1>1, <1>2, <1>3, PTL DEF Spec, ImplementsLedger, Ledger!Spec, outcomeBar, verdictBar
=============================================================================
