----------------------------- MODULE BatchQueue -----------------------------
(***************************************************************************)
(* The durable batch queue (src/app/batches.py) and the worker loop that   *)
(* drains it (src/app/worker.py, src/app/scan_runtime.py).                 *)
(*                                                                         *)
(* Any number of worker processes share two PostgreSQL tables, scan_queue  *)
(* and scan_batches, at READ COMMITTED.  A transaction that takes one      *)
(* decision from one consistent state is one action.  finish_work is not   *)
(* such a transaction: it writes the queue row, counts the rows it can     *)
(* see, and writes the batch from the count, and other workers commit in   *)
(* between.  Its statements are three actions; what the first has written  *)
(* stays invisible to the others, and its row stays locked, until the      *)
(* third commits.                                                          *)
(*                                                                         *)
(* Time is what the code compares, now - locked_at, kept per row as an age *)
(* in ticks that saturates just above the stale limit.                     *)
(***************************************************************************)
EXTENDS Integers, FiniteSets

CONSTANTS
    Batches,     \* batches that may be created; their order is created_at's
    Users,       \* directory accounts a batch may target
    Subjects,    \* scanned identities; their order within a batch is row id's
    SubjectOf,   \* the subject a user's email folds to
    Workers,     \* worker processes
    NoWorker,    \* NULL in scan_queue.locked_by
    StaleAfter,  \* _STALE_AFTER in ticks
    MaxCrashes   \* bound on the crashes of worker processes

ASSUME BatchesAssumption == Batches \subseteq Nat /\ IsFiniteSet(Batches)
ASSUME UsersAssumption == IsFiniteSet(Users)
ASSUME SubjectsAssumption == Subjects \subseteq Nat /\ IsFiniteSet(Subjects)
ASSUME SubjectOfAssumption == SubjectOf \in [Users -> Subjects]
ASSUME WorkersAssumption == NoWorker \notin Workers
ASSUME StaleAfterAssumption == StaleAfter \in Nat
ASSUME MaxCrashesAssumption == MaxCrashes \in Nat

(* A queue row is identified by its unique pair (batch_id, subject_id).    *)
Rows == Batches \X Subjects

NoRow == <<>>

Terminal == {"succeeded", "failed"}
RowStatus == {"absent", "queued", "running"} \cup Terminal
BatchStatus == {"absent", "pending", "running", "succeeded", "partial"}
ScanStatus == {"none", "pending", "running"} \cup Terminal
Ages == 0 .. StaleAfter + 1

(* Where a worker stands in the loop body of run().                        *)
Steps == {"idle", "claimed", "ready", "inserted", "scanning", "scanned",
          "counting", "writing", "down"}

VARIABLES
    status,     \* scan_queue.status of every row
    lockedBy,   \* scan_queue.locked_by
    age,        \* now - scan_queue.locked_at
    bstatus,    \* scan_batches.status
    total,      \* scan_batches.total_count
    completed,  \* scan_batches.completed_count
    failed,     \* scan_batches.failed_count
    step,       \* each worker's place in the loop
    work,       \* each worker's ClaimedWork
    client,     \* has the worker built its LeakCheck client?
    scan,       \* status of the scans row the worker inserted for its work
    wrote,      \* did the open finish_work transaction update its row?
    tally,      \* the counts that transaction has read
    keySet,     \* is the LeakCheck API key configured?
    crashes,    \* worker crashes so far
    held,       \* history: time since the worker claimed its work
    scanned     \* history: outcomes of the scans run for a row

rowVars == <<status, lockedBy, age>>
batchVars == <<bstatus, total, completed, failed>>
txVars == <<wrote, tally>>
localVars == <<step, work, client, scan, txVars, held>>
vars == <<rowVars, batchVars, localVars, keySet, crashes, scanned>>

-----------------------------------------------------------------------------
RowsOf(b) == {b} \X Subjects
ExistingRows(b) == {r \in RowsOf(b) : status[r] # "absent"}
NoTally == [completed |-> 0, failed |-> 0, total |-> 0]

Init ==
    /\ status = [r \in Rows |-> "absent"]
    /\ lockedBy = [r \in Rows |-> NoWorker]
    /\ age = [r \in Rows |-> 0]
    /\ bstatus = [b \in Batches |-> "absent"]
    /\ total = [b \in Batches |-> 0]
    /\ completed = [b \in Batches |-> 0]
    /\ failed = [b \in Batches |-> 0]
    /\ step = [w \in Workers |-> "idle"]
    /\ work = [w \in Workers |-> NoRow]
    /\ client = [w \in Workers |-> FALSE]
    /\ scan = [w \in Workers |-> "none"]
    /\ wrote = [w \in Workers |-> FALSE]
    /\ tally = [w \in Workers |-> NoTally]
    /\ keySet \in BOOLEAN
    /\ crashes = 0
    /\ held = [w \in Workers |-> 0]
    /\ scanned = [r \in Rows |-> {}]

-----------------------------------------------------------------------------
(* create_batch: the active users the target matches become the batch's    *)
(* total_count, and their subjects, deduplicated, its queue rows.  A       *)
(* target that matches nobody raises ValueError and changes nothing.       *)
CreateBatch(b) ==
    /\ bstatus[b] = "absent"
    /\ \E matched \in (SUBSET Users) \ {{}} :
        LET new == {<<b, SubjectOf[u]>> : u \in matched}
        IN  /\ status' = [r \in Rows |-> IF r \in new THEN "queued" ELSE status[r]]
            /\ total' = [total EXCEPT ![b] = Cardinality(matched)]
    /\ bstatus' = [bstatus EXCEPT ![b] = "pending"]
    /\ UNCHANGED <<lockedBy, age, completed, failed, localVars, keySet, crashes, scanned>>

(* The row lock of an open finish_work that has updated its row.           *)
Locked(r) == \E w \in Workers : wrote[w] /\ work[w] = r

(* Variants for mutation: a claim that forgets the stale limit, and one    *)
(* that never takes over a RUNNING row.                                    *)
ClaimableAnyAge(r) == status[r] \in {"queued", "running"} /\ ~Locked(r)
ClaimableQueuedOnly(r) == status[r] = "queued" /\ ~Locked(r)

(* claim_statement's WHERE clause, minus the rows SKIP LOCKED passes over. *)
Claimable(r) ==
    /\ \/ status[r] = "queued"
       \/ status[r] = "running" /\ age[r] > StaleAfter
    /\ ~Locked(r)

(* ORDER BY created_at, id.                                                *)
Before(r, s) == r[1] < s[1] \/ (r[1] = s[1] /\ r[2] < s[2])

(* claim_next: claim the first claimable row, start its batch, commit.     *)
Claim(w) ==
    /\ step[w] = "idle"
    /\ \E r \in Rows :
        /\ Claimable(r)
        /\ \A s \in Rows : Claimable(s) => ~Before(s, r)
        /\ status' = [status EXCEPT ![r] = "running"]
        /\ lockedBy' = [lockedBy EXCEPT ![r] = w]
        /\ age' = [age EXCEPT ![r] = 0]
        /\ bstatus' = [bstatus EXCEPT ![r[1]] = IF @ = "pending" THEN "running" ELSE @]
        /\ work' = [work EXCEPT ![w] = r]
    /\ step' = [step EXCEPT ![w] = "claimed"]
    /\ held' = [held EXCEPT ![w] = 0]
    /\ UNCHANGED <<total, completed, failed, client, scan, txVars, keySet, crashes, scanned>>

(* The worker's process state when it dies or run() raises: every open     *)
(* transaction is rolled back, so a row it has updated keeps its committed *)
(* status, and its claim stands until it is stale.                         *)
Lose(w) ==
    /\ step' = [step EXCEPT ![w] = "down"]
    /\ work' = [work EXCEPT ![w] = NoRow]
    /\ client' = [client EXCEPT ![w] = FALSE]
    /\ scan' = [scan EXCEPT ![w] = "none"]
    /\ wrote' = [wrote EXCEPT ![w] = FALSE]
    /\ tally' = [tally EXCEPT ![w] = NoTally]
    /\ held' = [held EXCEPT ![w] = 0]
    /\ UNCHANGED <<rowVars, batchVars, keySet, scanned>>

(* client_from_platform_values: built once per process, after the claim.   *)
BuildClient(w) ==
    /\ step[w] = "claimed"
    /\ client[w] \/ keySet
    /\ client' = [client EXCEPT ![w] = TRUE]
    /\ step' = [step EXCEPT ![w] = "ready"]
    /\ UNCHANGED <<rowVars, batchVars, work, scan, txVars, held, keySet, crashes, scanned>>

(* Without an API key the client's constructor raises and ends run().      *)
MissingKey(w) ==
    /\ step[w] = "claimed"
    /\ ~client[w]
    /\ ~keySet
    /\ Lose(w)
    /\ UNCHANGED crashes

(* Insert the Scan row, PENDING, and commit.                               *)
InsertScan(w) ==
    /\ step[w] = "ready"
    /\ step' = [step EXCEPT ![w] = "inserted"]
    /\ scan' = [scan EXCEPT ![w] = "pending"]
    /\ UNCHANGED <<rowVars, batchVars, work, client, txVars, held, keySet, crashes, scanned>>

(* execute_scan's first transaction.                                       *)
StartScan(w) ==
    /\ step[w] = "inserted"
    /\ step' = [step EXCEPT ![w] = "scanning"]
    /\ scan' = [scan EXCEPT ![w] = "running"]
    /\ UNCHANGED <<rowVars, batchVars, work, client, txVars, held, keySet, crashes, scanned>>

(* execute_scan's second: run_scan completes, or any exception it raises   *)
(* is recorded as a failed scan.                                           *)
EndScan(w) ==
    /\ step[w] = "scanning"
    /\ \E outcome \in Terminal :
        /\ scan' = [scan EXCEPT ![w] = outcome]
        /\ scanned' = [scanned EXCEPT ![work[w]] = @ \cup {outcome}]
    /\ step' = [step EXCEPT ![w] = "scanned"]
    /\ UNCHANGED <<rowVars, batchVars, work, client, txVars, held, keySet, crashes>>

-----------------------------------------------------------------------------
(* Variant for mutation: the UPDATE without its status = RUNNING guard.    *)
FinishRowUnguarded(w) ==
    /\ step[w] = "scanned"
    /\ ~Locked(work[w])
    /\ wrote' = [wrote EXCEPT ![w] = TRUE]
    /\ step' = [step EXCEPT ![w] = "counting"]
    /\ UNCHANGED <<rowVars, batchVars, work, client, scan, tally, held, keySet, crashes, scanned>>

(* finish_work's UPDATE of the queue row: it waits for a row lock, then    *)
(* writes the row if it is still RUNNING, whoever holds the claim.         *)
FinishRow(w) ==
    /\ step[w] = "scanned"
    /\ ~Locked(work[w])
    /\ wrote' = [wrote EXCEPT ![w] = status[work[w]] = "running"]
    /\ step' = [step EXCEPT ![w] = "counting"]
    /\ UNCHANGED <<rowVars, batchVars, work, client, scan, tally, held, keySet, crashes, scanned>>

(* Variant for mutation: every finished scan settles its row as SUCCEEDED. *)
RowOutcomeIgnoringScan(w) == "succeeded"

(* The status finish_work gives the row: SUCCEEDED for a scan that         *)
(* succeeded, FAILED for every other state of the scan.                    *)
RowOutcome(w) == IF scan[w] = "succeeded" THEN "succeeded" ELSE "failed"

(* Variants for mutation: counting before the row's update is flushed, and *)
(* counting a claimed row as done.                                         *)
SeenBeforeFlush(w, r) == status[r]
SeenClaimedAsDone(w, r) == IF status[r] = "running" THEN "succeeded" ELSE status[r]

(* A row's status as w's transaction reads it: its own write, or whatever  *)
(* is committed.                                                           *)
Seen(w, r) == IF wrote[w] /\ r = work[w] THEN RowOutcome(w) ELSE status[r]

(* finish_work's SELECT of the batch's counts.                             *)
CountRows(w) ==
    /\ step[w] = "counting"
    /\ LET rows == ExistingRows(work[w][1])
       IN  tally' = [tally EXCEPT ![w] =
               [completed |-> Cardinality({r \in rows : Seen(w, r) = "succeeded"}),
                failed    |-> Cardinality({r \in rows : Seen(w, r) = "failed"}),
                total     |-> Cardinality(rows)]]
    /\ step' = [step EXCEPT ![w] = "writing"]
    /\ UNCHANGED <<rowVars, batchVars, work, client, scan, wrote, held, keySet, crashes, scanned>>

(* Variant for mutation: one success makes a batch SUCCEEDED.              *)
VerdictAnySuccess(t, old) ==
    IF t.completed + t.failed = t.total
    THEN IF t.completed > 0 THEN "succeeded" ELSE "partial"
    ELSE old

(* The status finish_work gives the batch from the counts it has read.     *)
Verdict(t, old) ==
    IF t.completed + t.failed = t.total
    THEN IF t.failed = 0 THEN "succeeded" ELSE "partial"
    ELSE old

(* finish_work's UPDATE of the batch and its COMMIT, which publishes the   *)
(* row; the worker then starts its loop over.                              *)
CommitFinish(w) ==
    /\ step[w] = "writing"
    /\ IF wrote[w]
       THEN /\ status' = [status EXCEPT ![work[w]] = RowOutcome(w)]
            /\ lockedBy' = [lockedBy EXCEPT ![work[w]] = NoWorker]
            /\ age' = [age EXCEPT ![work[w]] = 0]
       ELSE UNCHANGED rowVars
    /\ completed' = [completed EXCEPT ![work[w][1]] = tally[w].completed]
    /\ failed' = [failed EXCEPT ![work[w][1]] = tally[w].failed]
    /\ bstatus' = [bstatus EXCEPT ![work[w][1]] = Verdict(tally[w], @)]
    /\ step' = [step EXCEPT ![w] = "idle"]
    /\ work' = [work EXCEPT ![w] = NoRow]
    /\ scan' = [scan EXCEPT ![w] = "none"]
    /\ wrote' = [wrote EXCEPT ![w] = FALSE]
    /\ tally' = [tally EXCEPT ![w] = NoTally]
    /\ held' = [held EXCEPT ![w] = 0]
    /\ UNCHANGED <<total, client, keySet, crashes, scanned>>

-----------------------------------------------------------------------------
(* The process dies, or a step of the loop raises, at any point.           *)
Crash(w) ==
    /\ step[w] # "down"
    /\ crashes < MaxCrashes
    /\ crashes' = crashes + 1
    /\ Lose(w)

(* _supervise_worker, or the container's restart policy.                   *)
Restart(w) ==
    /\ step[w] = "down"
    /\ step' = [step EXCEPT ![w] = "idle"]
    /\ UNCHANGED <<rowVars, batchVars, work, client, scan, txVars, held, keySet, crashes, scanned>>

(* A super-admin stores or clears the API key (update_settings).           *)
SetKey ==
    /\ keySet' = ~keySet
    /\ UNCHANGED <<rowVars, batchVars, localVars, crashes, scanned>>

Older(a) == IF a > StaleAfter THEN a ELSE a + 1

(* Time passes for every claimed row and for every worker that has one.    *)
Tick ==
    /\ age' = [r \in Rows |-> IF status[r] = "running" THEN Older(age[r]) ELSE age[r]]
    /\ held' = [w \in Workers |-> IF work[w] # NoRow THEN Older(held[w]) ELSE held[w]]
    /\ <<age, held>>' # <<age, held>>
    /\ UNCHANGED <<status, lockedBy, batchVars, step, work, client, scan, txVars,
                   keySet, crashes, scanned>>

WorkerStep(w) ==
    \/ Claim(w)
    \/ BuildClient(w)
    \/ MissingKey(w)
    \/ InsertScan(w)
    \/ StartScan(w)
    \/ EndScan(w)
    \/ FinishRow(w)
    \/ CountRows(w)
    \/ CommitFinish(w)

Next ==
    \/ \E b \in Batches : CreateBatch(b)
    \/ \E w \in Workers : WorkerStep(w) \/ Crash(w) \/ Restart(w)
    \/ SetKey
    \/ Tick

Spec == Init /\ [][Next]_vars

(* Processes run, are restarted, and time passes; nobody has to create a   *)
(* batch or configure a key.                                               *)
Fairness ==
    /\ \A w \in Workers : WF_vars(WorkerStep(w)) /\ WF_vars(Restart(w))
    /\ WF_vars(Tick)

FairSpec == Spec /\ Fairness
-----------------------------------------------------------------------------
(* Every column and every local of a worker has its type; no batch is ever *)
(* given the FAILED status BatchStatus declares.                           *)
TypeOK ==
    /\ status \in [Rows -> RowStatus]
    /\ lockedBy \in [Rows -> Workers \cup {NoWorker}]
    /\ age \in [Rows -> Ages]
    /\ bstatus \in [Batches -> BatchStatus]
    /\ total \in [Batches -> Nat]
    /\ completed \in [Batches -> Nat]
    /\ failed \in [Batches -> Nat]
    /\ step \in [Workers -> Steps]
    /\ work \in [Workers -> Rows \cup {NoRow}]
    /\ client \in [Workers -> BOOLEAN]
    /\ scan \in [Workers -> ScanStatus]
    /\ wrote \in [Workers -> BOOLEAN]
    /\ tally \in [Workers -> [completed : Nat, failed : Nat, total : Nat]]
    /\ keySet \in BOOLEAN
    /\ crashes \in 0 .. MaxCrashes
    /\ held \in [Workers -> Ages]
    /\ scanned \in [Rows -> SUBSET Terminal]

Fresh(w) == work[w] # NoRow /\ held[w] <= StaleAfter

(* "SKIP LOCKED prevents duplicate concurrent work" (claim_statement): two *)
(* workers are on the same row only if one of them has been on it for      *)
(* longer than _STALE_AFTER.                                               *)
ExclusiveWhileFresh ==
    \A v, w \in Workers : Fresh(v) /\ Fresh(w) /\ work[v] = work[w] => v = w

(* finish_work closes a batch only when every row of it is settled, and    *)
(* calls it SUCCEEDED exactly when no row failed: whatever other workers   *)
(* commit between its statements, crash, or finish late after their claim  *)
(* was taken over.                                                         *)
VerdictSound ==
    \A b \in Batches :
        /\ bstatus[b] \in {"succeeded", "partial"} =>
               \A r \in ExistingRows(b) : status[r] \in Terminal
        /\ bstatus[b] = "succeeded" => \A r \in ExistingRows(b) : status[r] # "failed"
        /\ bstatus[b] = "partial" => \E r \in ExistingRows(b) : status[r] = "failed"

RowsWith(b, s) == {r \in RowsOf(b) : status[r] = s}

(* The progress page's counters (finish_work's completed_count and         *)
(* failed_count) may lag behind the rows but never run ahead of them.      *)
CountersNeverOverstate ==
    \A b \in Batches :
        /\ completed[b] <= Cardinality(RowsWith(b, "succeeded"))
        /\ failed[b] <= Cardinality(RowsWith(b, "failed"))
        /\ completed[b] + failed[b] <= total[b]

(* A row is SUCCEEDED or FAILED only if a scan run for that very row ended *)
(* so, even when a worker that has lost its claim settles the row.         *)
OutcomeFromScan ==
    \A r \in Rows : status[r] \in Terminal => status[r] \in scanned[r]

(* "Drain durable work forever": once an API key is configured for good,   *)
(* every row of every batch is settled, through crashes and reclaims.      *)
EveryRowSettles ==
    <>[]keySet => \A r \in Rows : status[r] = "queued" ~> status[r] \in Terminal

(* "Drain durable work forever, safely sharing a queue with other worker   *)
(* processes": every batch is eventually closed.                           *)
EveryBatchFinishes ==
    <>[]keySet => \A b \in Batches :
        bstatus[b] = "pending" ~> bstatus[b] \in {"succeeded", "partial"}

(* Two workers are in finish_work for one batch at the same time.          *)
Shared ==
    \E v, w \in Workers :
        /\ v # w
        /\ {step[v], step[w]} \subseteq {"counting", "writing"}
        /\ work[v][1] = work[w][1]

(* Unless two workers finish rows of a batch at the same time, every batch *)
(* is closed (finish_work), through crashes, takeovers of stale claims and *)
(* accounts that fold to one subject.                                      *)
FinishesUnlessShared == []~Shared => EveryBatchFinishes

(* What a batch promises, whatever workers do: see BatchLedger.            *)
Ledger == INSTANCE BatchLedger WITH
    outcome <- [r \in Rows |-> IF status[r] \in {"queued", "running"} THEN "open" ELSE status[r]],
    verdict <- [b \in Batches |-> IF bstatus[b] \in {"pending", "running"} THEN "open"
                                  ELSE bstatus[b]]

(* The queue, its workers and their crashes implement the ledger: an       *)
(* outcome and a verdict, once given, are never changed.                   *)
ImplementsLedger == Ledger!Spec
-----------------------------------------------------------------------------
(* The inductive invariant behind the safety properties: what a worker     *)
(* holds, what its open transaction locks, who owns a row that is still    *)
(* fresh, and what a count that closes a batch has seen.                   *)
AtWork == Steps \ {"idle", "down"}

WorkInv ==
    \A w \in Workers :
        /\ step[w] \in AtWork =>
               work[w] \in Rows /\ status[work[w]] \in {"running"} \cup Terminal
        /\ step[w] \notin AtWork => work[w] = NoRow
        /\ wrote[w] => step[w] \in {"counting", "writing"} /\ status[work[w]] = "running"

LockInv ==
    \A v, w \in Workers : wrote[v] /\ wrote[w] /\ work[v] = work[w] => v = w

AbsentInv ==
    \A r \in Rows : bstatus[r[1]] = "absent" => status[r] = "absent"

OwnerInv ==
    \A w \in Workers : Fresh(w) =>
        \/ status[work[w]] \in Terminal
        \/ status[work[w]] = "running" /\ lockedBy[work[w]] = w /\ age[work[w]] = held[w]

TallyInv ==
    \A w \in Workers :
        step[w] = "writing" /\ tally[w].completed + tally[w].failed = tally[w].total =>
            /\ \A r \in ExistingRows(work[w][1]) : Seen(w, r) \in Terminal
            /\ tally[w].failed = 0 <=>
                   \A r \in ExistingRows(work[w][1]) : Seen(w, r) # "failed"

IInv ==
    /\ TypeOK
    /\ WorkInv
    /\ LockInv
    /\ AbsentInv
    /\ OwnerInv
    /\ ExclusiveWhileFresh
    /\ TallyInv
    /\ VerdictSound

(* What the counters and the outcomes rest on besides: a worker past its   *)
(* scan carries an outcome of that scan, a count that waits to be written  *)
(* is not ahead of what its transaction sees, and a batch has at most as   *)
(* many rows as accounts were matched.                                     *)
ScanInv ==
    \A w \in Workers :
        step[w] \in {"scanned", "counting", "writing"} => scan[w] \in scanned[work[w]]

SeenAs(w, s) == {r \in RowsOf(work[w][1]) : Seen(w, r) = s}

CountInv ==
    \A w \in Workers : step[w] = "writing" =>
        /\ tally[w].completed <= Cardinality(SeenAs(w, "succeeded"))
        /\ tally[w].failed <= Cardinality(SeenAs(w, "failed"))

TotalInv ==
    \A b \in Batches : Cardinality(ExistingRows(b)) <= total[b]

ProgressInv == IInv /\ ScanInv /\ CountInv /\ TotalInv
=============================================================================
