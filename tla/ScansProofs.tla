----------------------------- MODULE ScansProofs ----------------------------
(***************************************************************************)
(* Theorems about Scans and Alerts, for every number of scans, requests,   *)
(* dispatchers and sinks, every cooldown and limit of attempts, and any    *)
(* number of failures and restarts; and, at the end, about the client the  *)
(* scans share (LeakCheckClient), for every set of tasks, rate, concurrency*)
(* limit, number of retries and circuit.                                   *)
(***************************************************************************)
EXTENDS Scans, LeakCheckClient, TLAPS

USE CooldownAssumption, NoScanAssumption

-----------------------------------------------------------------------------
(* The inductive invariant of the scans holds initially.                   *)
LEMMA IInvInit == Init => IInv
<1> SUFFICES ASSUME Init PROVE IInv
  OBVIOUS
<1>1. TypeOK
  BY DEF Init, TypeOK, Triggers
<1>2. \A s \in ScanIds : ~Exists(s) /\ task[s] = "none"
  BY DEF Init, Exists
<1>3. TaskInv /\ SpacedInv
  BY <1>2 DEF TaskInv, SpacedInv, Active, SelfScans
<1>4. AdmitInv
  BY DEF Init, AdmitInv
<1> QED BY <1>1, <1>3, <1>4 DEF IInv

(* A row that exists is a row.                                             *)
LEMMA RowFacts ==
    ASSUME TypeOK, NEW s \in ScanIds, Exists(s)
    PROVE  /\ scan[s] \in Rows /\ scan[s].trigger \in Triggers /\ scan[s].age \in Nat
           /\ scan[s].status \in {"pending", "running", "succeeded", "failed"}
BY DEF TypeOK, Exists, Rows

(* A step that starts no scan: rows come no nearer to being under way, and *)
(* no age falls below the cooldown.                                        *)
Eased ==
    \A s \in ScanIds :
        /\ Exists(s)' <=> Exists(s)
        /\ Exists(s) => /\ scan'[s].trigger = scan[s].trigger
                        /\ Active(s)' => Active(s)
                        /\ scan'[s].status = "pending" => scan[s].status = "pending"
                        /\ scan[s].age >= Cooldown => scan'[s].age >= Cooldown

(* Such a step spoils neither what a request has seen nor the spacing.     *)
LEMMA EasedKeeps ==
    ASSUME Eased
    PROVE  /\ \A kind \in Triggers : MayScan(kind) => MayScan(kind)'
           /\ SpacedInv => SpacedInv'
<1>1. SelfScans' = SelfScans
  BY DEF Eased, SelfScans
<1>2. \A s \in ScanIds : Active(s)' => Active(s) /\ Exists(s)
  BY DEF Eased, Active
<1>3. \A s \in SelfScans : s \in ScanIds /\ Exists(s)
  BY DEF SelfScans
<1>4. ASSUME NEW kind \in Triggers, MayScan(kind) PROVE MayScan(kind)'
  <2>1. CASE kind = "manual"
    BY <1>2, <1>4, <2>1 DEF MayScan
  <2>2. CASE kind # "manual"
    BY <1>1, <1>2, <1>3, <1>4, <2>2 DEF MayScan, Eased
  <2> QED BY <2>1, <2>2
<1>5. ASSUME SpacedInv PROVE SpacedInv'
  <2>1. ASSUME NEW s \in ScanIds, NEW o \in ScanIds, Active(s)', Active(o)', scan'[s].trigger = scan'[o].trigger
        PROVE  s = o
    BY <1>2, <1>5, <2>1 DEF SpacedInv, Eased
  <2>2. ASSUME NEW s \in SelfScans', scan'[s].status = "pending", NEW o \in SelfScans' \ {s}
        PROVE  ~Active(o)' /\ scan'[o].age >= Cooldown
    BY <1>1, <1>2, <1>3, <1>5, <2>2 DEF SpacedInv, Eased
  <2> QED BY <2>1, <2>2 DEF SpacedInv
<1> QED BY <1>4, <1>5

(* Steps that leave the rows and the tasks alone.                          *)
LEMMA RowsUnchanged ==
    ASSUME UNCHANGED scan
    PROVE  Eased
BY DEF Eased, Exists, Active

(* A request ends: it no longer counts among those that have been admitted.*)
LEMMA DoneFacts ==
    ASSUME TypeOK, NEW r \in Requests, Done(r)
    PROVE  /\ stage' \in [Requests -> {"idle", "read"}]
           /\ trigger' \in [Requests -> Triggers]
           /\ values' \in [Requests -> Nat]
           /\ stage'[r] = "idle"
           /\ \A o \in Requests \ {r} : stage'[o] = stage[o] /\ trigger'[o] = trigger[o]
BY DEF TypeOK, Done, Triggers

(* What requests have seen stays right under a step that starts no scan    *)
(* and admits no request.                                                  *)
LEMMA AdmitKept ==
    ASSUME TypeOK, AdmitInv, Eased,
           \A r \in Requests : stage'[r] = "idle" \/ (stage'[r] = stage[r] /\ trigger'[r] = trigger[r])
    PROVE  AdmitInv'
<1> SUFFICES ASSUME NEW r \in Requests, stage'[r] = "read"
             PROVE  MayScan(trigger[r])' /\ \A o \in Requests \ {r} : stage'[o] = "idle"
  BY DEF AdmitInv
<1>1. stage[r] = "read" /\ trigger'[r] = trigger[r] /\ trigger[r] \in Triggers
  BY DEF TypeOK
<1>2. MayScan(trigger[r]) /\ \A o \in Requests \ {r} : stage[o] = "idle"
  BY <1>1 DEF AdmitInv
<1>3. PICK kind \in Triggers : kind = trigger[r] /\ kind = trigger'[r]
  BY <1>1
<1>4. MayScan(kind)'
  BY <1>2, <1>3, EasedKeeps
<1> QED BY <1>2, <1>3, <1>4 DEF MayScan

(* Requests: the lock admits one at a time.                                *)
LEMMA RequestSteps ==
    ASSUME IInv, NEW r \in Requests,
           \/ \E kind \in Triggers : Admit(r, kind)
           \/ NotConfigured(r) \/ Abort(r)
    PROVE  IInv'
<1>1. TypeOK /\ TaskInv /\ AdmitInv /\ SpacedInv
  BY DEF IInv
<1>2. UNCHANGED <<config, scan, task>>
  BY DEF Admit, NotConfigured, Abort, tasks
<1>3. TaskInv'
  BY <1>1, <1>2 DEF TaskInv, Exists
<1>4. Eased
  BY <1>2, RowsUnchanged
<1>5. ASSUME NEW kind \in Triggers, Admit(r, kind) PROVE TypeOK' /\ AdmitInv'
  <2>1. TypeOK'
    BY <1>1, <1>2, <1>5 DEF TypeOK, Admit
  <2>2. stage'[r] = "read" /\ trigger'[r] = kind /\ MayScan(kind)'
    BY <1>1, <1>4, <1>5, EasedKeeps DEF Admit, TypeOK
  <2>3. \A o \in Requests \ {r} : stage'[o] = "idle"
    BY <1>1, <1>5 DEF Admit, ActorLockFree, TypeOK
  <2>4. MayScan(trigger[r])'
    BY <2>2 DEF MayScan
  <2>5. AdmitInv'
    BY <2>3, <2>4 DEF AdmitInv
  <2> QED BY <2>1, <2>5
<1>6. ASSUME NotConfigured(r) \/ Abort(r) PROVE TypeOK' /\ AdmitInv'
  <2>1. Done(r)
    BY <1>6 DEF NotConfigured, Abort
  <2>2. TypeOK'
    BY <1>1, <1>2, <2>1, DoneFacts DEF TypeOK
  <2>3. AdmitInv'
    BY <1>1, <1>4, <2>1, DoneFacts, AdmitKept
  <2> QED BY <2>2, <2>3
<1>7. SpacedInv'
  BY <1>1, <1>4, EasedKeeps
<1> QED BY <1>3, <1>5, <1>6, <1>7 DEF IInv

(* A scan is created by the one request that was admitted, and nothing     *)
(* like it is under way.                                                   *)
LEMMA CreateStep ==
    ASSUME IInv, NEW r \in Requests, NEW s \in ScanIds, CreateScan(r, s)
    PROVE  IInv'
<1> DEFINE row == [trigger |-> trigger[r], status |-> "pending", age |-> NotStarted]
<1>1. TypeOK /\ TaskInv /\ AdmitInv /\ SpacedInv
  BY DEF IInv
<1>2. /\ stage[r] = "read" /\ ~Exists(s) /\ Done(r)
      /\ scan' = [scan EXCEPT ![s] = row]
      /\ task' = [task EXCEPT ![s] = "queued"]
      /\ UNCHANGED config
  BY DEF CreateScan
<1>3. trigger[r] \in Triggers /\ values[r] \in Nat /\ MayScan(trigger[r])
  BY <1>1, <1>2 DEF TypeOK, AdmitInv
<1>4. row \in Rows /\ row # None
  BY <1>3 DEF Rows, NotStarted
<1>6. TypeOK'
  <2>1. scan' \in [ScanIds -> Rows \cup {None}]
    BY <1>1, <1>2, <1>4 DEF TypeOK
  <2>2. task' \in [ScanIds -> {"none", "queued", "querying", "ingested"}]
    BY <1>1, <1>2 DEF TypeOK
  <2> QED BY <1>1, <1>2, <2>1, <2>2, DoneFacts DEF TypeOK
<1>7. scan'[s] = row /\ \A o \in ScanIds \ {s} : scan'[o] = scan[o]
  BY <1>1, <1>2 DEF TypeOK
<1>8. /\ Exists(s)' /\ Active(s)' /\ scan'[s].trigger = trigger[r] /\ scan'[s].status = "pending"
      /\ \A o \in ScanIds \ {s} : (Exists(o)' <=> Exists(o)) /\ (Active(o)' <=> Active(o))
  BY <1>4, <1>7 DEF Exists, Active
<1> HIDE DEF row
<1>9. TaskInv'
  <2>1. task'[s] = "queued" /\ \A o \in ScanIds \ {s} : task'[o] = task[o]
    BY <1>1, <1>2 DEF TypeOK
  <2> QED BY <1>1, <1>7, <1>8, <2>1 DEF TaskInv
<1>10. AdmitInv'
  BY <1>1, <1>2, DoneFacts DEF AdmitInv
<1>12. \A o \in ScanIds : o # s /\ Active(o) => scan[o].trigger # trigger[r]
  BY <1>3 DEF MayScan, SelfScans, Active, Triggers
<1>13. SpacedInv'
  <2>1. ASSUME NEW a \in ScanIds, NEW o \in ScanIds, Active(a)', Active(o)', scan'[a].trigger = scan'[o].trigger
        PROVE  a = o
    BY <1>1, <1>7, <1>8, <1>12, <2>1 DEF SpacedInv
  <2>2. ASSUME NEW a \in SelfScans', scan'[a].status = "pending", NEW o \in SelfScans' \ {a}
        PROVE  ~Active(o)' /\ scan'[o].age >= Cooldown
    <3>1. a \in ScanIds /\ o \in ScanIds /\ Exists(a)' /\ Exists(o)' /\ Active(a)'
      BY <2>2 DEF SelfScans, Active
    <3>2. scan'[a].trigger = "self" /\ scan'[o].trigger = "self"
      BY <2>2 DEF SelfScans
    <3>3. CASE a = s
      <4>1. trigger[r] = "self" /\ o # s /\ o \in SelfScans
        BY <1>7, <1>8, <2>2, <3>1, <3>2, <3>3 DEF SelfScans
      <4> QED BY <1>3, <1>7, <1>8, <3>1, <4>1 DEF MayScan
    <3>4. CASE a # s
      <4>1. a \in SelfScans /\ Active(a) /\ scan[a].trigger = "self" /\ scan[a].status = "pending"
        BY <1>7, <1>8, <2>2, <3>1, <3>2, <3>4 DEF SelfScans
      <4>2. o # s
        BY <1>8, <1>12, <3>1, <3>2, <3>4, <4>1
      <4>3. o \in SelfScans
        BY <1>7, <1>8, <3>1, <3>2, <4>2 DEF SelfScans
      <4> QED BY <1>1, <1>7, <1>8, <2>2, <3>1, <4>1, <4>2, <4>3 DEF SpacedInv
    <3> QED BY <3>3, <3>4
  <2> QED BY <2>1, <2>2 DEF SpacedInv
<1> QED BY <1>6, <1>9, <1>10, <1>13 DEF IInv

(* A scan starts: it was waiting, so no other of its trigger is under way  *)
(* and no request that would mind its age has been admitted.               *)
LEMMA StartStep ==
    ASSUME IInv, NEW s \in ScanIds, StartScan(s)
    PROVE  IInv'
<1>1. TypeOK /\ TaskInv /\ AdmitInv /\ SpacedInv
  BY DEF IInv
<1>2. /\ task[s] = "queued"
      /\ scan' = [scan EXCEPT ![s].status = "running", ![s].age = 0]
      /\ task' = [task EXCEPT ![s] = "querying"]
      /\ UNCHANGED <<stage, trigger, values, config>>
  BY DEF StartScan, request
<1>3. Exists(s) /\ scan[s].status = "pending" /\ scan[s] \in Rows /\ Active(s)
  BY <1>1, <1>2, RowFacts DEF TaskInv, Active
<1> DEFINE row == [scan[s] EXCEPT !.status = "running", !.age = 0]
<1>4. scan' = [scan EXCEPT ![s] = row]
  BY <1>2
<1>5. row \in Rows /\ row.status = "running" /\ row.trigger = scan[s].trigger
  BY <1>3 DEF Rows
<1> HIDE DEF row
<1>6. scan'[s] = row /\ \A o \in ScanIds \ {s} : scan'[o] = scan[o]
  BY <1>1, <1>4 DEF TypeOK
<1>7. /\ Exists(s)' /\ Active(s)'
      /\ \A o \in ScanIds \ {s} : (Exists(o)' <=> Exists(o)) /\ (Active(o)' <=> Active(o))
  BY <1>5, <1>6 DEF Exists, Active
<1>8. TypeOK'
  <2>1. scan' \in [ScanIds -> Rows \cup {None}]
    BY <1>1, <1>4, <1>5 DEF TypeOK
  <2>2. task' \in [ScanIds -> {"none", "queued", "querying", "ingested"}]
    BY <1>1, <1>2 DEF TypeOK
  <2> QED BY <1>1, <1>2, <2>1, <2>2 DEF TypeOK
<1>9. TaskInv'
  <2>1. task'[s] = "querying" /\ \A o \in ScanIds \ {s} : task'[o] = task[o]
    BY <1>1, <1>2 DEF TypeOK
  <2> QED BY <1>1, <1>5, <1>6, <1>7, <2>1 DEF TaskInv
<1>10. SelfScans' = SelfScans
  BY <1>3, <1>5, <1>6, <1>7 DEF SelfScans
<1>11. AdmitInv'
  <2> SUFFICES ASSUME NEW r \in Requests, stage[r] = "read" PROVE MayScan(trigger[r])'
    BY <1>1, <1>2 DEF AdmitInv
  <2>1. MayScan(trigger[r])
    BY <1>1 DEF AdmitInv
  <2>2. trigger[r] # "manual" /\ s \notin SelfScans
    BY <1>3, <2>1 DEF MayScan
  <2>3. \A o \in SelfScans : o \in ScanIds /\ o # s /\ ~Active(o)' /\ scan'[o].age >= Cooldown
    BY <1>6, <1>7, <2>1, <2>2 DEF MayScan, SelfScans
  <2> QED BY <1>2, <1>10, <2>2, <2>3 DEF MayScan
<1>12. SpacedInv'
  <2>1. ASSUME NEW a \in ScanIds, NEW o \in ScanIds, Active(a)', Active(o)', scan'[a].trigger = scan'[o].trigger
        PROVE  a = o
    BY <1>1, <1>3, <1>5, <1>6, <1>7, <2>1 DEF SpacedInv
  <2>2. ASSUME NEW a \in SelfScans', scan'[a].status = "pending", NEW o \in SelfScans' \ {a}
        PROVE  ~Active(o)' /\ scan'[o].age >= Cooldown
    <3>1. a \in SelfScans /\ o \in SelfScans \ {a} /\ a \in ScanIds /\ o \in ScanIds
      BY <1>10, <2>2 DEF SelfScans
    <3>2. a # s /\ scan[a].status = "pending"
      BY <1>5, <1>6, <2>2, <3>1
    <3>3. ~Active(o) /\ scan[o].age >= Cooldown
      BY <1>1, <3>1, <3>2 DEF SpacedInv
    <3>4. o # s
      BY <1>3, <3>3
    <3> QED BY <1>6, <1>7, <3>1, <3>3, <3>4
  <2> QED BY <2>1, <2>2 DEF SpacedInv
<1> QED BY <1>8, <1>9, <1>11, <1>12 DEF IInv

(* Steps of a task that has begun, its loss, a restart and the passing of  *)
(* time start no scan.                                                     *)
LEMMA EasedSteps ==
    ASSUME IInv, Eased, TypeOK', TaskInv',
           \A r \in Requests : stage'[r] = "idle" \/ (stage'[r] = stage[r] /\ trigger'[r] = trigger[r])
    PROVE  IInv'
BY AdmitKept, EasedKeeps DEF IInv

(* A task's row changes its status, and the task ends.                     *)
LEMMA EndStep ==
    ASSUME IInv, NEW s \in ScanIds, Exists(s), NEW st \in {"succeeded", "failed"},
           scan' = [scan EXCEPT ![s].status = st],
           task' = [task EXCEPT ![s] = "none"],
           UNCHANGED <<stage, trigger, values, config>>
    PROVE  IInv'
<1>1. TypeOK /\ TaskInv
  BY DEF IInv
<1>2. scan[s] \in Rows
  BY <1>1, RowFacts
<1> DEFINE row == [scan[s] EXCEPT !.status = st]
<1>3. scan' = [scan EXCEPT ![s] = row]
  OBVIOUS
<1>4. row \in Rows /\ row.status = st /\ row.trigger = scan[s].trigger /\ row.age = scan[s].age
  BY <1>2 DEF Rows
<1> HIDE DEF row
<1>5. scan'[s] = row /\ \A o \in ScanIds \ {s} : scan'[o] = scan[o]
  BY <1>1, <1>3 DEF TypeOK
<1>6. Eased
  BY <1>4, <1>5 DEF Eased, Exists, Active
<1>7. TypeOK'
  <2>1. scan' \in [ScanIds -> Rows \cup {None}]
    BY <1>1, <1>3, <1>4 DEF TypeOK
  <2>2. task' \in [ScanIds -> {"none", "queued", "querying", "ingested"}]
    BY <1>1 DEF TypeOK
  <2> QED BY <1>1, <2>1, <2>2 DEF TypeOK
<1>8. TaskInv'
  <2>1. task'[s] = "none" /\ \A o \in ScanIds \ {s} : task'[o] = task[o]
    BY <1>1 DEF TypeOK
  <2> QED BY <1>1, <1>5, <2>1 DEF TaskInv, Exists
<1> QED BY <1>6, <1>7, <1>8, EasedSteps

(* The other steps of a task.                                              *)
LEMMA TaskSteps ==
    ASSUME IInv, NEW s \in ScanIds, Ingest(s) \/ CommitScan(s) \/ FailScan(s) \/ LoseTask(s)
    PROVE  IInv'
<1>1. TypeOK /\ TaskInv
  BY DEF IInv
<1>2. UNCHANGED <<stage, trigger, values, config>>
  BY DEF Ingest, CommitScan, FailScan, LoseTask, request
<1>3. CASE CommitScan(s)
  <2>1. Exists(s)
    BY <1>1, <1>3 DEF CommitScan, TaskInv
  <2> QED BY <1>2, <1>3, <2>1, EndStep DEF CommitScan, EndTask
<1>4. CASE FailScan(s)
  <2>1. Exists(s)
    BY <1>1, <1>4 DEF FailScan, TaskInv
  <2>2. scan' = [scan EXCEPT ![s].status = "failed"]
    BY <1>1, <1>4 DEF FailScan, FailedScan, TypeOK
  <2> QED BY <1>2, <1>4, <2>1, <2>2, EndStep DEF FailScan, EndTask
<1>5. CASE Ingest(s) \/ LoseTask(s)
  <2>1. UNCHANGED scan
    BY <1>5 DEF Ingest, LoseTask
  <2>2. \/ task' = [task EXCEPT ![s] = "none"]
        \/ task[s] = "querying" /\ task' = [task EXCEPT ![s] = "ingested"]
    BY <1>5 DEF Ingest, LoseTask, EndTask
  <2>3. TypeOK'
    BY <1>1, <1>2, <2>1, <2>2 DEF TypeOK
  <2>4. TaskInv'
    <3>1. \A o \in ScanIds : \/ task'[o] = task[o]
                             \/ task'[o] = "none"
                             \/ task[o] = "querying" /\ task'[o] = "ingested"
      BY <1>1, <2>2 DEF TypeOK
    <3> QED BY <1>1, <2>1, <3>1 DEF TaskInv, Exists
  <2> QED BY <1>2, <2>1, <2>3, <2>4, RowsUnchanged, EasedSteps
<1> QED BY <1>3, <1>4, <1>5

(* A restart forgets requests and tasks, and time passes.                  *)
LEMMA RestartTickSteps ==
    ASSUME IInv, Restart \/ Tick
    PROVE  IInv'
<1>1. TypeOK /\ TaskInv
  BY DEF IInv
<1>2. CASE Restart
  <2>1. UNCHANGED <<scan, config>> /\ \A r \in Requests : stage'[r] = "idle"
    BY <1>2 DEF Restart
  <2>2. TypeOK'
    BY <1>1, <1>2 DEF Restart, TypeOK, Triggers
  <2>3. TaskInv'
    BY <1>1, <1>2 DEF Restart, TaskInv, Exists
  <2> QED BY <2>1, <2>2, <2>3, RowsUnchanged, EasedSteps
<1>3. CASE Tick
  <2>1. UNCHANGED <<stage, trigger, values, config, task>>
    BY <1>3 DEF Tick, request, tasks
  <2>2. ASSUME NEW s \in ScanIds
        PROVE  /\ ~Exists(s) => scan'[s] = None
               /\ Exists(s) => /\ scan'[s] \in Rows
                               /\ scan'[s].trigger = scan[s].trigger
                               /\ scan'[s].status = scan[s].status
                               /\ scan'[s].age = Older(scan[s].age)
    <3>1. ~Exists(s) => scan'[s] = None
      BY <1>3 DEF Tick
    <3>2. ASSUME Exists(s)
          PROVE  /\ scan'[s] \in Rows
                 /\ scan'[s].trigger = scan[s].trigger
                 /\ scan'[s].status = scan[s].status
                 /\ scan'[s].age = Older(scan[s].age)
      <4>1. scan[s] \in Rows /\ scan[s].age \in Nat
        BY <1>1, <3>2, RowFacts
      <4>2. scan'[s] = [scan[s] EXCEPT !.age = Older(scan[s].age)]
        BY <1>3, <3>2 DEF Tick
      <4>3. Older(scan[s].age) \in Nat
        BY <4>1 DEF Older
      <4> QED BY <4>1, <4>2, <4>3 DEF Rows
    <3> QED BY <3>1, <3>2
  <2>3. TypeOK'
    <3>1. scan' = [s \in ScanIds |-> scan'[s]]
      BY <1>3 DEF Tick
    <3>2. scan' \in [ScanIds -> Rows \cup {None}]
      BY <2>2, <3>1
    <3> QED BY <1>1, <2>1, <3>2 DEF TypeOK
  <2>4. \A s \in ScanIds : Exists(s)' <=> Exists(s)
    BY <2>2 DEF Exists
  <2>5. \A s \in ScanIds : Exists(s) /\ scan[s].age >= Cooldown => scan'[s].age >= Cooldown
    BY <1>1, <2>2, RowFacts DEF Older
  <2>6. Eased
    BY <2>2, <2>4, <2>5 DEF Eased, Active
  <2>7. TaskInv'
    BY <1>1, <2>1, <2>2, <2>4 DEF TaskInv
  <2> QED BY <2>1, <2>3, <2>6, <2>7, EasedSteps
<1> QED BY <1>2, <1>3

(* Every step keeps the inductive invariant of the scans.                  *)
LEMMA IInvStep == IInv /\ [Next]_vars => IInv'
<1> SUFFICES ASSUME IInv, [Next]_vars PROVE IInv'
  OBVIOUS
<1>1. TypeOK /\ TaskInv
  BY DEF IInv
<1>2. ASSUME UNCHANGED <<stage, trigger, values, scan, task>>, config' \in Nat
      PROVE  IInv'
  <2>1. TypeOK' /\ TaskInv'
    BY <1>1, <1>2 DEF TypeOK, TaskInv, Exists
  <2> QED BY <1>2, <2>1, RowsUnchanged, EasedSteps
<1>3. CASE SaveSettings
  BY <1>1, <1>2, <1>3 DEF SaveSettings, request, tasks, TypeOK
<1>4. ASSUME NEW v \in Versions, OthersConfigure(v) PROVE IInv'
  BY <1>1, <1>2, <1>4 DEF OthersConfigure, request, tasks, TypeOK
<1>5. CASE UNCHANGED <<request, config, shared, linked, scan, tasks>>
  BY <1>1, <1>2, <1>5 DEF request, tasks, TypeOK
<1>6. CASE UNCHANGED vars
  BY <1>5, <1>6 DEF vars
<1> QED
  BY <1>3, <1>4, <1>5, <1>6, RequestSteps, CreateStep, StartStep, TaskSteps, RestartTickSteps
  DEF Next, Carry
-----------------------------------------------------------------------------
(* A client object is free: there are more of them than scans.             *)
LEMMA NewClientFree ==
    ASSUME SharedInv
    PROVE  NewClient \in Clients
<1>1. PICK any \in Clients : TRUE
  BY ClientsAssumption
<1> DEFINE held == [s \in ScanIds |-> IF client[s] # None THEN client[s].name ELSE any]
<1>2. held \in [ScanIds -> Clients]
  BY DEF SharedInv, ClientObjects
<1>3. PICK n \in Clients : \A s \in ScanIds : held[s] # n
  BY <1>2, ClientsAssumption
<1>4. \A s \in ScanIds : task[s] # "none" => client[s].name # n
  BY <1>3 DEF SharedInv
<1> QED BY <1>4 DEF NewClient

(* configured_client leaves a cached client of the settings it was given,  *)
(* and leaves the one it found if that is one.                             *)
LEMMA ConfiguredFacts ==
    ASSUME SharedInv, NEW v \in Nat, ConfiguredClient(v)
    PROVE  /\ cached' \in ClientObjects /\ cached'.version = v /\ digest' = v
           /\ cached # None /\ digest = v => cached' = cached
<1>1. NewClient \in Clients
  BY NewClientFree
<1> QED BY <1>1 DEF ConfiguredClient, SameDigest, SharedInv, ClientObjects

(* A step that ends tasks, or none, and leaves the shared client.          *)
LEMMA SharedKept ==
    ASSUME TypeOK, SharedInv, task' \in [ScanIds -> {"none", "queued", "querying", "ingested"}],
           client' \in [ScanIds -> ClientObjects \cup {None}], asked' \in [ScanIds -> Nat],
           UNCHANGED <<config, shared>>,
           epoch' \subseteq {s \in epoch : task'[s] # "none"},
           \A s \in ScanIds : task'[s] # "none" =>
               task[s] # "none" /\ client'[s] = client[s] /\ asked'[s] = asked[s]
    PROVE  SharedInv'
BY DEF SharedInv, shared

(* Every step keeps the invariant of the clients.                          *)
LEMMA SharedStep == IInv /\ SharedInv /\ [Next]_vars => SharedInv'
<1> SUFFICES ASSUME IInv, SharedInv, [Next]_vars PROVE SharedInv'
  OBVIOUS
<1>1. TypeOK
  BY DEF IInv
<1>2. CASE SaveSettings
  BY <1>1, <1>2 DEF SaveSettings, SharedInv, shared
<1>3. ASSUME NEW v \in Versions, OthersConfigure(v) PROVE SharedInv'
  <2>1. v \in Nat /\ config \in Nat
    BY <1>1, <1>3 DEF OthersConfigure, TypeOK
  <2>2. /\ cached' \in ClientObjects /\ cached'.version = v /\ digest' = v
        /\ cached # None /\ digest = v => cached' = cached
    BY <1>3, <2>1, ConfiguredFacts DEF OthersConfigure
  <2>3. UNCHANGED <<config, task, client, asked>> /\ epoch' = IF v = config THEN epoch ELSE {}
    BY <1>3 DEF OthersConfigure
  <2> QED BY <2>2, <2>3 DEF SharedInv
<1>4. ASSUME NEW r \in Requests, NEW s \in ScanIds, CreateScan(r, s) PROVE SharedInv'
  <2>1. values[r] \in Nat /\ config \in Nat
    BY <1>1 DEF TypeOK
  <2>2. /\ cached' \in ClientObjects /\ cached'.version = values[r] /\ digest' = values[r]
        /\ cached # None /\ digest = values[r] => cached' = cached
    BY <1>4, <2>1, ConfiguredFacts DEF CreateScan
  <2>3. /\ UNCHANGED config
        /\ task' = [task EXCEPT ![s] = "queued"]
        /\ client' = [client EXCEPT ![s] = cached']
        /\ asked' = [asked EXCEPT ![s] = values[r]]
        /\ epoch' = IF values[r] = config THEN epoch \cup {s} ELSE {}
    BY <1>4 DEF CreateScan
  <2>4. /\ client' \in [ScanIds -> ClientObjects \cup {None}] /\ asked' \in [ScanIds -> Nat]
        /\ task'[s] = "queued" /\ client'[s] = cached' /\ asked'[s] = values[r] /\ cached' # None
        /\ \A o \in ScanIds \ {s} : task'[o] = task[o] /\ client'[o] = client[o] /\ asked'[o] = asked[o]
    BY <1>1, <2>1, <2>2, <2>3 DEF TypeOK, SharedInv
  <2>5. \A o \in epoch' : cached' # None /\ client'[o] = cached' /\ digest' = config'
    BY <2>2, <2>3, <2>4 DEF SharedInv
  <2>6. epoch' \subseteq {o \in ScanIds : task'[o] # "none"}
    BY <2>3, <2>4 DEF SharedInv
  <2>7. \A o \in ScanIds : task'[o] # "none" => client'[o] # None /\ client'[o].version = asked'[o]
    BY <2>2, <2>4 DEF SharedInv
  <2> QED BY <2>2, <2>4, <2>5, <2>6, <2>7 DEF SharedInv
<1>5. ASSUME NEW s \in ScanIds, StartScan(s) \/ Ingest(s) PROVE SharedInv'
  <2>1. UNCHANGED <<config, shared, client, asked, epoch>> /\ task[s] # "none"
    BY <1>5 DEF StartScan, Ingest
  <2>2. \E x \in {"querying", "ingested"} : task' = [task EXCEPT ![s] = x]
    BY <1>5 DEF StartScan, Ingest
  <2>3. task' \in [ScanIds -> {"none", "queued", "querying", "ingested"}]
        /\ \A o \in ScanIds : task'[o] # "none" <=> task[o] # "none"
    BY <1>1, <2>1, <2>2 DEF TypeOK
  <2> QED BY <1>1, <2>1, <2>3, SharedKept DEF SharedInv
<1>6. ASSUME NEW s \in ScanIds, CommitScan(s) \/ FailScan(s) \/ LoseTask(s) PROVE SharedInv'
  <2>1. UNCHANGED <<config, shared>> /\ EndTask(s)
    BY <1>6 DEF CommitScan, FailScan, LoseTask
  <2>2. /\ task' \in [ScanIds -> {"none", "queued", "querying", "ingested"}]
        /\ client' \in [ScanIds -> ClientObjects \cup {None}] /\ asked' \in [ScanIds -> Nat]
        /\ task'[s] = "none" /\ epoch' = epoch \ {s}
        /\ \A o \in ScanIds \ {s} : task'[o] = task[o] /\ client'[o] = client[o] /\ asked'[o] = asked[o]
    BY <1>1, <2>1 DEF EndTask, TypeOK, SharedInv
  <2> QED BY <1>1, <2>1, <2>2, SharedKept DEF SharedInv
<1>7. CASE Restart
  BY <1>7 DEF Restart, SharedInv
<1>8. CASE UNCHANGED <<config, shared, tasks>>
  BY <1>8 DEF shared, tasks, SharedInv
<1>9. ASSUME NEW r \in Requests, NotConfigured(r) \/ Abort(r) \/ \E kind \in Triggers : Admit(r, kind)
      PROVE  UNCHANGED <<config, shared, tasks>>
  BY <1>9 DEF NotConfigured, Abort, Admit
<1>10. ASSUME Tick \/ UNCHANGED vars PROVE UNCHANGED <<config, shared, tasks>>
  BY <1>10 DEF Tick, vars
<1> QED BY <1>2, <1>3, <1>4, <1>5, <1>6, <1>7, <1>8, <1>9, <1>10 DEF Next, Carry

(* configured_client: whoever installs clients in whatever order, a scan   *)
(* runs with the settings its request has read, and the scans that read    *)
(* the settings in force share their client until these are saved again or *)
(* a request comes late with older ones.                                   *)
THEOREM OneClientHolds == Spec => []OneClient
<1>1. Init => SharedInv
  BY DEF Init, SharedInv
<1>2. SharedInv => OneClient
  BY DEF SharedInv, OneClient
<1> QED BY <1>1, <1>2, IInvInit, IInvStep, SharedStep, PTL DEF Spec

(* actor_scan_lock: however requests, tasks, lost tasks and restarts       *)
(* interleave, self-checks are a cooldown apart and at most one scan of    *)
(* each trigger is under way.                                              *)
THEOREM SelfChecksSpacedHolds == Spec => SelfChecksSpaced
<1> DEFINE A == /\ \A s \in SelfScans :
                     scan[s].status = "pending" /\ scan'[s].status = "running" =>
                         \A o \in SelfScans \ {s} : ~Active(o) /\ scan[o].age >= Cooldown
                /\ \A s, o \in ScanIds : Active(s)' /\ Active(o)' /\ scan'[s].trigger = scan'[o].trigger => s = o
<1>1. IInv /\ IInv' => A
  BY DEF IInv, SpacedInv
<1> HIDE DEF A
<1>2. IInv /\ [Next]_vars => [A]_vars
  BY <1>1, IInvStep
<1>3. Spec => [][A]_vars
  BY <1>2, IInvInit, IInvStep, PTL DEF Spec
<1> QED BY <1>3 DEF A, SelfChecksSpaced

-----------------------------------------------------------------------------
(* The inductive invariant of the alerts holds initially.                  *)
LEMMA AlertsInvInit == AlertsInit => AlertsInv
<1> SUFFICES ASSUME AlertsInit PROVE AlertsInv
  OBVIOUS
<1>1. AlertsTypeOK
  BY DEF AlertsInit, AlertsTypeOK
<1>2. ClaimInv /\ AttemptInv
  BY AttemptsAssumption DEF AlertsInit, ClaimInv, AttemptInv
<1>3. SendsCounted
  BY AttemptsAssumption DEF AlertsInit, SendsCounted, Claimed
<1> QED BY <1>1, <1>2, <1>3 DEF AlertsInv

(* The rest of SendsCounted follows from the claims.                       *)
LEMMA ClaimedPending == ClaimInv => \A k \in Keys : Claimed(k) => alert[k] = "pending"
BY DEF ClaimInv, Claimed

(* Alerts are queued: nothing that is sent or settled changes.             *)
LEMMA EnqueueStep ==
    ASSUME AlertsInv, NEW keys, EnqueueAlert(keys), UNCHANGED <<attempts, dispatch>>
    PROVE  AlertsInv'
<1>1. AlertsTypeOK /\ ClaimInv /\ AttemptInv /\ SendsCounted
  BY DEF AlertsInv
<1>2. UNCHANGED <<attempts, sending, sends, deaths>>
  BY DEF dispatch
<1>3. \A k \in Keys : alert'[k] = alert[k] \/ (alert[k] = "none" /\ alert'[k] = "pending")
  BY DEF EnqueueAlert
<1>4. AlertsTypeOK'
  BY <1>1, <1>2 DEF AlertsTypeOK, EnqueueAlert
<1>5. ClaimInv'
  <2> SUFFICES ASSUME NEW d \in Dispatchers, sending[d] # None PROVE alert'[sending[d].key] = "pending"
    BY <1>1, <1>2 DEF ClaimInv
  <2>1. sending[d].key \in Keys /\ alert[sending[d].key] = "pending"
    BY <1>1 DEF AlertsTypeOK, Claims, ClaimInv
  <2> QED BY <1>3, <2>1
<1>6. AttemptInv'
  BY <1>1, <1>2, <1>3, AttemptsAssumption DEF AttemptInv
<1>7. SendsCounted'
  <2>1. \A k \in Keys : Claimed(k)' => Claimed(k)
    BY <1>2 DEF Claimed
  <2> QED BY <1>1, <1>2, <1>3, <2>1 DEF SendsCounted
<1> QED BY <1>4, <1>5, <1>6, <1>7 DEF AlertsInv

(* A dispatcher claims an alert nobody has claimed.                        *)
LEMMA ClaimStep ==
    ASSUME AlertsInv, NEW d \in Dispatchers, ClaimAlert(d)
    PROVE  AlertsInv'
<1>1. AlertsTypeOK /\ ClaimInv /\ AttemptInv /\ SendsCounted
  BY DEF AlertsInv
<1>2. UNCHANGED <<alert, attempts, sends, deaths>>
  BY DEF ClaimAlert, outbox
<1>3. PICK k \in Keys : /\ alert[k] = "pending" /\ ~Claimed(k)
                        /\ sending' = [sending EXCEPT ![d] = [key |-> k, attempt |-> attempts[k] + 1]]
  BY DEF ClaimAlert
<1> DEFINE c == [key |-> k, attempt |-> attempts[k] + 1]
<1>4. c \in Claims /\ c # None /\ c.key = k /\ c.attempt = attempts[k] + 1
  BY <1>1, NoAlertAssumption DEF AlertsTypeOK, Claims
<1>5. sending' = [sending EXCEPT ![d] = c]
  BY <1>3
<1> HIDE DEF c
<1>6. sending'[d] = c /\ \A e \in Dispatchers \ {d} : sending'[e] = sending[e]
  BY <1>1, <1>5 DEF AlertsTypeOK
<1>7. AlertsTypeOK'
  BY <1>1, <1>2, <1>4, <1>5 DEF AlertsTypeOK
<1>8. \A e \in Dispatchers : sending[e] # None => sending[e].key # k
  BY <1>3 DEF Claimed
<1>9. ClaimInv'
  BY <1>1, <1>2, <1>3, <1>4, <1>6, <1>8 DEF ClaimInv
<1>10. AttemptInv'
  BY <1>1, <1>2 DEF AttemptInv
<1>11. \A j \in Keys : Claimed(j)' => alert'[j] = "pending"
  BY <1>9, ClaimedPending DEF ClaimInv, Claimed
<1>12. SendsCounted'
  BY <1>1, <1>2, <1>11 DEF SendsCounted
<1> QED BY <1>7, <1>9, <1>10, <1>12 DEF AlertsInv

(* An attempt ends: its row, which no other dispatcher has, may change.    *)
LEMMA ReleaseStep ==
    ASSUME AlertsInv, NEW d \in Dispatchers, NEW received \in {0, 1}, Release(d, received),
           NEW k, k = sending[d].key,
           \A j \in Keys : j # k => alert'[j] = alert[j] /\ attempts'[j] = attempts[j] /\ deaths'[j] = deaths[j],
           alert' \in [Keys -> {"none", "pending", "delivered", "dead_letter"}],
           attempts' \in [Keys -> Nat], deaths' \in [Keys -> Nat],
           attempts'[k] + deaths'[k] = attempts[k] + deaths[k] + 1,
           attempts'[k] <= MaxAttempts,
           alert'[k] # "none",
           alert'[k] = "pending" => attempts'[k] < MaxAttempts,
           alert'[k] = "dead_letter" => attempts'[k] = MaxAttempts
    PROVE  AlertsInv'
<1>1. AlertsTypeOK /\ ClaimInv /\ AttemptInv /\ SendsCounted
  BY DEF AlertsInv
<1>2. /\ sending[d] # None /\ k \in Keys
      /\ sending' = [sending EXCEPT ![d] = None]
      /\ sends' = [sends EXCEPT ![k] = @ + received]
  BY <1>1 DEF Release, AlertsTypeOK, Claims
<1>3. sending'[d] = None /\ \A e \in Dispatchers \ {d} : sending'[e] = sending[e]
  BY <1>1, <1>2 DEF AlertsTypeOK
<1>4. sends'[k] = sends[k] + received /\ \A j \in Keys : j # k => sends'[j] = sends[j]
  BY <1>1, <1>2 DEF AlertsTypeOK
<1>5. AlertsTypeOK'
  BY <1>1, <1>2 DEF AlertsTypeOK
<1>6. ClaimInv'
  <2> SUFFICES ASSUME NEW e \in Dispatchers, sending'[e] # None
               PROVE  /\ alert'[sending'[e].key] = "pending"
                      /\ sending'[e].attempt = attempts'[sending'[e].key] + 1
                      /\ \A f \in Dispatchers \ {e} : sending'[f] # None => sending'[f].key # sending'[e].key
    BY DEF ClaimInv
  <2>1. e # d /\ sending'[e] = sending[e] /\ sending[e] # None
    BY <1>3
  <2>2. sending[e].key \in Keys /\ sending[e].key # k
    BY <1>1, <1>2, <2>1 DEF AlertsTypeOK, Claims, ClaimInv
  <2> QED BY <1>1, <1>3, <2>1, <2>2 DEF ClaimInv
<1>7. AttemptInv'
  BY <1>1 DEF AttemptInv
<1>8. \A j \in Keys : Claimed(j)' => alert'[j] = "pending"
  BY <1>6 DEF ClaimInv, Claimed
<1>9. \A j \in Keys : sends'[j] <= attempts'[j] + deaths'[j]
  <2>1. sends[k] <= attempts[k] + deaths[k] /\ sends[k] \in Nat
    BY <1>1, <1>2 DEF SendsCounted, AlertsTypeOK
  <2>2. attempts[k] \in Nat /\ deaths[k] \in Nat
    BY <1>1, <1>2 DEF AlertsTypeOK
  <2>3. sends'[k] <= attempts'[k] + deaths'[k]
    BY <1>4, <2>1, <2>2
  <2> QED BY <1>1, <1>4, <2>3 DEF SendsCounted
<1>10. SendsCounted'
  BY <1>1, <1>8, <1>9 DEF SendsCounted
<1> QED BY <1>5, <1>6, <1>7, <1>10 DEF AlertsInv

(* What a dispatcher writes down, and what it leaves when it dies.         *)
LEMMA DispatchSteps ==
    ASSUME AlertsInv, NEW d \in Dispatchers, Delivered(d) \/ NotDelivered(d) \/ DispatcherDies(d)
    PROVE  AlertsInv'
<1>1. AlertsTypeOK /\ ClaimInv /\ AttemptInv
  BY DEF AlertsInv
<1>2. PICK received \in {0, 1} : Release(d, received)
  BY DEF Delivered, NotDelivered, DispatcherDies
<1>3. sending[d] # None
  BY <1>2 DEF Release
<1>4. PICK k \in Keys : k = sending[d].key
  BY <1>1, <1>3 DEF AlertsTypeOK, Claims
<1>5. alert[k] = "pending" /\ sending[d].attempt = attempts[k] + 1
  BY <1>1, <1>3, <1>4 DEF ClaimInv
<1>6. attempts[k] \in Nat /\ deaths[k] \in Nat /\ attempts[k] < MaxAttempts /\ MaxAttempts \in Nat
  BY <1>1, <1>5, AttemptsAssumption DEF AlertsTypeOK, AttemptInv
<1>7. CASE Delivered(d)
  <2>1. /\ alert' = [alert EXCEPT ![k] = "delivered"]
        /\ attempts' = [attempts EXCEPT ![k] = attempts[k] + 1]
        /\ deaths' = deaths
    BY <1>4, <1>5, <1>7 DEF Delivered
  <2>2. /\ alert' \in [Keys -> {"none", "pending", "delivered", "dead_letter"}]
        /\ attempts' \in [Keys -> Nat] /\ deaths' \in [Keys -> Nat]
        /\ alert'[k] = "delivered" /\ attempts'[k] = attempts[k] + 1
        /\ \A j \in Keys : j # k => alert'[j] = alert[j] /\ attempts'[j] = attempts[j] /\ deaths'[j] = deaths[j]
    BY <1>1, <1>6, <2>1 DEF AlertsTypeOK
  <2> QED BY <1>2, <1>4, <1>6, <2>1, <2>2, ReleaseStep
<1>8. CASE NotDelivered(d)
  <2>1. /\ attempts' = [attempts EXCEPT ![k] = attempts[k] + 1]
        /\ IF IsLast(attempts[k] + 1) THEN alert' = [alert EXCEPT ![k] = "dead_letter"]
                                       ELSE alert' = alert
        /\ deaths' = deaths
    BY <1>4, <1>5, <1>8 DEF NotDelivered
  <2>2. /\ alert' \in [Keys -> {"none", "pending", "delivered", "dead_letter"}]
        /\ attempts' \in [Keys -> Nat] /\ deaths' \in [Keys -> Nat]
        /\ alert'[k] = IF IsLast(attempts[k] + 1) THEN "dead_letter" ELSE "pending"
        /\ attempts'[k] = attempts[k] + 1
        /\ \A j \in Keys : j # k => alert'[j] = alert[j] /\ attempts'[j] = attempts[j] /\ deaths'[j] = deaths[j]
    BY <1>1, <1>5, <1>6, <2>1 DEF AlertsTypeOK
  <2>3. /\ alert'[k] # "none" /\ attempts'[k] <= MaxAttempts
        /\ alert'[k] = "pending" => attempts'[k] < MaxAttempts
        /\ alert'[k] = "dead_letter" => attempts'[k] = MaxAttempts
    BY <1>6, <2>2 DEF IsLast
  <2> QED BY <1>2, <1>4, <1>6, <2>1, <2>2, <2>3, ReleaseStep
<1>9. CASE DispatcherDies(d)
  <2>1. UNCHANGED <<alert, attempts>> /\ deaths' = [deaths EXCEPT ![k] = deaths[k] + 1]
    BY <1>4, <1>9 DEF DispatcherDies, outbox
  <2>2. /\ alert' \in [Keys -> {"none", "pending", "delivered", "dead_letter"}]
        /\ attempts' \in [Keys -> Nat] /\ deaths' \in [Keys -> Nat]
        /\ alert'[k] = "pending" /\ attempts'[k] = attempts[k] /\ deaths'[k] = deaths[k] + 1
        /\ \A j \in Keys : j # k => alert'[j] = alert[j] /\ attempts'[j] = attempts[j] /\ deaths'[j] = deaths[j]
    BY <1>1, <1>5, <1>6, <2>1 DEF AlertsTypeOK
  <2> QED BY <1>2, <1>4, <1>6, <2>2, ReleaseStep
<1> QED BY <1>7, <1>8, <1>9

(* Every step keeps the inductive invariant of the alerts.                 *)
LEMMA AlertsInvStep == AlertsInv /\ [Next]_vars => AlertsInv'
<1> SUFFICES ASSUME AlertsInv, [Next]_vars PROVE AlertsInv'
  OBVIOUS
<1>1. ASSUME UNCHANGED <<alert, attempts, sending, sends, deaths>> PROVE AlertsInv'
  BY <1>1 DEF AlertsInv, AlertsTypeOK, ClaimInv, AttemptInv, SendsCounted, Claimed
<1>2. ASSUME UNCHANGED alertVars PROVE AlertsInv'
  BY <1>1, <1>2 DEF alertVars, outbox, dispatch
<1>3. ASSUME UNCHANGED <<outbox, dispatch>> PROVE AlertsInv'
  BY <1>1, <1>3 DEF outbox, dispatch
<1>4. ASSUME NEW r \in Requests, NEW kind \in Triggers, Admit(r, kind) PROVE AlertsInv'
  BY <1>2, <1>4 DEF Admit
<1>5. ASSUME NEW r \in Requests, NotConfigured(r) \/ Abort(r) PROVE AlertsInv'
  BY <1>2, <1>5 DEF NotConfigured, Abort
<1>6. ASSUME NEW r \in Requests, NEW s \in ScanIds, CreateScan(r, s) PROVE AlertsInv'
  BY <1>2, <1>6 DEF CreateScan
<1>7. CASE SaveSettings \/ Restart
  BY <1>3, <1>7 DEF SaveSettings, Restart
<1>8. ASSUME NEW v \in Versions, OthersConfigure(v) PROVE AlertsInv'
  BY <1>2, <1>8 DEF OthersConfigure
<1>9. ASSUME NEW s \in ScanIds, StartScan(s) \/ Ingest(s) \/ FailScan(s) PROVE AlertsInv'
  BY <1>2, <1>9 DEF StartScan, Ingest, FailScan
<1>10. ASSUME NEW s \in ScanIds, CommitScan(s) PROVE AlertsInv'
  BY <1>10, EnqueueStep DEF CommitScan
<1>11. ASSUME NEW s \in ScanIds, LoseTask(s) PROVE AlertsInv'
  BY <1>3, <1>11 DEF LoseTask
<1>12. CASE Tick
  BY <1>1, <1>12 DEF Tick, dispatch
<1>13. CASE AlertsNext
  <2>1. ASSUME NEW w \in Targets, NEW entry, Edit(w, entry) PROVE AlertsInv'
    BY <1>3, <2>1 DEF Edit
  <2>2. ASSUME NEW t \in Tests, NEW k \in Sinks, QueueTestAlert(t, k) PROVE AlertsInv'
    BY <2>2, EnqueueStep DEF QueueTestAlert
  <2> QED
    BY <1>13, <2>1, <2>2, ClaimStep, DispatchSteps
    DEF AlertsNext, AddWatchlistEntry, RemoveWatchlistEntry, ToggleWatchlistChannel
<1>14. CASE UNCHANGED vars
  BY <1>2, <1>14 DEF vars
<1> QED
  BY <1>4, <1>5, <1>6, <1>7, <1>8, <1>9, <1>10, <1>11, <1>12, <1>13, <1>14 DEF Next, Carry

(* dispatch_next_alert: whatever dispatchers run, die and come back, a     *)
(* sink receives an alert at most once per attempt that is written down or *)
(* was cut off, and _MAX_ATTEMPTS attempts are what a row gets.            *)
THEOREM SendsCountedHolds == Spec => []SendsCounted
<1>1. AlertsInv => SendsCounted
  BY DEF AlertsInv
<1>2. Init => AlertsInv
  BY AlertsInvInit DEF Init
<1> QED BY <1>1, <1>2, AlertsInvStep, PTL DEF Spec

-----------------------------------------------------------------------------
(* The client of the vendor's API.                                         *)
USE LimitsAssumption, ClosedAssumption

(* The inductive invariant holds initially.                                *)
LEMMA ClientInvInit == ClientInit => ClientInv
BY DEF ClientInit, ClientInv, BucketInv, Filled, Capacity, LateInv, LateOnce

(* The bucket: time flows in once, whoever looks and however often, and a  *)
(* token that is taken empties it.                                         *)
LEMMA BucketStep == BucketInv /\ [ClientNext]_clientVars => BucketInv'
<1> SUFFICES ASSUME BucketInv, [ClientNext]_clientVars PROVE BucketInv'
  OBVIOUS
<1> USE DEF BucketInv, Filled, Capacity
<1>1. CASE Clock
  BY <1>1 DEF Clock, Capped
<1>2. ASSUME NEW t \in Tasks, TakeToken(t) PROVE BucketInv'
  BY <1>2 DEF TakeToken
<1>3. ASSUME NEW t \in Tasks, Sleep(t) PROVE BucketInv'
  BY <1>3 DEF Sleep, history
<1>4. CASE UNCHANGED <<bucket, sinceToken>>
  BY <1>4 DEF bucket
<1> QED
  BY <1>1, <1>2, <1>3, <1>4
     DEF ClientNext, clientVars, history, Service, Quiet, query, _request_page, _send, Refuse, Allow,
         Enter, Page, Reject, Abandon, Fail

(* A step of one task that neither sends nor closes the circuit.           *)
LEMMA ClientQuietStep ==
    ASSUME LateInv, NEW t \in Tasks, NEW s \in {"idle", "check", "sending"},
           step' = [step EXCEPT ![t] = s], late' = late, open = Closed \/ open' # Closed
    PROVE  LateInv'
BY DEF LateInv, LateOnce

(* The circuit closes, and one task moves on.                              *)
LEMMA ClientCloseStep ==
    ASSUME LateInv, NEW t \in Tasks, NEW s \in {"idle", "check", "pacing"},
           step' = [step EXCEPT ![t] = s], Close
    PROVE  LateInv'
BY DEF LateInv, LateOnce, Close

(* A request goes out.                                                     *)
LEMMA ClientStartStep ==
    ASSUME LateInv, NEW t \in Tasks, step[t] \in {"pacing", "queued"}, Start(t), open' = open
    PROVE  LateInv'
<1>1. late[t] = 0
  BY DEF LateInv
<1> QED BY <1>1 DEF LateInv, LateOnce, Start, Goto

(* Late requests: to send again a task has to pass the check, which        *)
(* refuses it or closes the circuit.                                       *)
LEMMA LateStep == LateInv /\ [ClientNext]_clientVars => LateInv'
<1> SUFFICES ASSUME LateInv, [ClientNext]_clientVars PROVE LateInv'
  OBVIOUS
<1> USE DEF circuit, history, Goto
<1>1. CASE Clock
  BY <1>1 DEF Clock, LateInv, LateOnce
<1>2. CASE Service \/ Quiet \/ UNCHANGED clientVars
  BY <1>2 DEF Service, Quiet, clientVars, LateInv, LateOnce
<1>3. ASSUME NEW t \in Tasks, query(t) \/ Refuse(t) \/ Abandon(t) PROVE LateInv'
  BY <1>3, ClientQuietStep DEF query, Refuse, Abandon
<1>4. ASSUME NEW t \in Tasks, Fail(t) PROVE LateInv'
  BY <1>4, ClientQuietStep DEF Fail
<1>5. ASSUME NEW t \in Tasks, Allow(t) PROVE LateInv'
  <2>1. CASE open = 0 /\ Close
    BY <1>5, <2>1, ClientCloseStep DEF Allow
  <2>2. CASE open = Closed /\ UNCHANGED <<circuit, late>>
    BY <1>5, <2>2 DEF Allow, LateInv, LateOnce
  <2> QED BY <1>5, <2>1, <2>2 DEF Allow
<1>6. ASSUME NEW t \in Tasks, Page(t) \/ Reject(t) PROVE LateInv'
  BY <1>6, ClientCloseStep DEF Page, Reject
<1>7. ASSUME NEW t \in Tasks, TakeToken(t) PROVE LateInv'
  <2>1. CASE Start(t)
    BY <1>7, <2>1, ClientStartStep DEF TakeToken
  <2>2. CASE step' = [step EXCEPT ![t] = "queued"] /\ late' = late
    BY <1>7, <2>2 DEF TakeToken, LateInv, LateOnce
  <2> QED BY <1>7, <2>1, <2>2 DEF TakeToken
<1>8. ASSUME NEW t \in Tasks, Sleep(t) PROVE LateInv'
  BY <1>8 DEF Sleep, LateInv, LateOnce
<1>9. ASSUME NEW t \in Tasks, Enter(t) PROVE LateInv'
  BY <1>9, ClientStartStep DEF Enter
<1> QED
  BY <1>1, <1>2, <1>3, <1>4, <1>5, <1>6, <1>7, <1>8, <1>9 DEF ClientNext, _request_page, _send

(* The inductive invariant of the client: what the bucket holds and what   *)
(* is still to flow in are no more than the time since the last token, and *)
(* who has sent late sends no more.                                        *)
THEOREM ClientInvariance == ClientSpec => []ClientInv
<1>1. ClientInv /\ [ClientNext]_clientVars => ClientInv'
  BY BucketStep, LateStep DEF ClientInv
<1> QED BY ClientInvInit, <1>1, PTL DEF ClientSpec

(* TokenBucket.acquire: two tokens are an interval apart, for any number   *)
(* of tasks that look, sleep and wake in any order.                        *)
THEOREM TokensHold == ClientSpec => TokensPaced
<1>1. ClientInv /\ [ClientNext]_clientVars =>
          [\A t \in Tasks :
             step[t] = "pacing" /\ step'[t] \in {"queued", "sending"} => sinceToken >= Interval]_clientVars
  <2> SUFFICES ASSUME ClientInv, ClientNext, NEW t \in Tasks, step[t] = "pacing",
                      step'[t] \in {"queued", "sending"}
               PROVE  sinceToken >= Interval
    OBVIOUS
  <2>1. step \in [Tasks -> {"idle", "check", "pacing", "queued", "sending"}]
    BY DEF ClientInv, LateInv
  <2>2. TakeToken(t)
    BY <2>1 DEF ClientNext, Clock, Service, Quiet, query, _request_page, _send, Refuse, Allow, Sleep,
                TakeToken, Enter, Start, Page, Reject, Abandon, Fail, Goto
  <2> QED BY <2>2 DEF TakeToken, ClientInv, BucketInv, Filled, Capacity
<1> QED BY <1>1, ClientInvariance, PTL DEF ClientSpec, TokensPaced

(* _request_page: while the circuit is open a task sends at most once.     *)
THEOREM LateOnceHolds == ClientSpec => []LateOnce
<1>1. ClientInv => LateOnce
  BY DEF ClientInv, LateInv
<1> QED BY ClientInvariance, <1>1, PTL
=============================================================================
