-------------------------------- MODULE Scans -------------------------------
(***************************************************************************)
(* Checks a person starts in the browser (src/app/routers/analyst.py       *)
(* run_analyst_scan, src/app/routers/user.py self_check) and the background*)
(* task that carries them out in the web process (src/app/scan_runtime.py  *)
(* execute_scan, src/app/scans.py run_scan), of one actor and one subject, *)
(* with the alerts they queue (module Alerts).                             *)
(*                                                                         *)
(* A scan finds at most one new record; the finding has the scan's name.   *)
(* Ages are the time since started_at, up to the cooldown.                 *)
(***************************************************************************)
EXTENDS Alerts

CONSTANTS
    Requests,    \* requests under way at a time
    Clients,     \* client objects; there are more than scans
    Cooldown,    \* SELF_CHECK_COOLDOWN_SECONDS
    Broken       \* versions of the client's settings no client can be built from

ScanIds == Findings  \* numbered in the order of the rows
Triggers == {"manual", "self"}
Versions == 0..MaxEvents
NotStarted == Cooldown + 1
ClientObjects == [name : Clients, version : Nat]
Rows == [trigger : Triggers, status : {"pending", "running", "succeeded", "failed"}, age : Nat]

ASSUME ScanIdsAssumption == ScanIds \subseteq Nat
ASSUME ClientsAssumption ==
    Clients # {} /\ \A held \in [ScanIds -> Clients] : \E n \in Clients : \A s \in ScanIds : held[s] # n
ASSUME CooldownAssumption == Cooldown \in Nat \ {0}
ASSUME BrokenAssumption == Broken \subseteq Versions
ASSUME NoScanAssumption == None \notin Rows \cup Nat \cup ClientObjects

VARIABLES
    stage,    \* where each request stands
    trigger,  \* of the scan it asks for
    values,   \* the version of the settings it has read
    config,   \* the committed version of the settings
    cached,   \* app.state.leakcheck_client: an object and its settings
    digest,   \* app.state.leakcheck_client_config_digest
    linked,   \* is the subject linked to the actor's account?
    scan,     \* rows of scans; None before
    task,     \* where the background task stands; "none" without one
    client,   \* the client it was handed
    asked,    \* history: the version of the settings its request read
    epoch,    \* history: scans under way that got their client since the
              \* settings were last saved or a request came with older ones
    found,    \* outbox keys its open transaction has queued
    lost      \* history: scans whose task was lost

request == <<stage, trigger, values>>
shared == <<cached, digest>>
tasks == <<task, client, asked, epoch, found, lost>>
vars == <<request, config, shared, linked, scan, tasks, alertVars>>

Init ==
    /\ AlertsInit
    /\ stage = [r \in Requests |-> "idle"]
    /\ trigger = [r \in Requests |-> "manual"]
    /\ values = [r \in Requests |-> 0]
    /\ config = 0
    /\ cached = None
    /\ digest = None
    /\ linked = FALSE
    /\ scan = [s \in ScanIds |-> None]
    /\ task = [s \in ScanIds |-> "none"]
    /\ client = [s \in ScanIds |-> None]
    /\ asked = [s \in ScanIds |-> 0]
    /\ epoch = {}
    /\ found = [s \in ScanIds |-> {}]
    /\ lost = {}

-----------------------------------------------------------------------------
Exists(s) == scan[s] # None
Active(s) == Exists(s) /\ scan[s].status \in {"pending", "running"}
SelfScans == {s \in ScanIds : Exists(s) /\ scan[s].trigger = "self"}

(* _active_self_scan, _latest_self_scan and cooldown_remaining; the analyst*)
(* page looks for any active scan of the actor, and knows no cooldown.     *)
MayScan(kind) ==
    IF kind = "manual" THEN \A s \in ScanIds : ~Active(s)
    ELSE \A s \in SelfScans : ~Active(s) /\ scan[s].age >= Cooldown

(* Variant for mutation: the requests of an actor do not wait for another. *)
NoAdvisoryLock(r) == TRUE
(* pg_advisory_xact_lock(actor_scan_lock(...)).                            *)
ActorLockFree(r) == \A o \in Requests \ {r} : stage[o] = "idle"

(* The lock is taken, no check stands in the way, and configured_client    *)
(* reads the settings.  A refused request (409, 422, 429) changes nothing. *)
Admit(r, kind) ==
    /\ stage[r] = "idle"
    /\ ActorLockFree(r)
    /\ MayScan(kind)
    /\ stage' = [stage EXCEPT ![r] = "read"]
    /\ trigger' = [trigger EXCEPT ![r] = kind]
    /\ values' = [values EXCEPT ![r] = config]
    /\ UNCHANGED <<config, shared, linked, scan, tasks, alertVars>>

(* resolve_subject binds the subject to the actor on a self-check.         *)
ResolveSubject(r) == linked' = (linked \/ trigger[r] = "self")

(* A client object that no task holds.                                     *)
NewClient == CHOOSE n \in Clients : \A s \in ScanIds : task[s] # "none" => client[s].name # n

(* Variant for mutation: the cached client is kept whatever was saved.     *)
NeverStale(v) == cached # None
(* The digest of the settings is that of the cached client.                *)
SameDigest(v) == cached # None /\ digest = v

(* The rest of configured_client, under leakcheck_client_lock: whoever     *)
(* finds another digest builds a client of the settings it has read.       *)
ConfiguredClient(v) ==
    /\ cached' = IF SameDigest(v) THEN cached ELSE [name |-> NewClient, version |-> v]
    /\ digest' = IF SameDigest(v) THEN digest ELSE v

(* A request of somebody else gets its client: it may have read the        *)
(* settings long ago.                                                      *)
OthersConfigure(v) ==
    /\ v \in 0..config \ Broken
    /\ ConfiguredClient(v)
    /\ epoch' = IF v = config THEN epoch ELSE {}
    /\ UNCHANGED <<request, config, linked, scan, task, client, asked, found, lost, alertVars>>

Done(r) ==
    /\ stage' = [stage EXCEPT ![r] = "idle"]
    /\ trigger' = [trigger EXCEPT ![r] = "manual"]
    /\ values' = [values EXCEPT ![r] = 0]

(* No client can be built: 503, and the subject and the audit event stay.  *)
NotConfigured(r) ==
    /\ stage[r] = "read"
    /\ values[r] \in Broken
    /\ ResolveSubject(r)
    /\ Done(r)
    /\ UNCHANGED <<config, shared, scan, tasks, alertVars>>

(* The client is configured, the row is committed, which releases the lock,*)
(* and the task is handed over.                                            *)
CreateScan(r, s) ==
    /\ stage[r] = "read"
    /\ values[r] \notin Broken
    /\ ~Exists(s) /\ \A o \in ScanIds : ~Exists(o) => s <= o
    /\ scan' = [scan EXCEPT ![s] =
                   [trigger |-> trigger[r], status |-> "pending", age |-> NotStarted]]
    /\ task' = [task EXCEPT ![s] = "queued"]
    /\ ConfiguredClient(values[r])
    /\ client' = [client EXCEPT ![s] = cached']
    /\ asked' = [asked EXCEPT ![s] = values[r]]
    /\ epoch' = IF values[r] = config THEN epoch \cup {s} ELSE {}
    /\ ResolveSubject(r)
    /\ Done(r)
    /\ UNCHANGED <<config, found, lost, alertVars>>

(* The request's transaction fails.                                        *)
Abort(r) ==
    /\ stage[r] # "idle"
    /\ Done(r)
    /\ UNCHANGED <<config, shared, linked, scan, tasks, alertVars>>

(* A super-admin saves the settings of the client.                         *)
SaveSettings ==
    /\ Event
    /\ config' = config + 1
    /\ epoch' = {}
    /\ UNCHANGED <<request, shared, linked, scan, task, client, asked, found, lost, watch, outbox, dispatch>>

-----------------------------------------------------------------------------
(* execute_scan up to its first commit; run_scan then takes the time once  *)
(* more, at the same instant at this resolution, and asks LeakCheck.       *)
StartScan(s) ==
    /\ task[s] = "queued"
    /\ scan' = [scan EXCEPT ![s].status = "running", ![s].age = 0]
    /\ task' = [task EXCEPT ![s] = "querying"]
    /\ UNCHANGED <<request, config, shared, linked, client, asked, epoch, found, lost, alertVars>>

(* The answer is ingested and the scan completed; the fan-out of a new     *)
(* finding runs in a savepoint, and its failure is logged and forgotten.   *)
Ingest(s) ==
    /\ task[s] = "querying"
    /\ task' = [task EXCEPT ![s] = "ingested"]
    /\ \E keys \in {{}, {s} \X Wanted(linked)} : found' = [found EXCEPT ![s] = keys]
    /\ UNCHANGED <<request, config, shared, linked, scan, client, asked, epoch, lost, alertVars>>

EndTask(s) ==
    /\ task' = [task EXCEPT ![s] = "none"]
    /\ client' = [client EXCEPT ![s] = None]
    /\ asked' = [asked EXCEPT ![s] = 0]
    /\ epoch' = epoch \ {s}
    /\ found' = [found EXCEPT ![s] = {}]

CommitScan(s) ==
    /\ task[s] = "ingested"
    /\ scan' = [scan EXCEPT ![s].status = "succeeded"]
    /\ EnqueueAlert(found[s])
    /\ EndTask(s)
    /\ UNCHANGED <<request, config, shared, linked, lost, watch, events, attempts, wait, dispatch>>

(* Variant for mutation: the rollback is all a failure leads to.           *)
OnlyRolledBack(s) == scan[s]
(* What the handler of execute_scan writes after the rollback.             *)
FailedScan(s) == [scan[s] EXCEPT !.status = "failed"]

(* LeakCheck or the ingest fails.                                          *)
FailScan(s) ==
    /\ task[s] = "querying"
    /\ scan' = [scan EXCEPT ![s] = FailedScan(s)]
    /\ EndTask(s)
    /\ UNCHANGED <<request, config, shared, linked, lost, alertVars>>

(* A task ends with nothing written: the database failed outside the try   *)
(* block, where the last commit is, or in its handler.                     *)
LoseTask(s) ==
    /\ Event
    /\ task[s] # "none"
    /\ EndTask(s)
    /\ lost' = lost \cup {s}
    /\ UNCHANGED <<request, config, shared, linked, scan, watch, outbox, dispatch>>

(* The web process restarts: requests, tasks and the cached client go, the *)
(* rows stay.                                                              *)
Restart ==
    /\ Event
    /\ lost' = lost \cup {s \in ScanIds : task[s] # "none"}
    /\ stage' = [r \in Requests |-> "idle"]
    /\ trigger' = [r \in Requests |-> "manual"]
    /\ values' = [r \in Requests |-> 0]
    /\ cached' = None
    /\ digest' = None
    /\ task' = [s \in ScanIds |-> "none"]
    /\ client' = [s \in ScanIds |-> None]
    /\ asked' = [s \in ScanIds |-> 0]
    /\ epoch' = {}
    /\ found' = [s \in ScanIds |-> {}]
    /\ UNCHANGED <<config, linked, scan, watch, outbox, dispatch>>

-----------------------------------------------------------------------------
Older(age) == IF age < Cooldown THEN age + 1 ELSE age

Tick ==
    /\ scan' = [s \in ScanIds |-> IF Exists(s) THEN [scan[s] EXCEPT !.age = Older(@)] ELSE None]
    /\ WaitLess
    /\ UNCHANGED <<request, config, shared, linked, tasks, watch, events, alert, attempts, dispatch>>

Carry(s) == StartScan(s) \/ Ingest(s) \/ CommitScan(s) \/ FailScan(s)

Next ==
    \/ \E r \in Requests :
        \/ \E kind \in Triggers : Admit(r, kind)
        \/ NotConfigured(r) \/ Abort(r)
        \/ \E s \in ScanIds : CreateScan(r, s)
    \/ SaveSettings
    \/ \E v \in Versions : OthersConfigure(v)
    \/ \E s \in ScanIds : Carry(s) \/ LoseTask(s)
    \/ Restart
    \/ Tick
    \/ AlertsNext /\ UNCHANGED <<request, config, shared, linked, scan, tasks>>

(* A background task runs on as long as its process does: the event loop   *)
(* schedules it, and the client's timeouts end a query without an answer.  *)
Spec == Init /\ [][Next]_vars /\ \A s \in ScanIds : WF_vars(Carry(s))
-----------------------------------------------------------------------------
(* The advisory lock makes the look at the rows and the insert one step:   *)
(* whatever requests and tasks overlap, an actor's self-check starts only  *)
(* when no other is under way and a cooldown after the last one started,   *)
(* and the scans under way are at most one of each trigger.  (The session  *)
(* check's FOR UPDATE on the actor's users row serialises one actor's      *)
(* requests too; it is not relied on here.)                                *)
SelfChecksSpaced ==
    [][/\ \A s \in SelfScans :
            scan[s].status = "pending" /\ scan'[s].status = "running" =>
                \A o \in SelfScans \ {s} : ~Active(o) /\ scan[o].age >= Cooldown
       /\ \A s, o \in ScanIds : Active(s)' /\ Active(o)' /\ scan'[s].trigger = scan'[o].trigger => s = o]_vars

(* "a process-shared client refreshed whenever encrypted settings change"  *)
(* (configured_client), though requests install clients out of order: a    *)
(* scan under way has a client of exactly the settings its request read,   *)
(* and scans that read the settings in force have one client between them, *)
(* hence one bucket and one circuit, until the settings are saved again or *)
(* a request comes late with older ones.                                   *)
OneClient ==
    /\ \A s \in ScanIds : task[s] # "none" => client[s].version = asked[s]
    /\ \A s, o \in epoch : client[s] = client[o]

(* A scan ends, succeeded or failed, unless its task was lost.  One that   *)
(* was lost is never ended by anything.                                    *)
ScansEnd == \A s \in ScanIds : Active(s) ~> (~Active(s) \/ s \in lost)
-----------------------------------------------------------------------------
(* The inductive invariant behind the safety properties.                   *)
TypeOK ==
    /\ stage \in [Requests -> {"idle", "read"}]
    /\ trigger \in [Requests -> Triggers]
    /\ values \in [Requests -> Nat]
    /\ config \in Nat
    /\ scan \in [ScanIds -> Rows \cup {None}]
    /\ task \in [ScanIds -> {"none", "queued", "querying", "ingested"}]

(* The row of a task that has begun is running, of one that has not is     *)
(* pending.                                                                *)
TaskInv ==
    \A s \in ScanIds :
        /\ task[s] # "none" => Exists(s)
        /\ task[s] = "queued" => scan[s].status = "pending"
        /\ task[s] \in {"querying", "ingested"} => scan[s].status = "running"

(* Only one request has passed the advisory lock, and what it saw of the   *)
(* scans still holds.                                                      *)
AdmitInv ==
    \A r \in Requests : stage[r] = "read" =>
        /\ MayScan(trigger[r])
        /\ \A o \in Requests \ {r} : stage[o] = "idle"

(* One scan of each trigger is under way; and a self-check that waits to   *)
(* start has no other beside it nor one that started just now.             *)
SpacedInv ==
    /\ \A s, o \in ScanIds : Active(s) /\ Active(o) /\ scan[s].trigger = scan[o].trigger => s = o
    /\ \A s \in SelfScans : scan[s].status = "pending" =>
           \A o \in SelfScans \ {s} : ~Active(o) /\ scan[o].age >= Cooldown

IInv ==
    /\ TypeOK
    /\ TaskInv
    /\ AdmitInv
    /\ SpacedInv

(* The clients: the digest tells the settings of the cached client, which  *)
(* is the one that the scans of the epoch have.                            *)
SharedInv ==
    /\ cached \in ClientObjects \cup {None}
    /\ client \in [ScanIds -> ClientObjects \cup {None}]
    /\ asked \in [ScanIds -> Nat]
    /\ epoch \subseteq {s \in ScanIds : task[s] # "none"}
    /\ cached # None => cached.version = digest
    /\ \A s \in ScanIds : task[s] # "none" => client[s] # None /\ client[s].version = asked[s]
    /\ \A s \in epoch : cached # None /\ client[s] = cached /\ digest = config
=============================================================================
