# LeakCheck Hub: a verification project

LeakCheck Hub is a FastAPI portal over PostgreSQL. Analysts and users ask it to
look people up in a breach-data vendor's API; what comes back becomes
*findings*, which are closed, reopened, re-leaked and finally deleted. Batches
of lookups are drained by worker processes from a table used as a queue. All
coordination (between web requests, background tasks, and any number of worker
processes) goes through PostgreSQL row locks at READ COMMITTED, so the
correctness of the program is the correctness of what its transactions may
read while others are half done. That is what this project models.

## Inventory

| Component | State | Operations | What must hold |
|---|---|---|---|
| Batch queue (`batches.py`, `routers/batches.py`) | `scan_batches`, `scan_queue` | `create_batch`, `claim_next`, `finish_work` | claims are exclusive while fresh; a batch gets one right verdict; every row settles |
| Worker (`worker.py`, supervisor in `main.py`) | one claimed row, one client | dispatch schedules, deliver mail, purge, claim, scan, finish; crash, restart | work survives a crash at any step |
| Scan execution (`scan_runtime.py`, `scans.py`, `routers/analyst.py`, `routers/user.py`) | `scans`, `subjects`, the process's cached client | admit, `resolve_subject`, `configured_client`, `execute_scan`, `run_scan`; restart | a scan ends; it runs with settings in force; self-checks keep their cooldown |
| Ingest (`ingest.py`) | `breach_sources`, `findings`, `finding_events` | upsert, re-leak link | one finding per record; one successor per finding |
| Remediation (`remediation.py`, routers) | `findings.remediated_at`, events | remediate, unremediate, reveal password | the event trail tells the state |
| Retention (`retention.py`) | policy settings | `purge_expired_findings` | deletes what has expired and nothing open |
| Notifications (`notifications.py`) | `notifications` | enqueue, `deliver_next` | one mail per notification; the cooldown between a user's mails; nothing waits for ever |
| Alerts, watchlist (`alerts.py`, `routers/watchlist.py`) | `alert_outbox`, `watchlist` | add, remove, toggle, fan-out, test alert, `dispatch_next_alert` | bounded attempts, each received at most once; dead letters |
| Schedules (`scheduling.py`, `routers/schedules.py`) | `schedules` | `dispatch_due_schedules`, create, toggle, delete | one dispatch per occurrence, in order, and none while off |
| LeakCheck client (`leakcheck.py`) | token bucket, semaphore, circuit | query with retries | rate and concurrency limits |
| Sessions, accounts (`auth/session.py`, `auth/authorization.py`, `routers/admin.py`, `google_workspace.py`) | `users`, `sessions` | issue, verify, revoke, update, sync | no access after revocation; somebody can administer |
| Local login (`auth/local.py`, `routers/auth.py`) | `admin_credentials`, `admin_login_rate_limits` | sign in, change password, enrol in MFA | guesses are paced; only current factors count; locks end |
| Google login, CSRF (`auth/google.py`, `auth/csrf.py`, `routers/auth.py`) | `users.google_sub`, the browser's cookies | start, callback, provision, log out | a session goes to the person who consented, in the browser that asked |
| Settings, crypto, bootstrap (`platform_settings.py`, `finding_crypto.py`, `reencrypt.py`, `bootstrap_*.py`) | secret files, three encrypted stores, roles and revision | create secrets, set up, migrate, encrypt, rotate | creation and rotation are all or nothing; the stack comes up again |
| Pages, audit, branding, normalization | none of their own | | not modelled, see the end |

How they interact: the worker's loop calls schedules, notifications, retention,
the queue and scan execution in turn, each in a transaction of its own; scan
execution calls ingest and then, in a savepoint, the fan-out to notifications
and alerts; web requests share one transaction per request with the session
check that guards them. There are no messages other than rows.

What is hard here: a `SELECT` that decides and an `UPDATE` or `DELETE` that
acts are different statements of a transaction and others commit in between;
locks are held by long transactions (a scan's) and by guards (a session check
locks its user); a clock is read before a lock is waited for and used after; a
worker, a background task or a container dies between any two steps; a claim
outlives its time limit; a browser's tabs share one cookie jar and answers
overtake each other. `PROJECT.json` lists these as hazards, each at its line.

## Modules

**`BatchQueue`** models the queue and the worker's loop around it. A queue row is
its unique pair (batch, subject); `status`, `lockedBy`, `age` (now minus
`locked_at`, in ticks) are its columns. A worker's `step` is its place in the
loop body of `run()`. `claim_next` takes one decision under one row lock and
commits, so it is one action, as is each transaction of `execute_scan`.
`finish_work` is not: its UPDATE (`FinishRow`), its counting SELECT
(`CountRows`) and its UPDATE of the batch with the COMMIT (`CommitFinish`) are
three actions; `wrote` and `tally` are the open transaction's private state,
`Locked` its row lock, `Seen` what READ COMMITTED shows it. `Crash` may happen
at any step and rolls back; `MissingKey` is the crash the missing API key causes
after the claim. `held` and `scanned` are history variables: how long a worker
has been on its work, and how scans of a row have ended. `create_batch`'s
target types are abstracted to the set of active users they match;
`total_count` counts users, the rows deduplicated subjects, as in the code.

**`BatchLedger`** is the abstract specification: a batch opens with its subjects
fixed, each gets one outcome once, the batch one right verdict once.
`BatchQueue` implements it under the mapping `Ledger`.

**`BatchQueueProofs`** holds the theorems; see below.

**`Findings`** models a finding's life. A vendor record stands for its
fingerprint, `GroupOf` for the subject, identity key and source name that make
two records re-leaks of each other. Each scan's transaction keeps what it has
inserted, updated and linked apart until it commits, and locks what it updated
or selected FOR UPDATE. `KeysFree` is the wait of an INSERT for an uncommitted
row with the same unique key. A statement that waits for a lock is disabled
until it is free, and then decides from the state it finds. A cycle of waiting
scans is a deadlock, which PostgreSQL breaks by aborting one: `AbortScan`, which
is also any other failure. The retention pass is three actions (`PurgeSelect`,
`PurgeEvents`, `PurgeFindings` or `PurgeFails`) because nothing is locked by its
SELECT, which takes any `Limit` of the expired findings: the code's LIMIT has no
ORDER BY. So a page may hold a re-leak and not the finding it supersedes, and the
foreign key then refuses the whole pass (`Blocked`), as it does when that finding
was reopened. Analysts' requests lock one finding and are one action each.

**`FindingsProofs`** holds the theorems; see below.

**`Accounts`** models accounts, roles and sessions. `role`, `active` and `synced`
are the columns of `users`, `owner`, `revoked` and `expired` those of
`sessions`. A request is one transaction (`get_db_session`): it is idle, signing
in, past the session check (`signed`, or `admin` with the role), or has decided
an update. `UserLocks` and `token` are the rows it has locked:
`SessionManager.verify` selects the session and its user FOR UPDATE,
`provision_google_user` and `authenticate` the account, `update_user` its
target. As in `Findings`, a statement that needs a row somebody else has locked
is disabled, and decides from the state it finds when the lock is granted. Each
handler is one action after the check, except `update_user`, which reads
(`DecideUpdate`) and writes (`CommitUpdate`), and the sign-in (`StartLogin`,
`FinishLogin`); the count of remaining administrators reads what is committed,
without a lock, as in the code. A sync is one action: it writes without reading
and holds its locks to the end. `Leave` is the end of any request that changes
nothing here, fails, or is a deadlock's victim. `out` is a history variable: the
account was deactivated, then signed out, and not reactivated since. An account
is its email; changing the email of a linked Google account is left out.
`directory` says whether a Workspace directory is configured; it does not change
during a behaviour.

**`AccountsProofs`** holds the theorems; see below.

**`Notifications`** models the mail outbox. A notification is its deduplication
key, of which `UserOf` gives the user; `status`, `created` and `sentAt` are its
columns. `deliver_next` is one transaction of four or five steps: `Begin` reads
the clock, `Claim` locks the oldest pending notification and its user, both free
(`Claimable`), the settings and the count of recent mails decide (`DryRun`,
`Suppress`, `Proceed`), `Send` is the SMTP conversation, `Record` the commit. The
settings are read and the count is taken in one step with the decision, because
both are reads and the rows they depend on are locked, or may change before or
after. `Occupy` and `Release` are the other transactions that lock a users row:
every authenticated request does. `mails` is a history variable: what the relay
took. A failing `send` may have delivered its mail or not. There is one clock:
workers on hosts whose clocks disagree are not modelled. `cooldown` does not
change during a run, and the `attempts` counter, which nothing reads, is left out.

**`Schedules`** models recurring work. `FirstFrom` is the cron library, of which
only `FirstFrom[c][t] >= t` is assumed. `dispatch_due_schedules` is three steps:
`Begin` reads the clock, `Follow` or `Lead` asks for the advisory lock and locks
the due rows, `Dispatch` is the loop with its commit. Nothing of the loop is
visible before the commit, so it is one action, and `Crash` before it undoes it
all. `fired` is a history variable: the occurrences a schedule has dispatched;
what a dispatch creates is `CreateBatch` of `BatchQueue` or `Enqueue` of
`Notifications`. A dispatch may also fail with a `ValueError`, which is recorded
and leaves no trace in `fired`. A schedule that is deleted does not come back:
ids are not used again.

**`LeakCheckClient`** models the vendor client that the scans of a web process
share (`configured_client`). A task's `step` is its place in `_request_page`:
`Refuse` or `Allow` is `_ensure_circuit_available`, `TakeToken` or `Sleep` one
round of `TokenBucket.acquire`, `Enter` the semaphore's turn, and an attempt ends
as a `Page`, a `Reject`, a `Fail` or, with neither success nor failure recorded,
an `Abandon`. Time is kept as what is left of each delay. The bucket is filled
lazily, as in the code: `tokens` is `_tokens` in ticks of filling (a token is
`Interval` of them), `elapsed` the time since `_updated_at`, and whoever looks,
to take a token or to sleep, adds what has flowed in and resets the clock
(`Filled`); `sinceToken` is kept apart, by the clock alone. Rounding of floats is
left out.
`up` is the service, `accepting` whether anybody starts scans; `sinceToken`,
`sinceSend` and `late` are history variables. What an answer contains is
abstracted to whether it is one, and whether a domain query has another page. A
client that is replaced because the settings changed, and the client of another
process, keep limits of their own: the model is of one client.

**`NotificationsProofs`, `SchedulesProofs`** hold the theorems; those of the client are
in `ScansProofs`. See below.

**`LocalLogin`** models the password sign-in of local administrators with its two
throttles, the change of password and the MFA enrolment. `cred`, `failed` and
`locked` are the columns of `admin_credentials`, `bucket` the row of
`admin_login_rate_limits` of an address. A sign-in reads the clock (`BeginLogin`),
waits for the bucket (`LoadIpLimit`) and for the account's rows (`Load`,
`StillLocked`, `NoSuchAdmin`), and only then judges (`WrongFactors`, `SignIn`):
`age` is how old its clock reading is by then. The three account pages lock the
account's rows too and are two actions, so that everything else may happen
between what they read (`seen`) and what they write. Times are kept as what is
left of them, so time needs no bound; `MaxWait` bounds how long a request may
last. A code of the authenticator is its seed and its distance from the present
in periods. The session a sign-in issues and the check that guards the pages are
in `Accounts`. `shown` and `recent` are history variables.

**`LoginProofs`** holds the theorems of `LocalLogin` and of `GoogleLogin`; see below.

**`GoogleLogin`** models the OAuth sign-in from the browser's side. The jar holds
the session, the CSRF token (as the session it is bound to) and the transaction
cookie; a tab's request carries the jar as it was when it was sent, `Arrive`
applies the answer's cookies, answers arrive in any order, and `Lose` is one that
never does. `CloseBrowser` drops the CSRF token, the only cookie without a
`max_age`; the session stays and its POSTs are refused until a page has fetched
another token from `/auth/csrf`. `SessionExpires` ends a session with its cookie,
`SessionEnds` one that is revoked elsewhere or idle, whose cookie stays. A callback comes
with a state of this browser or of another (`Own`, `Foreign`) and may be resent;
`TransactionValid`, `ExchangeAndVerify`, `FindBySubject` and `GoogleSignIn` are the steps
of `finish_google_login` and `provision_google_user`, with the row found by
subject locked and the one found by email not yet. `Sync` upserts by email, as
the directory has it at that moment, and `Move` reassigns an address. Google's
part (`Consent`, codes redeemed once) is external. The history variables are
`quiet` (never two requests at once), `closed` (the browser was closed and has received
no token since) and `astray` (the sessions whose answer was lost).
Signatures, PKCE and nonces are abstracted to whether cookie and state are of one
transaction; domains and claims that are refused to `Refuse`.

**`Alerts`** models the watchlist entries of one subject (of the subject itself and of
the user it is linked to) and the alert outbox. `alert`, `attempts` and `wait`
are its columns; a dispatcher claims a due row (`ClaimAlert`), sends, and writes
down the outcome (`Delivered`, `NotDelivered`) in the transaction that holds the
row's lock, or dies (`DispatcherDies`). A sink may have received an alert whose
delivery counts as failed. Nothing in the repository calls `dispatch_next_alert`,
so nothing is assumed about who does, and no liveness is claimed. `sends` and
`deaths` are history variables. The mail an entry may ask for is queued as in
`Notifications`.

**`Scans`** extends `Alerts` with the checks a person starts in the browser and the
background task that carries them out, for one actor and one subject. `Admit` is
the handler under its advisory lock up to `configured_client`'s read of the
settings, `CreateScan` the commit that releases the lock and hands over the task,
`NotConfigured` the 503 that keeps what was written. `config` is the version of
the saved settings. A client is an object (`ClientObjects`: its identity and the
settings it was built with); `cached` and `digest` are the process's shared client and
the digest beside it, which whoever finds another digest replaces
(`ConfiguredClient`), requests of others too and with settings they read long ago
(`OthersConfigure`). That keeps one client, hence one bucket and one circuit, for
all who read the settings in force (`epoch`), but a late request with older
settings replaces it, and from then on there are two. A task is `StartScan`,
`Ingest` with the fan-out's savepoint, `CommitScan` or `FailScan`; `LoseTask` and
`Restart` end tasks with their row as it was. `asked`, `epoch` and `lost` are
history variables. The session check's lock on the actor's users row
(`auth/session.py:105`) serialises one actor's requests as well; the model leaves
it to the advisory lock alone. A scan finds at most one new record; what ingest does with it is
`Findings`.

**`ScansProofs`** holds the theorems of `Scans`, `Alerts` and `LeakCheckClient`; see below.

**`Deployment`** models the container stack: overlapping init containers that create
the secret files with O_EXCL (`OpenSecret`, `WriteSecret`, `KeepSecret`,
`RefuseSecret`), the database's first start, the web container's wait, bootstrap
and migration, the three encrypted stores, and the rotation of the data key as
section 3 of `RUNBOOK.md` has it run: backup, rehearsal, stop, `rotate` store by
store in one transaction, install the key, or restore the backup. The runbook's
command for installing it empties the file first (`TruncateKey`) and may die
there; as meant it then writes the key (`WriteKey`), as printed a blank line
(`WriteBlank`), because `$k` stands in double quotes and the operator's own shell
expands it. `StartWeb` needs every secret: `load_bootstrap_secrets` raises on an
empty one and the container is down again. A secret is a number, new each time; a ciphertext is the key it is under. Three of the five
secret files are kept: the migrator's password and the session secret are treated
like the runtime role's. Any process may die between two steps. The operator is
assumed to follow the runbook; `BeginRotation` from `unsure` is the operator who
runs an interrupted rotation once more, `TruncateKey` from `blank` the one who
finds out why the stack is down.

**`DeploymentProofs`** holds the theorems; see below.

**`MCBatchQueue`, `MCFindings`, `MCAccounts`, `MCNotifications`, `MCSchedules`,
`MCLeakCheckClient`, `MCLocalLogin`, `MCGoogleLogin`, `MCScans`, `MCDeployment`**
give the instances TLC checks. `GoogleLogin` and `LeakCheckClient` call their
specification, variables and invariants by names of their own (`GoogleSpec`,
`ClientSpec`), so that a module of proofs can extend each together with the
component it belongs with.

## Runs

| Run | Instance | Shows |
|---|---|---|
| `queue_workers` | 2 workers, 1 batch, 3 accounts folding to 2 subjects, 1 crash, claims stale after a tick | exclusivity, sound and final outcomes and verdicts, counters that never overstate, every row settles, every batch closes unless two workers finish rows of it together; refinement of `BatchLedger` |
| `queue_shared_finish` | 2 workers, 2 accounts, no crash | **violation**: a batch two workers finish together is never closed |
| `findings` | 2 scans of 3 records of one identity while findings are kept; 1 scan of 2 records, 2 incarnations, and 1 retention pass with pages of one finding while they are deleted | a re-leak is linked to one predecessor of its identity, once; chains end; trails agree; remediated findings are deleted unless the foreign key blocks the passes |
| `accounts` | 3 accounts, 2 sessions, 2 requests, with and without a directory that lists or suspends one account, or lists none | authority lasts as long as the request; offboarding leaves no live session; without a directory an administrator always remains |
| `notifications` | 2 workers, 2 notifications of one user, cooldown 2, 3 clock readings, 1 crash | the cooldown is kept; one mail per notification but for the crash; no notification waits for ever |
| `schedules` | 2 schedules, 2 workers, grace 1, 4 clock readings, 1 crash | each occurrence once, in order, none while off; a due schedule is dealt with and moves on |
| `client` | 2 scans, 1 at a time, a token every 3 ticks, 1 retry, 2 pages, 2 failures open the circuit for 3 ticks | tokens are spaced; an open circuit lets a task send once at most; it stops refusing when the service is back; every query ends |
| `local_login` | 2 requests, 1 administrator and 1 unknown name, 1 address, 2 failures lock for 2 ticks, 3 block the address, requests of up to 1 tick | wrong guesses are paced however old the clock reading; only current factors sign in or change a password; every MFA page shows the seed that counts; locks end |
| `google_login` | 2 tabs, 2 transactions of this browser and 1 of another, 2 subjects, 2 addresses, both listed at first, 2 rows, 1 reassignment; any number of lost answers, closings and ended sessions | a session goes to whoever consented in this browser; a sign-in never takes a linked account over; a browser that waits for its answers has a fitting CSRF token unless it was closed since, and knows its live sessions but those of lost answers |
| `scans` | 2 requests, 2 scans, 1 test alert, 1 sink, 2 dispatchers, 2 attempts, 2 events (edits, saved settings, failures), 3 client objects | self-checks a cooldown apart; a scan has a client of the settings its request read, and those of the settings in force share one; sends bounded by attempts and deaths; a scan ends unless its task is lost |
| `deployment` | 2 inits, 5 secrets, 2 faults | complete secrets never change, but for the data key once nothing is under it; one key at hand reads all stores; the stack comes up again |
| `deployment_runbook` | the same | **violation**: after the runbook's command for installing the key, web never comes up |

The bounds. Two workers are what the races of `finish_work` and of a stale claim
take; a third adds only more of the same, and the theorems hold for any number.
Two rows are the least for which one worker's count can miss the other's row, and
the third account makes `total_count` differ from the number of rows.
`StaleAfter = 0` makes a claim stale after one tick; the theorem about exclusivity
holds for every limit. In `Findings`, three records of one identity let two
re-leaks compete for a predecessor and form a chain, a second incarnation lets a
record return after its deletion, and `MaxTrail` and `MaxReopens` only bound the
analysts. `BoundedSpec` of `MCFindings` takes three records only while the policy
keeps them and one scan of two of them otherwise. A page of one finding
(`Limit = 1`) is the smallest that splits a re-leak from its predecessor, in both
orders; the theorems hold for every limit. In `Accounts`, three accounts are two administrators who
lower each other and one who is lowered by both, two requests are what every race
here takes, and two sessions let one account be signed out while a session for it
is issued, or two administrators act; `Tokens` bounds the sign-ins.
In `Notifications`, two notifications of one user
and two workers are what a broken cooldown takes, and a cooldown of two ticks
leaves room for a clock reading that is old when it is used. In `Schedules`,
four clock readings let a schedule that fires at every tick fire three times, and
one that fires at every third tick miss an occurrence beyond the grace of one
tick; two schedules share a transaction that a crash takes back. In
`LeakCheckClient`, two tasks and one place at the semaphore make a task wait with
its token in hand, and a circuit that opens on the second failure opens while
the other task is past its check; time is relative, so nothing bounds it. A token
every three ticks leaves room for a look in between that finds part of one.
In `LocalLogin`, two failures and a lock of two ticks leave a guess whose clock
reading is one tick old between the failures that set the lock, and two requests
are what an overlap of sign-in, change and enrolment takes; one address and one
account suffice because nothing relates two of them, and the unknown name lets
the address be blocked without the account. In `GoogleLogin`, two tabs cross
their transactions or race for one new account, a foreign transaction is
what a forged callback brings, and one reassignment makes a subject arrive with
an address that another account has; everybody is listed at first (`ListedSpec` of
`MCGoogleLogin`), and who is not is reached by the reassignment. In `Scans`, two scans are one of each
trigger or two self-checks that follow each other, three versions of the settings
(one of which cannot be used) let clients be installed out of order, three client
objects are one for each scan and a new one, and two
events let a dispatcher die twice or a task be lost after a restart. In
`Deployment`, five secrets are the three of the files and the keys of two rotations, and
two faults let a repair be interrupted.

Deadlock is checked in every run except `accounts`: there the program really may
stop, with the only administrator suspended by a sync and every session expired.

## Fairness

`BatchQueue`: weak fairness of each worker's next step, of its restart (the
supervisor restarts after five seconds, the container's policy otherwise) and of
time. Nobody has to create a batch; liveness is claimed only if a key is
configured for good. `Findings`: a scan's transaction ends (its HTTP calls have
timeouts), the worker's loop goes round, time passes up to its bound; and strong
fairness for the DELETE of the retention pass, because PostgreSQL queues lock
waiters, so scans that keep locking the same finding cannot pass it for ever.
`Notifications` and `Schedules`: each worker's loop goes round (every database
call and the SMTP conversation end; a crash is followed by a restart). Nothing is
assumed of analysts, requests or the clock; `EveryoneSettled` is claimed only for
behaviours in which the users rows are in the end left alone, because SKIP LOCKED
promises nothing otherwise. `LeakCheckClient`: the event loop runs each task that
can run, an HTTP attempt ends (it has a timeout), time passes, and the semaphore
serves its waiters in order, hence strong fairness for `Enter`. `QueriesEnd` is
claimed only once scans stop coming: the bucket is not a queue, and newcomers may
take a sleeper's token for ever. `LocalLogin`: time passes, and PostgreSQL
gives a waiting request its row lock in the end, hence strong fairness for a
request's steps. `Scans`: a background task runs on as long as its process does
(the event loop schedules it, the client's timeouts end a query); nothing is
assumed of requests, administrators or dispatchers. `Deployment`: both
containers have `restart: unless-stopped`, and the web container's start retries
until its deadline and exits; `ComesUp` promises nothing while the operator keeps
the stack stopped or the key's file is not written, and nothing is assumed of the
operator. `GoogleLogin` claims safety only.

## Proofs

Every safety property that a passing run checks is also a theorem, for every value of the
constants: 28 properties and the refinement of the ledger. The bounds of the runs
(`MaxSecrets`, `MaxEvents`, `MaxRows` and the like) are constants too, so a
theorem holds for each of them. What the proofs take for granted of the constants
is assumed by name in the module that declares them, and evaluated by TLC on
every run; the assumptions about `None`, `Off`, `NoId` and `Keep` say only that
NULL, or a cookie that is left alone, is not a row, a number or a name.
Each proof has the same plan: an inductive invariant `IInv`, checked by TLC on the
run's instance first, one lemma for each kind of step, and the property from it.

`BatchQueueProofs` proves, for any finite set of batches, users and subjects,
any set of workers, any stale limit and any number of crashes:
`TypeCorrect`, `ClaimsAreExclusive`, `VerdictsAreSound`, `CountersHold`,
`OutcomesHold` and `QueueImplementsLedger`.

None of these invariants is inductive alone. `IInv` adds
- `WorkInv`: a worker at work is on a row that is RUNNING or settled, and an open
  transaction that has written its row wrote a RUNNING one;
- `LockInv`: two open transactions have not written the same row;
- `AbsentInv`: a batch that does not exist has no rows, so that creating it can
  break no verdict;
- `OwnerInv`: a worker whose claim is fresh owns a row with the same age, or the
  row is settled; this is what makes a stale claim's takeover leave exclusivity
  intact;
- `TallyInv`: a count that is about to close its batch has seen every row
  settled, and has counted no failure exactly when none failed. It survives
  other workers' commits because a settled row never changes again, and the
  writer's own row because it is locked.

`ProgressInv` adds to it what the counters and outcomes need: a worker past its
scan carries an outcome that a scan of its row had (`ScanInv`), a count that waits
to be written is not ahead of what its transaction sees (`CountInv`: others only
settle more rows meanwhile), and a batch has no more rows than accounts were
matched (`TotalInv`). The refinement maps every step of the queue to a step of the
ledger or a stutter, using `IInv` for the two commits that close a batch.

`FindingsProofs` proves, for any records, identities, incarnations, scans and
retention passes, `ReLeakLinksHold`, `NeverRelinkedHolds`, `ChainsEndHolds` and
`TrailAgreesHolds`. The inductive invariant adds
- `RowInv`, `NumberInv`: a finding that does not exist has no columns, and a
  record's incarnations are numbered without gaps;
- `InsertInv`: what a scan has inserted is new and nobody else's, because the
  unique key makes the second INSERT wait;
- `LinkInv`: a link under way leads from a finding that its scan has locked, that
  is remediated and not superseded, to one the scan has inserted; one from each
  and one to each, and no two scans have selected the same predecessor.

A commit adds links that lead only to findings which did not exist before, so it
closes no cycle (`ChainsCommit`): a set of findings with no end would have to hold
new ones, and nothing supersedes those. The trail is counted by the lemmas
`OccursAppend` and `OccursNew`: an event appended adds one to its own count.

`AccountsProofs` proves, for any sets of accounts, sessions, requests and roles
and any answers of the directory, `AuthorityHolds`, `OffboardingHolds` and
`AdministersHolds`; the last is about a portal without a directory, because with
one it is false: a sync can deactivate the last administrator (see below). The inductive invariant
adds
- `RequestInv`: what a request holds at each stage; a sign-in under way has found
  its account active (or new), an update does not lower its own administrator;
- `LockInv`: no users row and no session is locked by two requests;
- `OutInv`: an account that is out is inactive.

The argument is the one the locks are there for. `Frame`: what a request knows
stays true as long as the rows it has locked do. `EndStep` and `TakeStep`: a step
writes or takes only rows that no other request has locked. Each action is then
shown to be such a step. A session is issued only for an account found active
under its lock, hence not out. The administrator who commits an update is still
an active super-admin when it commits, and stays one, so the unlocked count of
remaining administrators is not needed for `AdministeredWithoutSync`.

`NotificationsProofs` proves, for any users, notifications, workers and cooldown
and any number of crashes, `CooldownHolds` and `MailedOnceHolds`. The inductive
invariant adds
- `LockInv`: a worker between claim and commit has a pending notification locked,
  and no two have notifications of the same user, because the join's FOR UPDATE
  locks the user too;
- `DecisionInv`: from a worker's decision to send until its commit, none of the
  user's mails falls into the cooldown; another worker's commit cannot disturb
  it, being about another user. This is the strengthening the cooldown needs: the
  worker that commits last compares its own old clock reading with every mail
  that was committed before.

`SchedulesProofs` proves, for any schedules, expressions, workers and grace and any
number of crashes, `OrderHolds` and `OffHolds`. The inductive invariant adds
- `LeaderInv`: only the leader has rows locked, and they are enabled and due at
  its tick, which is not in the future;
- `PastInv`: what a schedule has dispatched is past, and before its next
  occurrence. Enabling a schedule computes the next occurrence from the present,
  hence beyond everything dispatched; dispatching computes it from a tick that
  the occurrence dispatched does not exceed.

`ScansProofs` proves, for any number of scans, requests, dispatchers, sinks, any
cooldown and limit of attempts, and any number of edits, failures and restarts,
`OneClientHolds`, `SelfChecksSpacedHolds` and `SendsCountedHolds`. The
inductive invariant of the scans adds
- `TaskInv`: a queued task's row is PENDING, a running one's RUNNING;
- `AdmitInv`: one request at most is past the advisory lock, and what it saw of
  the actor's scans still holds, because everything else that can happen only
  ends scans or makes them older (`Eased`);
- `SpacedInv`: one scan of each trigger is under way, and a self-check that waits
  for its task has no other beside it, nor one that started within the cooldown.

The one for the clients (`SharedInv`) says that the digest beside the cached client tells
the settings it was built with, that a client handed out was built with the
settings its scan's request read, and that the scans of the epoch have the cached
one, of the settings in force: a step that replaces it either is late, which ends
the epoch, or finds another digest than that of the settings in force, and then
the epoch is empty.

That of the alerts (`AlertsInv`) says that a claimed alert is pending, has one
dispatcher and is at the attempt after the last one written down (`ClaimInv`), and
that a pending one has attempts left (`AttemptInv`).

It also proves, of the client those scans share (`LeakCheckClient`) and for any
number of tasks and any limits, `TokensHold` and `LateOnceHolds`. Its inductive
invariant (`ClientInv`) says that what the bucket holds and what the next look
will add are together no more than the time since the last token was taken, however
many looks there were in between (`BucketInv`), and
that a task that has sent since the circuit opened is not between its check and
its request (`LateInv`): to get there again it has to pass the check, which
refuses it or closes the circuit.

`LoginProofs` proves, of `LocalLogin`, for any accounts, addresses, passwords and
seeds, any number of requests and any limits longer than a request,
`PagesAgreeHolds`, `GuessesPacedHolds` and `OnlyOwnersActHolds`. The inductive
invariant adds
- `LoadedInv`: a request that has loaded an account's rows has them alone, and
  they are as it read them;
- `JudgeInv`: a sign-in under way found the account unlocked, and by its old
  reading of the clock it still is;
- `PaceInv`: all wrong guesses but those counted since the last lock are as old as
  a lockout makes them, less a request's time; while a lock is in force, the age
  of every guess and what is left of the lock add up to that. This is why a guess
  judged by an old clock cannot slip in early: the lock it overlooks was set by a
  guess as old.

Of `GoogleLogin`, for any tabs, transactions, people and addresses, it proves `QuietBrowserHolds`,
`SignsInAsSelfHolds` and `AccountsKeepSubjectHolds`. The inductive invariant
(`GoogleInv`) says
that a callback whose state matches the cookie is of this browser, that what was
verified is who consented, that the row found by subject stays that subject's
while it is locked (`CallbackInv`), and that a browser which sends one request at
a time has a jar that fits before the answer it waits for is applied, or will
have one after, and that the session of that answer is the jar's or astray if it
is lost (`QuietInv`). Neither part of `QuietBrowser` holds without its exception.

`DeploymentProofs` proves, for any number of inits, secrets and faults,
`SecretsKeptHolds` and `ReadableHolds`. The inductive invariant adds
- `InitInv`: a file an init has created is empty and its own until it writes it,
  and the files before are complete; O_EXCL is what makes it so;
- `ReadyInv`: nothing runs, and no store is written, before every secret is
  complete; from then on no init has a file open, so the data key, while it is
  empty during an installation, is refused and not generated anew;
- `KeyInv`: the stage of a rotation tells which key the stores and the backup are
  under; only after a rotation that ended unseen is it one of two, and from its
  commit to the end of the installation it is the new one;
- `RotationInv`: in the open transaction, the stores already passed are under the
  new key or empty unless something failed to decrypt, the others as they were. A
  rehearsal may run while the application writes, because it is never committed.

Left to TLC. Liveness under fairness is beyond the prover: `EveryRowSettles`,
`FinishesUnlessShared`, `DeletedUnlessBlocked`, `EveryoneSettled`, `DueIsHandled`,
`Recovers`, `QueriesEnd`, `LocksElapse`, `ScansEnd`, `ComesUp`. What a sync makes of
the table (`Sync` of `GoogleLogin`, a fold over the people listed) would take an
induction over sequences: the theorems use of it only that its outcome is a table.

## What disagrees with the code's own words

The run `queue_shared_finish` refutes that workers safely share a queue: two that
finish the last rows of a batch at once leave it RUNNING for good.

The run `deployment_runbook` refutes that installing the key with the command of
`RUNBOOK.md:102` and restarting brings the stack up: the file is blank,
`_read_secret` refuses it at every start, and by then every store is under the new
key. With the key written as meant, `ComesUp` holds.

Four more disagreements have a definition but no run of their own. To see one
refuted, put the definition in the place of the properties of the run named:
- `Findings!NoOpenDeleted` (`findings`, as PROPERTY): the retention pass
  deletes by the ids its SELECT found, and a finding reopened in between goes too,
  though "an open exposure is never deleted" (`retention.py:87`);
- `Findings!RemediatedAreDeleted` (`findings`, as PROPERTY, with `MaxReopens = 0`
  too): a page that holds a re-leak and not its predecessor, which the LIMIT without
  ORDER BY may produce again and again, or a predecessor that was reopened, leaves
  the foreign key of `models.py:485` pointing at what is deleted, and the pass
  fails each time, against `retention.py:50` (and `retention.py:85` says "newest work
  first", an order the SELECT does not ask for);
- `Accounts!SomebodyAdministers` (`accounts`, as INVARIANT): `admin.py:614` keeps the
  last administrator from being lowered by hand, and a sync deactivates it;
- `LeakCheckClient!SendsPaced` (`client`, as PROPERTY, with `PromptSpec` of
  `MCLeakCheckClient` as the SPECIFICATION): tokens are paced, HTTP attempts are
  not, because a task may wait for the semaphore with its token in hand
  (`leakcheck.py:93`, `leakcheck.py:99`).

## Hazards without a property

Known, and outside what the modules tell apart: a client that sees the answer
before the commit of its request (`db.py:37`); the audit event of a failed sync,
which is rolled back with it (`admin.py:745`); two scans that insert the same new
sources in different orders, of which PostgreSQL aborts one (`ingest.py:111`);
a setting that cannot be read stops the worker's whole loop
(`notifications.py:164`); an error other than ValueError aborts the tick of every
schedule (`scheduling.py:75`); rows inserted during a rotation would keep the old
key, which the runbook avoids by stopping the application (`reencrypt.py:67`).
The models do show four consequences that no property forbids: a lost task leaves
its scan RUNNING and its actor refused for ever (`ScansEnd` excepts it), a request
that installs a client of older settings splits the scans over two clients with a
bucket each (`OneClient` excepts it), an init
that dies between creating a file and writing it leaves an empty secret that every
later init refuses (`ComesUp` starts from complete secrets), and a fan-out that
fails leaves a finding without its alerts (`scan_runtime.py:96`).

## Not modelled

- The HTML of the portals (`analyst_ui.py`, `batch_ui.py` and the other `*_ui.py`,
  templates, the read-only handlers): rendering of committed rows, no state.
- The audit log and branding: append-only rows and uploads that nothing decides on.
- Normalization of identifiers and the parsing of settings: pure functions on
  strings; the models take their results as equal or different.
- Middleware headers and trusted-proxy resolution: pure functions of a request.
- The Directory API client's paging and signatures: I/O; its answer is the sync's
  input in `Accounts` and `GoogleLogin`.
- The order of the worker loop's calls: each part is a module of its own with its
  own workers, so their steps interleave more freely than one loop would allow.

## Plan

All safety properties of the runs are proved. What is left to do:
1. The type invariants of `LeakCheckClient` and `Notifications` in full, as
   theorems: the proofs so far need parts of them.
2. An abstract specification of the mail and alert outboxes (queued, sent, given
   up; each once) that `Notifications` and `Alerts` implement, as `BatchQueue` does
   the ledger, proved step by step.
3. `GoogleLogin` without the reduction of a sync to its outcome: that two rows
   never have one address or one subject, which the unique constraints promise.
