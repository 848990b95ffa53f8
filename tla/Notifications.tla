---------------------------- MODULE Notifications ----------------------------
(***************************************************************************)
(* The mail outbox (src/app/notifications.py): notifications are queued    *)
(* once per deduplication key by scans, schedules and campaigns, and the   *)
(* workers' loops deliver them, with a cooldown per user.                  *)
(*                                                                         *)
(* deliver_next is one transaction.  It reads the clock, then locks one    *)
(* pending notification and, through the join, its user, skipping rows     *)
(* that somebody has locked; both stay locked while the mail is sent.      *)
(* Web requests of the user, and transactions that queue something for     *)
(* them, lock the users row too.                                           *)
(***************************************************************************)
EXTENDS Integers

CONSTANTS
    Users,
    Keys,         \* deduplication keys: a user, a template and a set of findings
    UserOf,       \* the user of each key
    Workers,      \* worker processes
    Cooldown,     \* notify_cooldown_seconds, in ticks
    MaxTime,      \* bound on the clock
    MaxCrashes,   \* bound on crashes of workers
    NoKey, NoTime

ASSUME UserOfAssumption == UserOf \in [Keys -> Users]
ASSUME BoundsAssumption == Cooldown \in Nat /\ MaxTime \in Nat /\ MaxCrashes \in Nat
ASSUME NoneAssumption == NoKey \notin Keys /\ NoTime \notin Int

VARIABLES
    now,      \* the clock
    status,   \* notifications.status; "absent" for a key that is not queued
    created,  \* created_at
    sentAt,   \* sent_at
    dryRun,   \* notify_dry_run
    busy,     \* is the users row locked by a request or a scan?
    step,     \* where each worker stands in deliver_next
    item,     \* the notification it has locked
    current,  \* the time it read when it began
    crashes,  \* crashes so far
    mails     \* history: how often each notification was mailed

outbox == <<status, created, sentAt>>
vars == <<now, outbox, dryRun, busy, step, item, current, crashes, mails>>

Times == 0..MaxTime
Statuses == {"absent", "pending", "dry_run", "suppressed", "sent", "failed"}
Mailed == {"sent", "failed"}

Init ==
    /\ now = 0
    /\ status = [k \in Keys |-> "absent"]
    /\ created = [k \in Keys |-> NoTime]
    /\ sentAt = [k \in Keys |-> NoTime]
    /\ dryRun = TRUE
    /\ busy = [u \in Users |-> FALSE]
    /\ step = [w \in Workers |-> "idle"]
    /\ item = [w \in Workers |-> NoKey]
    /\ current = [w \in Workers |-> 0]
    /\ crashes = 0
    /\ mails = [k \in Keys |-> 0]

-----------------------------------------------------------------------------
(* The users rows the workers have locked.                                 *)
InDelivery(u) == \E w \in Workers : item[w] # NoKey /\ UserOf[item[w]] = u

(* enqueue_notification: a key that is queued already is left alone; the   *)
(* foreign key makes the INSERT wait for a lock on the user.               *)
Enqueue(k) ==
    /\ status[k] = "absent"
    /\ ~InDelivery(UserOf[k])
    /\ status' = [status EXCEPT ![k] = "pending"]
    /\ created' = [created EXCEPT ![k] = now]
    /\ UNCHANGED <<now, sentAt, dryRun, busy, step, item, current, crashes, mails>>

(* Another transaction locks the user's row, and ends.                     *)
Occupy(u) ==
    /\ ~busy[u]
    /\ ~InDelivery(u)
    /\ busy' = [busy EXCEPT ![u] = TRUE]
    /\ UNCHANGED <<now, outbox, dryRun, step, item, current, crashes, mails>>
Release(u) ==
    /\ busy[u]
    /\ busy' = [busy EXCEPT ![u] = FALSE]
    /\ UNCHANGED <<now, outbox, dryRun, step, item, current, crashes, mails>>

(* update_settings: the dry run is on until an administrator ends it.      *)
SetDryRun ==
    /\ dryRun' = ~dryRun
    /\ UNCHANGED <<now, outbox, busy, step, item, current, crashes, mails>>

Tick ==
    /\ now < MaxTime
    /\ now' = now + 1
    /\ UNCHANGED <<outbox, dryRun, busy, step, item, current, crashes, mails>>

-----------------------------------------------------------------------------
(* deliver_next reads the clock first.                                     *)
Begin(w) ==
    /\ step[w] = "idle"
    /\ step' = [step EXCEPT ![w] = "begun"]
    /\ current' = [current EXCEPT ![w] = now]
    /\ UNCHANGED <<now, outbox, dryRun, busy, item, crashes, mails>>

(* Variant for mutation: the notification is locked, its user is not.      *)
ClaimableWithoutUser(k) == status[k] = "pending" /\ \A w \in Workers : item[w] # k

(* FOR UPDATE SKIP LOCKED: neither the notification nor its user is locked.*)
Claimable(k) == status[k] = "pending" /\ ~busy[UserOf[k]] /\ ~InDelivery(UserOf[k])

(* The oldest that can be locked.                                          *)
Claim(w, k) ==
    /\ step[w] = "begun"
    /\ Claimable(k)
    /\ \A j \in Keys : Claimable(j) => created[k] <= created[j]
    /\ step' = [step EXCEPT ![w] = "claimed"]
    /\ item' = [item EXCEPT ![w] = k]
    /\ UNCHANGED <<now, outbox, dryRun, busy, current, crashes, mails>>

Nothing(w) ==
    /\ step[w] = "begun"
    /\ ~\E k \in Keys : Claimable(k)
    /\ step' = [step EXCEPT ![w] = "idle"]
    /\ current' = [current EXCEPT ![w] = 0]
    /\ UNCHANGED <<now, outbox, dryRun, busy, item, crashes, mails>>

(* The end of the transaction.                                             *)
Close(w, s) ==
    /\ status' = [status EXCEPT ![item[w]] = s]
    /\ step' = [step EXCEPT ![w] = "idle"]
    /\ item' = [item EXCEPT ![w] = NoKey]
    /\ current' = [current EXCEPT ![w] = 0]

(* The mails of the user that the cooldown counts.                         *)
Recent(w) ==
    \E k \in Keys :
        /\ UserOf[k] = UserOf[item[w]]
        /\ status[k] = "sent"
        /\ sentAt[k] > current[w] - Cooldown

DryRun(w) ==
    /\ step[w] = "claimed"
    /\ dryRun
    /\ Close(w, "dry_run")
    /\ UNCHANGED <<now, created, sentAt, dryRun, busy, crashes, mails>>

Suppress(w) ==
    /\ step[w] = "claimed"
    /\ ~dryRun
    /\ Cooldown > 0 /\ Recent(w)
    /\ Close(w, "suppressed")
    /\ UNCHANGED <<now, created, sentAt, dryRun, busy, crashes, mails>>

Proceed(w) ==
    /\ step[w] = "claimed"
    /\ ~dryRun
    /\ ~(Cooldown > 0 /\ Recent(w))
    /\ step' = [step EXCEPT ![w] = "sending"]
    /\ UNCHANGED <<now, outbox, dryRun, busy, item, current, crashes, mails>>

(* Variant for mutation: a mail whose connection was lost is sent again.    *)
SendRetries(w) ==
    /\ step[w] = "sending"
    /\ \E s \in {"sending", "sent"} : step' = [step EXCEPT ![w] = s]
    /\ mails' = [mails EXCEPT ![item[w]] = @ + 1]
    /\ UNCHANGED <<now, outbox, dryRun, busy, item, current, crashes>>

(* sender.send returns, or raises: SMTP is not configured, the relay       *)
(* refuses, or the connection is lost after the relay took the mail.       *)
Send(w) ==
    /\ step[w] = "sending"
    /\ \/ /\ step' = [step EXCEPT ![w] = "sent"]
          /\ mails' = [mails EXCEPT ![item[w]] = @ + 1]
       \/ /\ step' = [step EXCEPT ![w] = "failed"]
          /\ \E n \in {0, 1} : mails' = [mails EXCEPT ![item[w]] = @ + n]
    /\ UNCHANGED <<now, outbox, dryRun, busy, item, current, crashes>>

(* Variant for mutation: a failed notification is queued again.            *)
RecordRetries(w) ==
    /\ step[w] \in Mailed
    /\ Close(w, IF step[w] = "sent" THEN "sent" ELSE "pending")
    /\ sentAt' = IF step[w] = "sent" THEN [sentAt EXCEPT ![item[w]] = current[w]] ELSE sentAt
    /\ UNCHANGED <<now, created, dryRun, busy, crashes, mails>>

(* What became of it is written, with the time of the start, and committed.*)
Record(w) ==
    /\ step[w] \in Mailed
    /\ Close(w, step[w])
    /\ sentAt' = IF step[w] = "sent" THEN [sentAt EXCEPT ![item[w]] = current[w]] ELSE sentAt
    /\ UNCHANGED <<now, created, dryRun, busy, crashes, mails>>

(* A worker dies, or a setting cannot be decrypted: the transaction is     *)
(* rolled back, the mail is not.                                           *)
Crash(w) ==
    /\ step[w] # "idle"
    /\ crashes < MaxCrashes
    /\ step' = [step EXCEPT ![w] = "idle"]
    /\ item' = [item EXCEPT ![w] = NoKey]
    /\ current' = [current EXCEPT ![w] = 0]
    /\ crashes' = crashes + 1
    /\ UNCHANGED <<now, outbox, dryRun, busy, mails>>

-----------------------------------------------------------------------------
deliver_next(w) ==
    \/ Begin(w)
    \/ \E k \in Keys : Claim(w, k)
    \/ Nothing(w)
    \/ DryRun(w)
    \/ Suppress(w)
    \/ Proceed(w)
    \/ Send(w)
    \/ Record(w)

Next ==
    \/ \E w \in Workers : deliver_next(w) \/ Crash(w)
    \/ \E k \in Keys : Enqueue(k)
    \/ \E u \in Users : Occupy(u) \/ Release(u)
    \/ SetDryRun
    \/ Tick

Spec == Init /\ [][Next]_vars

(* The loop goes round, and the mail transport has a timeout.              *)
FairSpec == Spec /\ \A w \in Workers : WF_vars(deliver_next(w))
-----------------------------------------------------------------------------
(* Every column has its type; a notification has a sent_at exactly when it *)
(* was sent, which the cooldown relies on.                                 *)
TypeOK ==
    /\ now \in Times
    /\ status \in [Keys -> Statuses]
    /\ created \in [Keys -> Times \cup {NoTime}]
    /\ sentAt \in [Keys -> Times \cup {NoTime}]
    /\ \A k \in Keys : status[k] # "absent" <=> created[k] \in Times
    /\ \A k \in Keys : status[k] = "sent" <=> sentAt[k] \in Times
    /\ dryRun \in BOOLEAN
    /\ busy \in [Users -> BOOLEAN]
    /\ step \in [Workers -> {"idle", "begun", "claimed", "sending"} \cup Mailed]
    /\ item \in [Workers -> Keys \cup {NoKey}]
    /\ current \in [Workers -> Times]
    /\ crashes \in 0..MaxCrashes
    /\ mails \in [Keys -> Nat]

(* The cooldown (deliver_next's count of recent mails): two mails to one   *)
(* user that are recorded as sent were begun at least a cooldown apart,    *)
(* whichever workers sent them and however late after reading the clock.   *)
(* A mail of an attempt that failed or crashed is not recorded and does not*)
(* count, in the code as here.                                             *)
CooldownKept ==
    \A j, k \in Keys :
        j # k /\ UserOf[j] = UserOf[k] /\ status[j] = "sent" /\ status[k] = "sent" =>
            sentAt[j] >= sentAt[k] + Cooldown \/ sentAt[k] >= sentAt[j] + Cooldown

(* "Lock and finish one outbox item" (deliver_next): a notification is     *)
(* mailed once; each mail that no row accounts for is due to a crash       *)
(* between the mail and the commit.                                        *)
Accounted(k) ==
    IF status[k] \in Mailed \/ \E w \in Workers : item[w] = k /\ step[w] \in Mailed THEN 1 ELSE 0
MailedOnce == \A k \in Keys : mails[k] <= Accounted(k) + crashes

(* Once other transactions leave the users rows alone, every notification  *)
(* is dealt with: SKIP LOCKED passes over it only for the time being.      *)
EveryoneSettled ==
    <>[](\A u \in Users : ~busy[u]) =>
        \A k \in Keys : status[k] = "pending" ~> status[k] # "pending"
-----------------------------------------------------------------------------
(* The inductive invariant: a worker at a delivery has locked a pending    *)
(* notification and, against the others, its user; from its decision to    *)
(* send on, none of the user's mails comes to fall into the cooldown.      *)
LockInv ==
    /\ \A w \in Workers :
        /\ step[w] \in {"idle", "begun"} <=> item[w] = NoKey
        /\ item[w] # NoKey => status[item[w]] = "pending"
    /\ \A v, w \in Workers :
        v # w /\ item[v] # NoKey /\ item[w] # NoKey => UserOf[item[v]] # UserOf[item[w]]

DecisionInv ==
    \A w \in Workers : step[w] \in {"sending"} \cup Mailed => ~(Cooldown > 0 /\ Recent(w))

IInv == TypeOK /\ LockInv /\ DecisionInv /\ CooldownKept /\ MailedOnce
=============================================================================
