------------------------------ MODULE Schedules ------------------------------
(***************************************************************************)
(* Recurring scans and digests (src/app/scheduling.py) and the analysts'   *)
(* pages that create, toggle and delete them (routers/schedules.py).       *)
(*                                                                         *)
(* Every worker calls dispatch_due_schedules each time round its loop.  It *)
(* reads the clock, tries for the transaction's advisory lock, selects the *)
(* due schedules FOR UPDATE SKIP LOCKED and deals with all of them in one  *)
(* transaction.  An analyst's change locks its schedule, waiting if need   *)
(* be, and commits at once.                                                *)
(***************************************************************************)
EXTENDS Integers, Sequences

CONSTANTS
    Schedules,
    Crons,       \* cron expressions
    FirstFrom,   \* CronTrigger: the first time at or after another that it stands for
    Grace,       \* misfire_grace_seconds, in ticks
    Workers,
    MaxTime,     \* bound on the clock
    MaxCrashes,  \* bound on crashes of workers
    NoWorker

ASSUME BoundsAssumption == Grace \in Nat /\ MaxTime \in Nat /\ MaxCrashes \in Nat
ASSUME NoneAssumption == NoWorker \notin Workers

Times == 0..MaxTime

(* Every expression fires again, beyond the last reading of the clock if   *)
(* need be.                                                                *)
ASSUME CronAssumption ==
    /\ FirstFrom \in [Crons -> [0..MaxTime + 1 -> Nat]]
    /\ \A c \in Crons, t \in 0..MaxTime + 1 : FirstFrom[c][t] >= t

VARIABLES
    now,      \* the clock
    state,    \* "absent", "enabled" or "disabled"
    cron,     \* schedules.cron
    nextRun,  \* next_run_at
    leader,   \* the worker that has the advisory lock
    step,     \* where each worker stands in dispatch_due_schedules
    tick,     \* the time it read when it began
    due,      \* the schedules it has locked
    crashes,  \* crashes so far
    fired     \* history: the occurrences each schedule has dispatched, in order

rows == <<state, cron, nextRun>>
local == <<leader, step, tick, due>>
vars == <<now, rows, local, crashes, fired>>

Init ==
    /\ now = 0
    /\ state = [s \in Schedules |-> "absent"]
    /\ cron \in [Schedules -> Crons]
    /\ nextRun = [s \in Schedules |-> 0]
    /\ leader = NoWorker
    /\ step = [w \in Workers |-> "idle"]
    /\ tick = [w \in Workers |-> 0]
    /\ due = [w \in Workers |-> {}]
    /\ crashes = 0
    /\ fired = [s \in Schedules |-> << >>]

-----------------------------------------------------------------------------
(* Variant for mutation: an occurrence right now counts as the next one.   *)
next_fire_time_now(c, t) == FirstFrom[c][t]

(* The first occurrence beyond t.                                          *)
next_fire_time(c, t) == FirstFrom[c][t + 1]

(* Variant for mutation: the due schedules are selected without a lock.    *)
FreeAlways(s) == TRUE
Free(s) == \A w \in Workers : s \notin due[w]

-----------------------------------------------------------------------------
create_schedule(s) ==
    /\ state[s] = "absent"
    /\ fired[s] = << >>
    /\ state' = [state EXCEPT ![s] = "enabled"]
    /\ nextRun' = [nextRun EXCEPT ![s] = next_fire_time(cron[s], now)]
    /\ UNCHANGED <<now, cron, local, crashes, fired>>

(* Enabling starts from now: what fell due meanwhile is not made up for.   *)
toggle_schedule(s) ==
    /\ state[s] # "absent"
    /\ Free(s)
    /\ \/ /\ state[s] = "enabled"
          /\ state' = [state EXCEPT ![s] = "disabled"]
          /\ UNCHANGED nextRun
       \/ /\ state[s] = "disabled"
          /\ state' = [state EXCEPT ![s] = "enabled"]
          /\ nextRun' = [nextRun EXCEPT ![s] = next_fire_time(cron[s], now)]
    /\ UNCHANGED <<now, cron, local, crashes, fired>>

remove_schedule(s) ==
    /\ state[s] # "absent"
    /\ Free(s)
    /\ state' = [state EXCEPT ![s] = "absent"]
    /\ UNCHANGED <<now, cron, nextRun, local, crashes, fired>>

Tick ==
    /\ now < MaxTime
    /\ now' = now + 1
    /\ UNCHANGED <<rows, local, crashes, fired>>

-----------------------------------------------------------------------------
(* The end of a worker's transaction.                                      *)
Close(w) ==
    /\ leader' = IF leader = w THEN NoWorker ELSE leader
    /\ step' = [step EXCEPT ![w] = "idle"]
    /\ tick' = [tick EXCEPT ![w] = 0]
    /\ due' = [due EXCEPT ![w] = {}]

Begin(w) ==
    /\ step[w] = "idle"
    /\ step' = [step EXCEPT ![w] = "begun"]
    /\ tick' = [tick EXCEPT ![w] = now]
    /\ UNCHANGED <<now, rows, leader, due, crashes, fired>>

(* Somebody else leads: rolled back.                                       *)
Follow(w) ==
    /\ step[w] = "begun"
    /\ leader # NoWorker
    /\ Close(w)
    /\ UNCHANGED <<now, rows, crashes, fired>>

Lead(w) ==
    /\ step[w] = "begun"
    /\ leader = NoWorker
    /\ leader' = w
    /\ step' = [step EXCEPT ![w] = "leading"]
    /\ due' = [due EXCEPT ![w] =
                  {s \in Schedules : state[s] = "enabled" /\ nextRun[s] <= tick[w] /\ Free(s)}]
    /\ UNCHANGED <<now, rows, tick, crashes, fired>>

(* Not a misfire.                                                          *)
InGrace(w, s) == tick[w] - nextRun[s] <= Grace

(* A set of due schedules that create a batch or queue digests.            *)
Fire(done) ==
    fired' = [s \in Schedules |-> IF s \in done THEN Append(fired[s], nextRun[s]) ELSE fired[s]]

(* Variant for mutation: a misfire is skipped before the schedule moves on.*)
DispatchStuck(w) ==
    /\ step[w] = "leading"
    /\ \E done \in SUBSET {s \in due[w] : InGrace(w, s)} : Fire(done)
    /\ nextRun' = [s \in Schedules |-> IF s \in due[w] /\ InGrace(w, s)
                                       THEN next_fire_time(cron[s], tick[w]) ELSE nextRun[s]]
    /\ Close(w)
    /\ UNCHANGED <<now, state, cron, crashes>>

(* The loop and its commit: every due schedule moves on; those within      *)
(* their grace period are dispatched, or a ValueError (nobody matched) is  *)
(* recorded instead.                                                       *)
Dispatch(w) ==
    /\ step[w] = "leading"
    /\ \E done \in SUBSET {s \in due[w] : InGrace(w, s)} : Fire(done)
    /\ nextRun' = [s \in Schedules |-> IF s \in due[w]
                                       THEN next_fire_time(cron[s], tick[w]) ELSE nextRun[s]]
    /\ Close(w)
    /\ UNCHANGED <<now, state, cron, crashes>>

(* Any other error, a deadlock over subjects for one, or a crash: the      *)
(* whole tick is rolled back, the worker restarts.                         *)
Crash(w) ==
    /\ step[w] # "idle"
    /\ crashes < MaxCrashes
    /\ crashes' = crashes + 1
    /\ Close(w)
    /\ UNCHANGED <<now, rows, fired>>

dispatch_due_schedules(w) == Begin(w) \/ Follow(w) \/ Lead(w) \/ Dispatch(w)

Next ==
    \/ \E w \in Workers : dispatch_due_schedules(w) \/ Crash(w)
    \/ \E s \in Schedules : create_schedule(s) \/ toggle_schedule(s) \/ remove_schedule(s)
    \/ Tick

Spec == Init /\ [][Next]_vars

(* The worker's loop goes round.                                           *)
FairSpec == Spec /\ \A w \in Workers : WF_vars(dispatch_due_schedules(w))
-----------------------------------------------------------------------------
(* Every column and every worker's locals have their type.                 *)
TypeOK ==
    /\ now \in Times
    /\ state \in [Schedules -> {"absent", "enabled", "disabled"}]
    /\ cron \in [Schedules -> Crons]
    /\ nextRun \in [Schedules -> Nat]
    /\ leader \in Workers \cup {NoWorker}
    /\ step \in [Workers -> {"idle", "begun", "leading"}]
    /\ tick \in [Workers -> Times]
    /\ due \in [Workers -> SUBSET Schedules]
    /\ crashes \in 0..MaxCrashes
    /\ fired \in [Schedules -> Seq(Nat)]

(* "Schedules must always advance beyond now" (next_fire_time): an         *)
(* occurrence is dispatched once, and never after a later one, with any    *)
(* number of workers whose clock readings are out of date, with ticks that *)
(* are rolled back, and when the schedule is switched off and on again.    *)
FiresInOrder ==
    \A s \in Schedules : \A i, j \in 1..Len(fired[s]) : i < j => fired[s][i] < fired[s][j]

(* dispatch_due_schedules decides on rows it has locked: a schedule that   *)
(* an analyst has switched off or deleted dispatches nothing any more.     *)
NotWhileOff == [][\A s \in Schedules : fired'[s] # fired[s] => state[s] = "enabled"]_vars

(* A schedule that is due is dealt with and moves on to a time to come:    *)
(* neither a misfire nor other workers' leading leaves it behind.          *)
DueIsHandled ==
    \A s \in Schedules :
        state[s] = "enabled" /\ nextRun[s] <= now ~> state[s] # "enabled" \/ nextRun[s] > now
-----------------------------------------------------------------------------
(* The inductive invariant: who leads holds the locks, on schedules that   *)
(* were due; what has been dispatched is past, and before what is next.    *)
LeaderInv ==
    \A w \in Workers :
        /\ step[w] = "leading" <=> leader = w
        /\ step[w] # "leading" => due[w] = {}
        /\ tick[w] <= now
        /\ \A s \in due[w] : state[s] = "enabled" /\ nextRun[s] <= tick[w]

PastInv ==
    \A s \in Schedules : \A i \in 1..Len(fired[s]) : fired[s][i] <= now /\ fired[s][i] < nextRun[s]

IInv == TypeOK /\ LeaderInv /\ PastInv /\ FiresInOrder
=============================================================================
