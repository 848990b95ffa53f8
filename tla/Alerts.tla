------------------------------- MODULE Alerts -------------------------------
(***************************************************************************)
(* The watchlist of one subject (src/app/routers/watchlist.py) and the     *)
(* alert outbox it feeds (src/app/alerts.py): entries and their channels,  *)
(* the fan-out of a finding, test alerts, and dispatchers that claim a due *)
(* alert, send it and write down the outcome.  Nothing in the repository   *)
(* calls dispatch_next_alert yet; who calls it, how often and in how many  *)
(* processes is left open here.                                            *)
(*                                                                         *)
(* Time is counted in steps of the first retry's delay (15 s), and         *)
(* next_attempt_at is kept as the time that is left.                       *)
(***************************************************************************)
EXTENDS FiniteSets, Naturals

CONSTANTS
    Sinks,
    Findings,
    Tests,        \* the ids of test alerts
    Dispatchers,
    MaxAttempts,  \* _MAX_ATTEMPTS
    MaxDelay,     \* the cap of the delay between attempts
    MaxEvents,    \* bound: what administrators and failures do, in all
    None

Targets == {"subject", "user"}
Keys == (Findings \cup Tests) \X Sinks
Channels == Sinks \cup {"enabled"}
Entries == [enabled : BOOLEAN, sinks : SUBSET Sinks]
Claims == [key : Keys, attempt : Nat]

ASSUME AlertsAssumption == Findings \cap Tests = {} /\ "enabled" \notin Sinks
ASSUME NoAlertAssumption == None \notin Keys /\ None \notin Entries /\ None \notin Claims
ASSUME AttemptsAssumption == MaxAttempts \in Nat \ {0} /\ MaxDelay \in Nat
ASSUME EventsAssumption == MaxEvents \in Nat

VARIABLES
    watch,     \* the entry of each target; None without one
    events,    \* how many of these events there were
    alert,     \* status of each outbox row; "none" before it is queued
    attempts,  \* attempts written to the row
    wait,      \* time until next_attempt_at
    sending,   \* the row each dispatcher has claimed, and the attempt it makes
    sends,     \* history: how often a sink received the alert
    deaths     \* history: attempts cut off before they were written down

outbox == <<alert, attempts, wait>>
dispatch == <<sending, sends, deaths>>
alertVars == <<watch, events, outbox, dispatch>>

AlertsInit ==
    /\ watch = [w \in Targets |-> None]
    /\ events = 0
    /\ alert = [k \in Keys |-> "none"]
    /\ attempts = [k \in Keys |-> 0]
    /\ wait = [k \in Keys |-> 0]
    /\ sending = [d \in Dispatchers |-> None]
    /\ sends = [k \in Keys |-> 0]
    /\ deaths = [k \in Keys |-> 0]

-----------------------------------------------------------------------------
(* Something an administrator or a failure does.                           *)
Event == events < MaxEvents /\ events' = events + 1

(* One change of an entry, in one transaction.  A second entry of a target *)
(* is refused with 409 or by its unique constraint.                        *)
Edit(w, entry) ==
    /\ Event
    /\ watch' = [watch EXCEPT ![w] = entry]
    /\ UNCHANGED <<outbox, dispatch>>

AddWatchlistEntry(w, channels) ==
    /\ watch[w] = None
    /\ Edit(w, [enabled |-> TRUE, sinks |-> channels])

RemoveWatchlistEntry(w) ==
    /\ watch[w] # None
    /\ Edit(w, None)

ToggleWatchlistChannel(w, channel) ==
    /\ watch[w] # None
    /\ Edit(w, IF channel = "enabled"
               THEN [watch[w] EXCEPT !.enabled = ~@]
               ELSE [watch[w] EXCEPT !.sinks = (@ \ {channel}) \cup ({channel} \ @)])

-----------------------------------------------------------------------------
(* fanout_watchlisted_findings: the sinks the enabled entries of a subject *)
(* ask for, those of its user too once the subject is linked to one.  The  *)
(* mail an entry may ask for besides is queued as in Notifications.        *)
Wanted(linked) ==
    {k \in Sinks :
        \E w \in Targets :
            /\ watch[w] # None
            /\ w = "user" => linked
            /\ watch[w].enabled
            /\ k \in watch[w].sinks}

(* enqueue_alert: nothing happens where the dedupe key is there.           *)
EnqueueAlert(keys) ==
    alert' = [k \in Keys |-> IF k \in keys /\ alert[k] = "none" THEN "pending" ELSE alert[k]]

(* queue_test_alert: a fresh id each time.                                 *)
QueueTestAlert(t, sink) ==
    /\ \A s \in Sinks : alert[<<t, s>>] = "none"
    /\ Event
    /\ EnqueueAlert({<<t, sink>>})
    /\ UNCHANGED <<watch, attempts, wait, dispatch>>

-----------------------------------------------------------------------------
(* Variant for mutation: the row is not locked while it is sent.           *)
NotLocked(k) == FALSE
(* FOR UPDATE SKIP LOCKED: a row another dispatcher is sending.            *)
Claimed(k) == \E d \in Dispatchers : sending[d] # None /\ sending[d].key = k

(* The first half of dispatch_next_alert: a due alert is claimed.          *)
ClaimAlert(d) ==
    /\ sending[d] = None
    /\ \E k \in Keys :
        /\ alert[k] = "pending"
        /\ wait[k] = 0
        /\ ~Claimed(k)
        /\ sending' = [sending EXCEPT ![d] = [key |-> k, attempt |-> attempts[k] + 1]]
    /\ UNCHANGED <<watch, events, outbox, sends, deaths>>

(* The attempt ends, and the sink has received the alert or it has not.    *)
Release(d, received) ==
    /\ sending[d] # None
    /\ sending' = [sending EXCEPT ![d] = None]
    /\ sends' = [sends EXCEPT ![sending[d].key] = @ + received]

(* The sink answered: the row is delivered.                                *)
Delivered(d) ==
    /\ Release(d, 1)
    /\ alert' = [alert EXCEPT ![sending[d].key] = "delivered"]
    /\ attempts' = [attempts EXCEPT ![sending[d].key] = sending[d].attempt]
    /\ UNCHANGED <<watch, events, wait, deaths>>

(* The delay after the n-th attempt, doubled each time.                    *)
Delay(n) == IF 2^(n - 1) <= MaxDelay THEN 2^(n - 1) ELSE MaxDelay

(* The last attempt a row gets.                                            *)
IsLast(n) == n >= MaxAttempts

(* The sink is not configured, does not answer or answers with an error,   *)
(* also one that has received the alert.  The code counts the delay from   *)
(* the clock it read at the claim, this action from its own moment: an     *)
(* attempt shorter than a tick.                                            *)
NotDelivered(d) ==
    /\ \E received \in {0, 1} : Release(d, received)
    /\ LET k == sending[d].key
           n == sending[d].attempt
       IN  /\ attempts' = [attempts EXCEPT ![k] = n]
           /\ IF IsLast(n)
              THEN alert' = [alert EXCEPT ![k] = "dead_letter"] /\ UNCHANGED wait
              ELSE wait' = [wait EXCEPT ![k] = Delay(n)] /\ UNCHANGED alert
    /\ UNCHANGED <<watch, events, deaths>>

(* The process dies or the commit fails: the row is as it was, and due.    *)
DispatcherDies(d) ==
    /\ Event
    /\ \E received \in {0, 1} : Release(d, received)
    /\ deaths' = [deaths EXCEPT ![sending[d].key] = @ + 1]
    /\ UNCHANGED <<watch, outbox>>

(* Time passes for the rows that wait.                                     *)
WaitLess == wait' = [k \in Keys |-> IF wait[k] = 0 THEN 0 ELSE wait[k] - 1]

AlertsNext ==
    \/ \E w \in Targets :
        \/ \E c \in SUBSET Sinks : AddWatchlistEntry(w, c)
        \/ RemoveWatchlistEntry(w)
        \/ \E c \in Channels : ToggleWatchlistChannel(w, c)
    \/ \E t \in Tests, s \in Sinks : QueueTestAlert(t, s)
    \/ \E d \in Dispatchers :
        \/ ClaimAlert(d) \/ Delivered(d) \/ NotDelivered(d) \/ DispatcherDies(d)

-----------------------------------------------------------------------------
(* _MAX_ATTEMPTS and FOR UPDATE SKIP LOCKED bound what a sink receives: one*)
(* alert reaches it at most once per attempt written to the row and once   *)
(* for each dispatcher that died; a row is given up after MaxAttempts      *)
(* attempts and no sooner, and nobody sends one that is settled.           *)
SendsCounted ==
    \A k \in Keys :
        /\ sends[k] <= attempts[k] + deaths[k]
        /\ attempts[k] <= MaxAttempts
        /\ alert[k] = "dead_letter" => attempts[k] = MaxAttempts
        /\ Claimed(k) => alert[k] = "pending"

-----------------------------------------------------------------------------
(* The inductive invariant behind SendsCounted: a claimed alert is pending,*)
(* has one dispatcher, and is at the attempt after the last that was       *)
(* written down; one that has attempts left is not settled.                *)
AlertsTypeOK ==
    /\ alert \in [Keys -> {"none", "pending", "delivered", "dead_letter"}]
    /\ attempts \in [Keys -> Nat]
    /\ sending \in [Dispatchers -> Claims \cup {None}]
    /\ sends \in [Keys -> Nat]
    /\ deaths \in [Keys -> Nat]

ClaimInv ==
    \A d \in Dispatchers : sending[d] # None =>
        /\ alert[sending[d].key] = "pending"
        /\ sending[d].attempt = attempts[sending[d].key] + 1
        /\ \A e \in Dispatchers \ {d} : sending[e] # None => sending[e].key # sending[d].key

AttemptInv ==
    \A k \in Keys : /\ alert[k] = "none" => attempts[k] = 0
                    /\ alert[k] = "pending" => attempts[k] < MaxAttempts

AlertsInv ==
    /\ AlertsTypeOK
    /\ ClaimInv
    /\ AttemptInv
    /\ SendsCounted
=============================================================================
