--------------------------- MODULE LeakCheckClient ---------------------------
(***************************************************************************)
(* The client of the vendor's API (src/app/leakcheck.py).  The scans of    *)
(* one web process share one client: a token bucket paces them, a          *)
(* semaphore limits how many wait for an answer, and a circuit breaker     *)
(* stops calls to a service that keeps failing.                            *)
(*                                                                         *)
(* The tasks of an event loop interleave where the code awaits; what lies  *)
(* between two awaits is one action.  Time is relative: each delay is what *)
(* is left of it, and the bucket's _updated_at is how long ago it was.     *)
(***************************************************************************)
EXTENDS Integers, FiniteSets

CONSTANTS
    Tasks,        \* scans under way in the process
    Second,       \* ticks of a second
    Interval,     \* ticks between two tokens, 1 / rate
    Concurrency,
    MaxRetries,   \* max_retries
    MaxPages,     \* max_domain_pages
    Threshold,    \* circuit_failure_threshold
    Reset,        \* circuit_reset_seconds, in ticks
    Closed        \* _circuit_opened_at is None

ASSUME LimitsAssumption ==
    /\ Second \in Nat \ {0} /\ Interval \in 1..Second
    /\ Concurrency \in Nat \ {0} /\ MaxRetries \in Nat /\ MaxPages \in Nat \ {0}
    /\ Threshold \in Nat \ {0} /\ Reset \in Nat
ASSUME ClosedAssumption == Closed \notin Int

VARIABLES
    step,        \* where each task stands in _request_page
    attempt,     \* its retries of the page
    page,        \* its page of a domain query
    delay,       \* ticks left of its sleep
    tokens,      \* _tokens of the bucket, in ticks of filling
    elapsed,     \* ticks since _updated_at, up to Interval
    failures,    \* _circuit_failures
    open,        \* ticks left of the open circuit, or Closed
    up,          \* does the service answer?
    accepting,   \* does anybody start scans?
    sinceToken,  \* history: ticks since the last token was taken, up to Interval
    sinceSend,   \* history: ticks since the last HTTP attempt, up to Interval
    late         \* history: HTTP attempts of each task since the circuit opened

bucket == <<tokens, elapsed>>
circuit == <<failures, open>>
history == <<sinceToken, sinceSend, late>>
clientVars == <<step, attempt, page, delay, bucket, circuit, up, accepting, history>>

Capped(n) == IF n < Interval THEN n ELSE Interval

(* _capacity, one token.                                                   *)
Capacity == Interval

ClientInit ==
    /\ step = [t \in Tasks |-> "idle"]
    /\ attempt = [t \in Tasks |-> 0]
    /\ page = [t \in Tasks |-> 0]
    /\ delay = [t \in Tasks |-> 0]
    /\ tokens = Interval
    /\ elapsed = 0
    /\ failures = 0
    /\ open = Closed
    /\ up = TRUE
    /\ accepting = TRUE
    /\ sinceToken = Interval
    /\ sinceSend = Interval
    /\ late = [t \in Tasks |-> 0]

-----------------------------------------------------------------------------
(* The environment: time, the service, and the people who start scans.     *)
Clock ==
    /\ delay' = [t \in Tasks |-> IF delay[t] > 0 THEN delay[t] - 1 ELSE 0]
    /\ elapsed' = Capped(elapsed + 1)
    /\ open' = IF open # Closed /\ open > 0 THEN open - 1 ELSE open
    /\ sinceToken' = Capped(sinceToken + 1)
    /\ sinceSend' = Capped(sinceSend + 1)
    /\ UNCHANGED <<step, attempt, page, tokens, failures, up, accepting, late>>

Service ==
    /\ up' = ~up
    /\ UNCHANGED <<step, attempt, page, delay, bucket, circuit, accepting, history>>

Quiet ==
    /\ accepting
    /\ accepting' = FALSE
    /\ UNCHANGED <<step, attempt, page, delay, bucket, circuit, up, history>>

-----------------------------------------------------------------------------
(* Where a task stands; at "check" it begins a page or a retry.            *)
Goto(t, s) == step' = [step EXCEPT ![t] = s]

query(t) ==
    /\ step[t] = "idle"
    /\ accepting
    /\ Goto(t, "check")
    /\ attempt' = [attempt EXCEPT ![t] = 0]
    /\ page' = [page EXCEPT ![t] = 0]
    /\ UNCHANGED <<delay, bucket, circuit, up, accepting, history>>

(* The circuit closes: what was sent while it was open is forgotten.       *)
Close ==
    /\ failures' = 0
    /\ open' = Closed
    /\ late' = [t \in Tasks |-> 0]

(* Variant for mutation: a call that is refused counts as a failure.       *)
RefuseExtends(t) ==
    /\ step[t] = "check"
    /\ delay[t] = 0
    /\ open # Closed /\ open > 0
    /\ Goto(t, "idle")
    /\ failures' = failures
    /\ open' = Reset
    /\ UNCHANGED <<attempt, page, delay, bucket, up, accepting, history>>

(* _ensure_circuit_available: an open circuit refuses, an expired one      *)
(* closes.                                                                 *)
Refuse(t) ==
    /\ step[t] = "check"
    /\ delay[t] = 0
    /\ open # Closed /\ open > 0
    /\ Goto(t, "idle")
    /\ UNCHANGED <<attempt, page, delay, bucket, circuit, up, accepting, history>>

Allow(t) ==
    /\ step[t] = "check"
    /\ delay[t] = 0
    /\ \/ open = Closed /\ UNCHANGED <<circuit, late>>
       \/ open = 0 /\ Close
    /\ Goto(t, "pacing")
    /\ UNCHANGED <<attempt, page, delay, bucket, up, accepting, sinceToken, sinceSend>>

(* A request goes out.                                                     *)
Start(t) ==
    /\ Goto(t, "sending")
    /\ sinceSend' = 0
    /\ late' = IF open = Closed THEN late ELSE [late EXCEPT ![t] = @ + 1]

(* Variant for mutation: a task that will retry keeps its place.           *)
RoomHeld ==
    Cardinality({t \in Tasks : step[t] = "sending" \/ (step[t] # "idle" /\ attempt[t] > 0)})
        < Concurrency
Room == Cardinality({t \in Tasks : step[t] = "sending"}) < Concurrency

(* What acquire finds in the bucket when it looks: what was there, and     *)
(* what has flowed in since it was last looked at.  Before the first look  *)
(* _updated_at is None and the bucket is full.                             *)
Filled == IF tokens + elapsed < Capacity THEN tokens + elapsed ELSE Capacity

(* TokenBucket.acquire: takes a token, or sleeps until there should be one *)
(* and looks again; whoever looks first takes it.  Either way the bucket   *)
(* is brought up to date.  With a token a task goes on to the semaphore at *)
(* once, and waits if there is no room or a queue.                         *)
TakeToken(t) ==
    /\ step[t] = "pacing"
    /\ delay[t] = 0
    /\ Filled >= Interval
    /\ tokens' = Filled - Interval
    /\ elapsed' = 0
    /\ sinceToken' = 0
    /\ LET free == Room /\ \A u \in Tasks : step[u] # "queued"
       IN  \/ free /\ Start(t)
           \/ ~free /\ Goto(t, "queued") /\ UNCHANGED <<sinceSend, late>>
    /\ UNCHANGED <<attempt, page, delay, circuit, up, accepting>>

(* Variant for mutation: who finds no token adds what has flowed in and    *)
(* leaves _updated_at, so that the next one adds it again.                 *)
SleepTwiceFilled(t) ==
    /\ step[t] = "pacing"
    /\ delay[t] = 0
    /\ Filled < Interval
    /\ tokens' = Filled
    /\ delay' = [delay EXCEPT ![t] = Interval - Filled]
    /\ UNCHANGED <<step, attempt, page, elapsed, circuit, up, accepting, history>>

Sleep(t) ==
    /\ step[t] = "pacing"
    /\ delay[t] = 0
    /\ Filled < Interval
    /\ tokens' = Filled
    /\ elapsed' = 0
    /\ delay' = [delay EXCEPT ![t] = Interval - Filled]
    /\ UNCHANGED <<step, attempt, page, circuit, up, accepting, history>>

(* The semaphore lets a waiter in.                                         *)
Enter(t) ==
    /\ step[t] = "queued"
    /\ Room
    /\ Start(t)
    /\ UNCHANGED <<attempt, page, delay, bucket, circuit, up, accepting, sinceToken>>

(* 200: _record_success, and the page is parsed.  A full page of a domain  *)
(* query has a successor, up to the limit; a page that cannot be parsed    *)
(* ends the query as a short one does.                                     *)
Page(t) ==
    /\ step[t] = "sending"
    /\ up
    /\ Close
    /\ \/ /\ page[t] + 1 < MaxPages
          /\ page' = [page EXCEPT ![t] = @ + 1]
          /\ attempt' = [attempt EXCEPT ![t] = 0]
          /\ Goto(t, "check")
       \/ Goto(t, "idle") /\ UNCHANGED <<page, attempt>>
    /\ UNCHANGED <<delay, bucket, up, accepting, sinceToken, sinceSend>>

(* 400, 401 or another status: the service is there, and the query ends.   *)
Reject(t) ==
    /\ step[t] = "sending"
    /\ Close
    /\ Goto(t, "idle")
    /\ UNCHANGED <<attempt, page, delay, bucket, up, accepting, sinceToken, sinceSend>>

(* The answer is too large or malformed in transport: neither success nor  *)
(* failure is recorded.                                                    *)
Abandon(t) ==
    /\ step[t] = "sending"
    /\ Goto(t, "idle")
    /\ UNCHANGED <<attempt, page, delay, bucket, circuit, up, accepting, history>>

Backoff(a) == Second * (IF 2^a < 8 THEN 2^a ELSE 8)

(* Variant for mutation: a retry does not look at the circuit again.       *)
FailRetries(t) ==
    /\ step[t] = "sending"
    /\ ~up
    /\ failures' = failures + 1
    /\ open' = IF failures + 1 >= Threshold THEN Reset ELSE open
    /\ \/ /\ attempt[t] < MaxRetries
          /\ Goto(t, "pacing")
          /\ attempt' = [attempt EXCEPT ![t] = @ + 1]
          /\ delay' = [delay EXCEPT ![t] = Backoff(attempt[t])]
       \/ /\ attempt[t] = MaxRetries
          /\ Goto(t, "idle")
          /\ UNCHANGED <<attempt, delay>>
    /\ UNCHANGED <<page, bucket, up, accepting, history>>

(* 429, 5xx, a network error or a timeout: _record_failure, and the task   *)
(* sleeps before its next attempt, or gives up.                            *)
Fail(t) ==
    /\ step[t] = "sending"
    /\ ~up
    /\ failures' = failures + 1
    /\ open' = IF failures + 1 >= Threshold THEN Reset ELSE open
    /\ \/ /\ attempt[t] < MaxRetries
          /\ Goto(t, "check")
          /\ attempt' = [attempt EXCEPT ![t] = @ + 1]
          /\ delay' = [delay EXCEPT ![t] = Backoff(attempt[t])]
       \/ /\ attempt[t] = MaxRetries
          /\ Goto(t, "idle")
          /\ UNCHANGED <<attempt, delay>>
    /\ UNCHANGED <<page, bucket, up, accepting, history>>

-----------------------------------------------------------------------------
_send(t) == Page(t) \/ Reject(t) \/ Abandon(t) \/ Fail(t)
_request_page(t) == Refuse(t) \/ Allow(t) \/ TakeToken(t) \/ Sleep(t) \/ Enter(t) \/ _send(t)

ClientNext ==
    \/ \E t \in Tasks : query(t) \/ _request_page(t)
    \/ Clock \/ Service \/ Quiet

ClientSpec == ClientInit /\ [][ClientNext]_clientVars

(* The event loop runs every task that can run, an HTTP attempt ends (it   *)
(* has a timeout), the semaphore serves its waiters in order, time passes. *)
ClientFairSpec ==
    /\ ClientSpec
    /\ WF_clientVars(Clock)
    /\ \A t \in Tasks :
        /\ WF_clientVars(_request_page(t))
        /\ SF_clientVars(Enter(t))
-----------------------------------------------------------------------------
(* Every variable has its type; the failures counted stop growing once the *)
(* circuit is open and the attempts under way have ended.                  *)
ClientTypeOK ==
    /\ step \in [Tasks -> {"idle", "check", "pacing", "queued", "sending"}]
    /\ attempt \in [Tasks -> 0..MaxRetries]
    /\ page \in [Tasks -> 0..MaxPages - 1]
    /\ delay \in [Tasks -> 0..8 * Second]
    /\ tokens \in 0..Interval /\ elapsed \in 0..Interval
    /\ failures \in 0..Threshold + 2 * Cardinality(Tasks)
    /\ open \in 0..Reset \cup {Closed}
    /\ up \in BOOLEAN /\ accepting \in BOOLEAN
    /\ sinceToken \in 0..Interval /\ sinceSend \in 0..Interval
    /\ late \in [Tasks -> Nat]

(* TokenBucket.acquire fills the bucket only when somebody looks, and      *)
(* tasks look at any moment, wake early or late and find the token gone.   *)
(* Even so no time is counted twice: no two tokens are taken within the    *)
(* interval of the rate.                                                   *)
TokensPaced ==
    [][\A t \in Tasks :
           step[t] = "pacing" /\ step'[t] \in {"queued", "sending"} => sinceToken >= Interval]_clientVars

(* "A capacity of one spaces starts evenly and cannot exceed three in any  *)
(* rolling second" (TokenBucket): no two HTTP attempts begin within the    *)
(* interval of the rate.                                                   *)
SendsPaced ==
    [][\A t \in Tasks : step[t] # "sending" /\ step'[t] = "sending" => sinceSend >= Interval]_clientVars

(* _request_page checks the circuit long before it sends.  Even so, while  *)
(* the circuit is open a task sends once at most: the attempt that had     *)
(* passed the check before.                                                *)
LateOnce == \A t \in Tasks : late[t] <= 1

(* The circuit is not kept open by the calls it refuses: once the service  *)
(* answers for good, it stops refusing for good.                           *)
Recovers == <>[]up => <>[](open = Closed \/ open = 0)

(* When scans stop coming, each one under way ends: in the bucket's loop,  *)
(* at the semaphore and among the retries nobody is left behind.           *)
QueriesEnd == <>~accepting => \A t \in Tasks : step[t] # "idle" ~> step[t] = "idle"
-----------------------------------------------------------------------------
(* The inductive invariant: what the bucket holds and what flows in at the *)
(* next look are no more than the time since the last token; a task that   *)
(* has sent since the circuit opened is not on its way to send again.      *)
BucketInv ==
    /\ tokens \in 0..Interval /\ elapsed \in 0..Interval /\ sinceToken \in 0..Interval
    /\ Filled <= sinceToken

LateInv ==
    /\ late \in [Tasks -> Nat]
    /\ step \in [Tasks -> {"idle", "check", "pacing", "queued", "sending"}]
    /\ open = Closed => \A t \in Tasks : late[t] = 0
    /\ \A t \in Tasks : late[t] > 0 => step[t] \notin {"pacing", "queued"}
    /\ LateOnce

ClientInv == BucketInv /\ LateInv
=============================================================================
