----------------------------- MODULE LocalLogin -----------------------------
(***************************************************************************)
(* Local administrators: the sign-in with its account and address          *)
(* throttles (src/app/auth/local.py), the enrolment in MFA and the change  *)
(* of password (src/app/routers/auth.py).                                  *)
(*                                                                         *)
(* A request is one transaction.  A sign-in reads the clock first, then    *)
(* waits for the address's bucket and for the account's rows, both FOR     *)
(* UPDATE, and judges with the reading it took before it waited.  Times    *)
(* are what is left of them: a lock of 2 ends in two ticks, one of 0 or    *)
(* less has elapsed, and a request of age a compares with the clock as it  *)
(* was a ticks ago.                                                        *)
(***************************************************************************)
EXTENDS Integers, Sequences

CONSTANTS
    Admins,       \* accounts that are active super-admins with a credential
    Names,        \* usernames that are tried; the others have no such account
    Ips,          \* client addresses
    Requests,     \* requests being served at a time
    Passwords,
    First,        \* the password create_superadmin was given
    Secrets,      \* TOTP seeds
    Skews,        \* how many periods a code may be off when it is checked
    Forms,        \* the forms that are sent
    MaxFailures,  \* admin_login_max_failures
    Lockout,      \* admin_login_lockout_seconds, in ticks
    IpMax,        \* admin_login_ip_max_failures
    IpWindow,     \* admin_login_ip_window_seconds, in ticks
    IpLockout,    \* admin_login_ip_lockout_seconds, in ticks
    MaxWait,      \* bound: how long a request lasts, in ticks
    Off           \* an unset column

ASSUME AdminsAssumption == Admins \subseteq Names
ASSUME LimitsAssumption == MaxFailures \in Nat \ {0} /\ IpMax \in Nat \ {0}
ASSUME TimesAssumption ==
    /\ {Lockout, IpWindow, IpLockout, MaxWait} \subseteq Nat
    /\ \A t \in {Lockout, IpWindow, IpLockout} : MaxWait < t
ASSUME FirstAssumption == First \in Passwords
ASSUME OffAssumption == Off \notin Int \cup Secrets \cup Passwords

(* A code of the authenticator, or none.                                   *)
Codes == [secret : Secrets, skew : Skews] \cup {Off}

(* What a request carries: a sign-in, a change of password, a visit of the *)
(* MFA page, a code that enables MFA.                                      *)
AllForms ==
    [kind : {"login"}, name : Names, ip : Ips, typed : Passwords, code : Codes]
        \cup [kind : {"change"}, name : Admins, typed : Passwords, new : Passwords]
        \cup [kind : {"page"}, name : Admins]
        \cup [kind : {"enable"}, name : Admins, code : Codes]

ASSUME FormsAssumption == Forms \subseteq AllForms /\ Off \notin AllForms

VARIABLES
    cred,    \* admin_credentials: password, is its hash outdated, TOTP seed, is MFA on
    failed,  \* admin_credentials.failed_attempts
    locked,  \* admin_credentials.locked_until
    bucket,  \* admin_login_rate_limits of each address; Off when there is no row
    stage,   \* where each request stands
    form,    \* what it carries
    age,     \* ticks since it read the clock
    seen,    \* the credential as it loaded it
    shown,   \* history: the seeds an account's MFA pages showed, if they committed
    recent   \* history: ages of the last wrong guesses since a sign-in succeeded

requestVars == <<stage, form, age, seen>>
credVars == <<cred, failed, locked>>
vars == <<credVars, bucket, requestVars, shown, recent>>

Credentials ==
    [password : Passwords, outdated : BOOLEAN, secret : Secrets \cup {Off}, enabled : BOOLEAN]

(* create_superadmin: a password and no second factor.  The parameters its *)
(* hash was made with may since have changed.                              *)
Init ==
    /\ \E outdated \in BOOLEAN :
        cred = [u \in Admins |-> [password |-> First, outdated |-> outdated,
                                  secret |-> Off, enabled |-> FALSE]]
    /\ failed = [u \in Admins |-> 0]
    /\ locked = [u \in Admins |-> Off]
    /\ bucket = [i \in Ips |-> Off]
    /\ stage = [q \in Requests |-> "idle"]
    /\ form = [q \in Requests |-> Off]
    /\ age = [q \in Requests |-> 0]
    /\ seen = [q \in Requests |-> Off]
    /\ shown = [u \in Admins |-> {}]
    /\ recent = [u \in Admins |-> << >>]

-----------------------------------------------------------------------------
(* now < until, for a request's reading of the clock.                      *)
InForce(until, a) == until # Off /\ until + a > 0

(* verify_totp: a code of this seed, at most one period off.               *)
VerifyTotp(secret, code) ==
    secret # Off /\ code # Off /\ code.secret = secret /\ code.skew \in -1..1

(* _load_ip_limit's insert of a missing bucket.                            *)
NewBucket(a) == [attempts |-> 0, blocked |-> Off, window |-> IpWindow - a]
Bucket(q) == IF bucket[form[q].ip] = Off THEN NewBucket(age[q]) ELSE bucket[form[q].ip]

(* _reset_ip_limit_if_elapsed.                                             *)
ResetIfElapsed(b, a) ==
    IF b.blocked # Off /\ ~InForce(b.blocked, a) THEN NewBucket(a)
    ELSE IF ~InForce(b.window, a) THEN [b EXCEPT !.attempts = 0, !.window = IpWindow - a]
    ELSE b

(* _record_ip_failure.                                                     *)
RecordFailure(b, a) ==
    LET r == ResetIfElapsed(b, a)
    IN  [r EXCEPT !.attempts = @ + 1,
                  !.blocked = IF r.attempts + 1 >= IpMax THEN IpLockout - a ELSE @]

CountFailure(q) == bucket' = [bucket EXCEPT ![form[q].ip] = RecordFailure(Bucket(q), age[q])]

(* A sign-in, whose reading of the clock grows old.                        *)
Judges(q) == stage[q] # "idle" /\ form[q].kind = "login"

(* Variant for mutation: the account's rows are read without FOR UPDATE.   *)
NoAccount(q) == {}
(* The rows a request has locked until its transaction ends.               *)
LockedIp(q) ==
    IF stage[q] \in {"bucket", "loaded"} /\ Judges(q) THEN {form[q].ip} ELSE {}
LockedAccount(q) == IF stage[q] = "loaded" THEN {form[q].name} ELSE {}

IpFree(q) == \A p \in Requests \ {q} : form[q].ip \notin LockedIp(p)
AccountFree(q, u) == \A p \in Requests \ {q} : u \notin LockedAccount(p)

End(q) ==
    /\ stage' = [stage EXCEPT ![q] = "idle"]
    /\ form' = [form EXCEPT ![q] = Off]
    /\ age' = [age EXCEPT ![q] = 0]
    /\ seen' = [seen EXCEPT ![q] = Off]

-----------------------------------------------------------------------------
(* finish_local_login: a sign-in arrives and reads the clock.              *)
BeginLogin(q, f) ==
    /\ stage[q] = "idle"
    /\ f.kind = "login"
    /\ stage' = [stage EXCEPT ![q] = "new"]
    /\ form' = [form EXCEPT ![q] = f]
    /\ UNCHANGED <<credVars, bucket, age, seen, shown, recent>>

(* One of the three account pages: it comes with a live session, whose     *)
(* check is in Accounts, and locks and reads the account's rows.           *)
BeginPage(q, f) ==
    /\ stage[q] = "idle"
    /\ f.kind # "login"
    /\ AccountFree(q, f.name)
    /\ stage' = [stage EXCEPT ![q] = "loaded"]
    /\ form' = [form EXCEPT ![q] = f]
    /\ seen' = [seen EXCEPT ![q] = cred[f.name]]
    /\ UNCHANGED <<credVars, bucket, age, shown, recent>>

(* Variant for mutation: an attempt from a blocked address starts the      *)
(* block again.                                                            *)
BlockProlonged(q) ==
    /\ stage[q] = "new"
    /\ IpFree(q)
    /\ \/ /\ InForce(Bucket(q).blocked, age[q])
          /\ bucket' = [bucket EXCEPT ![form[q].ip].blocked = IpLockout - age[q]]
          /\ End(q)
       \/ /\ ~InForce(Bucket(q).blocked, age[q])
          /\ stage' = [stage EXCEPT ![q] = "bucket"]
          /\ UNCHANGED <<bucket, form, age, seen>>
    /\ UNCHANGED <<credVars, shown, recent>>

(* authenticate locks the bucket; a blocked address is turned away.        *)
LoadIpLimit(q) ==
    /\ stage[q] = "new"
    /\ IpFree(q)
    /\ \/ /\ InForce(Bucket(q).blocked, age[q])
          /\ End(q)
       \/ /\ ~InForce(Bucket(q).blocked, age[q])
          /\ stage' = [stage EXCEPT ![q] = "bucket"]
          /\ UNCHANGED <<form, age, seen>>
    /\ UNCHANGED <<credVars, bucket, shown, recent>>

(* A username that is malformed, unknown or not an active super-admin.     *)
NoSuchAdmin(q) ==
    /\ stage[q] = "bucket"
    /\ form[q].name \notin Admins
    /\ CountFailure(q)
    /\ End(q)
    /\ UNCHANGED <<credVars, shown, recent>>

(* A sign-in to a locked account counts for the address only.              *)
StillLocked(q) ==
    /\ stage[q] = "bucket"
    /\ form[q].name \in Admins
    /\ AccountFree(q, form[q].name)
    /\ InForce(locked[form[q].name], age[q])
    /\ CountFailure(q)
    /\ End(q)
    /\ UNCHANGED <<credVars, shown, recent>>

(* The account is not locked: its rows, which are, have been read.         *)
Load(q) ==
    /\ stage[q] = "bucket"
    /\ form[q].name \in Admins
    /\ AccountFree(q, form[q].name)
    /\ ~InForce(locked[form[q].name], age[q])
    /\ stage' = [stage EXCEPT ![q] = "loaded"]
    /\ seen' = [seen EXCEPT ![q] = cred[form[q].name]]
    /\ UNCHANGED <<credVars, bucket, form, age, shown, recent>>

-----------------------------------------------------------------------------
(* The two factors, judged on the credential that was loaded; the second   *)
(* only once MFA is on.                                                    *)
PasswordValid(q) == form[q].typed = seen[q].password
FactorsValid(q) ==
    PasswordValid(q) /\ (seen[q].enabled => VerifyTotp(seen[q].secret, form[q].code))

(* Variant for mutation: the lock starts one failure late.                 *)
LockOneLate(n) == n > MaxFailures
ReachesLimit(n) == n >= MaxFailures

Remember(s) == Append(IF Len(s) = MaxFailures THEN Tail(s) ELSE s, 0)

(* A wrong factor: an elapsed lock is cleared first, the counter and the   *)
(* address's counter go up, and the lock starts at the limit.              *)
WrongFactors(q) ==
    LET u == form[q].name
        n == (IF locked[u] = Off THEN failed[u] ELSE 0) + 1
    IN  /\ stage[q] = "loaded"
        /\ form[q].kind = "login"
        /\ ~FactorsValid(q)
        /\ failed' = [failed EXCEPT ![u] = n]
        /\ locked' = [locked EXCEPT ![u] = IF ReachesLimit(n) THEN Lockout - age[q] ELSE Off]
        /\ CountFailure(q)
        /\ recent' = [recent EXCEPT ![u] = Remember(@)]
        /\ End(q)
        /\ UNCHANGED <<cred, shown>>

(* A sign-in: the counters are cleared, an outdated hash is replaced by    *)
(* one of the password that was typed, a session is issued (Accounts).     *)
SignIn(q) ==
    LET u == form[q].name
    IN  /\ stage[q] = "loaded"
        /\ form[q].kind = "login"
        /\ FactorsValid(q)
        /\ failed' = [failed EXCEPT ![u] = 0]
        /\ locked' = [locked EXCEPT ![u] = Off]
        /\ cred' = [cred EXCEPT ![u].password = IF seen[q].outdated THEN form[q].typed ELSE @,
                                ![u].outdated = FALSE]
        /\ bucket' = [bucket EXCEPT ![form[q].ip] = ResetIfElapsed(Bucket(q), age[q])]
        /\ recent' = [recent EXCEPT ![u] = << >>]
        /\ End(q)
        /\ UNCHANGED shown

(* change_password.                                                        *)
ChangePassword(q) ==
    LET u == form[q].name
    IN  /\ stage[q] = "loaded"
        /\ form[q].kind = "change"
        /\ cred' = IF PasswordValid(q)
                   THEN [cred EXCEPT ![u].password = form[q].new, ![u].outdated = FALSE]
                   ELSE cred
        /\ End(q)
        /\ UNCHANGED <<failed, locked, bucket, shown, recent>>

(* Variant for mutation: every visit of the page starts a new enrolment.   *)
AlwaysNewSeed(c) == Secrets
(* The seed the MFA page shows: the pending one, a new one if there is     *)
(* none.                                                                   *)
PageSeeds(c) == IF c.secret = Off THEN Secrets ELSE {c.secret}

(* mfa_setup_page.                                                         *)
MfaSetupPage(q) ==
    LET u == form[q].name
    IN  /\ stage[q] = "loaded"
        /\ form[q].kind = "page"
        /\ \/ seen[q].enabled /\ UNCHANGED <<cred, shown>>
           \/ /\ ~seen[q].enabled
              /\ \E s \in PageSeeds(seen[q]) :
                  /\ cred' = [cred EXCEPT ![u].secret = s]
                  /\ shown' = [shown EXCEPT ![u] = @ \cup {s}]
        /\ End(q)
        /\ UNCHANGED <<failed, locked, bucket, recent>>

(* enable_mfa: a code of the pending seed.                                 *)
EnableMfa(q) ==
    LET u == form[q].name
    IN  /\ stage[q] = "loaded"
        /\ form[q].kind = "enable"
        /\ cred' = [cred EXCEPT ![u].enabled = @ \/ VerifyTotp(seen[q].secret, form[q].code)]
        /\ End(q)
        /\ UNCHANGED <<failed, locked, bucket, shown, recent>>

(* The transaction is rolled back: the client left, the process crashed.   *)
Abort(q) ==
    /\ stage[q] # "idle"
    /\ End(q)
    /\ UNCHANGED <<credVars, bucket, shown, recent>>

(* A tick of the clock.  What elapsed MaxWait ago has elapsed for every    *)
(* request there is.                                                       *)
Passed(until) == IF until = Off \/ until = -MaxWait THEN until ELSE until - 1
Older(a) == IF a = Lockout - MaxWait THEN a ELSE a + 1

Tick ==
    /\ \A q \in Requests : age[q] < MaxWait
    /\ age' = [q \in Requests |-> IF Judges(q) THEN age[q] + 1 ELSE 0]
    /\ locked' = [u \in Admins |-> Passed(locked[u])]
    /\ bucket' = [i \in Ips |->
           IF bucket[i] = Off THEN Off
           ELSE [bucket[i] EXCEPT !.blocked = Passed(@), !.window = Passed(@)]]
    /\ recent' = [u \in Admins |-> [k \in DOMAIN recent[u] |-> Older(recent[u][k])]]
    /\ UNCHANGED <<cred, failed, stage, form, seen, shown>>

Proceed(q) ==
    \/ LoadIpLimit(q) \/ NoSuchAdmin(q) \/ StillLocked(q) \/ Load(q)
    \/ WrongFactors(q) \/ SignIn(q) \/ ChangePassword(q) \/ MfaSetupPage(q) \/ EnableMfa(q)

Next ==
    \/ \E q \in Requests : Proceed(q) \/ Abort(q) \/ \E f \in Forms : BeginLogin(q, f) \/ BeginPage(q, f)
    \/ Tick

Spec == Init /\ [][Next]_vars

(* Time passes, and the database gives every waiting request its lock in   *)
(* the end.                                                                *)
FairSpec == Spec /\ WF_vars(Tick) /\ \A q \in Requests : SF_vars(Proceed(q))
-----------------------------------------------------------------------------
(* "Enforcing account and IP throttles" (LocalAuthenticator) against       *)
(* guesses that run at the same time and judge with an old reading of the  *)
(* clock: of any MaxFailures + 1 wrong guesses in a row the last comes a   *)
(* lockout after the first, less the time a request may take.              *)
GuessesPaced ==
    [][\A q \in Requests :
          WrongFactors(q) =>
              LET r == recent[form[q].name]
              IN  Len(r) = MaxFailures => r[1] >= Lockout - MaxWait]_vars

(* Whoever signs in, and whoever changes a password, has given the         *)
(* account's factors as they are at that moment, whatever sign-ins,        *)
(* enrolments and changes run beside it; and a sign-in that renews an      *)
(* outdated hash never puts an old password back.                          *)
OnlyOwnersAct ==
    [][/\ \A q \in Requests :
             SignIn(q) => LET c == cred[form[q].name]
                          IN  /\ form[q].typed = c.password
                              /\ c.enabled => VerifyTotp(c.secret, form[q].code)
       /\ \A u \in Admins :
             cred'[u].password # cred[u].password =>
                 \E q \in Requests :
                     /\ stage[q] = "loaded" /\ stage'[q] = "idle"
                     /\ form[q].kind = "change" /\ form[q].name = u
                     /\ form[q].typed = cred[u].password]_vars

(* mfa_setup_page "creates or resumes" an enrolment: every page of an      *)
(* account, in any tab, shows the seed that enable_mfa will check and      *)
(* sign-in will ask for.                                                   *)
PagesAgree ==
    \A u \in Admins : \A s \in shown[u] : cred[u].secret = s

(* A lock on an account and a block of an address end, though somebody     *)
(* goes on trying: attempts meanwhile do not prolong them.                 *)
LocksElapse ==
    /\ \A u \in Admins : []<>~InForce(locked[u], 0)
    /\ \A i \in Ips : []<>(bucket[i] = Off \/ ~InForce(bucket[i].blocked, 0))
-----------------------------------------------------------------------------
(* The inductive invariant behind the three safety properties.             *)
TypeOK ==
    /\ cred \in [Admins -> Credentials]
    /\ failed \in [Admins -> Nat]
    /\ locked \in [Admins -> Int \cup {Off}]
    /\ stage \in [Requests -> {"idle", "new", "bucket", "loaded"}]
    /\ form \in [Requests -> Forms \cup {Off}]
    /\ age \in [Requests -> 0 .. MaxWait]
    /\ seen \in [Requests -> Credentials \cup {Off}]
    /\ shown \in [Admins -> SUBSET Secrets]
    /\ recent \in [Admins -> Seq(0 .. (Lockout - MaxWait))]

(* A request that has loaded an account holds its rows alone, and they are *)
(* as it read them.                                                        *)
LoadedInv ==
    \A q \in Requests :
        /\ stage[q] # "idle" => form[q] # Off
        /\ stage[q] \in {"new", "bucket"} => form[q].kind = "login"
        /\ stage[q] = "loaded" =>
               /\ form[q].name \in Admins
               /\ seen[q] = cred[form[q].name]
               /\ \A p \in Requests \ {q} : stage[p] = "loaded" => form[p].name # form[q].name

(* A sign-in under way found its account unlocked, and by its reading of   *)
(* the clock it still is.                                                  *)
JudgeInv ==
    \A q \in Requests :
        stage[q] = "loaded" /\ form[q].kind = "login" => ~InForce(locked[form[q].name], age[q])

(* All the wrong guesses but those counted since the last lock are as old  *)
(* as a lockout makes them; while there is a lock, they all are as far as  *)
(* it has come.                                                            *)
GuessesOld(u) ==
    /\ Len(recent[u]) <= MaxFailures
    /\ locked[u] = Off =>
           /\ failed[u] < MaxFailures /\ failed[u] <= Len(recent[u])
           /\ \A k \in 1 .. (Len(recent[u]) - failed[u]) : recent[u][k] = Lockout - MaxWait
    /\ locked[u] # Off =>
           \A k \in 1 .. Len(recent[u]) :
               \/ recent[u][k] = Lockout - MaxWait
               \/ recent[u][k] + locked[u] >= Lockout - MaxWait

PaceInv == \A u \in Admins : GuessesOld(u)

IInv ==
    /\ TypeOK
    /\ LoadedInv
    /\ JudgeInv
    /\ PaceInv
    /\ PagesAgree
=============================================================================
