----------------------------- MODULE GoogleLogin ----------------------------
(***************************************************************************)
(* Sign-in with Google as one browser sees it: the transaction cookie and  *)
(* the callback (src/app/routers/auth.py, src/app/auth/google.py), the     *)
(* linking of a Google subject to an account (provision_google_user) beside*)
(* the Workspace sync that writes the same columns                         *)
(* (src/app/google_workspace.py), and the CSRF token that is bound to the  *)
(* session (src/app/auth/csrf.py).                                         *)
(*                                                                         *)
(* The browser has several tabs and one cookie jar.  A request carries the *)
(* jar as it is when it is sent, an answer changes it when it arrives, and *)
(* answers arrive in any order or are lost.  The session cookie has a      *)
(* max_age and outlives the browser; the CSRF cookie has none and goes     *)
(* when the browser is closed.  A code is redeemed once, so the session a  *)
(* sign-in issues has the name of its transaction.                         *)
(***************************************************************************)
EXTENDS FiniteSets, Naturals, Sequences
LOCAL INSTANCE SequencesExt

CONSTANTS
    Tabs,      \* requests of the browser under way at a time
    Own,       \* transactions this browser starts
    Foreign,   \* transactions another browser started
    Subjects,  \* Google accounts of an allowed domain
    Emails,
    MaxRows,   \* bound: rows of users
    MaxMoves,  \* bound: addresses the directory reassigns
    None

Rows == 1..MaxRows
Txns == Own \cup Foreign
ASSUME TxnsAssumption == Own \cap Foreign = {} /\ None \notin Txns
ASSUME NoneAssumption == None \notin Subjects \cup Emails \cup Rows
ASSUME RowsAssumption == MaxRows \in Nat
ASSUME MovesAssumption == MaxMoves \in Nat

Accounts == [email : Emails, sub : Subjects \cup {None}]
Tables == [Rows -> Accounts \cup {None}]
ASSUME AccountsAssumption == None \notin Accounts \cup Tables

VARIABLES
    session, csrf, cookie, \* the jar: session, what the CSRF token is bound to, transaction
    started,  \* transactions that exist
    consent,  \* the subject that consented at Google; None before
    redeemed, \* the codes that were exchanged
    phase,    \* where each tab's request stands
    txn,      \* the transaction it starts or returns from
    carried,  \* the session cookie it carried
    matches,  \* is its transaction cookie that of its state?
    identity, \* the verified claims
    hit,      \* the account found by subject, and locked
    answer,   \* the cookies its answer sets
    users,    \* the rows of users
    mail,     \* the directory: each subject's address
    moves,    \* how often an address was reassigned
    live,     \* sessions issued and not revoked
    quiet,    \* history: no two requests have been under way at once
    closed,   \* history: the browser was closed, and got no CSRF token since
    astray    \* history: sessions whose answer was lost

jar == <<session, csrf, cookie>>
google == <<consent, redeemed, mail, moves>>
request == <<phase, txn, carried, matches, identity, hit, answer>>
history == <<quiet, closed, astray>>
googleVars == <<jar, started, google, request, users, live, history>>

(* A cookie an answer leaves alone.                                        *)
Keep == "keep"
ASSUME KeepAssumption == Keep \notin Txns \cup {None}

Silent == [session |-> Keep, csrf |-> Keep, cookie |-> Keep]

(* The CSRF token of a browser without a session is bound to "anonymous".  *)
Context(s) == IF s = None THEN "anonymous" ELSE s

GoogleInit ==
    /\ session = None /\ csrf = None /\ cookie = None
    /\ started = {}
    /\ consent = [x \in Txns |-> None]
    /\ redeemed = {}
    /\ phase = [t \in Tabs |-> "idle"]
    /\ txn = [t \in Tabs |-> None]
    /\ carried = [t \in Tabs |-> None]
    /\ matches = [t \in Tabs |-> FALSE]
    /\ identity = [t \in Tabs |-> None]
    /\ hit = [t \in Tabs |-> None]
    /\ answer = [t \in Tabs |-> Silent]
    /\ users \in [Rows -> {None} \cup [email : Emails, sub : {None}]]
    /\ \A r, s \in Rows : users[s] # None /\ r < s => users[r] # None /\ users[r].email # users[s].email
    /\ mail \in {m \in [Subjects -> Emails \cup {None}] :
                  \A g, h \in Subjects : m[g] = m[h] => g = h \/ m[g] = None}
    /\ moves = 0
    /\ live = {}
    /\ quiet = TRUE
    /\ closed = FALSE
    /\ astray = {}

-----------------------------------------------------------------------------
(* A tab sends a request; `quiet` remembers whether it was the only one.   *)
Send(t, to, x) ==
    /\ phase[t] = "idle"
    /\ phase' = [phase EXCEPT ![t] = to]
    /\ txn' = [txn EXCEPT ![t] = x]
    /\ carried' = [carried EXCEPT ![t] = session]
    /\ quiet' = (quiet /\ \A o \in Tabs : phase[o] = "idle")
    /\ closed' = (closed /\ quiet')
    /\ astray' = IF quiet' THEN astray ELSE {}

Answer(t, a) ==
    /\ phase' = [phase EXCEPT ![t] = "answered"]
    /\ answer' = [answer EXCEPT ![t] = a]

(* _authentication_failed: the transaction cookie is cleared.              *)
Failed == [Silent EXCEPT !.cookie = None]

(* start_google_login: a fresh transaction, or a failure when Google is    *)
(* not configured or cannot be reached.                                    *)
StartGoogleLogin(t) ==
    /\ \/ \E x \in Own \ started :
           /\ Send(t, "answered", x)
           /\ started' = started \cup {x}
           /\ answer' = [answer EXCEPT ![t] = [Silent EXCEPT !.cookie = x]]
       \/ /\ Send(t, "answered", None)
          /\ answer' = [answer EXCEPT ![t] = Failed]
          /\ UNCHANGED started
    /\ UNCHANGED <<jar, google, matches, identity, hit, users, live>>

(* issue_csrf_token: a token bound to the session the request carried.     *)
IssueCsrfToken(t) ==
    /\ Send(t, "answered", None)
    /\ answer' = [answer EXCEPT ![t] = [Silent EXCEPT !.csrf = Context(session)]]
    /\ UNCHANGED <<jar, started, google, matches, identity, hit, users, live>>

(* CSRFProtector.valid: the token is bound to the session sent with it.    *)
CsrfValid == csrf = Context(session)

(* logout, behind the CSRF middleware and the session check.  The CSRF     *)
(* cookie stays.                                                           *)
Logout(t) ==
    /\ CsrfValid
    /\ session \in live
    /\ Send(t, "answered", None)
    /\ live' = live \ {session}
    /\ answer' = [answer EXCEPT ![t] = [Silent EXCEPT !.session = None]]
    /\ UNCHANGED <<jar, started, google, matches, identity, hit, users>>

(* Google sends a browser back after the consent.  The tab may be reloaded *)
(* and send the same callback again, and a link may bring the callback of  *)
(* another browser's transaction.                                          *)
Callback(t, x) ==
    /\ consent[x] # None
    /\ Send(t, "callback", x)
    /\ matches' = [matches EXCEPT ![t] = cookie = x]
    /\ UNCHANGED <<jar, started, google, identity, hit, answer, users, live>>

-----------------------------------------------------------------------------
(* Variant for mutation: the state of the callback is not compared with    *)
(* the transaction cookie, nor the code and the nonce with the transaction.*)
AnyTransaction(t) == TRUE

(* read_transaction_cookie and the comparison of the state; Google and     *)
(* _verify_id_token then compare the code and the nonce with the same      *)
(* transaction.                                                            *)
TransactionValid(t) == matches[t]

(* finish_google_login refuses the callback: no transaction cookie of this *)
(* state, or one past OAUTH_TRANSACTION_TTL, the code redeemed before,     *)
(* a domain or a claim that is not accepted, a provider that does not      *)
(* answer.                                                                 *)
Refuse(t) ==
    /\ phase[t] = "callback"
    /\ Answer(t, Failed)
    /\ UNCHANGED <<jar, started, google, txn, carried, matches, identity, hit, users,
                   live, history>>

(* exchange_and_verify.                                                    *)
ExchangeAndVerify(t) ==
    /\ phase[t] = "callback"
    /\ TransactionValid(t)
    /\ txn[t] \notin redeemed
    /\ mail[consent[txn[t]]] # None
    /\ redeemed' = redeemed \cup {txn[t]}
    /\ identity' = [identity EXCEPT ![t] =
                       [sub |-> consent[txn[t]], email |-> mail[consent[txn[t]]]]]
    /\ phase' = [phase EXCEPT ![t] = "verified"]
    /\ UNCHANGED <<jar, started, consent, mail, moves, txn, carried, matches, hit, answer,
                   users, live, history>>

WithSub(us, g) == {r \in Rows : us[r] # None /\ us[r].sub = g}
WithEmail(us, e) == {r \in Rows : us[r] # None /\ us[r].email = e}
BySub(g) == WithSub(users, g)
ByEmail(e) == WithEmail(users, e)

(* The row an insert takes: the first that is free.                        *)
IsNext(us, r) == us[r] = None /\ \A s \in Rows : us[s] = None => r <= s

(* Rows locked by the other tabs' transactions.                            *)
Locked(t) == {hit[o] : o \in {p \in Tabs \ {t} : phase[p] = "found"}} \ {None}

(* provision_google_user: the account by subject, FOR UPDATE.              *)
FindBySubject(t) ==
    /\ phase[t] = "verified"
    /\ BySub(identity[t].sub) \cap Locked(t) = {}
    /\ hit' = [hit EXCEPT ![t] =
                  IF BySub(identity[t].sub) = {} THEN None
                  ELSE CHOOSE r \in BySub(identity[t].sub) : TRUE]
    /\ phase' = [phase EXCEPT ![t] = "found"]
    /\ UNCHANGED <<jar, started, google, txn, carried, matches, identity, answer, users,
                   live, history>>

(* Variant for mutation: an account is linked anew, whoever it was of.     *)
LinksAnew(r, g) == TRUE
(* An account found by email is this person's: it is linked to nobody else.*)
MayLink(r, g) == users[r].sub \in {None, g}

(* The rest of provision_google_user: the account by email, FOR UPDATE;    *)
(* which one signs in, and what it becomes.  A row that appeared since the *)
(* look by subject makes the insert fail.                                  *)
Provisions(t, r) ==
    LET e == identity[t].email
        g == identity[t].sub
    IN  /\ \/ hit[t] = r /\ ByEmail(e) \subseteq {r}
           \/ hit[t] = None /\ r \in ByEmail(e) /\ MayLink(r, g)
           \/ hit[t] = None /\ ByEmail(e) = {} /\ IsNext(users, r)
        /\ BySub(g) \subseteq {r}

(* Variant for mutation: the token is bound to the session before sign-in. *)
TokenOfOldSession(t) == Context(carried[t])
(* finish_google_login issues the CSRF token for the session it issued.    *)
NewToken(t) == Context(txn[t])

(* The rest of finish_google_login for an active account: the session the  *)
(* request carried is revoked and a new one issued.                        *)
GoogleSignIn(t) ==
    /\ phase[t] = "found"
    /\ \E r \in Rows \ Locked(t) :
        /\ Provisions(t, r)
        /\ users' = [users EXCEPT ![r] = identity[t]]
    /\ live' = (live \ {carried[t]}) \cup {txn[t]}
    /\ Answer(t, [session |-> txn[t], csrf |-> NewToken(t), cookie |-> None])
    /\ UNCHANGED <<jar, started, google, txn, carried, matches, identity, hit, history>>

(* An inactive account is refused, and linked all the same.                *)
RefuseInactive(t) ==
    /\ phase[t] = "found"
    /\ \E r \in Rows \ Locked(t) :
        /\ Provisions(t, r)
        /\ users[r] # None
        /\ users' = [users EXCEPT ![r] = identity[t]]
    /\ Answer(t, Failed)
    /\ UNCHANGED <<jar, started, google, txn, carried, matches, identity, hit, live, history>>

(* No account may sign in, or the transaction is rolled back: a unique     *)
(* constraint, a deadlock, a crash.  An error that is not a GoogleOIDCError*)
(* leaves the cookies alone.                                               *)
GiveUp(t) ==
    /\ phase[t] \in {"verified", "found"}
    /\ \E a \in {Failed, Silent} : Answer(t, a)
    /\ UNCHANGED <<jar, started, google, txn, carried, matches, identity, hit, users, live,
                   history>>

(* An answer arrives and its Set-Cookie headers take effect.               *)
Set(old, new) == IF new = Keep THEN old ELSE new

(* The tab is done with its request.                                       *)
EndRequest(t) ==
    /\ phase[t] = "answered"
    /\ phase' = [phase EXCEPT ![t] = "idle"]
    /\ txn' = [txn EXCEPT ![t] = None]
    /\ carried' = [carried EXCEPT ![t] = None]
    /\ matches' = [matches EXCEPT ![t] = FALSE]
    /\ identity' = [identity EXCEPT ![t] = None]
    /\ hit' = [hit EXCEPT ![t] = None]
    /\ answer' = [answer EXCEPT ![t] = Silent]
    /\ UNCHANGED <<started, google, users, live, quiet>>

Arrive(t) ==
    /\ EndRequest(t)
    /\ session' = Set(session, answer[t].session)
    /\ csrf' = Set(csrf, answer[t].csrf)
    /\ cookie' = Set(cookie, answer[t].cookie)
    /\ closed' = (closed /\ answer[t].csrf = Keep)
    /\ UNCHANGED astray

(* The connection breaks, or the tab is closed: the answer never arrives.  *)
Lose(t) ==
    /\ EndRequest(t)
    /\ astray' = IF quiet THEN astray \cup ({answer[t].session} \cap Own) ELSE astray
    /\ UNCHANGED <<jar, closed>>

(* The browser is closed and opened again, its requests having ended.  Of  *)
(* the cookies only the CSRF token has no max_age.                         *)
CloseBrowser ==
    /\ \A t \in Tabs : phase[t] = "idle"
    /\ csrf' = None
    /\ closed' = quiet
    /\ UNCHANGED <<session, cookie, started, google, request, users, live, quiet, astray>>

(* The session ends by its expires_at, which is also the max_age of its    *)
(* cookie, to the second.                                                  *)
SessionExpires ==
    /\ session # None
    /\ session' = None
    /\ live' = live \ {session}
    /\ UNCHANGED <<csrf, cookie, started, google, request, users, history>>

(* It is revoked elsewhere or has been idle: the cookie stays.             *)
SessionEnds(x) ==
    /\ x \in live
    /\ live' = live \ {x}
    /\ UNCHANGED <<jar, started, google, request, users, history>>

-----------------------------------------------------------------------------
(* A person consents at Google, in this browser to a transaction it was    *)
(* redirected with, or in another one.                                     *)
Consent(x, g) ==
    /\ consent[x] = None
    /\ x \in Foreign \/ (x \in started /\ \A t \in Tabs : txn[t] # x)
    /\ consent' = [consent EXCEPT ![x] = g]
    /\ UNCHANGED <<jar, started, redeemed, mail, moves, request, users, live, history>>

(* The directory gives somebody an address, and whoever had it leaves.     *)
Move(g, e) ==
    /\ moves < MaxMoves
    /\ mail[g] # e
    /\ mail' = [h \in Subjects |-> IF h = g THEN e ELSE IF mail[h] = e THEN None ELSE mail[h]]
    /\ moves' = moves + 1
    /\ UNCHANGED <<jar, started, consent, redeemed, request, users, live, history>>

(* One person of a sync: the row of the address is created, or its subject *)
(* overwritten.  Where another row has the subject the constraint fails.   *)
Upsert(us, g) ==
    IF us = None \/ WithSub(us, g) \ WithEmail(us, mail[g]) # {} THEN None
    ELSE [r \in Rows |->
             IF r \in WithEmail(us, mail[g]) \/ (WithEmail(us, mail[g]) = {} /\ IsNext(us, r))
             THEN [email |-> mail[g], sub |-> g]
             ELSE us[r]]

(* sync_workspace_users, in the order the directory lists people: one      *)
(* failure rolls all of it back.                                           *)
Sync ==
    /\ \A t \in Tabs : phase[t] = "found" => hit[t] = None
    /\ \E order \in SetToSeqs({g \in Subjects : mail[g] # None}) :
        LET synced == FoldLeft(Upsert, users, order)
        IN  synced \in Tables /\ users' = synced
    /\ UNCHANGED <<jar, started, google, request, live, history>>

GoogleNext ==
    \/ \E t \in Tabs :
        \/ StartGoogleLogin(t) \/ IssueCsrfToken(t) \/ Logout(t)
        \/ \E x \in Txns : Callback(t, x)
        \/ Refuse(t) \/ ExchangeAndVerify(t) \/ FindBySubject(t)
        \/ GoogleSignIn(t) \/ RefuseInactive(t) \/ GiveUp(t) \/ Arrive(t) \/ Lose(t)
    \/ CloseBrowser \/ SessionExpires
    \/ \E x \in Own : SessionEnds(x)
    \/ \E x \in Txns, g \in Subjects : Consent(x, g)
    \/ \E g \in Subjects, e \in Emails : Move(g, e)
    \/ Sync

GoogleSpec == GoogleInit /\ [][GoogleNext]_googleVars
-----------------------------------------------------------------------------
(* "Binding state, nonce, and PKCE to one browser" (start_google_login): a *)
(* session is issued for a transaction this browser started, to the        *)
(* account linked to whoever consented to it, whatever callbacks are       *)
(* resent, crossed or brought in from elsewhere.                           *)
SignsInAsSelf ==
    [][\A x \in live' \ live :
          /\ x \in Own
          /\ \E r \in Rows : users'[r] # None /\ users'[r].sub = consent[x]]_googleVars

(* provision_google_user links "without altering" whose an account is:     *)
(* while tabs sign in side by side and the directory reassigns addresses,  *)
(* a linked account passes to another subject only by a sync.              *)
AccountsKeepSubject ==
    [][\A r \in Rows :
          users[r] # None /\ users[r].sub # None =>
              \/ users'[r].sub = users[r].sub
              \/ Sync]_googleVars

(* A browser that sends one request at a time, whichever answers it loses: *)
(* while it has a session, its CSRF token is of that session, unless the   *)
(* browser was closed and has not fetched a token since; and no session is *)
(* live but the one in its jar and those whose answer was lost ("issue a   *)
(* rotated portal session", finish_google_login).  A browser that was      *)
(* closed is refused until something asks for /auth/csrf.                  *)
QuietBrowser ==
    quiet /\ (\A t \in Tabs : phase[t] = "idle") =>
        /\ session # None => CsrfValid \/ (csrf = None /\ closed)
        /\ live \subseteq {session} \cup astray
-----------------------------------------------------------------------------
(* The inductive invariant behind the three properties.                    *)
Answers ==
    [session : Own \cup {None, Keep}, csrf : Own \cup {"anonymous", Keep},
     cookie : Own \cup {None, Keep}]

GoogleTypeOK ==
    /\ session \in Own \cup {None} /\ cookie \in Own \cup {None}
    /\ consent \in [Txns -> Subjects \cup {None}]
    /\ phase \in [Tabs -> {"idle", "callback", "verified", "found", "answered"}]
    /\ txn \in [Tabs -> Txns \cup {None}]
    /\ carried \in [Tabs -> Own \cup {None}]
    /\ matches \in [Tabs -> BOOLEAN]
    /\ identity \in [Tabs -> Accounts \cup {None}]
    /\ hit \in [Tabs -> Rows \cup {None}]
    /\ answer \in [Tabs -> Answers]
    /\ users \in Tables
    /\ mail \in [Subjects -> Emails \cup {None}]
    /\ live \subseteq Own
    /\ quiet \in BOOLEAN /\ closed \in BOOLEAN
    /\ astray \subseteq Own

(* A callback's state is of a transaction somebody consented to, and, when *)
(* it matches the cookie, of this browser; what was verified is who        *)
(* consented; and the account found by subject stays that subject's.       *)
CallbackInv ==
    \A t \in Tabs :
        /\ phase[t] = "callback" =>
              /\ txn[t] \in Txns /\ consent[txn[t]] # None
              /\ matches[t] => txn[t] \in Own
        /\ phase[t] \in {"verified", "found"} =>
              /\ txn[t] \in Own
              /\ identity[t] \in [email : Emails, sub : Subjects]
              /\ identity[t].sub = consent[txn[t]]
        /\ phase[t] = "found" /\ hit[t] # None =>
              users[hit[t]] # None /\ users[hit[t]].sub = identity[t].sub

(* What a jar with these cookies promises.                                 *)
TokenFits(s, c, without) == s # None => c = Context(s) \/ (c = None /\ without)
Known(s) == live \subseteq {s} \cup astray

(* The jar that an answer will leave.                                      *)
AnswerFits(t) ==
    LET s == Set(session, answer[t].session)
    IN  Known(s) /\ TokenFits(s, Set(csrf, answer[t].csrf), closed /\ answer[t].csrf = Keep)

(* A browser that sends one request at a time: its jar fits, and still     *)
(* does when the answer it waits for takes effect.  The session a callback *)
(* carried is the one in the jar, or no longer live.                       *)
QuietInv ==
    quiet =>
        /\ TokenFits(session, csrf, closed)
        /\ (\A t \in Tabs : phase[t] = "idle") => Known(session)
        /\ \A t \in Tabs : phase[t] # "idle" =>
              /\ \A o \in Tabs \ {t} : phase[o] = "idle"
              /\ IF phase[t] = "answered" THEN AnswerFits(t)
                 ELSE Known(session) /\ Known(carried[t])

GoogleInv == GoogleTypeOK /\ CallbackInv /\ QuietInv
=============================================================================
