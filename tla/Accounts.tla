------------------------------ MODULE Accounts ------------------------------
(***************************************************************************)
(* Accounts, roles and sessions: sign-in and the session check             *)
(* (src/app/auth/session.py, authorization.py, google.py, local.py), the   *)
(* administrator's account pages (src/app/routers/admin.py) and the        *)
(* Workspace sync (src/app/google_workspace.py).                           *)
(*                                                                         *)
(* A request is one database transaction.  The session check that guards   *)
(* it runs in that transaction and selects the session and its user FOR    *)
(* UPDATE, so both stay locked until the handler commits or rolls back.    *)
(* A statement that needs a row somebody else has locked waits: it is not  *)
(* enabled.  Requests that wait for each other are a deadlock, which the   *)
(* database ends by rolling one back.                                      *)
(***************************************************************************)
EXTENDS FiniteSets

CONSTANTS
    Users,      \* accounts, by email
    Root,       \* the account create_superadmin made first
    Tokens,     \* session tokens
    Requests,   \* requests being served at a time
    Roles,      \* UserRole
    Listings,   \* what the Workspace directory may answer: listed users, suspended or not
    NoUser,     \* no account
    NoToken,    \* no session
    NoChange    \* no update being made

ASSUME RootAssumption == Root \in Users
ASSUME RolesAssumption == {"user", "super_admin"} \subseteq Roles /\ "absent" \notin Roles
ASSUME ListingsAssumption ==
    \A l \in Listings : \E S \in SUBSET Users : l \in [S -> BOOLEAN]
ASSUME NoneAssumption ==
    NoUser \notin Users /\ NoToken \notin Tokens

(* UserUpdate: a field that is not sent is kept.                           *)
Changes == [target : Users, role : Roles \cup {"keep"}, active : {"on", "off", "keep"}]
ASSUME NoChangeAssumption == NoChange \notin Changes

VARIABLES
    role,     \* users.role; "absent" for an account that does not exist
    active,   \* users.is_active
    synced,   \* is users.source WORKSPACE_SYNC?
    owner,    \* sessions.user_id; NoUser for a token not issued yet
    revoked,  \* has sessions.revoked_at been set?
    expired,  \* has one of the session's two deadlines passed?
    stage,    \* where each request stands
    user,     \* the account it signs in or acts for
    token,    \* the session it came with
    change,   \* the update it is about to commit
    directory,\* is a Workspace directory configured?
    out       \* history: signed out everywhere while inactive, not reactivated since

userVars == <<role, active, synced>>
sessionVars == <<owner, revoked, expired>>
requestVars == <<stage, user, token, change>>
vars == <<userVars, sessionVars, requestVars, directory, out>>

Init ==
    /\ role = [u \in Users |-> IF u = Root THEN "super_admin" ELSE "absent"]
    /\ active = [u \in Users |-> u = Root]
    /\ synced = [u \in Users |-> FALSE]
    /\ owner = [t \in Tokens |-> NoUser]
    /\ revoked = [t \in Tokens |-> FALSE]
    /\ expired = [t \in Tokens |-> FALSE]
    /\ stage = [q \in Requests |-> "idle"]
    /\ user = [q \in Requests |-> NoUser]
    /\ token = [q \in Requests |-> NoToken]
    /\ change = [q \in Requests |-> NoChange]
    /\ directory \in BOOLEAN
    /\ out = [u \in Users |-> FALSE]

-----------------------------------------------------------------------------
(* Variants for mutation: a session check that locks the session and not   *)
(* its user; a sign-in that does not lock the account.                     *)
UserLocksTargetOnly(q) ==
    (IF stage[q] = "login" THEN {user[q]} ELSE {}) \cup
    (IF stage[q] = "decided" THEN {change[q].target} ELSE {})
UserLocksWithoutLogin(q) ==
    (IF stage[q] \in {"signed", "admin", "decided"} THEN {user[q]} ELSE {}) \cup
    (IF stage[q] = "decided" THEN {change[q].target} ELSE {})

(* The users rows a request has locked: its own account's, and the row     *)
(* update_user has selected.                                               *)
UserLocks(q) ==
    (IF stage[q] # "idle" THEN {user[q]} ELSE {}) \cup
    (IF stage[q] = "decided" THEN {change[q].target} ELSE {})

UserFree(q, u) == \A p \in Requests \ {q} : u \notin UserLocks(p)
SessionFree(q, t) == \A p \in Requests \ {q} : token[p] # t

(* The end of a request's transaction.                                     *)
End(q) ==
    /\ stage' = [stage EXCEPT ![q] = "idle"]
    /\ user' = [user EXCEPT ![q] = NoUser]
    /\ token' = [token EXCEPT ![q] = NoToken]
    /\ change' = [change EXCEPT ![q] = NoChange]

-----------------------------------------------------------------------------
(* Sign-in, with Google (provision_google_user) or a password              *)
(* (LocalAuthenticator.authenticate): the account is locked, then found    *)
(* active; with Google an unknown one is created.                          *)
StartLogin(q, u) ==
    /\ stage[q] = "idle"
    /\ UserFree(q, u)
    /\ active[u] \/ role[u] = "absent"
    /\ stage' = [stage EXCEPT ![q] = "login"]
    /\ user' = [user EXCEPT ![q] = u]
    /\ UNCHANGED <<userVars, sessionVars, token, change, out>>

(* The rest of finish_google_login or finish_local_login: revoke the       *)
(* session the browser came with, if any, issue a new one, commit.         *)
FinishLogin(q, t) ==
    /\ stage[q] = "login"
    /\ owner[t] = NoUser
    /\ \E old \in {NoToken} \cup {s \in Tokens : owner[s] # NoUser} :
        /\ old = NoToken \/ SessionFree(q, old)
        /\ revoked' = [s \in Tokens |-> revoked[s] \/ s = old]
    /\ owner' = [owner EXCEPT ![t] = user[q]]
    /\ role' = [role EXCEPT ![user[q]] = IF @ = "absent" THEN "user" ELSE @]
    /\ active' = [active EXCEPT ![user[q]] = @ \/ role[user[q]] = "absent"]
    /\ End(q)
    /\ UNCHANGED <<synced, expired, out>>

(* SessionManager.verify and require_role: a live session of an active     *)
(* user, and for an administrator's page one with the role.                *)
Guard(q, t) ==
    /\ stage[q] = "idle"
    /\ owner[t] # NoUser
    /\ SessionFree(q, t)
    /\ UserFree(q, owner[t])
    /\ ~revoked[t]
    /\ ~expired[t]
    /\ active[owner[t]]
    /\ \/ stage' = [stage EXCEPT ![q] = "signed"]
       \/ role[owner[t]] = "super_admin" /\ stage' = [stage EXCEPT ![q] = "admin"]
    /\ user' = [user EXCEPT ![q] = owner[t]]
    /\ token' = [token EXCEPT ![q] = t]
    /\ UNCHANGED <<userVars, sessionVars, change, out>>

(* logout: SessionManager.revoke of the request's own session.             *)
Logout(q) ==
    /\ stage[q] = "signed"
    /\ revoked' = [revoked EXCEPT ![token[q]] = TRUE]
    /\ End(q)
    /\ UNCHANGED <<userVars, owner, expired, out>>

(* Any request that changes nothing here, fails, or is the victim of a     *)
(* deadlock.                                                               *)
Leave(q) ==
    /\ stage[q] # "idle"
    /\ End(q)
    /\ UNCHANGED <<userVars, sessionVars, out>>

(* A deadline passes: the idle one, which every check of a live session    *)
(* moves, or the absolute one.                                             *)
Expire(t) ==
    /\ owner[t] # NoUser
    /\ ~expired[t]
    /\ expired' = [expired EXCEPT ![t] = TRUE]
    /\ UNCHANGED <<userVars, owner, revoked, requestVars, out>>

-----------------------------------------------------------------------------
(* create_superadmin, the operator's command.                              *)
CreateSuperadmin(u) ==
    /\ role[u] = "absent"
    /\ \A q \in Requests : u \notin UserLocks(q)
    /\ role' = [role EXCEPT ![u] = "super_admin"]
    /\ active' = [active EXCEPT ![u] = TRUE]
    /\ UNCHANGED <<synced, sessionVars, requestVars, out>>

(* create_user: an account that exists is refused.                         *)
CreateUser(q, u) ==
    /\ stage[q] = "admin"
    /\ UserFree(q, u)
    /\ role[u] = "absent"
    /\ \E r \in Roles : role' = [role EXCEPT ![u] = r]
    /\ active' = [active EXCEPT ![u] = TRUE]
    /\ End(q)
    /\ UNCHANGED <<synced, sessionVars, out>>

(* update_user's demoted or deactivated.                                   *)
Lowers(c) == c.role \notin {"keep", "super_admin"} \/ c.active = "off"

(* _remaining_super_admins, in what is committed.                          *)
Remaining(u) == {v \in Users \ {u} : role[v] = "super_admin" /\ active[v]}

(* Variant for mutation: an administrator may lower their own account.     *)
MayChangeOwn(q, c) ==
    role[c.target] = "super_admin" /\ Lowers(c) => Remaining(c.target) # {}

(* update_user's two refusals.                                             *)
MayChange(q, c) ==
    /\ ~(c.target = user[q] /\ Lowers(c))
    /\ role[c.target] = "super_admin" /\ Lowers(c) => Remaining(c.target) # {}

(* update_user up to its decision: the target is locked, then read; the    *)
(* other administrators are counted without a lock.                        *)
DecideUpdate(q, c) ==
    /\ stage[q] = "admin"
    /\ UserFree(q, c.target)
    /\ role[c.target] # "absent"
    /\ MayChange(q, c)
    /\ stage' = [stage EXCEPT ![q] = "decided"]
    /\ change' = [change EXCEPT ![q] = c]
    /\ UNCHANGED <<userVars, sessionVars, user, token, out>>

NewRole(c) == IF c.role = "keep" THEN role[c.target] ELSE c.role
NewActive(c) == IF c.active = "keep" THEN active[c.target] ELSE c.active = "on"

(* update_user's writes and commit.                                        *)
CommitUpdate(q) ==
    /\ stage[q] = "decided"
    /\ LET c == change[q]
       IN  /\ role' = [role EXCEPT ![c.target] = NewRole(c)]
           /\ active' = [active EXCEPT ![c.target] = NewActive(c)]
           /\ out' = [out EXCEPT ![c.target] = @ /\ ~NewActive(c)]
    /\ End(q)
    /\ UNCHANGED <<synced, sessionVars>>

(* revoke_user_sessions: SessionManager.revoke_all.                        *)
RevokeUser(q, u) ==
    /\ stage[q] = "admin"
    /\ role[u] # "absent"
    /\ \A t \in Tokens : owner[t] = u /\ ~revoked[t] => SessionFree(q, t)
    /\ revoked' = [t \in Tokens |-> revoked[t] \/ owner[t] = u]
    /\ out' = [out EXCEPT ![u] = ~active[u]]
    /\ End(q)
    /\ UNCHANGED <<userVars, owner, expired>>

(* sync_workspace_users for one answer of the directory: every listed user *)
(* is created or given the directory's is_active, whatever its source; the *)
(* sync-owned ones that are not listed are deactivated.                    *)
Sync(q, listing) ==
    LET listed == DOMAIN listing
        departed == {u \in Users \ listed : synced[u] /\ active[u]}
        nowActive(u) == IF u \in listed THEN ~listing[u] ELSE active[u] /\ u \notin departed
    IN  /\ stage[q] = "admin"
        /\ directory
        /\ \A u \in listed \cup departed : UserFree(q, u)
        /\ role' = [u \in Users |-> IF u \in listed /\ role[u] = "absent" THEN "user" ELSE role[u]]
        /\ active' = [u \in Users |-> nowActive(u)]
        /\ synced' = [u \in Users |-> synced[u] \/ (u \in listed /\ role[u] = "absent")]
        /\ out' = [u \in Users |-> out[u] /\ ~nowActive(u)]
        /\ End(q)
        /\ UNCHANGED sessionVars

Next ==
    /\ UNCHANGED directory
    /\ \/ \E q \in Requests :
           \/ \E u \in Users : StartLogin(q, u) \/ CreateUser(q, u) \/ RevokeUser(q, u)
           \/ \E t \in Tokens : FinishLogin(q, t) \/ Guard(q, t)
           \/ \E c \in Changes : DecideUpdate(q, c)
           \/ \E l \in Listings : Sync(q, l)
           \/ Logout(q)
           \/ CommitUpdate(q)
           \/ Leave(q)
       \/ \E u \in Users : CreateSuperadmin(u)
       \/ \E t \in Tokens : Expire(t)

Spec == Init /\ [][Next]_vars
-----------------------------------------------------------------------------
(* Every column and every request's locals have their type.                *)
TypeOK ==
    /\ role \in [Users -> Roles \cup {"absent"}]
    /\ active \in [Users -> BOOLEAN]
    /\ synced \in [Users -> BOOLEAN]
    /\ owner \in [Tokens -> Users \cup {NoUser}]
    /\ revoked \in [Tokens -> BOOLEAN]
    /\ expired \in [Tokens -> BOOLEAN]
    /\ stage \in [Requests -> {"idle", "login", "signed", "admin", "decided"}]
    /\ user \in [Requests -> Users \cup {NoUser}]
    /\ token \in [Requests -> Tokens \cup {NoToken}]
    /\ change \in [Requests -> Changes \cup {NoChange}]
    /\ directory \in BOOLEAN
    /\ out \in [Users -> BOOLEAN]

(* "The row lock serialises this update with explicit revocation"          *)
(* (SessionManager.verify): what the session check found still holds when  *)
(* the handler acts, though other administrators demote, deactivate and    *)
(* sign out meanwhile.                                                     *)
ActsWithAuthority ==
    \A q \in Requests :
        /\ stage[q] \in {"signed", "admin", "decided"} => active[user[q]] /\ ~revoked[token[q]]
        /\ stage[q] \in {"admin", "decided"} => role[user[q]] = "super_admin"

(* "This is the last active super-admin" (update_user): somebody can       *)
(* always administer the portal.                                           *)
SomebodyAdministers == \E u \in Users : role[u] = "super_admin" /\ active[u]

(* Without a Workspace directory this is so, even when administrators      *)
(* lower each other at the same time.                                      *)
AdministeredWithoutSync == directory \/ SomebodyAdministers

(* The runbook's offboarding, deactivate and then sign out (update_user    *)
(* and revoke_user_sessions), leaves no session behind: not even one whose *)
(* sign-in was under way at the time.                                      *)
OffboardedStaysOut ==
    \A u \in Users : out[u] => \A t \in Tokens : owner[t] = u => revoked[t]
-----------------------------------------------------------------------------
(* The inductive invariant: what a request holds at each stage, that no    *)
(* row is locked twice, what a sign-in and an update have found under      *)
(* their locks, and that an account that is out is inactive.               *)
RequestInv ==
    \A q \in Requests :
        /\ stage[q] # "idle" => user[q] \in Users
        /\ stage[q] \in {"signed", "admin", "decided"} => token[q] \in Tokens
        /\ stage[q] \in {"idle", "login"} => token[q] = NoToken
        /\ stage[q] = "login" => active[user[q]] \/ role[user[q]] = "absent"
        /\ stage[q] = "decided" =>
               /\ change[q] \in Changes
               /\ role[change[q].target] # "absent"
               /\ ~(change[q].target = user[q] /\ Lowers(change[q]))

LockInv ==
    \A p, q \in Requests : p # q =>
        /\ UserLocks(p) \cap UserLocks(q) = {}
        /\ token[p] = token[q] => token[p] = NoToken

OutInv == \A u \in Users : out[u] => ~active[u] /\ role[u] # "absent"

IInv ==
    /\ TypeOK
    /\ RequestInv
    /\ LockInv
    /\ ActsWithAuthority
    /\ OutInv
    /\ OffboardedStaysOut
=============================================================================
