--------------------------- MODULE AccountsProofs ---------------------------
(***************************************************************************)
(* Theorems about Accounts, for every set of accounts, sessions and        *)
(* concurrent requests, and every answer of the directory.                 *)
(***************************************************************************)
EXTENDS Accounts, TLAPS

USE RootAssumption, RolesAssumption, NoneAssumption

-----------------------------------------------------------------------------
(* The initial state has the types.                                        *)
LEMMA TypeInit == Init => TypeOK
BY DEF Init, TypeOK

(* A sign-in only adds revocations.                                        *)
LEMMA FinishRevokes ==
    ASSUME NEW q, NEW t, FinishLogin(q, t)
    PROVE  \E old : revoked' = [s \in Tokens |-> revoked[s] \/ s = old]
<1>1. PICK old \in {NoToken} \cup {s \in Tokens : owner[s] # NoUser} :
        /\ old = NoToken \/ SessionFree(q, old)
        /\ revoked' = [s \in Tokens |-> revoked[s] \/ s = old]
  BY Zenon DEF FinishLogin
<1>2. revoked' = [s \in Tokens |-> revoked[s] \/ s = old]
  BY <1>1, Zenon
<1> QED BY <1>2, Zenon

(* The locals of a request have their types when it has ended.             *)
LEMMA EndTypes ==
    ASSUME TypeOK, NEW q \in Requests, End(q)
    PROVE  /\ stage' \in [Requests -> {"idle", "login", "signed", "admin", "decided"}]
           /\ user' \in [Requests -> Users \cup {NoUser}]
           /\ token' \in [Requests -> Tokens \cup {NoToken}]
           /\ change' \in [Requests -> Changes \cup {NoChange}]
BY DEF End, TypeOK

(* Every step keeps them.                                                  *)
LEMMA TypeStep == TypeOK /\ RequestInv /\ [Next]_vars => TypeOK'
<1> SUFFICES ASSUME TypeOK, RequestInv, [Next]_vars PROVE TypeOK'
  OBVIOUS
<1> directory' = directory
  BY DEF Next, vars
<1> USE DEF TypeOK, userVars, sessionVars, requestVars
<1>1. ASSUME NEW q \in Requests, NEW u \in Users, StartLogin(q, u) PROVE TypeOK'
  BY <1>1 DEF StartLogin
<1>2. ASSUME NEW q \in Requests, NEW u \in Users, CreateUser(q, u) PROVE TypeOK'
  BY <1>2 DEF CreateUser, End
<1>3. ASSUME NEW q \in Requests, NEW u \in Users, RevokeUser(q, u) PROVE TypeOK'
  BY <1>3 DEF RevokeUser, End
<1>4. ASSUME NEW q \in Requests, NEW t \in Tokens, FinishLogin(q, t) PROVE TypeOK'
  <2>1. \E old : revoked' = [s \in Tokens |-> revoked[s] \/ s = old]
    BY <1>4, FinishRevokes
  <2>2. revoked' \in [Tokens -> BOOLEAN] BY <2>1, Zenon
  <2>3. active' \in [Users -> BOOLEAN] BY <1>4 DEF FinishLogin
  <2>4. role' \in [Users -> Roles \cup {"absent"}] BY <1>4 DEF FinishLogin
  <2> QED BY <1>4, <2>2, <2>3, <2>4 DEF FinishLogin, End
<1>5. ASSUME NEW q \in Requests, NEW t \in Tokens, Guard(q, t) PROVE TypeOK'
  BY <1>5 DEF Guard
<1>6. ASSUME NEW q \in Requests, NEW c \in Changes, DecideUpdate(q, c) PROVE TypeOK'
  BY <1>6 DEF DecideUpdate
<1>7. ASSUME NEW q \in Requests, NEW l \in Listings, Sync(q, l) PROVE TypeOK'
  BY <1>7 DEF Sync, End
<1>8. ASSUME NEW q \in Requests, Logout(q) PROVE TypeOK'
  BY <1>8 DEF Logout, End
<1>9. ASSUME NEW q \in Requests, CommitUpdate(q) PROVE TypeOK'
  <2> DEFINE c == change[q]
  <2>1. c \in Changes BY <1>9 DEF CommitUpdate, RequestInv
  <2>2. NewRole(c) \in Roles \cup {"absent"} BY <2>1 DEF NewRole, Changes
  <2>3. NewActive(c) \in BOOLEAN BY <2>1 DEF NewActive, Changes
  <2>4. role' \in [Users -> Roles \cup {"absent"}] BY <1>9, <2>2 DEF CommitUpdate
  <2>5. active' \in [Users -> BOOLEAN] BY <1>9, <2>3 DEF CommitUpdate
  <2>6. out' \in [Users -> BOOLEAN] BY <1>9, <2>3 DEF CommitUpdate
  <2>7. UNCHANGED <<synced, owner, revoked, expired>> BY <1>9 DEF CommitUpdate
  <2> QED BY <1>9, <2>4, <2>5, <2>6, <2>7, EndTypes DEF CommitUpdate
<1>10. ASSUME NEW q \in Requests, Leave(q) PROVE TypeOK'
  BY <1>10 DEF Leave, End
<1>11. ASSUME NEW u \in Users, CreateSuperadmin(u) PROVE TypeOK'
  BY <1>11 DEF CreateSuperadmin
<1>12. ASSUME NEW t \in Tokens, Expire(t) PROVE TypeOK'
  BY <1>12 DEF Expire
<1>13. CASE UNCHANGED vars
  BY <1>13 DEF vars
<1> QED
  BY <1>1, <1>2, <1>3, <1>4, <1>5, <1>6, <1>7, <1>8, <1>9, <1>10, <1>11, <1>12, <1>13 DEF Next

-----------------------------------------------------------------------------
(* What RequestInv and ActsWithAuthority say of one request.               *)
Knows(q) ==
    /\ stage[q] # "idle" => user[q] \in Users
    /\ stage[q] \in {"signed", "admin", "decided"} => token[q] \in Tokens
    /\ stage[q] \in {"idle", "login"} => token[q] = NoToken
    /\ stage[q] = "login" => active[user[q]] \/ role[user[q]] = "absent"
    /\ stage[q] = "decided" =>
           /\ change[q] \in Changes
           /\ role[change[q].target] # "absent"
           /\ ~(change[q].target = user[q] /\ Lowers(change[q]))
    /\ stage[q] \in {"signed", "admin", "decided"} => active[user[q]] /\ ~revoked[token[q]]
    /\ stage[q] \in {"admin", "decided"} => role[user[q]] = "super_admin"

(* A step that leaves a request's locals, and the rows it has locked, as   *)
(* they are.                                                               *)
SameLocals(p) ==
    stage'[p] = stage[p] /\ user'[p] = user[p] /\ token'[p] = token[p] /\ change'[p] = change[p]
SameRows(p) ==
    /\ \A u \in UserLocks(p) : role'[u] = role[u] /\ (active'[u] <=> active[u])
    /\ token[p] \in Tokens => (revoked'[token[p]] <=> revoked[token[p]])

(* The two invariants, request by request.                                 *)
LEMMA KnowsAll == (\A q \in Requests : Knows(q)) <=> RequestInv /\ ActsWithAuthority
BY DEF Knows, RequestInv, ActsWithAuthority

(* What a request knows stays true as long as its locked rows do.          *)
LEMMA Frame ==
    ASSUME NEW p \in Requests, Knows(p), SameLocals(p), SameRows(p)
    PROVE  Knows(p)'
<1>1. stage[p] # "idle" => user[p] \in UserLocks(p)
  BY DEF UserLocks
<1>2. stage[p] = "decided" => change[p].target \in UserLocks(p)
  BY DEF UserLocks
<1> QED BY <1>1, <1>2 DEF Knows, SameLocals, SameRows, Lowers

(* A request that has ended knows nothing and locks nothing.               *)
LEMMA Ended ==
    ASSUME TypeOK, NEW q \in Requests, End(q)
    PROVE  /\ Knows(q)'
           /\ UserLocks(q)' = {}
           /\ token'[q] = NoToken
           /\ \A p \in Requests \ {q} : SameLocals(p)
BY DEF TypeOK, End, Knows, UserLocks, SameLocals

(* Rows stay locked by one request at a time when a request takes only     *)
(* rows that the others do not hold.                                       *)
LEMMA LockStep ==
    ASSUME LockInv, NEW q \in Requests,
           \A p \in Requests \ {q} : SameLocals(p),
           \A p \in Requests \ {q} : UserLocks(q)' \cap UserLocks(p) = {},
           \A p \in Requests \ {q} : token'[q] = token[p] => token[p] = NoToken
    PROVE  LockInv'
<1>1. ASSUME NEW p \in Requests \ {q} PROVE UserLocks(p)' = UserLocks(p)
  BY DEF UserLocks, SameLocals
<1>2. ASSUME NEW p \in Requests \ {q} PROVE token'[p] = token[p]
  BY DEF SameLocals
<1> QED BY <1>1, <1>2 DEF LockInv

(* A transaction that ends and has written only rows that no other request *)
(* has locked.                                                             *)
LEMMA EndStep ==
    ASSUME TypeOK, RequestInv, ActsWithAuthority, LockInv, NEW q \in Requests, End(q),
           \A p \in Requests \ {q} : SameRows(p)
    PROVE  RequestInv' /\ ActsWithAuthority' /\ LockInv'
<1>1. Knows(q)' /\ \A p \in Requests \ {q} : SameLocals(p)
  BY Ended
<1>2. ASSUME NEW p \in Requests \ {q} PROVE Knows(p)'
  BY <1>1, KnowsAll, Frame
<1>3. \A p \in Requests : Knows(p)'
  BY <1>1, <1>2
<1>4. RequestInv' /\ ActsWithAuthority'
  BY <1>3 DEF Knows, RequestInv, ActsWithAuthority
<1>5. LockInv'
  BY Ended, LockStep
<1> QED BY <1>4, <1>5

(* A request that goes on: it takes rows that are free, and what it finds  *)
(* in them is what it then knows; no row changes.                          *)
LEMMA TakeStep ==
    ASSUME TypeOK, RequestInv, ActsWithAuthority, LockInv, NEW q \in Requests,
           UNCHANGED <<role, active, revoked>>,
           \A p \in Requests \ {q} : SameLocals(p),
           \A p \in Requests \ {q} : UserLocks(q)' \cap UserLocks(p) = {},
           \A p \in Requests \ {q} : token'[q] = token[p] => token[p] = NoToken,
           Knows(q)'
    PROVE  RequestInv' /\ ActsWithAuthority' /\ LockInv'
<1>1. ASSUME NEW p \in Requests \ {q} PROVE Knows(p)'
  <2>1. SameRows(p) BY DEF SameRows
  <2> QED BY <2>1, KnowsAll, Frame
<1>2. \A p \in Requests : Knows(p)'
  BY <1>1
<1>3. RequestInv' /\ ActsWithAuthority'
  BY <1>2 DEF Knows, RequestInv, ActsWithAuthority
<1> QED BY <1>3, LockStep

(* A sign-in takes an account that nobody holds and finds it active.       *)
LEMMA StartLoginStep ==
    ASSUME IInv, NEW q \in Requests, NEW u \in Users, StartLogin(q, u)
    PROVE  RequestInv' /\ ActsWithAuthority' /\ LockInv'
<1> USE DEF IInv, TypeOK, userVars, sessionVars
<1>1. UNCHANGED <<role, active, revoked>> BY DEF StartLogin
<1>2. \A p \in Requests \ {q} : SameLocals(p) BY DEF StartLogin, SameLocals
<1>3. UserLocks(q)' = {u} BY DEF StartLogin, UserLocks
<1>4. token'[q] = NoToken BY DEF StartLogin, RequestInv
<1>5. Knows(q)' BY <1>4 DEF StartLogin, Knows
<1> QED BY <1>1, <1>2, <1>3, <1>4, <1>5, TakeStep DEF StartLogin, UserFree

(* The session check knows what it has just read under its locks.          *)
LEMMA GuardStep ==
    ASSUME IInv, NEW q \in Requests, NEW t \in Tokens, Guard(q, t)
    PROVE  RequestInv' /\ ActsWithAuthority' /\ LockInv'
<1> USE DEF IInv, TypeOK, userVars, sessionVars
<1>1. UNCHANGED <<role, active, revoked>> BY DEF Guard
<1>2. \A p \in Requests \ {q} : SameLocals(p) BY DEF Guard, SameLocals
<1>3. UserLocks(q)' = {owner[t]} BY DEF Guard, UserLocks
<1>4. token'[q] = t BY DEF Guard
<1>5. Knows(q)' BY <1>4 DEF Guard, Knows
<1> QED BY <1>1, <1>2, <1>3, <1>4, <1>5, TakeStep DEF Guard, UserFree, SessionFree

(* update_user has locked its target beside its own account's row.         *)
LEMMA DecideUpdateStep ==
    ASSUME IInv, NEW q \in Requests, NEW c \in Changes, DecideUpdate(q, c)
    PROVE  RequestInv' /\ ActsWithAuthority' /\ LockInv'
<1> USE DEF IInv, TypeOK, userVars, sessionVars
<1>1. UNCHANGED <<role, active, revoked>> BY DEF DecideUpdate
<1>2. \A p \in Requests \ {q} : SameLocals(p) BY DEF DecideUpdate, SameLocals
<1>3. UserLocks(q)' = UserLocks(q) \cup {c.target} BY DEF DecideUpdate, UserLocks
<1>4. token'[q] = token[q] BY DEF DecideUpdate
<1>5. Knows(q)' BY <1>4, KnowsAll DEF DecideUpdate, MayChange, Knows, Lowers
<1>6. \A p \in Requests \ {q} : UserLocks(q)' \cap UserLocks(p) = {}
  BY <1>3 DEF DecideUpdate, UserFree, LockInv
<1> QED BY <1>1, <1>2, <1>4, <1>5, <1>6, TakeStep DEF LockInv

(* A sign-in writes its own account and revokes a session nobody holds.    *)
LEMMA FinishLoginStep ==
    ASSUME IInv, NEW q \in Requests, NEW t \in Tokens, FinishLogin(q, t)
    PROVE  RequestInv' /\ ActsWithAuthority' /\ LockInv'
<1> USE DEF IInv
<1>1. ASSUME NEW p \in Requests \ {q} PROVE SameRows(p)
  <2>1. user[q] \notin UserLocks(p)
    BY DEF FinishLogin, LockInv, UserLocks
  <2>2. \A u \in UserLocks(p) : role'[u] = role[u] /\ (active'[u] <=> active[u])
    BY <2>1 DEF FinishLogin, TypeOK
  <2>3. PICK old \in {NoToken} \cup {s \in Tokens : owner[s] # NoUser} :
          /\ old = NoToken \/ SessionFree(q, old)
          /\ revoked' = [s \in Tokens |-> revoked[s] \/ s = old]
    BY Zenon DEF FinishLogin
  <2>4. token[p] \in Tokens => (revoked'[token[p]] <=> revoked[token[p]])
    BY <2>3 DEF SessionFree
  <2> QED BY <2>2, <2>4 DEF SameRows
<1> QED BY <1>1, EndStep DEF FinishLogin

(* update_user writes the row it has locked, which no other request holds. *)
LEMMA CommitUpdateStep ==
    ASSUME IInv, NEW q \in Requests, CommitUpdate(q)
    PROVE  RequestInv' /\ ActsWithAuthority' /\ LockInv'
<1> USE DEF IInv
<1>1. ASSUME NEW p \in Requests \ {q} PROVE SameRows(p)
  <2>1. change[q].target \notin UserLocks(p)
    BY DEF CommitUpdate, LockInv, UserLocks
  <2> QED BY <2>1 DEF CommitUpdate, TypeOK, SameRows, sessionVars
<1> QED BY <1>1, EndStep DEF CommitUpdate

(* create_user writes an account that no other request is about to create. *)
LEMMA CreateUserStep ==
    ASSUME IInv, NEW q \in Requests, NEW u \in Users, CreateUser(q, u)
    PROVE  RequestInv' /\ ActsWithAuthority' /\ LockInv'
<1> USE DEF IInv
<1>1. ASSUME NEW p \in Requests \ {q} PROVE SameRows(p)
  <2>1. u \notin UserLocks(p)
    BY DEF CreateUser, UserFree
  <2> QED BY <2>1 DEF CreateUser, TypeOK, SameRows, sessionVars
<1> QED BY <1>1, EndStep DEF CreateUser

(* revoke_all waits for the requests that act with a live session of the   *)
(* account; the sessions it revokes are nobody else's.                     *)
LEMMA RevokeUserStep ==
    ASSUME IInv, NEW q \in Requests, NEW u \in Users, RevokeUser(q, u)
    PROVE  RequestInv' /\ ActsWithAuthority' /\ LockInv'
<1> USE DEF IInv
<1>1. ASSUME NEW p \in Requests \ {q} PROVE SameRows(p)
  <2>1. token[p] \in Tokens => ~(owner[token[p]] = u /\ ~revoked[token[p]])
    BY DEF RevokeUser, SessionFree
  <2> QED BY <2>1 DEF RevokeUser, TypeOK, SameRows, userVars
<1> QED BY <1>1, EndStep DEF RevokeUser

(* logout revokes a session that only its own request holds.               *)
LEMMA LogoutStep ==
    ASSUME IInv, NEW q \in Requests, Logout(q)
    PROVE  RequestInv' /\ ActsWithAuthority' /\ LockInv'
<1> USE DEF IInv
<1>1. ASSUME NEW p \in Requests \ {q} PROVE SameRows(p)
  <2>1. token[p] \in Tokens => token[p] # token[q]
    BY DEF LockInv
  <2> QED BY <2>1 DEF Logout, TypeOK, SameRows, userVars
<1> QED BY <1>1, EndStep DEF Logout

(* A request that writes nothing disturbs no other.                        *)
LEMMA LeaveStep ==
    ASSUME IInv, NEW q \in Requests, Leave(q)
    PROVE  RequestInv' /\ ActsWithAuthority' /\ LockInv'
<1> USE DEF IInv
<1>1. ASSUME NEW p \in Requests \ {q} PROVE SameRows(p)
  BY DEF Leave, SameRows, userVars, sessionVars
<1> QED BY <1>1, EndStep DEF Leave

(* A sync waits for every row that it would change.                        *)
LEMMA SyncStep ==
    ASSUME IInv, NEW q \in Requests, NEW l \in Listings, Sync(q, l)
    PROVE  RequestInv' /\ ActsWithAuthority' /\ LockInv'
<1> USE DEF IInv
<1>1. ASSUME NEW p \in Requests \ {q}, NEW u \in UserLocks(p), u \in Users
      PROVE  role'[u] = role[u] /\ (active'[u] <=> active[u])
  <2>1. u \notin DOMAIN l
    BY <1>1 DEF Sync, UserFree
  <2>2. ~(synced[u] /\ active[u])
    BY <1>1, <2>1 DEF Sync, UserFree
  <2> QED BY <1>1, <2>1, <2>2 DEF Sync, TypeOK
<1>2. ASSUME NEW p \in Requests \ {q} PROVE UserLocks(p) \subseteq Users
  BY DEF RequestInv, UserLocks, Changes
<1>3. ASSUME NEW p \in Requests \ {q} PROVE SameRows(p)
  BY <1>1, <1>2 DEF SameRows, Sync, sessionVars
<1> QED BY <1>3, EndStep DEF Sync

(* The steps outside every request: a new administrator, and a deadline.   *)
LEMMA OutsideStep ==
    ASSUME IInv, UNCHANGED requestVars, \A p \in Requests : SameRows(p)
    PROVE  RequestInv' /\ ActsWithAuthority' /\ LockInv'
<1> USE DEF IInv
<1>1. \A p \in Requests : SameLocals(p)
  BY DEF SameLocals, requestVars
<1>2. ASSUME NEW p \in Requests PROVE Knows(p)'
  BY <1>1, KnowsAll, Frame
<1>3. RequestInv' /\ ActsWithAuthority'
  BY <1>2 DEF Knows, RequestInv, ActsWithAuthority
<1>4. LockInv'
  BY DEF LockInv, UserLocks, requestVars
<1> QED BY <1>3, <1>4

(* create_superadmin writes an account that no request has locked.         *)
LEMMA CreateSuperadminStep ==
    ASSUME IInv, NEW u \in Users, CreateSuperadmin(u)
    PROVE  RequestInv' /\ ActsWithAuthority' /\ LockInv'
<1>1. ASSUME NEW p \in Requests PROVE SameRows(p)
  BY DEF CreateSuperadmin, SameRows, IInv, TypeOK, sessionVars
<1> QED BY <1>1, OutsideStep DEF CreateSuperadmin

(* A deadline changes nothing that a request has found under its locks.    *)
LEMMA ExpireStep ==
    ASSUME IInv, NEW t \in Tokens, Expire(t)
    PROVE  RequestInv' /\ ActsWithAuthority' /\ LockInv'
<1>1. ASSUME NEW p \in Requests PROVE SameRows(p)
  BY DEF Expire, SameRows, userVars
<1> QED BY <1>1, OutsideStep DEF Expire

(* Every step keeps what requests know and hold.                           *)
LEMMA RequestsStep == IInv /\ [Next]_vars => RequestInv' /\ ActsWithAuthority' /\ LockInv'
<1> SUFFICES ASSUME IInv, [Next]_vars PROVE RequestInv' /\ ActsWithAuthority' /\ LockInv'
  OBVIOUS
<1>1. CASE UNCHANGED vars
  <2>1. \A p \in Requests : SameRows(p)
    BY <1>1 DEF vars, SameRows, userVars, sessionVars
  <2> QED BY <1>1, <2>1, OutsideStep DEF vars
<1> QED
  BY <1>1, StartLoginStep, GuardStep, DecideUpdateStep, FinishLoginStep, CommitUpdateStep,
     CreateUserStep, RevokeUserStep, LogoutStep, LeaveStep, SyncStep, CreateSuperadminStep,
     ExpireStep DEF Next

-----------------------------------------------------------------------------
(* An account that is out is inactive, and all its sessions are revoked.   *)
OutPart == OutInv /\ OffboardedStaysOut

(* A sign-in under way found the account active and holds its row, so the  *)
(* account it issues a session for is not out; the other actions issue no  *)
(* session, and those that activate an account take it off the list.       *)
LEMMA OutStep == IInv /\ [Next]_vars => OutInv' /\ OffboardedStaysOut'
<1> SUFFICES ASSUME IInv, [Next]_vars PROVE OutPart'
  BY DEF OutPart
<1> USE DEF IInv, TypeOK, OutPart, OutInv, OffboardedStaysOut, userVars, sessionVars
<1>1. ASSUME NEW q \in Requests, NEW u \in Users, StartLogin(q, u) PROVE OutPart'
  BY <1>1 DEF StartLogin
<1>2. ASSUME NEW q \in Requests, NEW u \in Users, CreateUser(q, u) PROVE OutPart'
  BY <1>2 DEF CreateUser
<1>3. ASSUME NEW q \in Requests, NEW u \in Users, RevokeUser(q, u) PROVE OutPart'
  BY <1>3 DEF RevokeUser
<1>4. ASSUME NEW q \in Requests, NEW t \in Tokens, FinishLogin(q, t) PROVE OutPart'
  <2>1. user[q] \in Users /\ ~out[user[q]]
    BY <1>4 DEF FinishLogin, RequestInv
  <2>2. OutInv'
    BY <1>4, <2>1 DEF FinishLogin
  <2>3. \E old : revoked' = [s \in Tokens |-> revoked[s] \/ s = old]
    BY <1>4, FinishRevokes
  <2>4. \A s \in Tokens : revoked[s] => revoked'[s]
    BY <2>3
  <2>5. OffboardedStaysOut'
    BY <1>4, <2>1, <2>4 DEF FinishLogin
  <2> QED BY <2>2, <2>5
<1>5. ASSUME NEW q \in Requests, NEW t \in Tokens, Guard(q, t) PROVE OutPart'
  BY <1>5 DEF Guard
<1>6. ASSUME NEW q \in Requests, NEW c \in Changes, DecideUpdate(q, c) PROVE OutPart'
  BY <1>6 DEF DecideUpdate
<1>7. ASSUME NEW q \in Requests, NEW l \in Listings, Sync(q, l) PROVE OutPart'
  BY <1>7 DEF Sync
<1>8. ASSUME NEW q \in Requests, Logout(q) PROVE OutPart'
  BY <1>8 DEF Logout
<1>9. ASSUME NEW q \in Requests, CommitUpdate(q) PROVE OutPart'
  <2>1. change[q] \in Changes /\ role[change[q].target] # "absent"
    BY <1>9 DEF CommitUpdate, RequestInv
  <2>2. NewRole(change[q]) # "absent"
    BY <2>1 DEF NewRole, Changes
  <2>3. \A u \in Users : role'[u] = "absent" => role[u] = "absent"
    BY <1>9, <2>1, <2>2 DEF CommitUpdate
  <2>4. NewActive(change[q]) \in BOOLEAN
    BY <2>1 DEF NewActive, Changes
  <2>5. \A u \in Users : out'[u] => out[u] /\ ~active'[u]
    BY <1>9, <2>1, <2>4 DEF CommitUpdate
  <2> QED BY <1>9, <2>3, <2>5 DEF CommitUpdate
<1>10. ASSUME NEW q \in Requests, Leave(q) PROVE OutPart'
  BY <1>10 DEF Leave
<1>11. ASSUME NEW u \in Users, CreateSuperadmin(u) PROVE OutPart'
  BY <1>11 DEF CreateSuperadmin
<1>12. ASSUME NEW t \in Tokens, Expire(t) PROVE OutPart'
  BY <1>12 DEF Expire
<1>13. CASE UNCHANGED vars
  BY <1>13 DEF vars
<1> QED
  BY <1>1, <1>2, <1>3, <1>4, <1>5, <1>6, <1>7, <1>8, <1>9, <1>10, <1>11, <1>12, <1>13 DEF Next

-----------------------------------------------------------------------------
(* The inductive invariant holds initially.                                *)
LEMMA IInvInit == Init => IInv
<1> SUFFICES ASSUME Init PROVE IInv
  OBVIOUS
<1>1. RequestInv /\ ActsWithAuthority
  BY DEF Init, RequestInv, ActsWithAuthority
<1>2. LockInv
  BY DEF Init, LockInv, UserLocks
<1>3. OutInv /\ OffboardedStaysOut
  BY DEF Init, OutInv, OffboardedStaysOut
<1> QED BY <1>1, <1>2, <1>3, TypeInit DEF IInv

(* The inductive invariant of the accounts, for every number of accounts,  *)
(* sessions and concurrent requests.                                       *)
THEOREM Invariance == Spec => []IInv
<1>1. IInv /\ [Next]_vars => IInv'
  BY TypeStep, RequestsStep, OutStep DEF IInv
<1> QED BY <1>1, IInvInit, PTL DEF Spec

(* What SessionManager.verify and require_role found still holds when the  *)
(* handler acts: the locks it takes are enough.                            *)
THEOREM AuthorityHolds == Spec => []ActsWithAuthority
<1>1. IInv => ActsWithAuthority
  BY DEF IInv
<1> QED BY <1>1, Invariance, PTL

(* Deactivating an account and then revoking its sessions leaves it no     *)
(* live session until it is activated again, whatever sign-ins were under  *)
(* way.                                                                    *)
THEOREM OffboardingHolds == Spec => []OffboardedStaysOut
<1>1. IInv => OffboardedStaysOut
  BY DEF IInv
<1> QED BY <1>1, Invariance, PTL

-----------------------------------------------------------------------------
(* Without a Workspace sync, only update_user can take an administrator    *)
(* away, and the one who commits it stays: their own row is locked, and    *)
(* they do not lower themselves.                                           *)
LEMMA AdministersStep ==
    IInv /\ AdministeredWithoutSync /\ [Next]_vars => AdministeredWithoutSync'
<1> SUFFICES ASSUME IInv, ~directory, SomebodyAdministers, [Next]_vars PROVE SomebodyAdministers'
  BY DEF AdministeredWithoutSync, Next, vars
<1> USE DEF IInv, TypeOK, userVars
<1>1. PICK a \in Users : role[a] = "super_admin" /\ active[a]
  BY DEF SomebodyAdministers
<1>2. ASSUME NEW q \in Requests, CommitUpdate(q) PROVE SomebodyAdministers'
  <2> DEFINE c == change[q]
  <2>1. c \in Changes /\ user[q] \in Users /\ ~(c.target = user[q] /\ Lowers(c))
    BY <1>2 DEF CommitUpdate, RequestInv
  <2>2. role[user[q]] = "super_admin" /\ active[user[q]]
    BY <1>2 DEF CommitUpdate, ActsWithAuthority
  <2>3. c.target = user[q] => NewRole(c) = "super_admin" /\ NewActive(c)
    BY <2>1, <2>2 DEF Lowers, NewRole, NewActive, Changes
  <2>4. role'[user[q]] = "super_admin" /\ active'[user[q]]
    BY <1>2, <2>1, <2>2, <2>3 DEF CommitUpdate
  <2> QED BY <2>1, <2>4 DEF SomebodyAdministers
<1>3. ASSUME role'[a] = role[a], active[a] => active'[a] PROVE SomebodyAdministers'
  BY <1>1, <1>3 DEF SomebodyAdministers
<1>4. ASSUME NEW q \in Requests, NEW t \in Tokens, FinishLogin(q, t) PROVE SomebodyAdministers'
  BY <1>1, <1>3, <1>4 DEF FinishLogin
<1>5. ASSUME NEW q \in Requests, NEW u \in Users, CreateUser(q, u) PROVE SomebodyAdministers'
  BY <1>1, <1>3, <1>5 DEF CreateUser
<1>6. ASSUME NEW u \in Users, CreateSuperadmin(u) PROVE SomebodyAdministers'
  BY <1>1, <1>3, <1>6 DEF CreateSuperadmin
<1>7. ASSUME UNCHANGED userVars PROVE SomebodyAdministers'
  BY <1>3, <1>7
<1> QED
  BY <1>2, <1>4, <1>5, <1>6, <1>7
     DEF Next, StartLogin, RevokeUser, Guard, DecideUpdate, Sync, Logout, Leave, Expire, vars

(* "This is the last active super-admin": the refusals of update_user keep *)
(* an administrator in the portal under every interleaving of              *)
(* administrators who lower each other, as long as no Workspace sync runs. *)
THEOREM AdministersHolds == Spec => []AdministeredWithoutSync
<1>1. Init => AdministeredWithoutSync
  BY RootAssumption DEF Init, AdministeredWithoutSync, SomebodyAdministers
<1> QED BY <1>1, AdministersStep, Invariance, PTL DEF Spec
=============================================================================
