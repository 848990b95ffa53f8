----------------------------- MODULE LoginProofs ----------------------------
(***************************************************************************)
(* Theorems about the two ways to sign in.  LocalLogin: for every set of   *)
(* accounts, addresses, passwords and seeds, any number of requests served *)
(* at a time, and every limit and lockout longer than a request lasts.     *)
(* GoogleLogin, at the end: for every set of tabs, transactions, subjects  *)
(* and addresses, and any number of rows and reassignments.                *)
(***************************************************************************)
EXTENDS LocalLogin, GoogleLogin, TLAPS

-----------------------------------------------------------------------------
(* What the fields of a form are.                                          *)
LEMMA FormFacts ==
    ASSUME NEW f \in Forms
    PROVE  /\ f # Off
           /\ f.kind \in {"login", "change", "page", "enable"}
           /\ f.kind # "login" => f.name \in Admins
           /\ f.kind = "login" => f.typed \in Passwords
           /\ f.kind = "change" => f.new \in Passwords
<1>1. f \in AllForms /\ Off \notin AllForms
  BY FormsAssumption
<1>2. CASE f \in [kind : {"login"}, name : Names, ip : Ips, typed : Passwords, code : Codes]
  BY <1>1, <1>2
<1>3. CASE f \in [kind : {"change"}, name : Admins, typed : Passwords, new : Passwords]
  BY <1>1, <1>3
<1>4. CASE f \in [kind : {"page"}, name : Admins]
  BY <1>1, <1>4
<1>5. CASE f \in [kind : {"enable"}, name : Admins, code : Codes]
  BY <1>1, <1>5
<1> QED BY <1>1, <1>2, <1>3, <1>4, <1>5 DEF AllForms

(* The numbers of the throttle.                                            *)
LEMMA Numbers ==
    /\ MaxFailures \in Nat /\ MaxFailures > 0
    /\ Lockout \in Nat /\ MaxWait \in Nat /\ MaxWait < Lockout
    /\ Off \notin Int
BY LimitsAssumption, TimesAssumption, OffAssumption

(* The inductive invariant holds initially.                                *)
LEMMA IInvInit == Init => IInv
<1> SUFFICES ASSUME Init PROVE IInv
  OBVIOUS
<1>1. TypeOK
  <2>1. cred \in [Admins -> Credentials]
    BY FirstAssumption DEF Init, Credentials
  <2>2. recent \in [Admins -> Seq(0 .. (Lockout - MaxWait))]
    BY DEF Init
  <2>3. 0 \in 0 .. MaxWait
    BY Numbers
  <2> QED BY <2>1, <2>2, <2>3 DEF Init, TypeOK
<1>2. LoadedInv /\ JudgeInv
  BY DEF Init, LoadedInv, JudgeInv
<1>3. PaceInv
  <2> SUFFICES ASSUME NEW u \in Admins PROVE GuessesOld(u)
    BY DEF PaceInv
  <2>1. recent[u] = << >> /\ locked[u] = Off /\ failed[u] = 0
    BY DEF Init
  <2> QED BY <2>1, Numbers DEF GuessesOld
<1>4. PagesAgree
  BY DEF Init, PagesAgree
<1> QED BY <1>1, <1>2, <1>3, <1>4 DEF IInv

(* The end of a request leaves the others alone.                           *)
LEMMA EndFacts ==
    ASSUME TypeOK, NEW q \in Requests, End(q)
    PROVE  /\ stage'[q] = "idle"
           /\ \A p \in Requests \ {q} : /\ stage'[p] = stage[p] /\ form'[p] = form[p]
                                        /\ age'[p] = age[p] /\ seen'[p] = seen[p]
           /\ stage' \in [Requests -> {"idle", "new", "bucket", "loaded"}]
           /\ form' \in [Requests -> Forms \cup {Off}]
           /\ age' \in [Requests -> 0 .. MaxWait]
           /\ seen' \in [Requests -> Credentials \cup {Off}]
BY Numbers DEF TypeOK, End

(* A request that ends changes no account but the one it has loaded, so    *)
(* what the others have read stays right.                                  *)
LEMMA EndKeeps ==
    ASSUME IInv, NEW q \in Requests, End(q),
           \A u \in Admins :
               \/ cred'[u] = cred[u] /\ locked'[u] = locked[u]
               \/ stage[q] = "loaded" /\ form[q].name = u
    PROVE  LoadedInv' /\ JudgeInv'
<1>1. TypeOK /\ LoadedInv /\ JudgeInv
  BY DEF IInv
<1>2. LoadedInv'
  BY <1>1, EndFacts DEF LoadedInv
<1>3. ASSUME NEW p \in Requests, stage'[p] = "loaded", form'[p].kind = "login"
      PROVE  ~InForce(locked'[form'[p].name], age'[p])
  <2>1. p # q /\ stage[p] = "loaded" /\ form'[p] = form[p] /\ age'[p] = age[p]
    BY <1>1, <1>3, EndFacts
  <2>2. form[p].name \in Admins /\ (stage[q] = "loaded" => form[q].name # form[p].name)
    BY <1>1, <2>1 DEF LoadedInv
  <2>3. locked'[form[p].name] = locked[form[p].name]
    BY <2>2
  <2> QED BY <1>1, <1>3, <2>1, <2>3 DEF JudgeInv
<1>4. JudgeInv'
  BY <1>3 DEF JudgeInv, InForce
<1> QED BY <1>2, <1>4

(* A request that ends without writing to an account.                      *)
LEMMA EndOnly ==
    ASSUME IInv, NEW q \in Requests, End(q), UNCHANGED <<cred, failed, locked, shown, recent>>
    PROVE  IInv'
<1>1. TypeOK /\ PaceInv /\ PagesAgree
  BY DEF IInv
<1>2. TypeOK'
  BY <1>1, EndFacts DEF TypeOK
<1>3. LoadedInv' /\ JudgeInv'
  BY EndKeeps
<1>4. PaceInv' /\ PagesAgree'
  BY <1>1 DEF PaceInv, GuessesOld, PagesAgree
<1> QED BY <1>2, <1>3, <1>4 DEF IInv

(* A step that leaves the accounts and the throttle alone.                 *)
LEMMA Untouched ==
    ASSUME IInv, UNCHANGED <<cred, failed, locked, shown, recent>>
    PROVE  PaceInv' /\ PagesAgree'
BY DEF IInv, PaceInv, GuessesOld, PagesAgree

(* Requests that arrive, wait and load.                                    *)
LEMMA ArrivalSteps ==
    ASSUME IInv, NEW q \in Requests,
           \/ \E f \in Forms : BeginLogin(q, f) \/ BeginPage(q, f)
           \/ LoadIpLimit(q) \/ Load(q)
    PROVE  IInv'
<1>1. TypeOK /\ LoadedInv /\ JudgeInv
  BY DEF IInv
<1> USE Numbers
<1>2. ASSUME NEW f \in Forms, BeginLogin(q, f) PROVE IInv'
  <2>1. TypeOK'
    BY <1>1, <1>2 DEF BeginLogin, TypeOK, credVars
  <2>2. LoadedInv'
    BY <1>1, <1>2, FormFacts DEF BeginLogin, TypeOK, LoadedInv, credVars
  <2>3. JudgeInv'
    BY <1>1, <1>2 DEF BeginLogin, TypeOK, JudgeInv, credVars, InForce
  <2> QED BY <1>2, <2>1, <2>2, <2>3, Untouched DEF IInv, BeginLogin, credVars
<1>3. ASSUME NEW f \in Forms, BeginPage(q, f) PROVE IInv'
  <2>1. f.name \in Admins /\ f # Off
    BY <1>3, FormFacts DEF BeginPage
  <2>2. TypeOK'
    BY <1>1, <1>3, <2>1 DEF BeginPage, TypeOK, credVars
  <2>3. \A p \in Requests \ {q} : stage[p] = "loaded" => form[p].name # f.name
    BY <1>3 DEF BeginPage, AccountFree, LockedAccount
  <2>4. LoadedInv'
    BY <1>1, <1>3, <2>1, <2>3 DEF BeginPage, TypeOK, LoadedInv, credVars
  <2>5. JudgeInv'
    BY <1>1, <1>3 DEF BeginPage, TypeOK, JudgeInv, credVars, InForce
  <2> QED BY <1>3, <2>2, <2>4, <2>5, Untouched DEF IInv, BeginPage, credVars
<1>4. CASE LoadIpLimit(q)
  <2>1. CASE End(q)
    BY <1>4, <2>1, EndOnly DEF LoadIpLimit, credVars
  <2>2. CASE stage' = [stage EXCEPT ![q] = "bucket"] /\ UNCHANGED <<form, age, seen>>
    <3>1. UNCHANGED <<cred, failed, locked, shown, recent>>
      BY <1>4 DEF LoadIpLimit, credVars
    <3>2. stage[q] = "new"
      BY <1>4 DEF LoadIpLimit
    <3>3. TypeOK'
      BY <1>1, <2>2, <3>1 DEF TypeOK
    <3>4. LoadedInv'
      BY <1>1, <2>2, <3>1, <3>2 DEF TypeOK, LoadedInv
    <3>5. JudgeInv'
      BY <1>1, <2>2, <3>1 DEF TypeOK, JudgeInv, InForce
    <3> QED BY <3>1, <3>3, <3>4, <3>5, Untouched DEF IInv
  <2> QED BY <1>4, <2>1, <2>2 DEF LoadIpLimit
<1>5. CASE Load(q)
  <2>1. UNCHANGED <<cred, failed, locked, shown, recent, form, age>>
    BY <1>5 DEF Load, credVars
  <2>2. /\ stage[q] = "bucket" /\ form[q].name \in Admins
        /\ ~InForce(locked[form[q].name], age[q])
        /\ stage' = [stage EXCEPT ![q] = "loaded"]
        /\ seen' = [seen EXCEPT ![q] = cred[form[q].name]]
    BY <1>5 DEF Load
  <2>3. TypeOK'
    BY <1>1, <2>1, <2>2 DEF TypeOK
  <2>4. \A p \in Requests \ {q} : stage[p] = "loaded" => form[p].name # form[q].name
    BY <1>5 DEF Load, AccountFree, LockedAccount
  <2>5. LoadedInv'
    BY <1>1, <2>1, <2>2, <2>4 DEF TypeOK, LoadedInv
  <2>6. JudgeInv'
    BY <1>1, <2>1, <2>2 DEF TypeOK, JudgeInv, InForce
  <2> QED BY <2>1, <2>3, <2>5, <2>6, Untouched DEF IInv
<1> QED BY <1>2, <1>3, <1>4, <1>5

-----------------------------------------------------------------------------
(* The elements of a sequence.                                             *)
LEMMA ElementOf ==
    ASSUME NEW S, NEW s \in Seq(S), NEW k \in 1 .. Len(s)
    PROVE  s[k] \in S
OBVIOUS

(* Remember appends an age of 0 and drops the oldest once the list is full.*)
LEMMA RememberFacts ==
    ASSUME NEW P \in Nat, NEW s \in Seq(0 .. P), Len(s) <= MaxFailures
    PROVE  /\ Remember(s) \in Seq(0 .. P)
           /\ Len(s) < MaxFailures => /\ Len(Remember(s)) = Len(s) + 1
                                      /\ \A k \in 1 .. Len(s) : Remember(s)[k] = s[k]
           /\ Len(s) = MaxFailures => /\ Len(Remember(s)) = MaxFailures
                                      /\ \A k \in 1 .. (MaxFailures - 1) : Remember(s)[k] = s[k + 1]
<1> USE Numbers
<1>1. CASE Len(s) < MaxFailures
  <2>1. Remember(s) = Append(s, 0) /\ 0 \in 0 .. P
    BY <1>1 DEF Remember
  <2> QED BY <1>1, <2>1
<1>2. CASE Len(s) = MaxFailures
  <2>1. Remember(s) = Append(Tail(s), 0) /\ 0 \in 0 .. P
    BY <1>2 DEF Remember
  <2>2. Tail(s) \in Seq(0 .. P) /\ Len(Tail(s)) = MaxFailures - 1
    BY <1>2
  <2>3. \A k \in 1 .. (MaxFailures - 1) : Tail(s)[k] = s[k + 1]
    BY <1>2
  <2> HIDE DEF Remember
  <2> QED BY <1>2, <2>1, <2>2, <2>3
<1> QED BY <1>1, <1>2

(* A request that judges an account reads it as it is.                     *)
LEMMA Reads ==
    ASSUME IInv, NEW q \in Requests, stage[q] = "loaded"
    PROVE  /\ form[q] \in Forms /\ form[q].name \in Admins
           /\ seen[q] = cred[form[q].name] /\ seen[q] \in Credentials
           /\ form[q].kind = "login" => ~InForce(locked[form[q].name], age[q])
BY DEF IInv, TypeOK, LoadedInv, JudgeInv

(* When a wrong guess is counted, those that came before the ones counted  *)
(* since the last lock are a lockout old.                                  *)
LEMMA OldGuesses ==
    ASSUME IInv, NEW q \in Requests, stage[q] = "loaded", form[q].kind = "login",
           NEW u, u = form[q].name,
           NEW n, n = IF locked[u] = Off THEN failed[u] ELSE 0
    PROVE  /\ u \in Admins /\ n \in Nat /\ n < MaxFailures
           /\ recent[u] \in Seq(0 .. (Lockout - MaxWait)) /\ Len(recent[u]) <= MaxFailures
           /\ n <= Len(recent[u])
           /\ \A k \in 1 .. (Len(recent[u]) - n) : recent[u][k] = Lockout - MaxWait
<1>1. TypeOK /\ PaceInv
  BY DEF IInv
<1>2. u \in Admins /\ ~InForce(locked[u], age[q])
  BY Reads
<1>3. /\ recent[u] \in Seq(0 .. (Lockout - MaxWait)) /\ failed[u] \in Nat
      /\ age[q] \in 0 .. MaxWait /\ locked[u] \in Int \cup {Off}
  BY <1>1, <1>2 DEF TypeOK
<1>4. Len(recent[u]) <= MaxFailures /\ Len(recent[u]) \in Nat
  BY <1>1, <1>2, <1>3 DEF PaceInv, GuessesOld
<1>5. CASE locked[u] = Off
  BY <1>1, <1>2, <1>3, <1>4, <1>5 DEF PaceInv, GuessesOld
<1>6. CASE locked[u] # Off
  <2>1. n = 0
    BY <1>6
  <2>2. locked[u] \in Int /\ locked[u] <= 0
    BY <1>2, <1>3, <1>6, Numbers DEF InForce
  <2>3. ASSUME NEW k \in 1 .. Len(recent[u]) PROVE recent[u][k] = Lockout - MaxWait
    <3>1. recent[u][k] = Lockout - MaxWait \/ recent[u][k] + locked[u] >= Lockout - MaxWait
      BY <1>1, <1>2, <1>6 DEF PaceInv, GuessesOld
    <3>2. recent[u][k] \in 0 .. (Lockout - MaxWait)
      BY <1>3, ElementOf
    <3> QED BY <2>2, <3>1, <3>2, Numbers
  <2> QED BY <1>2, <1>3, <1>4, <2>1, <2>3, Numbers
<1> QED BY <1>5, <1>6

(* A wrong guess.                                                          *)
LEMMA WrongStep ==
    ASSUME IInv, NEW q \in Requests, WrongFactors(q)
    PROVE  IInv'
<1> DEFINE u == form[q].name
           m == IF locked[u] = Off THEN failed[u] ELSE 0
           Paced == Lockout - MaxWait
           r == recent[u]
<1> USE Numbers
<1>1. TypeOK /\ PaceInv /\ PagesAgree
  BY DEF IInv
<1>2. stage[q] = "loaded" /\ form[q].kind = "login" /\ End(q)
  BY DEF WrongFactors
<1>3. /\ u \in Admins /\ m \in Nat /\ m < MaxFailures
      /\ r \in Seq(0 .. Paced) /\ Len(r) <= MaxFailures /\ m <= Len(r)
      /\ \A k \in 1 .. (Len(r) - m) : r[k] = Paced
  BY <1>2, OldGuesses
<1>4. Paced \in Nat /\ age[q] \in 0 .. MaxWait /\ Len(r) \in Nat
  BY <1>1, <1>3 DEF TypeOK
<1>5. /\ UNCHANGED <<cred, shown>>
      /\ failed' = [failed EXCEPT ![u] = m + 1]
      /\ locked' = [locked EXCEPT ![u] = IF m + 1 >= MaxFailures THEN Lockout - age[q] ELSE Off]
      /\ recent' = [recent EXCEPT ![u] = Remember(r)]
  BY DEF WrongFactors, ReachesLimit
<1>6. /\ failed'[u] = m + 1
      /\ locked'[u] = IF m + 1 >= MaxFailures THEN Lockout - age[q] ELSE Off
      /\ recent'[u] = Remember(r)
      /\ \A v \in Admins \ {u} : failed'[v] = failed[v] /\ locked'[v] = locked[v] /\ recent'[v] = recent[v]
  BY <1>1, <1>3, <1>5 DEF TypeOK
<1>7. /\ Remember(r) \in Seq(0 .. Paced)
      /\ Len(r) < MaxFailures => /\ Len(Remember(r)) = Len(r) + 1
                                 /\ \A k \in 1 .. Len(r) : Remember(r)[k] = r[k]
      /\ Len(r) = MaxFailures => /\ Len(Remember(r)) = MaxFailures
                                 /\ \A k \in 1 .. (MaxFailures - 1) : Remember(r)[k] = r[k + 1]
  BY <1>3, <1>4, RememberFacts
<1> HIDE DEF m, u, r, Paced
<1>8. TypeOK'
  <2>1. failed' \in [Admins -> Nat]
    BY <1>1, <1>3, <1>5 DEF TypeOK
  <2>2. locked' \in [Admins -> Int \cup {Off}]
    BY <1>1, <1>3, <1>4, <1>5 DEF TypeOK
  <2>3. recent' \in [Admins -> Seq(0 .. (Lockout - MaxWait))]
    BY <1>1, <1>5, <1>7 DEF TypeOK, Paced
  <2> QED BY <1>1, <1>2, <1>5, <2>1, <2>2, <2>3, EndFacts DEF TypeOK
<1>9. LoadedInv' /\ JudgeInv'
  <2>1. \A v \in Admins : \/ cred'[v] = cred[v] /\ locked'[v] = locked[v]
                          \/ stage[q] = "loaded" /\ form[q].name = v
    BY <1>2, <1>5, <1>6 DEF u
  <2> QED BY <1>2, <2>1, EndKeeps
<1>10. PaceInv'
  <2> DEFINE s == Remember(r)
  <2>9. ASSUME NEW v \in Admins, v # u PROVE GuessesOld(v)'
    BY <1>1, <1>6, <2>9 DEF PaceInv, GuessesOld
  <2> SUFFICES ASSUME NEW v \in Admins, v = u PROVE GuessesOld(v)'
    BY <2>9 DEF PaceInv
  <2>1. Len(s) <= MaxFailures /\ Len(s) \in Nat /\ m + 1 <= Len(s)
    BY <1>3, <1>4, <1>7
  <2>2. CASE m + 1 >= MaxFailures
    <3>1. locked'[u] = Lockout - age[q] /\ locked'[u] # Off
      BY <1>4, <1>6, <2>2
    <3>2. \A k \in 1 .. Len(s) : s[k] \in 0 .. Paced
      BY <1>7, ElementOf
    <3>3. \A k \in 1 .. Len(s) : s[k] + locked'[u] >= Lockout - MaxWait
      BY <1>4, <3>1, <3>2
    <3> QED BY <1>6, <2>1, <3>1, <3>3 DEF GuessesOld
  <2>3. CASE m + 1 < MaxFailures
    <3>1. locked'[u] = Off
      BY <1>3, <1>6, <2>3
    <3>2. ASSUME NEW k \in 1 .. (Len(s) - (m + 1)) PROVE s[k] = Paced
      <4>1. CASE Len(r) < MaxFailures
        <5>1. Len(s) = Len(r) + 1 /\ k \in 1 .. (Len(r) - m) /\ k \in 1 .. Len(r)
          BY <1>3, <1>4, <1>7, <4>1
        <5> QED BY <1>3, <1>7, <4>1, <5>1
      <4>2. CASE Len(r) = MaxFailures
        <5>1. k \in 1 .. (MaxFailures - 1) /\ k + 1 \in 1 .. (Len(r) - m)
          BY <1>3, <1>4, <1>7, <4>2
        <5> QED BY <1>3, <1>7, <4>2, <5>1
      <4> QED BY <1>3, <4>1, <4>2
    <3>3. failed'[u] < MaxFailures /\ failed'[u] <= Len(recent'[u])
      BY <1>6, <2>1, <2>3
    <3>4. \A k \in 1 .. (Len(recent'[u]) - failed'[u]) : recent'[u][k] = Lockout - MaxWait
      BY <1>6, <3>2 DEF Paced
    <3>5. Len(recent'[u]) <= MaxFailures
      BY <1>6, <2>1
    <3> HIDE DEF s
    <3> QED BY <3>1, <3>3, <3>4, <3>5 DEF GuessesOld
  <2> QED BY <1>3, <2>2, <2>3
<1>11. PagesAgree'
  BY <1>1, <1>5 DEF PagesAgree
<1> QED BY <1>8, <1>9, <1>10, <1>11 DEF IInv

(* Whoever ends a request writes at most to the account it has loaded.     *)
LEMMA WriteStep ==
    ASSUME IInv, NEW q \in Requests, stage[q] = "loaded", End(q),
           cred' \in [Admins -> Credentials],
           \A v \in Admins : v # form[q].name => cred'[v] = cred[v],
           UNCHANGED locked
    PROVE  LoadedInv' /\ JudgeInv'
BY EndKeeps

(* What the EXCEPT of sign-in and change of password does.                 *)
LEMMA SetPassword ==
    ASSUME NEW c \in [Admins -> Credentials], NEW u \in Admins, NEW x \in Passwords, NEW d,
           d = [c EXCEPT ![u].password = x, ![u].outdated = FALSE]
    PROVE  /\ d \in [Admins -> Credentials]
           /\ \A v \in Admins : d[v].secret = c[v].secret /\ (v # u => d[v] = c[v])
           /\ d[u].password = x
<1> DEFINE e == [c[u] EXCEPT !.password = x, !.outdated = FALSE]
<1>1. c[u] \in Credentials
  OBVIOUS
<1>2. d = [c EXCEPT ![u] = e]
  OBVIOUS
<1>3. e \in Credentials /\ e.secret = c[u].secret /\ e.password = x
  BY <1>1 DEF Credentials
<1> HIDE DEF e
<1>4. d[u] = e /\ \A v \in Admins : v # u => d[v] = c[v]
  BY <1>2
<1>5. d \in [Admins -> Credentials]
  BY <1>2, <1>3
<1> QED BY <1>3, <1>4, <1>5

(* The password a sign-in leaves is the one it has judged.                 *)
LEMMA SignInPassword ==
    ASSUME IInv, NEW q \in Requests, SignIn(q)
    PROVE  /\ cred' \in [Admins -> Credentials]
           /\ \A v \in Admins : /\ cred'[v].secret = cred[v].secret
                                /\ cred'[v].password = cred[v].password
                                /\ v # form[q].name => cred'[v] = cred[v]
<1> DEFINE u == form[q].name
           x == IF seen[q].outdated THEN form[q].typed ELSE cred[u].password
<1>1. cred \in [Admins -> Credentials]
  BY DEF IInv, TypeOK
<1>2. u \in Admins /\ seen[q] = cred[u] /\ form[q].typed = seen[q].password
  BY Reads DEF SignIn, FactorsValid, PasswordValid
<1>3. x = cred[u].password /\ x \in Passwords
  BY <1>1, <1>2 DEF Credentials
<1>4. cred' = [cred EXCEPT ![u].password = x, ![u].outdated = FALSE]
  BY DEF SignIn
<1> HIDE DEF u, x
<1> QED BY <1>1, <1>2, <1>3, <1>4, SetPassword DEF u

(* A sign-in clears the counters, and renews the hash of the password.     *)
LEMMA SignInStep ==
    ASSUME IInv, NEW q \in Requests, SignIn(q)
    PROVE  IInv'
<1> DEFINE u == form[q].name
<1>1. TypeOK /\ PaceInv /\ PagesAgree
  BY DEF IInv
<1>2. stage[q] = "loaded" /\ form[q].kind = "login" /\ End(q)
  BY DEF SignIn
<1>3. form[q] \in Forms /\ u \in Admins /\ form[q].typed \in Passwords
  BY <1>2, Reads, FormFacts
<1>4. /\ UNCHANGED shown
      /\ failed' = [failed EXCEPT ![u] = 0]
      /\ locked' = [locked EXCEPT ![u] = Off]
      /\ recent' = [recent EXCEPT ![u] = << >>]
  BY DEF SignIn
<1> HIDE DEF u
<1>5. /\ cred' \in [Admins -> Credentials]
      /\ \A v \in Admins : cred'[v].secret = cred[v].secret /\ (v # u => cred'[v] = cred[v])
  BY SignInPassword DEF u
<1>6. TypeOK'
  <2>1. recent' \in [Admins -> Seq(0 .. (Lockout - MaxWait))]
    <3>1. << >> \in Seq(0 .. (Lockout - MaxWait))
      OBVIOUS
    <3> QED BY <1>1, <1>4, <3>1 DEF TypeOK
  <2> QED BY <1>1, <1>2, <1>4, <1>5, <2>1, EndFacts DEF TypeOK
<1>7. LoadedInv' /\ JudgeInv'
  <2>1. \A v \in Admins : v # u => cred'[v] = cred[v] /\ locked'[v] = locked[v]
    BY <1>1, <1>4, <1>5 DEF TypeOK
  <2> QED BY <1>2, <2>1, EndKeeps DEF u
<1>8. PaceInv'
  <2>1. ASSUME NEW v \in Admins, v # u PROVE GuessesOld(v)'
    BY <1>1, <1>4, <2>1 DEF TypeOK, PaceInv, GuessesOld
  <2>2. ASSUME NEW v \in Admins, v = u PROVE GuessesOld(v)'
    <3>1. recent'[v] = << >> /\ failed'[v] = 0 /\ locked'[v] = Off
      BY <1>1, <1>4, <2>2 DEF TypeOK
    <3> QED BY <3>1, Numbers DEF GuessesOld
  <2> QED BY <2>1, <2>2 DEF PaceInv
<1>9. PagesAgree'
  BY <1>1, <1>4, <1>5 DEF PagesAgree
<1> QED BY <1>6, <1>7, <1>8, <1>9 DEF IInv

(* A change of password and an enrolment keep the seed.                    *)
LEMMA AccountSteps ==
    ASSUME IInv, NEW q \in Requests, ChangePassword(q) \/ EnableMfa(q)
    PROVE  IInv'
<1> DEFINE u == form[q].name
<1>1. TypeOK /\ PaceInv /\ PagesAgree
  BY DEF IInv
<1>2. stage[q] = "loaded" /\ End(q) /\ UNCHANGED <<failed, locked, shown, recent>>
  BY DEF ChangePassword, EnableMfa
<1>3. form[q] \in Forms /\ u \in Admins
  BY <1>2, Reads
<1>4. /\ cred' \in [Admins -> Credentials]
      /\ \A v \in Admins : cred'[v].secret = cred[v].secret /\ (v # u => cred'[v] = cred[v])
  <2>1. CASE ChangePassword(q)
    <3>1. form[q].new \in Passwords
      BY <1>3, <2>1, FormFacts DEF ChangePassword
    <3>2. cred' = cred \/ cred' = [cred EXCEPT ![u].password = form[q].new, ![u].outdated = FALSE]
      BY <2>1 DEF ChangePassword
    <3> HIDE DEF u
    <3>3. cred \in [Admins -> Credentials]
      BY <1>1 DEF TypeOK
    <3> QED BY <1>3, <3>1, <3>2, <3>3, SetPassword
  <2>2. CASE EnableMfa(q)
    <3>1. PICK b \in BOOLEAN : cred' = [cred EXCEPT ![u].enabled = b]
      <4>1. (cred[u].enabled \/ VerifyTotp(seen[q].secret, form[q].code)) \in BOOLEAN
        OBVIOUS
      <4> QED BY <2>2, <4>1 DEF EnableMfa
    <3> HIDE DEF u
    <3> QED BY ZenonT(60), <1>1, <1>3, <3>1 DEF TypeOK, Credentials
  <2> QED BY <2>1, <2>2
<1>5. TypeOK'
  BY <1>1, <1>2, <1>4, EndFacts DEF TypeOK
<1>6. LoadedInv' /\ JudgeInv'
  BY <1>2, <1>4, WriteStep
<1>7. PaceInv' /\ PagesAgree'
  BY <1>1, <1>2, <1>4 DEF PaceInv, GuessesOld, PagesAgree
<1> QED BY <1>5, <1>6, <1>7 DEF IInv

(* The MFA page: a seed is drawn only where none was shown.                *)
LEMMA PageStep ==
    ASSUME IInv, NEW q \in Requests, MfaSetupPage(q)
    PROVE  IInv'
<1> DEFINE u == form[q].name
<1>1. TypeOK /\ PaceInv /\ PagesAgree
  BY DEF IInv
<1>2. stage[q] = "loaded" /\ End(q) /\ UNCHANGED <<failed, locked, recent>>
  BY DEF MfaSetupPage
<1>3. u \in Admins /\ seen[q] = cred[u] /\ seen[q] \in Credentials
  BY <1>2, Reads
<1>4. CASE UNCHANGED <<cred, shown>>
  BY <1>2, <1>4, EndOnly
<1>5. ASSUME NEW s \in PageSeeds(seen[q]),
             cred' = [cred EXCEPT ![u].secret = s], shown' = [shown EXCEPT ![u] = @ \cup {s}]
      PROVE  IInv'
  <2>1. s \in Secrets /\ (cred[u].secret # Off => s = cred[u].secret)
    BY <1>3, <1>5 DEF PageSeeds, Credentials
  <2> HIDE DEF u
  <2>2. cred' \in [Admins -> Credentials] /\ shown' \in [Admins -> SUBSET Secrets]
    BY <1>1, <1>3, <1>5, <2>1 DEF TypeOK, Credentials
  <2>3. \A v \in Admins : v # u => cred'[v] = cred[v] /\ shown'[v] = shown[v]
    BY <1>1, <1>5 DEF TypeOK
  <2>4. cred'[u].secret = s /\ shown'[u] = shown[u] \cup {s}
    BY <1>1, <1>3, <1>5 DEF TypeOK, Credentials
  <2>5. TypeOK'
    BY <1>1, <1>2, <2>2, EndFacts DEF TypeOK
  <2>6. LoadedInv' /\ JudgeInv'
    BY <1>2, <2>2, <2>3, WriteStep DEF u
  <2>7. ASSUME NEW x \in shown[u] PROVE x = s
    <3>1. cred[u].secret = x /\ x \in Secrets
      BY <1>1, <1>3 DEF PagesAgree, TypeOK
    <3> QED BY <2>1, <3>1, OffAssumption
  <2>8. PagesAgree'
    BY <1>1, <2>3, <2>4, <2>7 DEF PagesAgree
  <2>9. PaceInv'
    BY <1>1, <1>2 DEF PaceInv, GuessesOld
  <2> QED BY <2>5, <2>6, <2>8, <2>9 DEF IInv
<1> QED BY <1>4, <1>5 DEF MfaSetupPage

(* A tick: a lock loses what a guess and a request gain in age.            *)
LEMMA TickStep ==
    ASSUME IInv, Tick
    PROVE  IInv'
<1> DEFINE Paced == Lockout - MaxWait
<1> USE Numbers
<1>1. TypeOK /\ LoadedInv /\ JudgeInv /\ PaceInv /\ PagesAgree
  BY DEF IInv
<1>2. UNCHANGED <<cred, failed, stage, form, seen, shown>>
  BY DEF Tick
<1>3. \A q \in Requests : /\ age[q] \in 0 .. MaxWait /\ age[q] < MaxWait
                          /\ age'[q] = IF Judges(q) THEN age[q] + 1 ELSE 0
  BY <1>1 DEF Tick, TypeOK
<1>4. \A u \in Admins : /\ locked[u] \in Int \cup {Off}
                        /\ locked'[u] = Passed(locked[u])
  BY <1>1 DEF Tick, TypeOK
<1>5. \A u \in Admins : /\ locked'[u] \in Int \cup {Off}
                        /\ locked'[u] = Off <=> locked[u] = Off
                        /\ locked[u] # Off => locked'[u] >= locked[u] - 1
                        /\ locked[u] # Off => locked'[u] = locked[u] - 1 \/ locked'[u] = -MaxWait
  BY <1>4 DEF Passed
<1>6. ASSUME NEW u \in Admins
      PROVE  /\ recent'[u] \in Seq(0 .. Paced) /\ Len(recent'[u]) = Len(recent[u])
             /\ \A k \in 1 .. Len(recent[u]) : /\ recent[u][k] \in 0 .. Paced
                                               /\ recent'[u][k] = Older(recent[u][k])
  <2>1. recent[u] \in Seq(0 .. Paced)
    BY <1>1 DEF TypeOK
  <2>2. recent'[u] = [k \in DOMAIN recent[u] |-> Older(recent[u][k])]
    BY DEF Tick
  <2>3. DOMAIN recent[u] = 1 .. Len(recent[u]) /\ Len(recent[u]) \in Nat
    BY <2>1
  <2>4. \A k \in 1 .. Len(recent[u]) : recent[u][k] \in 0 .. Paced
    BY <2>1, ElementOf
  <2>5. \A k \in 1 .. Len(recent[u]) : Older(recent[u][k]) \in 0 .. Paced
    BY <2>4 DEF Older
  <2> QED BY <2>2, <2>3, <2>4, <2>5
<1>7. TypeOK'
  <2>1. age' \in [Requests -> 0 .. MaxWait]
    <3>1. \A q \in Requests : age'[q] \in 0 .. MaxWait
      BY <1>3
    <3> QED BY <3>1 DEF Tick
  <2>2. locked' \in [Admins -> Int \cup {Off}]
    BY <1>5 DEF Tick
  <2>3. recent' \in [Admins -> Seq(0 .. (Lockout - MaxWait))]
    BY <1>6 DEF Tick
  <2> QED BY <1>1, <1>2, <2>1, <2>2, <2>3 DEF TypeOK
<1>8. LoadedInv'
  BY <1>1, <1>2 DEF LoadedInv
<1>9. JudgeInv'
  <2> SUFFICES ASSUME NEW q \in Requests, stage[q] = "loaded", form[q].kind = "login"
               PROVE  ~InForce(locked'[form[q].name], age'[q])
    BY <1>2 DEF JudgeInv, InForce
  <2>1. form[q].name \in Admins /\ ~InForce(locked[form[q].name], age[q])
    BY <1>1 DEF LoadedInv, JudgeInv
  <2>2. age'[q] = age[q] + 1
    BY <1>3 DEF Judges
  <2> QED BY <1>3, <1>4, <1>5, <2>1, <2>2 DEF InForce
<1>10. PaceInv'
  <2> SUFFICES ASSUME NEW u \in Admins PROVE GuessesOld(u)'
    BY DEF PaceInv
  <2>1. GuessesOld(u)
    BY <1>1 DEF PaceInv
  <2>2. \A k \in 1 .. Len(recent[u]) :
           /\ recent[u][k] = Paced => recent'[u][k] = Paced
           /\ recent'[u][k] = Paced \/ recent'[u][k] = recent[u][k] + 1
    BY <1>6 DEF Older
  <2>3. CASE locked[u] = Off
    <3>1. locked'[u] = Off /\ failed'[u] = failed[u] /\ Len(recent'[u]) = Len(recent[u])
      BY <1>2, <1>5, <1>6, <2>3
    <3>2. failed[u] \in Nat /\ Len(recent[u]) \in Nat
      BY <1>1 DEF TypeOK
    <3>3. \A k \in 1 .. (Len(recent[u]) - failed[u]) : k \in 1 .. Len(recent[u])
      BY <3>2
    <3> QED BY <2>1, <2>2, <2>3, <3>1, <3>3 DEF GuessesOld
  <2>4. CASE locked[u] # Off
    <3>1. locked'[u] # Off /\ locked[u] \in Int /\ locked'[u] \in Int /\ locked'[u] >= locked[u] - 1
      BY <1>4, <1>5, <2>4
    <3>2. ASSUME NEW k \in 1 .. Len(recent[u])
          PROVE  recent'[u][k] = Paced \/ recent'[u][k] + locked'[u] >= Paced
      <4>1. recent[u][k] \in 0 .. Paced
        BY <1>6
      <4>2. recent[u][k] = Paced \/ recent[u][k] + locked[u] >= Paced
        BY <2>1, <2>4 DEF GuessesOld
      <4>3. /\ recent[u][k] = Paced => recent'[u][k] = Paced
            /\ recent'[u][k] = Paced \/ recent'[u][k] = recent[u][k] + 1
        BY <2>2
      <4>4. CASE recent[u][k] = Paced
        BY <4>3, <4>4
      <4>5. CASE recent'[u][k] = recent[u][k] + 1 /\ recent[u][k] + locked[u] >= Paced
        <5> HIDE DEF Paced
        <5>1. Paced \in Int /\ recent[u][k] \in Int
          BY <4>1 DEF Paced
        <5> QED BY <3>1, <4>5, <5>1
      <4> QED BY <4>2, <4>3, <4>4, <4>5
    <3> QED BY <1>6, <2>1, <2>4, <3>1, <3>2 DEF GuessesOld
  <2> QED BY <2>3, <2>4
<1>11. PagesAgree'
  BY <1>1, <1>2 DEF PagesAgree
<1> QED BY <1>7, <1>8, <1>9, <1>10, <1>11 DEF IInv

(* Every step keeps the inductive invariant.                               *)
LEMMA IInvStep == IInv /\ [Next]_vars => IInv'
<1> SUFFICES ASSUME IInv, [Next]_vars PROVE IInv'
  OBVIOUS
<1>1. ASSUME NEW q \in Requests, NoSuchAdmin(q) \/ StillLocked(q) \/ Abort(q) PROVE IInv'
  BY <1>1, EndOnly DEF NoSuchAdmin, StillLocked, Abort, credVars
<1>2. CASE UNCHANGED vars
  <2>1. UNCHANGED <<cred, failed, locked, shown, recent, stage, form, age, seen>>
    BY <1>2 DEF vars, credVars, requestVars
  <2>2. TypeOK' /\ LoadedInv' /\ JudgeInv'
    BY <2>1 DEF IInv, TypeOK, LoadedInv, JudgeInv, InForce
  <2> QED BY <2>1, <2>2, Untouched DEF IInv
<1> QED
  BY <1>1, <1>2, ArrivalSteps, WrongStep, SignInStep, AccountSteps, PageStep, TickStep
  DEF Next, Proceed
-----------------------------------------------------------------------------
(* mfa_setup_page: whatever pages of an account are open, in whatever      *)
(* tabs, and whatever requests run beside them, they show the seed that is *)
(* stored.                                                                 *)
THEOREM PagesAgreeHolds == Spec => []PagesAgree
<1>1. IInv => PagesAgree
  BY DEF IInv
<1> QED BY <1>1, IInvInit, IInvStep, PTL DEF Spec

(* LocalAuthenticator: guesses that are judged at the same time, by old    *)
(* readings of the clock, are still slowed down to MaxFailures in a        *)
(* lockout less the time a request takes.                                  *)
THEOREM GuessesPacedHolds == Spec => GuessesPaced
<1> DEFINE A == \A q \in Requests :
                  WrongFactors(q) =>
                      LET r == recent[form[q].name]
                      IN  Len(r) = MaxFailures => r[1] >= Lockout - MaxWait
<1>1. IInv => A
  <2> SUFFICES ASSUME IInv, NEW q \in Requests, WrongFactors(q),
                      Len(recent[form[q].name]) = MaxFailures
               PROVE  recent[form[q].name][1] >= Lockout - MaxWait
    OBVIOUS
  <2> DEFINE u == form[q].name
             n == IF locked[u] = Off THEN failed[u] ELSE 0
  <2>1. /\ n \in Nat /\ n < MaxFailures
        /\ \A k \in 1 .. (Len(recent[u]) - n) : recent[u][k] = Lockout - MaxWait
    BY OldGuesses DEF WrongFactors
  <2> HIDE DEF n
  <2>2. 1 \in 1 .. (Len(recent[u]) - n)
    BY <2>1, Numbers
  <2> QED BY <2>1, <2>2, Numbers
<1> HIDE DEF A
<1>2. IInv /\ [Next]_vars => [A]_vars
  BY <1>1
<1>3. Spec => [][A]_vars
  BY <1>2, IInvInit, IInvStep, PTL DEF Spec
<1> QED BY <1>3 DEF A, GuessesPaced

(* Sign-in and change of password: the credential that was judged is the   *)
(* one in force when the request ends, because its rows stay locked.       *)
THEOREM OnlyOwnersActHolds == Spec => OnlyOwnersAct
<1> DEFINE A == /\ \A q \in Requests :
                     SignIn(q) => LET c == cred[form[q].name]
                                  IN  /\ form[q].typed = c.password
                                      /\ c.enabled => VerifyTotp(c.secret, form[q].code)
                /\ \A u \in Admins :
                     cred'[u].password # cred[u].password =>
                         \E q \in Requests :
                             /\ stage[q] = "loaded" /\ stage'[q] = "idle"
                             /\ form[q].kind = "change" /\ form[q].name = u
                             /\ form[q].typed = cred[u].password
<1>1. ASSUME IInv, NEW q \in Requests, SignIn(q)
      PROVE  /\ form[q].typed = cred[form[q].name].password
             /\ cred[form[q].name].enabled => VerifyTotp(cred[form[q].name].secret, form[q].code)
  BY <1>1, Reads DEF SignIn, FactorsValid, PasswordValid
<1>2. ASSUME IInv, [Next]_vars, NEW u \in Admins, cred'[u].password # cred[u].password
      PROVE  \E q \in Requests :
                 /\ stage[q] = "loaded" /\ stage'[q] = "idle"
                 /\ form[q].kind = "change" /\ form[q].name = u
                 /\ form[q].typed = cred[u].password
  <2>1. TypeOK
    BY <1>2 DEF IInv
  <2>2. cred' # cred
    BY <1>2
  <2>3. PICK q \in Requests : SignIn(q) \/ ChangePassword(q) \/ MfaSetupPage(q) \/ EnableMfa(q)
    BY <1>2, <2>2
    DEF Next, Proceed, LoadIpLimit, NoSuchAdmin, StillLocked, Load, WrongFactors, Abort,
        BeginLogin, BeginPage, Tick, vars, credVars
  <2>4. /\ stage[q] = "loaded" /\ form[q].name \in Admins
        /\ seen[q] = cred[form[q].name] /\ seen[q] \in Credentials
    BY <1>2, <2>3, Reads DEF SignIn, ChangePassword, MfaSetupPage, EnableMfa
  <2>5. ~SignIn(q)
    BY <1>2, SignInPassword
  <2>6. ~MfaSetupPage(q)
    <3> SUFFICES ASSUME MfaSetupPage(q) PROVE FALSE
      OBVIOUS
    <3>1. PICK x : cred' = [cred EXCEPT ![form[q].name].secret = x]
      BY <2>2 DEF MfaSetupPage
    <3>2. cred[u] \in Credentials
      BY <2>1 DEF TypeOK
    <3>3. cred'[u] = cred[u] \/ cred'[u] = [cred[u] EXCEPT !.secret = x]
      BY <2>1, <3>1 DEF TypeOK
    <3> QED BY <1>2, <3>2, <3>3 DEF Credentials
  <2>7. ~EnableMfa(q)
    <3> SUFFICES ASSUME EnableMfa(q) PROVE FALSE
      OBVIOUS
    <3>1. PICK x : cred' = [cred EXCEPT ![form[q].name].enabled = x]
      BY DEF EnableMfa
    <3>2. cred[u] \in Credentials
      BY <2>1 DEF TypeOK
    <3>3. cred'[u] = cred[u] \/ cred'[u] = [cred[u] EXCEPT !.enabled = x]
      BY <2>1, <3>1 DEF TypeOK
    <3> QED BY <1>2, <3>2, <3>3 DEF Credentials
  <2>8. ChangePassword(q)
    BY <2>3, <2>5, <2>6, <2>7
  <2>9. PasswordValid(q) /\ form[q].kind = "change" /\ stage'[q] = "idle"
    BY <2>1, <2>2, <2>8, EndFacts DEF ChangePassword
  <2>10. form[q].name = u
    BY <1>2, <2>1, <2>8 DEF ChangePassword, TypeOK, Credentials
  <2> QED BY <2>4, <2>9, <2>10 DEF PasswordValid
<1>3. IInv /\ [Next]_vars => [A]_vars
  BY <1>1, <1>2
<1> HIDE DEF A
<1>4. Spec => [][A]_vars
  BY <1>3, IInvInit, IInvStep, PTL DEF Spec
<1> QED BY <1>4 DEF A, OnlyOwnersAct

-----------------------------------------------------------------------------
(* The sign-in with Google.                                                *)
USE TxnsAssumption, NoneAssumption, RowsAssumption, MovesAssumption, AccountsAssumption,
    KeepAssumption

(* The inductive invariant holds initially.                                *)
LEMMA GoogleInvInit == GoogleInit => GoogleInv
<1> SUFFICES ASSUME GoogleInit PROVE GoogleInv
  OBVIOUS
<1>1. Silent \in Answers
  BY DEF Silent, Answers
<1>2. users \in Tables
  BY DEF GoogleInit, Tables, Accounts
<1>3. GoogleTypeOK
  <2>1. /\ session = None /\ cookie = None /\ live = {} /\ astray = {}
        /\ consent \in [Txns -> Subjects \cup {None}]
        /\ txn \in [Tabs -> Txns \cup {None}] /\ carried \in [Tabs -> Own \cup {None}]
        /\ identity \in [Tabs -> Accounts \cup {None}] /\ hit \in [Tabs -> Rows \cup {None}]
        /\ answer \in [Tabs -> Answers] /\ mail \in [Subjects -> Emails \cup {None}]
    BY <1>1 DEF GoogleInit
  <2>2. /\ phase \in [Tabs -> {"idle", "callback", "verified", "found", "answered"}]
        /\ matches \in [Tabs -> BOOLEAN] /\ quiet = TRUE /\ closed = FALSE
    BY DEF GoogleInit
  <2> QED BY <1>2, <2>1, <2>2 DEF GoogleTypeOK
<1>4. CallbackInv
  BY DEF GoogleInit, CallbackInv
<1>5. QuietInv
  BY DEF GoogleInit, QuietInv, TokenFits, Known
<1> QED BY <1>3, <1>4, <1>5 DEF GoogleInv

(* A tab sends a request.                                                  *)
LEMMA SendFacts ==
    ASSUME GoogleInv, NEW t \in Tabs, NEW to \in {"callback", "answered"}, NEW x \in Txns \cup {None},
           Send(t, to, x)
    PROVE  /\ phase' \in [Tabs -> {"idle", "callback", "verified", "found", "answered"}]
           /\ phase'[t] = to /\ \A o \in Tabs \ {t} : phase'[o] = phase[o]
           /\ txn' \in [Tabs -> Txns \cup {None}] /\ txn'[t] = x
           /\ \A o \in Tabs \ {t} : txn'[o] = txn[o]
           /\ carried' \in [Tabs -> Own \cup {None}] /\ carried'[t] = session
           /\ quiet' \in BOOLEAN /\ closed' \in BOOLEAN /\ astray' \subseteq Own
           /\ quiet' => quiet /\ closed' = closed /\ astray' = astray
           /\ quiet' => \A o \in Tabs : phase[o] = "idle"
           /\ phase[t] = "idle"
<1>1. GoogleTypeOK
  BY DEF GoogleInv
<1>2. /\ quiet' \in BOOLEAN /\ closed' \in BOOLEAN
      /\ quiet' => quiet /\ closed' = closed
      /\ quiet' => \A o \in Tabs : phase[o] = "idle"
  BY <1>1, Zenon DEF Send, GoogleTypeOK
<1>3. astray' \subseteq Own /\ (quiet' => astray' = astray)
  BY <1>1 DEF Send, GoogleTypeOK
<1> QED BY <1>1, <1>2, <1>3 DEF Send, GoogleTypeOK

(* A request that is answered at once: its answer leaves a jar that fits,  *)
(* if nothing else is under way.                                           *)
LEMMA AnsweredAtOnce ==
    ASSUME GoogleInv, NEW t \in Tabs, NEW x \in Txns \cup {None}, Send(t, "answered", x),
           NEW a \in Answers, answer' = [answer EXCEPT ![t] = a],
           live' \subseteq live,
           TokenFits(session, csrf, closed) /\ Known(session) /\ UNCHANGED <<closed, astray>> =>
               AnswerFits(t)',
           UNCHANGED <<jar, google, matches, identity, hit, users>>
    PROVE  GoogleInv'
<1>1. GoogleTypeOK /\ CallbackInv /\ QuietInv
  BY DEF GoogleInv
<1>2. /\ phase' \in [Tabs -> {"idle", "callback", "verified", "found", "answered"}]
      /\ phase'[t] = "answered" /\ \A o \in Tabs \ {t} : phase'[o] = phase[o]
      /\ txn' \in [Tabs -> Txns \cup {None}]
      /\ \A o \in Tabs \ {t} : txn'[o] = txn[o]
      /\ carried' \in [Tabs -> Own \cup {None}]
      /\ quiet' \in BOOLEAN /\ closed' \in BOOLEAN /\ astray' \subseteq Own
      /\ quiet' => quiet /\ closed' = closed /\ astray' = astray
      /\ quiet' => \A o \in Tabs : phase[o] = "idle"
      /\ phase[t] = "idle"
  BY SendFacts
<1>3. answer' \in [Tabs -> Answers] /\ answer'[t] = a
  BY <1>1 DEF GoogleTypeOK
<1>4. GoogleTypeOK'
  BY <1>1, <1>2, <1>3 DEF GoogleTypeOK, jar, google
<1>5. CallbackInv'
  BY <1>1, <1>2 DEF CallbackInv, google
<1>6. QuietInv'
  <2> SUFFICES ASSUME quiet' PROVE QuietInv'
    BY DEF QuietInv
  <2>1. TokenFits(session, csrf, closed) /\ Known(session) /\ UNCHANGED <<closed, astray>>
    BY <1>1, <1>2 DEF QuietInv
  <2>2. TokenFits(session, csrf, closed)'
    BY <2>1 DEF TokenFits, jar
  <2>3. AnswerFits(t)'
    BY <2>1
  <2> QED BY <1>2, <2>2, <2>3 DEF QuietInv
<1> QED BY <1>4, <1>5, <1>6 DEF GoogleInv

(* What an answer that was just given will leave.                          *)
LEMMA AnswerLeaves ==
    ASSUME GoogleTypeOK, NEW t \in Tabs, NEW a \in Answers, answer' = [answer EXCEPT ![t] = a]
    PROVE  AnswerFits(t)' <=>
               /\ Known(Set(session, a.session))'
               /\ TokenFits(Set(session, a.session), Set(csrf, a.csrf), closed /\ a.csrf = Keep)'
<1>1. answer'[t] = a
  BY DEF GoogleTypeOK
<1> QED BY <1>1 DEF AnswerFits, Set

(* The requests that are answered at once: a new transaction, a CSRF token *)
(* for the session in the jar, a logout.                                   *)
LEMMA ShortSteps ==
    ASSUME GoogleInv, NEW t \in Tabs, StartGoogleLogin(t) \/ IssueCsrfToken(t) \/ Logout(t)
    PROVE  GoogleInv'
<1>t. GoogleTypeOK
  BY DEF GoogleInv
<1>1. CASE StartGoogleLogin(t)
  <2>1. PICK x \in Txns \cup {None}, c \in Own \cup {None} :
            /\ Send(t, "answered", x)
            /\ answer' = [answer EXCEPT ![t] = [Silent EXCEPT !.cookie = c]]
    BY <1>1 DEF StartGoogleLogin, Txns, Failed
  <2> DEFINE a == [Silent EXCEPT !.cookie = c]
  <2>2. a \in Answers /\ a.session = Keep /\ a.csrf = Keep
    BY DEF Silent, Answers
  <2>3. UNCHANGED <<jar, google, matches, identity, hit, users, live>>
    BY <1>1 DEF StartGoogleLogin
  <2> HIDE DEF a
  <2>4. answer' = [answer EXCEPT ![t] = a]
    BY <2>1 DEF a
  <2>5. TokenFits(session, csrf, closed) /\ Known(session) /\ UNCHANGED <<closed, astray>> =>
            AnswerFits(t)'
    <3> SUFFICES ASSUME TokenFits(session, csrf, closed), Known(session), UNCHANGED <<closed, astray>>
                 PROVE  AnswerFits(t)'
      OBVIOUS
    <3>1. /\ answer'[t].session = Keep /\ answer'[t].csrf = Keep
          /\ UNCHANGED <<session, csrf, live, closed, astray>>
      BY <1>t, <2>2, <2>3, <2>4 DEF GoogleTypeOK, jar
    <3>2. Known(Set(session, answer[t].session))'
      BY <3>1 DEF Known, Set
    <3> QED BY <3>1, <3>2 DEF AnswerFits, TokenFits, Set
  <2> QED BY <2>1, <2>2, <2>3, <2>4, <2>5, AnsweredAtOnce
<1>2. CASE IssueCsrfToken(t)
  <2>1. PICK c : c = Context(session)
    OBVIOUS
  <2>2. c \in Own \cup {"anonymous"} /\ c # Keep
    BY <1>t, <2>1 DEF Context, GoogleTypeOK, Txns, Keep
  <2> DEFINE a == [Silent EXCEPT !.csrf = c]
  <2>3. a \in Answers /\ a.session = Keep /\ a.csrf = c
    BY <2>2 DEF Silent, Answers
  <2>4. /\ UNCHANGED <<jar, google, matches, identity, hit, users, live>>
        /\ Send(t, "answered", None) /\ answer' = [answer EXCEPT ![t] = a]
    BY <1>2, <2>1 DEF IssueCsrfToken
  <2> HIDE DEF a
  <2>5. Known(session) /\ UNCHANGED <<closed, astray>> => AnswerFits(t)'
    BY <1>t, <2>1, <2>2, <2>3, <2>4, AnswerLeaves DEF TokenFits, Known, Set, jar, Context
  <2> QED BY <2>3, <2>4, <2>5, AnsweredAtOnce
<1>3. CASE Logout(t)
  <2> DEFINE a == [Silent EXCEPT !.session = None]
  <2>1. a \in Answers /\ a.session = None /\ a.csrf = Keep
    BY DEF Silent, Answers
  <2>2. /\ UNCHANGED <<jar, google, matches, identity, hit, users>>
        /\ Send(t, "answered", None) /\ answer' = [answer EXCEPT ![t] = a]
        /\ live' = live \ {session}
    BY <1>3 DEF Logout
  <2> HIDE DEF a
  <2>3. Known(session) /\ UNCHANGED <<closed, astray>> => AnswerFits(t)'
    BY <1>t, <2>1, <2>2, AnswerLeaves DEF TokenFits, Known, Set, jar
  <2> QED BY <2>1, <2>2, <2>3, AnsweredAtOnce
<1> QED BY <1>1, <1>2, <1>3

(* A callback arrives, with the cookie of the jar as it is.                *)
LEMMA CallbackStep ==
    ASSUME GoogleInv, NEW t \in Tabs, NEW x \in Txns, Callback(t, x)
    PROVE  GoogleInv'
<1>1. GoogleTypeOK /\ CallbackInv /\ QuietInv
  BY DEF GoogleInv
<1>2. Send(t, "callback", x)
  BY DEF Callback
<1>3. /\ phase' \in [Tabs -> {"idle", "callback", "verified", "found", "answered"}]
      /\ phase'[t] = "callback" /\ \A o \in Tabs \ {t} : phase'[o] = phase[o]
      /\ txn' \in [Tabs -> Txns \cup {None}] /\ txn'[t] = x
      /\ \A o \in Tabs \ {t} : txn'[o] = txn[o]
      /\ carried' \in [Tabs -> Own \cup {None}] /\ carried'[t] = session
      /\ quiet' \in BOOLEAN /\ closed' \in BOOLEAN /\ astray' \subseteq Own
      /\ quiet' => quiet /\ closed' = closed /\ astray' = astray
      /\ quiet' => \A o \in Tabs : phase[o] = "idle"
  BY <1>2, SendFacts
<1>4. /\ matches' \in [Tabs -> BOOLEAN] /\ (matches'[t] => cookie = x)
      /\ \A o \in Tabs \ {t} : matches'[o] = matches[o]
  BY <1>1 DEF Callback, GoogleTypeOK
<1>5. UNCHANGED <<jar, google, identity, hit, answer, users, live>> /\ consent[x] # None
  BY DEF Callback
<1>6. GoogleTypeOK'
  BY <1>1, <1>3, <1>4, <1>5 DEF GoogleTypeOK, jar, google
<1>7. CallbackInv'
  BY <1>1, <1>3, <1>4, <1>5 DEF CallbackInv, GoogleTypeOK, google
<1>8. QuietInv'
  BY <1>1, <1>3, <1>5 DEF QuietInv, TokenFits, Known, jar
<1> QED BY <1>6, <1>7, <1>8 DEF GoogleInv

(* A request that is under way gets on, and nothing else changes but       *)
(* accounts that no other tab has locked.                                  *)
LEMMA RequestStep ==
    ASSUME GoogleInv, NEW t \in Tabs, NEW s \in {"verified", "found", "answered"},
           phase[t] \in {"callback", "verified", "found"},
           phase' = [phase EXCEPT ![t] = s],
           identity' \in [Tabs -> Accounts \cup {None}], hit' \in [Tabs -> Rows \cup {None}],
           \A o \in Tabs \ {t} : identity'[o] = identity[o] /\ hit'[o] = hit[o],
           users' \in Tables, \A r \in Locked(t) : users'[r] = users[r],
           s # "answered" =>
               /\ UNCHANGED <<answer, live>>
               /\ txn[t] \in Own
               /\ identity'[t] \in [email : Emails, sub : Subjects]
               /\ identity'[t].sub = consent[txn[t]],
           s = "found" /\ hit'[t] # None =>
               users'[hit'[t]] # None /\ users'[hit'[t]].sub = identity'[t].sub,
           s = "answered" =>
               /\ answer' \in [Tabs -> Answers] /\ live' \subseteq Own
               /\ \A o \in Tabs \ {t} : answer'[o] = answer[o]
               /\ TokenFits(session, csrf, closed) /\ Known(session) /\ Known(carried[t]) =>
                      AnswerFits(t)',
           UNCHANGED <<jar, consent, mail, txn, carried, matches, history>>
    PROVE  GoogleInv'
<1>1. GoogleTypeOK /\ CallbackInv /\ QuietInv
  BY DEF GoogleInv
<1>2. /\ phase' \in [Tabs -> {"idle", "callback", "verified", "found", "answered"}]
      /\ phase'[t] = s /\ \A o \in Tabs \ {t} : phase'[o] = phase[o]
  BY <1>1 DEF GoogleTypeOK
<1>3. GoogleTypeOK'
  BY <1>1, <1>2 DEF GoogleTypeOK, jar, history
<1>4. \A o \in Tabs \ {t} : phase[o] = "found" /\ hit[o] # None => hit[o] \in Locked(t)
  BY DEF Locked
<1>5. CallbackInv'
  BY <1>1, <1>2, <1>4 DEF CallbackInv
<1>6. QuietInv'
  <2> SUFFICES ASSUME quiet PROVE QuietInv'
    BY DEF QuietInv, history
  <2>1. /\ \A o \in Tabs \ {t} : phase[o] = "idle"
        /\ TokenFits(session, csrf, closed) /\ Known(session) /\ Known(carried[t])
    BY <1>1 DEF QuietInv
  <2>2. CASE s = "answered"
    BY <1>2, <2>1, <2>2 DEF QuietInv, TokenFits, jar, history
  <2>3. CASE s # "answered"
    BY <1>2, <2>1, <2>3 DEF QuietInv, TokenFits, Known, jar, history
  <2> QED BY <2>2, <2>3
<1> QED BY <1>3, <1>5, <1>6 DEF GoogleInv

(* A refusal leaves the session cookies alone.                             *)
LEMMA RefusedStep ==
    ASSUME GoogleInv, NEW t \in Tabs, phase[t] \in {"callback", "verified", "found"},
           NEW a \in {Failed, Silent}, Answer(t, a),
           users' \in Tables, \A r \in Locked(t) : users'[r] = users[r],
           UNCHANGED <<jar, google, txn, carried, matches, identity, hit, live, history>>
    PROVE  GoogleInv'
<1>1. GoogleTypeOK
  BY DEF GoogleInv
<1>2. a \in Answers /\ a.session = Keep /\ a.csrf = Keep
  BY DEF Failed, Silent, Answers
<1>3. /\ phase' = [phase EXCEPT ![t] = "answered"]
      /\ answer' \in [Tabs -> Answers] /\ answer'[t] = a
      /\ \A o \in Tabs \ {t} : answer'[o] = answer[o]
  BY <1>1, <1>2 DEF Answer, GoogleTypeOK
<1>4. TokenFits(session, csrf, closed) /\ Known(session) => AnswerFits(t)'
  BY <1>2, <1>3 DEF AnswerFits, TokenFits, Known, Set, jar, history
<1>5. live' \subseteq Own /\ UNCHANGED <<consent, mail>>
  BY <1>1 DEF GoogleTypeOK, google
<1> QED BY <1>1, <1>3, <1>4, <1>5, RequestStep DEF GoogleTypeOK

(* Who signs in: the account a callback may take is not another subject's, *)
(* and no other tab has locked it.                                         *)
LEMMA ProvisionFacts ==
    ASSUME GoogleInv, NEW t \in Tabs, phase[t] = "found", NEW r \in Rows \ Locked(t),
           Provisions(t, r), users' = [users EXCEPT ![r] = identity[t]]
    PROVE  /\ users' \in Tables /\ users'[r] = identity[t]
           /\ \A q \in Rows \ {r} : users'[q] = users[q]
           /\ \A q \in Locked(t) : users'[q] = users[q]
           /\ users[r] # None /\ users[r].sub # None => users[r].sub = identity[t].sub
<1>1. GoogleTypeOK /\ CallbackInv
  BY DEF GoogleInv
<1>2. identity[t] \in Accounts
  BY <1>1 DEF CallbackInv, Accounts
<1>3. users' \in Tables /\ users'[r] = identity[t] /\ \A q \in Rows \ {r} : users'[q] = users[q]
  BY <1>1, <1>2 DEF GoogleTypeOK, Tables
<1>4. Locked(t) \subseteq Rows \ {r}
  BY <1>1 DEF Locked, GoogleTypeOK
<1>5. users[r] # None /\ users[r].sub # None => users[r].sub = identity[t].sub
  BY <1>1 DEF Provisions, MayLink, IsNext, CallbackInv
<1> QED BY <1>3, <1>4, <1>5

(* The steps of a callback.                                                *)
LEMMA CallbackSteps ==
    ASSUME GoogleInv, NEW t \in Tabs,
           \/ Refuse(t) \/ ExchangeAndVerify(t) \/ FindBySubject(t)
           \/ GoogleSignIn(t) \/ RefuseInactive(t) \/ GiveUp(t)
    PROVE  GoogleInv'
<1>1. GoogleTypeOK /\ CallbackInv
  BY DEF GoogleInv
<1>2. users \in Tables /\ identity \in [Tabs -> Accounts \cup {None}] /\ hit \in [Tabs -> Rows \cup {None}]
  BY <1>1 DEF GoogleTypeOK
<1>3. CASE Refuse(t)
  BY <1>2, <1>3, RefusedStep DEF Refuse
<1>4. CASE GiveUp(t)
  BY <1>2, <1>4, RefusedStep DEF GiveUp
<1>5. CASE RefuseInactive(t)
  <2>1. PICK r \in Rows \ Locked(t) :
            Provisions(t, r) /\ users' = [users EXCEPT ![r] = identity[t]]
    BY <1>5 DEF RefuseInactive
  <2>2. users' \in Tables /\ \A q \in Locked(t) : users'[q] = users[q]
    BY <1>5, <2>1, ProvisionFacts DEF RefuseInactive
  <2> QED BY <1>5, <2>2, RefusedStep DEF RefuseInactive
<1>6. CASE ExchangeAndVerify(t)
  <2> DEFINE g == consent[txn[t]]
             v == [sub |-> g, email |-> mail[g]]
  <2>1. txn[t] \in Own /\ g \in Subjects /\ mail[g] \in Emails
    BY <1>1, <1>6 DEF ExchangeAndVerify, TransactionValid, CallbackInv, GoogleTypeOK
  <2>2. v \in [email : Emails, sub : Subjects] /\ v \in Accounts /\ v.sub = g
    BY <2>1 DEF Accounts
  <2> HIDE DEF v
  <2>3. identity' = [identity EXCEPT ![t] = v]
    BY <1>6 DEF ExchangeAndVerify, v
  <2>4. /\ identity' \in [Tabs -> Accounts \cup {None}] /\ identity'[t] = v
        /\ \A o \in Tabs \ {t} : identity'[o] = identity[o]
    BY <1>2, <2>2, <2>3
  <2>5. /\ phase[t] = "callback" /\ phase' = [phase EXCEPT ![t] = "verified"]
        /\ UNCHANGED <<jar, consent, mail, txn, carried, matches, hit, answer, users, live, history>>
    BY <1>6 DEF ExchangeAndVerify
  <2> QED BY <1>2, <2>1, <2>2, <2>4, <2>5, RequestStep
<1>7. CASE FindBySubject(t)
  <2>1. /\ phase[t] = "verified" /\ phase' = [phase EXCEPT ![t] = "found"]
        /\ UNCHANGED <<jar, google, txn, carried, matches, identity, answer, users, live, history>>
    BY <1>7 DEF FindBySubject
  <2>2. /\ txn[t] \in Own /\ identity[t] \in [email : Emails, sub : Subjects]
        /\ identity[t].sub = consent[txn[t]]
    BY <1>1, <2>1 DEF CallbackInv
  <2>3. PICK h : /\ hit' = [hit EXCEPT ![t] = h]
                 /\ h = None \/ h \in BySub(identity[t].sub)
    <3>1. CASE BySub(identity[t].sub) = {}
      BY <1>7, <3>1 DEF FindBySubject
    <3>2. CASE BySub(identity[t].sub) # {}
      <4>1. (CHOOSE r \in BySub(identity[t].sub) : TRUE) \in BySub(identity[t].sub)
        BY <3>2
      <4> QED BY <1>7, <3>2, <4>1 DEF FindBySubject
    <3> QED BY <3>1, <3>2
  <2>4. h = None \/ (h \in Rows /\ users[h] # None /\ users[h].sub = identity[t].sub)
    BY <2>3 DEF BySub, WithSub
  <2>5. /\ hit' \in [Tabs -> Rows \cup {None}] /\ hit'[t] = h
        /\ \A o \in Tabs \ {t} : hit'[o] = hit[o]
    BY <1>2, <2>3, <2>4
  <2> QED BY <1>2, <2>1, <2>2, <2>4, <2>5, RequestStep DEF google
<1>8. CASE GoogleSignIn(t)
  <2>1. PICK r \in Rows \ Locked(t) :
            Provisions(t, r) /\ users' = [users EXCEPT ![r] = identity[t]]
    BY <1>8 DEF GoogleSignIn
  <2>2. users' \in Tables /\ \A q \in Locked(t) : users'[q] = users[q]
    BY <1>8, <2>1, ProvisionFacts DEF GoogleSignIn
  <2>3. /\ phase[t] = "found" /\ live' = (live \ {carried[t]}) \cup {txn[t]}
        /\ Answer(t, [session |-> txn[t], csrf |-> Context(txn[t]), cookie |-> None])
        /\ UNCHANGED <<jar, google, txn, carried, matches, identity, hit, history>>
    BY <1>8 DEF GoogleSignIn, NewToken
  <2>4. txn[t] \in Own /\ txn[t] # None /\ txn[t] # Keep
    BY <1>1, <2>3 DEF CallbackInv, Txns
  <2>5. /\ phase' = [phase EXCEPT ![t] = "answered"]
        /\ answer' = [answer EXCEPT ![t] = [session |-> txn[t], csrf |-> txn[t], cookie |-> None]]
    BY <2>3, <2>4 DEF Answer, Context
  <2>6. [session |-> txn[t], csrf |-> txn[t], cookie |-> None] \in Answers
    BY <2>4 DEF Answers
  <2>7. /\ answer' \in [Tabs -> Answers]
        /\ answer'[t] = [session |-> txn[t], csrf |-> txn[t], cookie |-> None]
        /\ \A o \in Tabs \ {t} : answer'[o] = answer[o]
    BY <1>1, <2>5, <2>6 DEF GoogleTypeOK
  <2>8. /\ Set(session, answer[t].session)' = txn[t]
        /\ Set(csrf, answer[t].csrf)' = txn[t]
    BY <2>4, <2>7 DEF Set
  <2>9. Known(carried[t]) => AnswerFits(t)'
    BY <2>3, <2>4, <2>8 DEF AnswerFits, TokenFits, Known, Context, history
  <2>10. live' \subseteq Own
    BY <1>1, <2>3, <2>4 DEF GoogleTypeOK
  <2> QED BY <1>2, <2>2, <2>3, <2>5, <2>7, <2>9, <2>10, RequestStep DEF google
<1> QED BY <1>3, <1>4, <1>5, <1>6, <1>7, <1>8

(* A request ends: its tab forgets it.                                     *)
LEMMA EndRequestFacts ==
    ASSUME GoogleInv, NEW t \in Tabs, EndRequest(t), session' \in Own \cup {None},
           cookie' \in Own \cup {None}, closed' \in BOOLEAN, astray' \subseteq Own
    PROVE  /\ GoogleTypeOK' /\ CallbackInv'
           /\ phase[t] = "answered" /\ phase'[t] = "idle"
           /\ \A o \in Tabs \ {t} : phase'[o] = phase[o]
<1>1. GoogleTypeOK /\ CallbackInv
  BY DEF GoogleInv
<1>2. /\ phase' \in [Tabs -> {"idle", "callback", "verified", "found", "answered"}]
      /\ phase[t] = "answered" /\ phase'[t] = "idle"
      /\ \A o \in Tabs \ {t} : phase'[o] = phase[o]
      /\ UNCHANGED <<google, users, live, quiet>>
  BY <1>1 DEF EndRequest, GoogleTypeOK
<1>3. Silent \in Answers
  BY DEF Silent, Answers
<1>4. GoogleTypeOK'
  <2>1. /\ txn' \in [Tabs -> Txns \cup {None}] /\ carried' \in [Tabs -> Own \cup {None}]
        /\ identity' \in [Tabs -> Accounts \cup {None}] /\ hit' \in [Tabs -> Rows \cup {None}]
        /\ answer' \in [Tabs -> Answers]
    BY <1>1, <1>3 DEF EndRequest, GoogleTypeOK
  <2>2. matches' \in [Tabs -> BOOLEAN]
    BY <1>1 DEF EndRequest, GoogleTypeOK
  <2> QED BY <1>1, <1>2, <2>1, <2>2 DEF GoogleTypeOK, google
<1>5. \A o \in Tabs \ {t} : txn'[o] = txn[o] /\ matches'[o] = matches[o]
                            /\ identity'[o] = identity[o] /\ hit'[o] = hit[o]
  BY <1>1 DEF EndRequest, GoogleTypeOK
<1>6. CallbackInv'
  BY <1>1, <1>2, <1>5 DEF CallbackInv, google
<1> QED BY <1>2, <1>4, <1>6

(* An answer arrives or is lost: the jar that a waiting browser is left    *)
(* with fits either way.                                                   *)
LEMMA ArriveStep ==
    ASSUME GoogleInv, NEW t \in Tabs, Arrive(t) \/ Lose(t)
    PROVE  GoogleInv'
<1>1. GoogleTypeOK /\ QuietInv /\ answer[t] \in Answers
  BY DEF GoogleInv, GoogleTypeOK
<1>2. EndRequest(t)
  BY DEF Arrive, Lose
<1>3. /\ session' \in Own \cup {None} /\ cookie' \in Own \cup {None}
      /\ astray' \subseteq Own
  BY <1>1 DEF Arrive, Lose, jar, Set, GoogleTypeOK, Answers
<1>4. closed' \in BOOLEAN
  BY <1>1, Zenon DEF Arrive, Lose, GoogleTypeOK
<1>5. /\ GoogleTypeOK' /\ CallbackInv'
      /\ phase[t] = "answered" /\ phase'[t] = "idle"
      /\ \A o \in Tabs \ {t} : phase'[o] = phase[o]
  BY <1>2, <1>3, <1>4, EndRequestFacts
<1>6. UNCHANGED <<live, quiet>>
  BY <1>2 DEF EndRequest
<1>7. ASSUME quiet PROVE TokenFits(session, csrf, closed)' /\ Known(session)'
  <2>1. TokenFits(session, csrf, closed) /\ AnswerFits(t)
    BY <1>1, <1>5, <1>7 DEF QuietInv
  <2>2. CASE Arrive(t)
    BY <1>6, <2>1, <2>2 DEF Arrive, AnswerFits, TokenFits, Known
  <2>3. CASE Lose(t)
    <3>1. Known(session)'
      BY <1>1, <1>6, <1>7, <2>1, <2>3 DEF Lose, AnswerFits, Known, Set, jar, GoogleTypeOK
    <3> QED BY <2>1, <2>3, <3>1 DEF Lose, TokenFits, jar
  <2> QED BY <2>2, <2>3
<1>8. QuietInv'
  BY <1>1, <1>5, <1>6, <1>7 DEF QuietInv
<1> QED BY <1>5, <1>8 DEF GoogleInv

(* The browser is closed, or a session ends.                               *)
LEMMA EndingSteps ==
    ASSUME GoogleInv, CloseBrowser \/ SessionExpires \/ \E x \in Own : SessionEnds(x)
    PROVE  GoogleInv'
<1>1. GoogleTypeOK /\ CallbackInv /\ QuietInv
  BY DEF GoogleInv
<1>2. /\ UNCHANGED <<cookie, google, request, users, quiet, astray>>
      /\ session' \in Own \cup {None} /\ live' \subseteq live
  BY <1>1 DEF CloseBrowser, SessionExpires, SessionEnds, jar, history, GoogleTypeOK
<1>3. closed' \in BOOLEAN
  BY <1>1, Zenon DEF CloseBrowser, SessionExpires, SessionEnds, history, GoogleTypeOK
<1>4. GoogleTypeOK'
  BY <1>1, <1>2, <1>3 DEF GoogleTypeOK, google, request
<1>5. CallbackInv'
  BY <1>1, <1>2 DEF CallbackInv, google, request
<1>6. ASSUME quiet PROVE QuietInv'
  <2>1. CASE CloseBrowser
    BY <1>1, <1>2, <1>6, <2>1 DEF CloseBrowser, QuietInv, TokenFits, Known, request
  <2>2. CASE SessionExpires
    <3>1. session' = None /\ live' = live \ {session} /\ UNCHANGED <<csrf, closed, astray>>
      BY <2>2 DEF SessionExpires, history
    <3>2. ASSUME NEW t \in Tabs, AnswerFits(t) PROVE AnswerFits(t)'
      BY <1>2, <3>1, <3>2 DEF AnswerFits, TokenFits, Known, Set, request
    <3>3. \A s : Known(s) => Known(s)'
      BY <3>1 DEF Known
    <3>4. Known(session) => Known(session)'
      BY <3>1 DEF Known
    <3> QED BY <1>1, <1>2, <1>6, <3>1, <3>2, <3>3, <3>4 DEF QuietInv, TokenFits, request
  <2>3. ASSUME NEW x \in Own, SessionEnds(x) PROVE QuietInv'
    BY <1>1, <1>2, <1>6, <2>3 DEF SessionEnds, QuietInv, AnswerFits, TokenFits, Known, Set, request, jar, history
  <2> QED BY <2>1, <2>2, <2>3
<1> QED BY <1>1, <1>2, <1>4, <1>5, <1>6 DEF GoogleInv, QuietInv

(* Google and the directory: a consent is given once, and a sync waits     *)
(* for the accounts that sign-ins have locked.                             *)
LEMMA ElsewhereSteps ==
    ASSUME GoogleInv,
           \/ \E x \in Txns, g \in Subjects : Consent(x, g)
           \/ \E g \in Subjects, e \in Emails : Move(g, e)
           \/ Sync
    PROVE  GoogleInv'
<1>1. GoogleTypeOK /\ CallbackInv /\ QuietInv
  BY DEF GoogleInv
<1>2. UNCHANGED <<jar, request, live, history>>
  BY DEF Consent, Move, Sync
<1>3. QuietInv'
  BY <1>1, <1>2 DEF QuietInv, AnswerFits, TokenFits, Known, Set, jar, request, history
<1>4. ASSUME NEW x \in Txns, NEW g \in Subjects, Consent(x, g) PROVE GoogleInv'
  <2>1. /\ consent' \in [Txns -> Subjects \cup {None}] /\ consent[x] = None
        /\ \A y \in Txns \ {x} : consent'[y] = consent[y]
        /\ UNCHANGED <<mail, users>>
    BY <1>1, <1>4 DEF Consent, GoogleTypeOK
  <2>2. GoogleTypeOK'
    BY <1>1, <1>2, <2>1 DEF GoogleTypeOK, jar, request, history
  <2>3. \A t \in Tabs : phase[t] \in {"callback", "verified", "found"} =>
            txn[t] \in Txns \ {x}
    BY <1>1, <2>1 DEF CallbackInv, Txns
  <2>4. CallbackInv'
    BY <1>1, <1>2, <2>1, <2>3 DEF CallbackInv, request
  <2> QED BY <1>3, <2>2, <2>4 DEF GoogleInv
<1>5. ASSUME NEW g \in Subjects, NEW e \in Emails, Move(g, e) PROVE GoogleInv'
  <2>1. mail' \in [Subjects -> Emails \cup {None}] /\ UNCHANGED <<consent, users>>
    BY <1>1, <1>5 DEF Move, GoogleTypeOK
  <2>2. GoogleTypeOK'
    BY <1>1, <1>2, <2>1 DEF GoogleTypeOK, jar, request, history
  <2>3. CallbackInv'
    BY <1>1, <1>2, <2>1 DEF CallbackInv, request
  <2> QED BY <1>3, <2>2, <2>3 DEF GoogleInv
<1>6. CASE Sync
  <2>1. /\ users' \in Tables /\ UNCHANGED google
        /\ \A t \in Tabs : phase[t] = "found" => hit[t] = None
    BY <1>6 DEF Sync
  <2>2. GoogleTypeOK'
    BY <1>1, <1>2, <2>1 DEF GoogleTypeOK, jar, request, history, google
  <2>3. CallbackInv'
    BY <1>1, <1>2, <2>1 DEF CallbackInv, request, google
  <2> QED BY <1>3, <2>2, <2>3 DEF GoogleInv
<1> QED BY <1>4, <1>5, <1>6

(* Every step keeps the inductive invariant.                               *)
LEMMA GoogleInvStep == GoogleInv /\ [GoogleNext]_googleVars => GoogleInv'
<1> SUFFICES ASSUME GoogleInv, [GoogleNext]_googleVars PROVE GoogleInv'
  OBVIOUS
<1>1. CASE UNCHANGED googleVars
  BY <1>1 DEF GoogleInv, GoogleTypeOK, CallbackInv, QuietInv, AnswerFits, TokenFits, Known, Set, googleVars, jar,
              google, request, history
<1> QED
  BY <1>1, ShortSteps, CallbackStep, CallbackSteps, ArriveStep, EndingSteps, ElsewhereSteps DEF GoogleNext

(* The inductive invariant of the sign-in with Google.                     *)
THEOREM GoogleInvariance == GoogleSpec => []GoogleInv
BY GoogleInvInit, GoogleInvStep, PTL DEF GoogleSpec

(* finish_google_login and logout keep the session and the CSRF token of a *)
(* browser that waits for its answers together, whichever of them are lost,*)
(* until it is closed; and no session is left live but in its jar or in a  *)
(* lost answer.                                                            *)
THEOREM QuietBrowserHolds == GoogleSpec => []QuietBrowser
<1>1. GoogleInv => QuietBrowser
  BY DEF GoogleInv, QuietInv, QuietBrowser, TokenFits, Known, CsrfValid
<1> QED BY GoogleInvariance, <1>1, PTL

(* start_google_login's transaction cookie and finish_google_login's       *)
(* comparison: whatever callbacks come, a session is issued for a          *)
(* transaction of this browser, to the account of whoever consented.       *)
THEOREM SignsInAsSelfHolds == GoogleSpec => SignsInAsSelf
<1>1. GoogleInv /\ [GoogleNext]_googleVars =>
        [\A x \in live' \ live :
          /\ x \in Own
          /\ \E r \in Rows : users'[r] # None /\ users'[r].sub = consent[x]]_googleVars
  <2> SUFFICES ASSUME GoogleInv, GoogleNext, NEW x \in live' \ live
               PROVE  x \in Own /\ \E r \in Rows : users'[r] # None /\ users'[r].sub = consent[x]
    OBVIOUS
  <2>1. PICK t \in Tabs : GoogleSignIn(t)
    BY DEF GoogleNext, StartGoogleLogin, IssueCsrfToken, Logout, Callback, Refuse, ExchangeAndVerify,
           FindBySubject, RefuseInactive, GiveUp, Arrive, Lose, EndRequest, CloseBrowser, SessionExpires,
           SessionEnds, Consent, Move, Sync
  <2>2. phase[t] = "found" /\ x = txn[t]
    BY <2>1 DEF GoogleSignIn
  <2>3. /\ txn[t] \in Own /\ identity[t] \in Accounts
        /\ identity[t].sub = consent[txn[t]]
    BY <2>2 DEF GoogleInv, CallbackInv, Accounts
  <2>4. PICK r \in Rows \ Locked(t) :
            Provisions(t, r) /\ users' = [users EXCEPT ![r] = identity[t]]
    BY <2>1 DEF GoogleSignIn
  <2>5. users'[r] = identity[t]
    BY <2>2, <2>4, ProvisionFacts
  <2> QED BY <2>2, <2>3, <2>4, <2>5
<1> QED BY <1>1, GoogleInvariance, PTL DEF GoogleSpec, SignsInAsSelf

(* provision_google_user's locks and its comparison of subjects: no sign-in*)
(* passes a linked account to another subject.                             *)
THEOREM AccountsKeepSubjectHolds == GoogleSpec => AccountsKeepSubject
<1>1. GoogleInv /\ [GoogleNext]_googleVars =>
        [\A r \in Rows :
          users[r] # None /\ users[r].sub # None =>
              \/ users'[r].sub = users[r].sub
              \/ Sync]_googleVars
  <2> SUFFICES ASSUME GoogleInv, GoogleNext, ~Sync, NEW r \in Rows, users[r] # None, users[r].sub # None
               PROVE  users'[r].sub = users[r].sub
    OBVIOUS
  <2>1. ASSUME NEW t \in Tabs, GoogleSignIn(t) \/ RefuseInactive(t) PROVE users'[r].sub = users[r].sub
    <3>1. PICK q \in Rows \ Locked(t) :
              Provisions(t, q) /\ users' = [users EXCEPT ![q] = identity[t]]
      BY <2>1 DEF GoogleSignIn, RefuseInactive
    <3>2. /\ users'[q] = identity[t] /\ \A p \in Rows \ {q} : users'[p] = users[p]
          /\ users[q] # None /\ users[q].sub # None => users[q].sub = identity[t].sub
      BY <2>1, <3>1, ProvisionFacts DEF GoogleSignIn, RefuseInactive
    <3> QED BY <3>2
  <2>2. CASE users' = users
    BY <2>2
  <2> QED
    BY <2>1, <2>2 DEF GoogleNext, StartGoogleLogin, IssueCsrfToken, Logout, Callback, Refuse,
        ExchangeAndVerify, FindBySubject, GiveUp, Arrive, Lose, EndRequest, CloseBrowser,
        SessionExpires, SessionEnds, Consent, Move
<1> QED BY <1>1, GoogleInvariance, PTL DEF GoogleSpec, AccountsKeepSubject
=============================================================================
