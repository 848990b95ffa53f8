----------------------------- MODULE Deployment -----------------------------
(***************************************************************************)
(* The life of the container stack (compose.portainer.yaml): the one-shot  *)
(* init that generates the secrets and the start of the web container      *)
(* (src/app/bootstrap_secrets.py, src/app/bootstrap_database.py), the three*)
(* stores encrypted under the data key (src/app/finding_crypto.py,         *)
(* src/app/platform_settings.py, src/app/auth/local.py), and the rotation  *)
(* of that key (src/app/reencrypt.py) as section 3 of RUNBOOK.md says to   *)
(* run it.  A process may die between any two steps.                       *)
(*                                                                         *)
(* A secret is a number, new each time one is generated.  A ciphertext is  *)
(* the key it is encrypted under: a decryption with another key raises     *)
(* InvalidTag.                                                             *)
(***************************************************************************)
EXTENDS Integers, Sequences

CONSTANTS
    Inits,      \* init containers that may run at once
    MaxSecrets, \* bound: secrets generated
    MaxFaults,  \* bound: processes that die
    None

(* _SECRET_FILES in order; the migrator's password and the session secret  *)
(* are treated as the runtime role's is.                                   *)
Secrets == <<"postgres", "runtime", "data">>
Names == {Secrets[i] : i \in DOMAIN Secrets}
Stores == <<"findings", "settings", "totp">>  \* in the order of rotate
StoreNames == {Stores[i] : i \in DOMAIN Stores}
Values == 1..MaxSecrets
Absent == -1
Empty == 0

ASSUME SecretsAssumption == MaxSecrets \in Nat
ASSUME FaultsAssumption == MaxFaults \in Nat
ASSUME NoneAssumption == None \notin Values

VARIABLES
    file,      \* the files of the secrets volume: Absent, Empty or a value
    generated, \* the last secret that was generated
    at,        \* the secret each init is at; 0 when it does not run
    opened,    \* has it created the file it is at?
    ready,     \* an init has completed
    pg,        \* the password the database was initialised with
    pgUp,
    revision,  \* of the schema: "none", "roles" or "head"
    role,      \* the password of the runtime role
    web,       \* where the web container stands
    key,       \* the data key it has loaded
    store,     \* the key each store is encrypted under; None while it is empty
    op,        \* where the operator stands in the rotation
    backup,    \* the dump taken before
    newKey,    \* the key generated for it
    turn,      \* the store the rotation is at; 0 when it does not run
    dry,       \* --dry-run
    staged,    \* its uncommitted ciphertexts
    failures,  \* could it not decrypt something?
    faults

secrets == <<file, generated, at, opened, ready>>
database == <<pg, pgUp, revision, role>>
server == <<web, key>>
rotation == <<op, backup, newKey, turn, dry, staged, failures>>
vars == <<secrets, database, server, store, rotation, faults>>

Nothing == [s \in StoreNames |-> None]

Init ==
    /\ file = [n \in Names |-> Absent]
    /\ generated = 0
    /\ at = [p \in Inits |-> 0]
    /\ opened = [p \in Inits |-> FALSE]
    /\ ready = FALSE
    /\ pg = None /\ pgUp = FALSE
    /\ revision = "none" /\ role = None
    /\ web = "down" /\ key = None
    /\ store = Nothing
    /\ op = "none" /\ backup = Nothing /\ newKey = None
    /\ turn = 0 /\ dry = FALSE /\ staged = Nothing /\ failures = FALSE
    /\ faults = 0

Fault == faults < MaxFaults /\ faults' = faults + 1

-----------------------------------------------------------------------------
(* initialize_bootstrap_secrets.                                           *)

(* docker compose up runs init; the operator may do so again at any time.  *)
StartInit(p) ==
    /\ at[p] = 0
    /\ at' = [at EXCEPT ![p] = 1]
    /\ UNCHANGED <<file, generated, opened, ready, database, server, store, rotation, faults>>

(* Variant for mutation: the file is opened as if it were not there.       *)
Truncates(n) == TRUE
(* O_CREAT | O_EXCL: the file is opened only where there is none.          *)
Exclusive(n) == file[n] = Absent

OpenSecret(p) ==
    /\ at[p] > 0 /\ ~opened[p]
    /\ Exclusive(Secrets[at[p]])
    /\ file' = [file EXCEPT ![Secrets[at[p]]] = Empty]
    /\ opened' = [opened EXCEPT ![p] = TRUE]
    /\ UNCHANGED <<generated, at, ready, database, server, store, rotation, faults>>

(* After the last secret init completes.                                   *)
Advance(p) ==
    IF at[p] = Len(Secrets)
    THEN at' = [at EXCEPT ![p] = 0] /\ ready' = TRUE
    ELSE at' = [at EXCEPT ![p] = @ + 1] /\ UNCHANGED ready

WriteSecret(p) ==
    /\ opened[p]
    /\ generated < MaxSecrets
    /\ generated' = generated + 1
    /\ file' = [file EXCEPT ![Secrets[at[p]]] = generated']
    /\ opened' = [opened EXCEPT ![p] = FALSE]
    /\ Advance(p)
    /\ UNCHANGED <<database, server, store, rotation, faults>>

(* FileExistsError, and _read_secret accepts what is there.                *)
KeepSecret(p) ==
    /\ at[p] > 0 /\ ~opened[p]
    /\ file[Secrets[at[p]]] \in Values
    /\ Advance(p)
    /\ UNCHANGED <<file, generated, opened, database, server, store, rotation, faults>>

(* _read_secret refuses a file that is too short: init ends with an error. *)
RefuseSecret(p) ==
    /\ at[p] > 0 /\ ~opened[p]
    /\ file[Secrets[at[p]]] = Empty
    /\ at' = [at EXCEPT ![p] = 0]
    /\ UNCHANGED <<file, generated, opened, ready, database, server, store, rotation, faults>>

InitDies(p) ==
    /\ at[p] > 0
    /\ Fault
    /\ at' = [at EXCEPT ![p] = 0]
    /\ opened' = [opened EXCEPT ![p] = FALSE]
    /\ UNCHANGED <<file, generated, ready, database, server, store, rotation>>

-----------------------------------------------------------------------------
(* The database starts after init; the first start sets its password.      *)
StartPostgres ==
    /\ ready /\ ~pgUp
    /\ pgUp' = TRUE
    /\ pg' = IF pg = None THEN file["postgres"] ELSE pg
    /\ UNCHANGED <<secrets, revision, role, server, store, rotation, faults>>

StopPostgres ==
    /\ pgUp
    /\ Fault
    /\ pgUp' = FALSE
    /\ UNCHANGED <<secrets, pg, revision, role, server, store, rotation>>

(* _serve: the web container starts once the database has been started, and*)
(* again after every exit unless the operator has stopped it.  On an empty *)
(* secret load_bootstrap_secrets raises before anything else is done, and  *)
(* the container is down as before.                                        *)
StartWeb ==
    /\ web = "down" /\ pg # None
    /\ op \in {"none", "prepared", "blank"}
    /\ \A n \in Names : file[n] \in Values
    /\ web' = "waiting"
    /\ UNCHANGED <<secrets, database, key, store, rotation, faults>>

(* The database answers, and accepts the password of the superuser.        *)
Reachable == pgUp /\ pg = file["postgres"]

(* _wait_for_database: a probe succeeds.                                   *)
DatabaseReachable ==
    /\ web = "waiting"
    /\ Reachable
    /\ web' = "bootstrap"
    /\ UNCHANGED <<secrets, database, key, store, rotation, faults>>

(* The deadline passes.                                                    *)
DatabaseUnreachable ==
    /\ web = "waiting"
    /\ ~Reachable
    /\ web' = "down"
    /\ UNCHANGED <<secrets, database, key, store, rotation, faults>>

(* Variant for mutation: the bootstrap is run on every start.              *)
EveryTime == TRUE
(* _bootstrap_required: no revision is recorded yet.                       *)
BootstrapRequired == revision = "none"

(* bootstrap_database: one transaction up to 0001_bootstrap_roles.  Alembic*)
(* refuses an upgrade to a revision that is behind the database.           *)
BootstrapDatabase ==
    /\ web = "bootstrap"
    /\ \/ /\ Reachable /\ BootstrapRequired /\ revision = "none"
          /\ web' = "migrate" /\ revision' = "roles" /\ role' = file["runtime"]
       \/ /\ Reachable /\ ~BootstrapRequired
          /\ web' = "migrate" /\ UNCHANGED <<revision, role>>
       \/ /\ ~Reachable \/ (BootstrapRequired /\ revision # "none")
          /\ web' = "down" /\ UNCHANGED <<revision, role>>
    /\ UNCHANGED <<secrets, pg, pgUp, key, store, rotation, faults>>

(* alembic upgrade head, as the migrator; then create_app loads the        *)
(* settings, the data key among them, for the life of the process.         *)
Migrate ==
    /\ web = "migrate"
    /\ IF pgUp /\ role = file["runtime"]
       THEN web' = "up" /\ revision' = "head" /\ key' = file["data"]
       ELSE web' = "down" /\ UNCHANGED <<revision, key>>
    /\ UNCHANGED <<secrets, pg, pgUp, role, store, rotation, faults>>

WebDies ==
    /\ web # "down"
    /\ Fault
    /\ web' = "down"
    /\ key' = None
    /\ UNCHANGED <<secrets, database, store, rotation>>

(* A store is written under the key the application has loaded.            *)
Encrypt(s) ==
    /\ web = "up" /\ pgUp
    /\ store' = [store EXCEPT ![s] = key]
    /\ UNCHANGED <<secrets, database, server, rotation, faults>>

ProtectPassword == Encrypt("findings")
WriteSettings == Encrypt("settings")
EncryptTotpSecret == Encrypt("totp")

-----------------------------------------------------------------------------
(* The runbook: a backup, and a key from reencrypt --generate.             *)
Prepare ==
    /\ op = "none" /\ web = "up"
    /\ generated < MaxSecrets
    /\ generated' = generated + 1
    /\ newKey' = generated'
    /\ backup' = store
    /\ op' = "prepared"
    /\ UNCHANGED <<file, at, opened, ready, database, server, store, turn, dry, staged,
                   failures, faults>>

StopWeb ==
    /\ op = "prepared" /\ turn = 0
    /\ op' = "stopped"
    /\ web' = "down"
    /\ key' = None
    /\ UNCHANGED <<secrets, database, store, backup, newKey, turn, dry, staged, failures,
                   faults>>

(* reencrypt.main reads the old key from the settings, the new one from the*)
(* terminal.  A rehearsal may run beside the application; an operator who  *)
(* does not know how a rotation ended may run it once more.                *)
BeginRotation(rehearsal) ==
    /\ turn = 0 /\ pgUp
    /\ op \in IF rehearsal THEN {"prepared"} ELSE {"stopped", "unsure"}
    /\ newKey # file["data"]
    /\ turn' = 1
    /\ dry' = rehearsal
    /\ staged' = store
    /\ failures' = FALSE
    /\ UNCHANGED <<secrets, database, server, store, op, backup, newKey, faults>>

(* Variant for mutation: the TOTP seeds are left as they are.              *)
ForgetsSeeds(s) == IF s = "totp" THEN staged[s] ELSE newKey
(* _recrypt.                                                               *)
Recrypted(s) == newKey

(* One store of rotate.  What cannot be decrypted is noted, not rewritten. *)
RotateStore ==
    LET s == Stores[turn]
    IN  /\ turn \in DOMAIN Stores /\ pgUp
        /\ turn' = turn + 1
        /\ staged' = [staged EXCEPT ![s] = IF @ = file["data"] THEN Recrypted(s) ELSE @]
        /\ failures' = (failures \/ store[s] \notin {None, file["data"]})
        /\ UNCHANGED <<secrets, database, server, store, op, backup, newKey, dry, faults>>

EndRotation ==
    /\ turn' = 0
    /\ dry' = FALSE
    /\ staged' = Nothing
    /\ failures' = FALSE

(* _run: commit, or rollback on a failure or a rehearsal.                  *)
FinishRotation ==
    /\ turn > Len(Stores) /\ pgUp
    /\ IF failures \/ dry
       THEN UNCHANGED store /\ op' = IF dry THEN op ELSE "unsure"
       ELSE store' = staged /\ op' = "rotated"
    /\ EndRotation
    /\ UNCHANGED <<secrets, database, server, backup, newKey, faults>>

(* The rotation dies, or the terminal does with its last word: the operator*)
(* does not know whether it was committed.                                 *)
RotationDies ==
    /\ turn > 0
    /\ Fault
    /\ \/ UNCHANGED store
       \/ turn > Len(Stores) /\ ~failures /\ ~dry /\ store' = staged
    /\ op' = IF dry THEN op ELSE "unsure"
    /\ EndRotation
    /\ UNCHANGED <<secrets, database, server, backup, newKey>>

(* "Install the new key, then restart": a shell in a container redirects   *)
(* its output to the data key's file, which empties it; the key follows.   *)
(* The command may die in between.  An operator who finds the stack down   *)
(* with a blank key may run it again.                                      *)
TruncateKey ==
    /\ op \in {"rotated", "blank"}
    /\ file' = [file EXCEPT !["data"] = Empty]
    /\ op' = "installing"
    /\ UNCHANGED <<generated, at, opened, ready, database, server, store, backup, newKey,
                   turn, dry, staged, failures, faults>>

(* The command as RUNBOOK.md prints it has $k within double quotes: the    *)
(* operator's own shell replaces it by nothing before the container's shell*)
(* reads the key.  A blank line is written, and the operator starts web.   *)
WriteBlank ==
    /\ op = "installing"
    /\ op' = "blank"
    /\ UNCHANGED <<secrets, database, server, store, backup, newKey, turn, dry, staged,
                   failures, faults>>

(* The command as it is meant, with $k left to the container's shell.      *)
WriteKey ==
    /\ op = "installing"
    /\ file' = [file EXCEPT !["data"] = newKey]
    /\ op' = "none"
    /\ UNCHANGED <<generated, at, opened, ready, database, server, store, backup, newKey,
                   turn, dry, staged, failures, faults>>

(* "An interrupted rotation is recoverable only from that backup."         *)
RestoreBackup ==
    /\ op = "unsure" /\ turn = 0 /\ pgUp
    /\ store' = backup
    /\ op' = "none"
    /\ UNCHANGED <<secrets, database, server, backup, newKey, turn, dry, staged, failures,
                   faults>>

-----------------------------------------------------------------------------
Initialize(p) ==
    StartInit(p) \/ OpenSecret(p) \/ WriteSecret(p) \/ KeepSecret(p) \/ RefuseSecret(p) \/ InitDies(p)

Boot ==
    \/ StartWeb \/ DatabaseReachable \/ DatabaseUnreachable \/ BootstrapDatabase \/ Migrate

Rotate ==
    \/ Prepare \/ StopWeb \/ RotateStore \/ FinishRotation \/ RotationDies
    \/ TruncateKey \/ WriteBlank \/ WriteKey \/ RestoreBackup
    \/ \E rehearsal \in BOOLEAN : BeginRotation(rehearsal)

Next ==
    \/ \E p \in Inits : Initialize(p)
    \/ StartPostgres \/ StopPostgres
    \/ Boot \/ WebDies
    \/ ProtectPassword \/ WriteSettings \/ EncryptTotpSecret
    \/ Rotate

(* restart: unless-stopped, of both containers, and the retries within.    *)
Spec == Init /\ [][Next]_vars /\ WF_vars(StartPostgres) /\ WF_vars(Boot)
-----------------------------------------------------------------------------
(* Every store of these is encrypted under k.                              *)
Under(stores, k) == \A s \in StoreNames : stores[s] \in {None, k}

(* "Leave every existing value unchanged" (initialize_bootstrap_secrets):  *)
(* whatever inits overlap or die, a secret that was ever complete stays, so*)
(* the database goes on accepting the passwords it was set up with; only   *)
(* the operator gives up the data key, and then every store is under the   *)
(* new one.                                                                *)
SecretsKept ==
    [][\A n \in Names :
          file[n] \in Values /\ file'[n] # file[n] =>
              n = "data" /\ op = "rotated" /\ Under(store, newKey)]_vars

(* "All three must be rewritten together, inside one transaction, or the   *)
(* deployment is left partly unreadable" (reencrypt): at every moment one  *)
(* key that is installed or in the operator's hands reads every store, and *)
(* the application that is up has it.                                      *)
Readable ==
    /\ \E k \in {file["data"], newKey} : Under(store, k)
    /\ web = "up" => Under(store, key)

(* Once the secrets are complete the stack comes up, and comes up again    *)
(* after every fault, redeployment and restored or completed rotation,     *)
(* unless the operator keeps it stopped.  A rotation is complete when the  *)
(* file holds the new key; the one exception, a blank file, is             *)
(* RunbookComesUp's.                                                       *)
ComesUp == (ready /\ op \in {"none", "prepared"}) ~> (web = "up" \/ op \notin {"none", "prepared"})

(* "Install the new key, then restart" (RUNBOOK.md, step 5 of the rotation)*)
(* with the command it prints: whenever the operator lets web run, it comes*)
(* up.  This does not hold: the command leaves a blank key, _read_secret   *)
(* refuses it on every start, and the container restarts for ever.         *)
Started == op \in {"none", "prepared", "blank"}
RunbookComesUp == (ready /\ Started) ~> (web = "up" \/ ~Started)
-----------------------------------------------------------------------------
(* The inductive invariant behind SecretsKept and Readable.                *)
Keys == Values \cup {None}

TypeOK ==
    /\ file \in [Names -> {Absent, Empty} \cup Values]
    /\ generated \in 0..MaxSecrets
    /\ at \in [Inits -> 0..Len(Secrets)]
    /\ opened \in [Inits -> BOOLEAN]
    /\ ready \in BOOLEAN
    /\ web \in {"down", "waiting", "bootstrap", "migrate", "up"}
    /\ key \in Keys
    /\ store \in [StoreNames -> Keys]
    /\ op \in {"none", "prepared", "stopped", "unsure", "rotated", "installing", "blank"}
    /\ backup \in [StoreNames -> Keys]
    /\ newKey \in Keys
    /\ turn \in 0..(Len(Stores) + 1)
    /\ dry \in BOOLEAN
    /\ staged \in [StoreNames -> Keys]
    /\ failures \in BOOLEAN

(* A file that an init has created is empty until that init writes it, and *)
(* no other init has created it; the files before the one it is at are     *)
(* complete.                                                               *)
InitInv ==
    \A p \in Inits :
        /\ opened[p] =>
              /\ at[p] > 0
              /\ file[Secrets[at[p]]] = Empty
              /\ \A q \in Inits \ {p} : opened[q] => at[q] # at[p]
        /\ \A i \in DOMAIN Secrets : i < at[p] => file[Secrets[i]] \in Values

(* Nothing runs before every secret is complete, and then no init writes   *)
(* one; only the data key is empty again while a new one is installed.     *)
Installing == op \in {"installing", "blank"}

ReadyInv ==
    /\ ready =>
          /\ \A p \in Inits : ~opened[p]
          /\ \A n \in Names :
                IF n = "data" /\ Installing THEN file[n] = Empty ELSE file[n] \in Values
    /\ ~ready => pg = None /\ op = "none" /\ web = "down" /\ store = Nothing
    /\ pg = None => web = "down"

(* Which key the stores are under at each stage of a rotation; only an     *)
(* operator who does not know how one ended does not know.                 *)
KeyInv ==
    /\ web = "up" => key = file["data"]
    /\ op \notin {"none", "prepared"} => web = "down"
    /\ op # "none" => newKey \in Values
    /\ op \in {"prepared", "stopped", "unsure"} => Under(backup, file["data"])
    /\ op \in {"none", "prepared", "stopped"} => Under(store, file["data"])
    /\ op = "unsure" => Under(store, file["data"]) \/ Under(store, newKey)
    /\ op \in {"rotated", "installing", "blank"} => Under(store, newKey)

(* What the transaction of a rotation holds before its commit.  A rehearsal*)
(* may run beside the application, the rotation itself may not.            *)
RotationInv ==
    turn > 0 =>
        /\ IF dry THEN op = "prepared" ELSE op \in {"stopped", "unsure"}
        /\ ~dry => \A i \in DOMAIN Stores :
              LET s == Stores[i]
              IN  IF i < turn
                  THEN ~failures => store[s] \in {None, file["data"]} /\ staged[s] \in {None, newKey}
                  ELSE staged[s] = store[s]

IInv == TypeOK /\ InitInv /\ ReadyInv /\ KeyInv /\ RotationInv
=============================================================================
