-------------------------- MODULE DeploymentProofs --------------------------
(***************************************************************************)
(* Theorems about Deployment, for any number of init containers, secrets   *)
(* and faults.                                                             *)
(***************************************************************************)
EXTENDS Deployment, TLAPS

USE SecretsAssumption, NoneAssumption

(* The files of the secrets volume, in order.                              *)
LEMMA SecretFacts ==
    /\ Len(Secrets) = 3 /\ DOMAIN Secrets = 1..3
    /\ Names = {"postgres", "runtime", "data"}
    /\ \A i \in 1..3 : Secrets[i] \in Names
    /\ \A i, j \in 1..3 : Secrets[i] = Secrets[j] => i = j
    /\ \A n \in Names : \E i \in 1..3 : n = Secrets[i]
<1>1. Len(Secrets) = 3 /\ DOMAIN Secrets = 1..3
  BY DEF Secrets
<1>2. Secrets[1] = "postgres" /\ Secrets[2] = "runtime" /\ Secrets[3] = "data"
  BY DEF Secrets
<1>3. \A i \in 1..3 : i \in {1, 2, 3}
  OBVIOUS
<1> QED BY <1>1, <1>2, <1>3 DEF Names

(* The encrypted stores, in the order of rotate.                           *)
LEMMA StoreFacts ==
    /\ Len(Stores) = 3 /\ DOMAIN Stores = 1..3
    /\ StoreNames = {"findings", "settings", "totp"}
    /\ \A i \in 1..3 : Stores[i] \in StoreNames
    /\ \A i, j \in 1..3 : Stores[i] = Stores[j] => i = j
    /\ \A s \in StoreNames : \E i \in 1..3 : s = Stores[i]
<1>1. Len(Stores) = 3 /\ DOMAIN Stores = 1..3
  BY DEF Stores
<1>2. Stores[1] = "findings" /\ Stores[2] = "settings" /\ Stores[3] = "totp"
  BY DEF Stores
<1>3. \A i \in 1..3 : i \in {1, 2, 3}
  OBVIOUS
<1> QED BY <1>1, <1>2, <1>3 DEF StoreNames

(* A secret is not one of the marks of an unwritten file.                  *)
LEMMA ValueFacts == Absent \notin Values /\ Empty \notin Values /\ None \notin Values
BY DEF Values, Absent, Empty

(* The inductive invariant holds initially.                                *)
LEMMA IInvInit == Init => IInv
<1> SUFFICES ASSUME Init PROVE IInv
  OBVIOUS
<1> USE DEF Init
<1>1. TypeOK
  <2>1. at \in [Inits -> 0..3] /\ opened \in [Inits -> BOOLEAN] /\ generated \in 0..MaxSecrets
    OBVIOUS
  <2>2. Nothing \in [StoreNames -> Keys]
    BY DEF Nothing, Keys
  <2>3. file \in [Names -> {Absent, Empty} \cup Values] /\ key \in Keys /\ newKey \in Keys
    BY DEF Keys
  <2>4. 0..Len(Secrets) = 0..3 /\ turn \in 0..(Len(Stores) + 1)
    BY SecretFacts, StoreFacts
  <2> QED BY <2>1, <2>2, <2>3, <2>4, Zenon DEF TypeOK
<1>2. InitInv /\ ReadyInv /\ RotationInv
  BY SecretFacts DEF InitInv, ReadyInv, RotationInv
<1>3. KeyInv
  BY DEF KeyInv, Under, Nothing
<1> QED BY <1>1, <1>2, <1>3 DEF IInv

-----------------------------------------------------------------------------
(* Types.                                                                  *)
LEMMA TypeStep == IInv /\ [Next]_vars => TypeOK'
<1> SUFFICES ASSUME TypeOK, InitInv, ReadyInv, KeyInv, [Next]_vars PROVE TypeOK'
  BY DEF IInv
<1> USE SecretFacts, StoreFacts DEF TypeOK, Keys, secrets, database, server, rotation
<1>1. ASSUME NEW p \in Inits, Initialize(p) PROVE TypeOK'
  <2>1. CASE StartInit(p) \/ RefuseSecret(p) \/ InitDies(p)
    <3>1. PICK n \in 0..3 : at' = [at EXCEPT ![p] = n]
      BY <2>1, 0 \in 0..3, 1 \in 0..3, Zenon DEF StartInit, RefuseSecret, InitDies
    <3>2. at' \in [Inits -> 0..3]
      BY <3>1
    <3>3. opened' \in [Inits -> BOOLEAN]
      BY <2>1 DEF StartInit, RefuseSecret, InitDies
    <3> QED BY <2>1, <3>2, <3>3 DEF StartInit, RefuseSecret, InitDies
  <2>2. CASE OpenSecret(p)
    BY <2>2 DEF OpenSecret
  <2>3. ASSUME Advance(p), at[p] > 0 PROVE at' \in [Inits -> 0..3] /\ ready' \in BOOLEAN
    <3>1. CASE at[p] = 3
      BY <2>3, <3>1 DEF Advance
    <3>2. CASE at[p] # 3
      <4>1. at[p] + 1 \in 0..3
        BY <2>3, <3>2
      <4> QED BY <2>3, <3>2, <4>1 DEF Advance
    <3> QED BY <3>1, <3>2
  <2>4. CASE KeepSecret(p)
    BY <2>4, <2>3 DEF KeepSecret
  <2>5. CASE WriteSecret(p)
    <3>1. generated' \in Values /\ generated' \in 0..MaxSecrets
      BY <2>5 DEF WriteSecret, Values
    <3> QED BY <2>5, <2>3, <3>1 DEF WriteSecret, InitInv
  <2> QED BY <1>1, <2>1, <2>2, <2>4, <2>5 DEF Initialize
<1>2. CASE StartPostgres \/ StopPostgres \/ WebDies
  BY <1>2 DEF StartPostgres, StopPostgres, WebDies
<1>3. CASE Boot
  <2>1. CASE Migrate
    <3>1. web = "migrate" => file["data"] \in Values
      BY DEF ReadyInv, KeyInv, Installing
    <3> QED BY <2>1, <3>1 DEF Migrate
  <2> QED BY <1>3, <2>1 DEF Boot, StartWeb, DatabaseReachable, DatabaseUnreachable, BootstrapDatabase
<1>4. CASE ProtectPassword \/ WriteSettings \/ EncryptTotpSecret
  BY <1>4 DEF ProtectPassword, WriteSettings, EncryptTotpSecret, Encrypt
<1>5. CASE Rotate
  <2>1. CASE Prepare
    <3>1. generated' \in Values /\ generated' \in 0..MaxSecrets
      BY <2>1 DEF Prepare, Values
    <3> QED BY <2>1, <3>1 DEF Prepare
  <2>2. CASE StopWeb \/ RestoreBackup
    BY <2>2 DEF StopWeb, RestoreBackup
  <2>3. CASE RotateStore
    BY <2>3 DEF RotateStore, Recrypted
  <2>4. CASE FinishRotation \/ RotationDies
    <3>1. Nothing \in [StoreNames -> Keys]
      BY DEF Nothing
    <3>2. store' \in [StoreNames -> Keys]
      BY <2>4 DEF FinishRotation, RotationDies
    <3>3. op' \in {"none", "prepared", "stopped", "unsure", "rotated", "installing", "blank"}
      BY <2>4 DEF FinishRotation, RotationDies
    <3>4. dry' \in BOOLEAN /\ failures' \in BOOLEAN
      BY <2>4 DEF FinishRotation, RotationDies, EndRotation
    <3> QED BY <2>4, <3>1, <3>2, <3>3, <3>4 DEF FinishRotation, RotationDies, EndRotation
  <2>5. CASE TruncateKey \/ WriteBlank \/ WriteKey
    <3>1. newKey \in Values
      BY <2>5 DEF TruncateKey, WriteBlank, WriteKey, KeyInv
    <3> QED BY <2>5, <3>1 DEF TruncateKey, WriteBlank, WriteKey
  <2>6. ASSUME NEW rehearsal \in BOOLEAN, BeginRotation(rehearsal) PROVE TypeOK'
    <3>1. turn' \in 0..4
      BY <2>6 DEF BeginRotation
    <3>2. dry' \in BOOLEAN /\ failures' \in BOOLEAN
      BY <2>6, Zenon DEF BeginRotation
    <3> QED BY <2>6, <3>1, <3>2 DEF BeginRotation
  <2> QED BY <1>5, <2>1, <2>2, <2>3, <2>4, <2>5, <2>6 DEF Rotate
<1>6. CASE UNCHANGED vars
  BY <1>6 DEF vars
<1> QED BY <1>1, <1>2, <1>3, <1>4, <1>5, <1>6 DEF Next

-----------------------------------------------------------------------------
(* The files that are read anywhere are complete.                          *)
LEMMA Complete ==
    ASSUME IInv, ready \/ op # "none" \/ web # "down"
    PROVE  /\ \A p \in Inits : ~opened[p]
           /\ file["postgres"] \in Values /\ file["runtime"] \in Values
           /\ ~Installing => file["data"] \in Values
           /\ Installing => file["data"] = Empty
BY SecretFacts DEF IInv, ReadyInv

(* A file an init may still create or write shows that nothing has run.    *)
LEMMA Incomplete ==
    ASSUME IInv, NEW p \in Inits, OpenSecret(p) \/ WriteSecret(p)
    PROVE  /\ at[p] \in 1..3 /\ Secrets[at[p]] \in Names
           /\ file[Secrets[at[p]]] \notin Values
           /\ ~ready
<1>1. at[p] \in 1..3
  BY SecretFacts DEF OpenSecret, WriteSecret, IInv, TypeOK, InitInv
<1>2. file[Secrets[at[p]]] \notin Values
  BY ValueFacts DEF OpenSecret, WriteSecret, Exclusive, IInv, InitInv
<1>3. OpenSecret(p) => file[Secrets[at[p]]] # Empty
  BY DEF OpenSecret, Exclusive, Absent, Empty
<1>4. ~ready
  BY <1>1, <1>2, <1>3, SecretFacts DEF OpenSecret, WriteSecret, IInv, ReadyInv
<1> QED BY <1>1, <1>2, <1>4, SecretFacts

(* Init containers: who has created a file is the only one to write it.    *)
LEMMA InitStep == IInv /\ [Next]_vars => InitInv'
<1> SUFFICES ASSUME IInv, [Next]_vars PROVE InitInv'
  OBVIOUS
<1>t. TypeOK /\ InitInv
  BY DEF IInv
<1> USE SecretFacts
<1>1. ASSUME NEW p \in Inits, StartInit(p) \/ RefuseSecret(p) \/ InitDies(p) PROVE InitInv'
  <2>1. file' = file
    BY <1>1 DEF StartInit, RefuseSecret, InitDies
  <2>2. /\ at' \in [Inits -> 0..3] /\ at'[p] \in 0..1
        /\ \A q \in Inits \ {p} : at'[q] = at[q] /\ opened'[q] = opened[q]
    BY <1>1, <1>t DEF StartInit, RefuseSecret, InitDies, TypeOK
  <2>3. ~opened'[p]
    BY <1>1, <1>t DEF StartInit, RefuseSecret, InitDies, TypeOK, InitInv
  <2>4. \A i \in 1..3 : ~(i < at'[p])
    BY <2>2
  <2> QED BY <1>t, <2>1, <2>2, <2>3, <2>4 DEF InitInv
<1>2. ASSUME NEW p \in Inits, OpenSecret(p) PROVE InitInv'
  <2>1. /\ at[p] \in 1..3 /\ file[Secrets[at[p]]] \notin Values /\ file[Secrets[at[p]]] # Empty
    <3>1. Absent # Empty
      BY DEF Absent, Empty
    <3> QED BY <1>2, <3>1, Incomplete DEF OpenSecret, Exclusive
  <2>2. /\ at' = at /\ opened' = [opened EXCEPT ![p] = TRUE]
        /\ file' = [file EXCEPT ![Secrets[at[p]]] = Empty]
    BY <1>2 DEF OpenSecret
  <2>3. \A q \in Inits \ {p} : opened[q] => at[q] # at[p]
    BY <1>t, <2>1 DEF InitInv
  <2>4. \A q \in Inits, i \in 1..3 : i < at[q] => Secrets[i] # Secrets[at[p]]
    BY <1>t, <2>1 DEF InitInv
  <2> QED BY <1>t, <2>1, <2>2, <2>3, <2>4 DEF InitInv, TypeOK
<1>3. ASSUME NEW p \in Inits, Advance(p), opened' = [opened EXCEPT ![p] = FALSE],
             at[p] \in 1..3, file' \in [Names -> {Absent, Empty} \cup Values],
             file'[Secrets[at[p]]] \in Values,
             \A n \in Names : n = Secrets[at[p]] \/ file'[n] = file[n],
             file[Secrets[at[p]]] = Empty => opened[p]
      PROVE  InitInv'
  <2>1. /\ \A q \in Inits \ {p} : at'[q] = at[q] /\ opened'[q] = opened[q]
        /\ ~opened'[p]
        /\ at'[p] = IF at[p] = 3 THEN 0 ELSE at[p] + 1
    BY <1>3, <1>t DEF Advance, TypeOK
  <2>2. \A q \in Inits \ {p} : opened[q] => at[q] # at[p]
    BY <1>3, <1>t DEF InitInv
  <2>3. \A i \in 1..3 : file[Secrets[i]] \in Values => file'[Secrets[i]] \in Values
    BY <1>3
  <2>4. \A i \in 1..3 : i < at'[p] => file'[Secrets[i]] \in Values
    BY <1>3, <1>t, <2>1, <2>3 DEF InitInv
  <2>5. \A q \in Inits \ {p} : opened[q] => at[q] \in 1..3 /\ file'[Secrets[at[q]]] = Empty
    <3> SUFFICES ASSUME NEW q \in Inits \ {p}, opened[q]
                 PROVE  at[q] \in 1..3 /\ file'[Secrets[at[q]]] = Empty
      OBVIOUS
    <3>1. at[q] \in 1..3 /\ file[Secrets[at[q]]] = Empty
      BY <1>t DEF InitInv, TypeOK
    <3>2. Secrets[at[q]] # Secrets[at[p]]
      BY <1>3, <2>2, <3>1
    <3> QED BY <1>3, <3>1, <3>2
  <2> QED BY <1>t, <2>1, <2>2, <2>3, <2>4, <2>5 DEF InitInv
<1>4. ASSUME NEW p \in Inits, WriteSecret(p) PROVE InitInv'
  <2>1. at[p] \in 1..3 /\ Secrets[at[p]] \in Names
    BY <1>4, Incomplete
  <2>2. generated' \in Values
    BY <1>4, <1>t DEF WriteSecret, Values, TypeOK
  <2> QED BY <1>3, <1>4, <1>t, <2>1, <2>2 DEF WriteSecret, TypeOK
<1>5. ASSUME NEW p \in Inits, KeepSecret(p) PROVE InitInv'
  <2>1. at[p] \in 1..3 /\ file[Secrets[at[p]]] # Empty
    BY <1>5, <1>t, ValueFacts DEF KeepSecret, TypeOK
  <2>2. opened' = [opened EXCEPT ![p] = FALSE]
    BY <1>5, <1>t DEF KeepSecret, TypeOK
  <2> QED BY <1>3, <1>5, <1>t, <2>1, <2>2 DEF KeepSecret, TypeOK
<1>6. CASE TruncateKey \/ WriteKey
  <2>1. \A p \in Inits : ~opened[p]
    BY <1>6, Complete DEF TruncateKey, WriteKey
  <2>2. \A n \in Names \ {"data"} : file'[n] = file[n]
    BY <1>6, <1>t DEF TruncateKey, WriteKey, TypeOK
  <2>3. \A p \in Inits, i \in 1..3 : i < at[p] => Secrets[i] \in Names \ {"data"}
    <3>1. \A p \in Inits : at[p] \in 0..3
      BY <1>t DEF TypeOK
    <3>2. Secrets[3] = "data"
      BY DEF Secrets
    <3> QED BY <3>1, <3>2
  <2>4. at' = at /\ opened' = opened
    BY <1>6 DEF TruncateKey, WriteKey
  <2> QED BY <1>t, <2>1, <2>2, <2>3, <2>4 DEF InitInv
<1>7. CASE UNCHANGED <<file, at, opened>>
  BY <1>7, <1>t DEF InitInv
<1> QED
  BY <1>1, <1>2, <1>4, <1>5, <1>6, <1>7
     DEF Next, vars, secrets, Initialize, StartPostgres, StopPostgres, WebDies, Boot, StartWeb,
         DatabaseReachable, DatabaseUnreachable, BootstrapDatabase, Migrate, ProtectPassword,
         WriteSettings, EncryptTotpSecret, Encrypt, Rotate, Prepare, StopWeb, RotateStore,
         FinishRotation, RotationDies, WriteBlank, RestoreBackup, BeginRotation

(* Nothing runs before every secret is complete.                           *)
LEMMA ReadyStep == IInv /\ [Next]_vars => ReadyInv'
<1> SUFFICES ASSUME IInv, [Next]_vars PROVE ReadyInv'
  OBVIOUS
<1>t. TypeOK /\ InitInv /\ ReadyInv /\ (InitInv)'
  BY InitStep DEF IInv
<1>n. file["postgres"] \in Values => file["postgres"] # None
  BY ValueFacts
<1> USE DEF database, server, rotation, secrets
<1>1. ASSUME NEW p \in Inits, StartInit(p) \/ RefuseSecret(p) \/ InitDies(p) PROVE ReadyInv'
  <2>1. \A q \in Inits : ~opened[q] => ~opened'[q]
    BY <1>1, <1>t DEF StartInit, RefuseSecret, InitDies, TypeOK
  <2> QED BY <1>1, <1>t, <2>1 DEF StartInit, RefuseSecret, InitDies, ReadyInv, Nothing, Installing
<1>2. ASSUME NEW p \in Inits, OpenSecret(p) PROVE ReadyInv'
  BY <1>2, <1>t, Incomplete DEF OpenSecret, ReadyInv, Nothing
<1>3. ASSUME NEW p \in Inits, Advance(p), at[p] \in 1..3, \A n \in Names : n = Secrets[at[p]] \/ file'[n] = file[n],
             file'[Secrets[at[p]]] \in Values, ~ready,
             UNCHANGED <<database, server, store, rotation>>
      PROVE  ReadyInv'
  <2>1. CASE at[p] = 3
    <3>1. \A n \in Names : file'[n] \in Values
      BY <1>3, <1>t, <2>1, SecretFacts DEF InitInv
    <3>2. op' = "none"
      BY <1>3, <1>t DEF ReadyInv
    <3>3. \A q \in Inits : ~opened'[q]
      <4> SUFFICES ASSUME NEW q \in Inits, opened'[q] PROVE FALSE
        OBVIOUS
      <4>1. at'[q] \in 1..3 /\ file'[Secrets[at'[q]]] = Empty
        BY <1>3, <1>t, SecretFacts DEF InitInv, Advance, TypeOK
      <4> QED BY <3>1, <4>1, SecretFacts, ValueFacts
    <3> QED BY <1>3, <1>t, <2>1, <3>1, <3>2, <3>3, SecretFacts DEF Advance, ReadyInv, Installing
  <2>2. CASE at[p] # 3
    BY <1>3, <1>t, <2>2, SecretFacts DEF Advance, ReadyInv, Nothing
  <2> QED BY <2>1, <2>2
<1>4. ASSUME NEW p \in Inits, WriteSecret(p) PROVE ReadyInv'
  <2>1. at[p] \in 1..3 /\ Secrets[at[p]] \in Names /\ ~ready
    BY <1>4, Incomplete
  <2>2. generated' \in Values
    BY <1>4, <1>t DEF WriteSecret, Values, TypeOK
  <2> QED BY <1>3, <1>4, <1>t, <2>1, <2>2 DEF WriteSecret, TypeOK
<1>5. ASSUME NEW p \in Inits, KeepSecret(p) PROVE ReadyInv'
  <2>1. at[p] \in 1..3
    BY <1>5, <1>t, SecretFacts DEF KeepSecret, TypeOK
  <2>2. CASE ~ready
    BY <1>3, <1>5, <2>1, <2>2 DEF KeepSecret
  <2>3. CASE ready
    BY <1>5, <1>t, <2>3 DEF KeepSecret, Advance, ReadyInv, Installing
  <2> QED BY <2>2, <2>3
<1>6. CASE StartPostgres \/ StopPostgres \/ WebDies
  BY <1>6, <1>t, <1>n, SecretFacts DEF StartPostgres, StopPostgres, WebDies, ReadyInv, Nothing,
                                         Installing
<1>7. CASE Boot
  BY <1>7, <1>t DEF Boot, StartWeb, DatabaseReachable, DatabaseUnreachable, BootstrapDatabase,
                    Migrate, ReadyInv, Nothing, Installing
<1>8. CASE ProtectPassword \/ WriteSettings \/ EncryptTotpSecret
  BY <1>8, <1>t DEF ProtectPassword, WriteSettings, EncryptTotpSecret, Encrypt, ReadyInv, Installing
<1>9. CASE Rotate
  <2>1. ready /\ ready' = ready /\ pg' = pg
    <3>1. op # "none" \/ web = "up"
      <4>1. RotateStore \/ FinishRotation \/ RotationDies => turn > 0
        BY <1>t, StoreFacts DEF RotateStore, FinishRotation, RotationDies, TypeOK
      <4>2. turn > 0 => op # "none"
        BY DEF IInv, RotationInv
      <4> QED BY <1>9, <4>1, <4>2 DEF Rotate, Prepare, StopWeb, TruncateKey, WriteBlank, WriteKey,
                                      RestoreBackup, BeginRotation
    <3>2. ready
      BY <3>1, <1>t DEF ReadyInv
    <3> QED BY <1>9, <3>2 DEF Rotate, Prepare, StopWeb, RotateStore, FinishRotation, RotationDies,
                        TruncateKey, WriteBlank, WriteKey, RestoreBackup, BeginRotation
  <2>2. web' \in {web, "down"}
    BY <1>9 DEF Rotate, Prepare, StopWeb, RotateStore, FinishRotation, RotationDies,
                TruncateKey, WriteBlank, WriteKey, RestoreBackup, BeginRotation
  <2>3. opened' = opened
    BY <1>9 DEF Rotate, Prepare, StopWeb, RotateStore, FinishRotation, RotationDies,
                TruncateKey, WriteBlank, WriteKey, RestoreBackup, BeginRotation
  <2>4. CASE TruncateKey \/ WriteBlank \/ WriteKey
    <3>1. newKey \in Values /\ (WriteBlank => file["data"] = Empty)
      BY <2>4, Complete DEF TruncateKey, WriteBlank, WriteKey, IInv, KeyInv, Installing
    <3>2. \A n \in Names \ {"data"} : file'[n] = file[n]
      BY <2>4, <1>t DEF TruncateKey, WriteBlank, WriteKey, TypeOK
    <3>3. IF op' \in {"installing", "blank"} THEN file'["data"] = Empty ELSE file'["data"] \in Values
      BY <2>4, <1>t, <3>1, SecretFacts DEF TruncateKey, WriteBlank, WriteKey, TypeOK
    <3> QED BY <1>t, <2>1, <2>2, <2>3, <3>2, <3>3 DEF ReadyInv, Installing
  <2>5. CASE ~(TruncateKey \/ WriteBlank \/ WriteKey)
    <3>1. file' = file
      BY <1>9, <2>5 DEF Rotate, Prepare, StopWeb, RotateStore, FinishRotation, RotationDies,
                        RestoreBackup, BeginRotation
    <3>2. ~Installing /\ ~(Installing')
      <4>1. turn > 0 => op \in {"prepared", "stopped", "unsure"}
        BY DEF IInv, RotationInv
      <4>2. RotateStore \/ FinishRotation \/ RotationDies => turn > 0
        BY <1>t, StoreFacts DEF RotateStore, FinishRotation, RotationDies, TypeOK
      <4> QED BY <1>9, <2>5, <4>1, <4>2
                 DEF Installing, Rotate, Prepare, StopWeb, RotateStore, FinishRotation, RotationDies,
                     RestoreBackup, BeginRotation
    <3> QED BY <1>t, <2>1, <2>2, <2>3, <3>1, <3>2 DEF ReadyInv
  <2> QED BY <2>4, <2>5
<1>10. CASE UNCHANGED vars
  BY <1>10, <1>t DEF vars, ReadyInv, Nothing, Installing
<1> QED
  BY <1>1, <1>2, <1>4, <1>5, <1>6, <1>7, <1>8, <1>9, <1>10 DEF Next, Initialize

-----------------------------------------------------------------------------
(* The transaction of a rotation, as long as nobody else writes a store.   *)
LEMMA RotationStep == IInv /\ [Next]_vars => RotationInv'
<1> SUFFICES ASSUME IInv, [Next]_vars PROVE RotationInv'
  OBVIOUS
<1>t. TypeOK /\ InitInv /\ ReadyInv /\ KeyInv /\ RotationInv
  BY DEF IInv
<1> USE StoreFacts DEF database, server, rotation, secrets
<1>1. CASE UNCHANGED rotation /\ UNCHANGED store /\ file'["data"] = file["data"]
  BY <1>1, <1>t DEF RotationInv
<1>2. CASE UNCHANGED rotation /\ ~ready
  <2>1. turn' = turn /\ ~(turn > 0)
    BY <1>2, <1>t DEF ReadyInv, RotationInv
  <2> QED BY <2>1 DEF RotationInv
<1>3. CASE UNCHANGED rotation /\ web = "up"
  <2>1. turn > 0 => dry
    BY <1>3, <1>t DEF KeyInv, RotationInv
  <2> QED BY <1>3, <1>t, <2>1 DEF RotationInv
<1>4. CASE turn' = 0
  BY <1>4 DEF RotationInv
<1>5. ASSUME NEW rehearsal \in BOOLEAN, BeginRotation(rehearsal) PROVE RotationInv'
  <2>1. /\ op' = op /\ turn' = 1 /\ staged' = store /\ store' = store
        /\ op \in IF rehearsal THEN {"prepared"} ELSE {"stopped", "unsure"}
    BY <1>5 DEF BeginRotation
  <2>2. dry' = rehearsal
    BY <1>5, Zenon DEF BeginRotation
  <2>3. \A i \in 1..3 : ~(i < turn')
    BY <2>1
  <2> QED BY <2>1, <2>2, <2>3 DEF RotationInv
<1>6. CASE RotateStore
  <2> DEFINE s == Stores[turn]
  <2>1. /\ turn \in 1..3 /\ turn' = turn + 1 /\ s \in StoreNames
        /\ staged' = [staged EXCEPT ![s] = IF @ = file["data"] THEN newKey ELSE @]
        /\ failures' = (failures \/ store[s] \notin {None, file["data"]})
        /\ UNCHANGED <<file, store, op, newKey, dry>>
    BY <1>6 DEF RotateStore, Recrypted
  <2>2. ~dry => staged[s] = store[s]
    BY <1>t, <2>1 DEF RotationInv
  <2>3. ~dry /\ ~failures' => store[s] \in {None, file["data"]} /\ staged'[s] \in {None, newKey}
    BY <1>t, <2>1, <2>2 DEF TypeOK
  <2>4. \A i \in 1..3 : i # turn => staged'[Stores[i]] = staged[Stores[i]]
    BY <1>t, <2>1 DEF TypeOK
  <2>5. ~failures' => ~failures
    BY <2>1
  <2> HIDE DEF s
  <2>6. ASSUME NEW i \in 1..3, ~dry
        PROVE  IF i < turn'
               THEN ~failures' => store'[Stores[i]] \in {None, file'["data"]} /\ staged'[Stores[i]] \in {None, newKey'}
               ELSE staged'[Stores[i]] = store'[Stores[i]]
    <3>1. CASE i = turn
      BY <2>1, <2>3, <2>6, <3>1 DEF s
    <3>2. CASE i < turn
      BY <1>t, <2>1, <2>4, <2>5, <2>6, <3>2 DEF RotationInv
    <3>3. CASE i > turn
      BY <1>t, <2>1, <2>4, <2>6, <3>3 DEF RotationInv
    <3> QED BY <2>1, <3>1, <3>2, <3>3
  <2>7. IF dry THEN op = "prepared" ELSE op \in {"stopped", "unsure"}
    BY <1>t, <2>1 DEF RotationInv
  <2> QED BY <2>1, <2>6, <2>7 DEF RotationInv
<1>7. CASE Prepare \/ TruncateKey \/ WriteBlank \/ WriteKey
  <2>1. ~(turn > 0) /\ turn' = turn
    BY <1>7, <1>t DEF Prepare, TruncateKey, WriteBlank, WriteKey, RotationInv
  <2> QED BY <2>1 DEF RotationInv
<1>8. CASE StopWeb \/ RestoreBackup \/ FinishRotation \/ RotationDies
  <2>1. turn' = 0
    BY <1>8 DEF StopWeb, RestoreBackup, FinishRotation, RotationDies, EndRotation
  <2> QED BY <1>4, <2>1
<1>9. ASSUME NEW p \in Inits, Initialize(p) PROVE RotationInv'
  BY <1>1, <1>2, <1>9, Incomplete
     DEF Initialize, StartInit, OpenSecret, WriteSecret, KeepSecret, RefuseSecret, InitDies
<1>10. CASE StartPostgres \/ StopPostgres \/ WebDies \/ Boot \/ UNCHANGED vars
  BY <1>1, <1>10 DEF StartPostgres, StopPostgres, WebDies, Boot, StartWeb, DatabaseReachable,
                     DatabaseUnreachable, BootstrapDatabase, Migrate, vars
<1>11. CASE ProtectPassword \/ WriteSettings \/ EncryptTotpSecret
  BY <1>3, <1>11 DEF ProtectPassword, WriteSettings, EncryptTotpSecret, Encrypt
<1> QED
  BY <1>5, <1>6, <1>7, <1>8, <1>9, <1>10, <1>11 DEF Next, Rotate

(* What a rotation may commit, when nothing failed to decrypt.             *)
LEMMA CommitsNewKey ==
    ASSUME IInv, turn > Len(Stores), ~failures, ~dry
    PROVE  Under(staged, newKey)
BY StoreFacts DEF IInv, TypeOK, RotationInv, Under

(* The key of the stores.                                                  *)
LEMMA KeyStep == IInv /\ [Next]_vars => KeyInv'
<1> SUFFICES ASSUME IInv, [Next]_vars PROVE KeyInv'
  OBVIOUS
<1>t. TypeOK /\ InitInv /\ ReadyInv /\ KeyInv /\ RotationInv
  BY DEF IInv
<1> USE DEF database, server, rotation, secrets
<1>1. CASE UNCHANGED <<web, key, store, op, backup, newKey>> /\ file'["data"] = file["data"]
  BY <1>1, <1>t DEF KeyInv, Under
<1>2. CASE UNCHANGED <<web, key, store, op, backup, newKey>> /\ ~ready
  BY <1>2, <1>t DEF KeyInv, ReadyInv, Under, Nothing
<1>3. ASSUME NEW p \in Inits, Initialize(p) PROVE KeyInv'
  BY <1>1, <1>2, <1>3, Incomplete
     DEF Initialize, StartInit, OpenSecret, WriteSecret, KeepSecret, RefuseSecret, InitDies
<1>4. CASE StartPostgres \/ StopPostgres \/ UNCHANGED vars
  BY <1>1, <1>4 DEF StartPostgres, StopPostgres, vars
<1>5. CASE Boot \/ WebDies
  <2>1. StartWeb => op # "blank"
    BY Complete, SecretFacts, ValueFacts DEF StartWeb, Installing
  <2> QED BY <1>5, <1>t, <2>1 DEF Boot, WebDies, StartWeb, DatabaseReachable, DatabaseUnreachable,
                                  BootstrapDatabase, Migrate, KeyInv, Under
<1>6. ASSUME NEW s \in StoreNames, Encrypt(s) PROVE KeyInv'
  <2>1. store'[s] = key /\ \A r \in StoreNames \ {s} : store'[r] = store[r]
    BY <1>6, <1>t DEF Encrypt, TypeOK
  <2> QED BY <1>6, <1>t, <2>1 DEF Encrypt, KeyInv, Under
<1>7. CASE ProtectPassword \/ WriteSettings \/ EncryptTotpSecret
  BY <1>6, <1>7, StoreFacts DEF ProtectPassword, WriteSettings, EncryptTotpSecret
<1>8. CASE Prepare
  <2>1. newKey' \in Values
    BY <1>8, <1>t DEF Prepare, TypeOK, Values
  <2> QED BY <1>8, <1>t, <2>1 DEF Prepare, KeyInv, Under
<1>9. CASE StopWeb
  BY <1>9, <1>t DEF StopWeb, KeyInv, Under
<1>10. CASE RotateStore \/ \E rehearsal \in BOOLEAN : BeginRotation(rehearsal)
  BY <1>1, <1>10 DEF RotateStore, BeginRotation
<1>11. CASE FinishRotation \/ RotationDies
  <2>0. turn > 0 /\ UNCHANGED <<file, web, key, backup, newKey>>
    BY <1>11, <1>t, StoreFacts DEF FinishRotation, RotationDies, TypeOK
  <2>1. CASE store' = store /\ op' = (IF dry THEN op ELSE "unsure")
    BY <2>0, <2>1, <1>t DEF RotationInv, KeyInv, Under
  <2>2. CASE /\ turn > Len(Stores) /\ ~failures /\ ~dry /\ store' = staged
             /\ op' \in {"rotated", "unsure"}
    BY <2>0, <2>2, <1>t, CommitsNewKey DEF RotationInv, KeyInv, Under
  <2> QED BY <1>11, <2>1, <2>2 DEF FinishRotation, RotationDies
<1>12. CASE TruncateKey \/ WriteBlank \/ WriteKey
  <2>1. WriteKey => file'["data"] = newKey
    BY <1>12, <1>t, SecretFacts DEF WriteKey, TypeOK
  <2>2. web = "down" /\ newKey \in Values /\ Under(store, newKey)
    BY <1>12, <1>t DEF TruncateKey, WriteBlank, WriteKey, KeyInv
  <2> QED BY <1>12, <2>1, <2>2 DEF TruncateKey, WriteBlank, WriteKey, KeyInv, Under
<1>13. CASE RestoreBackup
  BY <1>13, <1>t DEF RestoreBackup, KeyInv, Under
<1> QED
  BY <1>3, <1>4, <1>5, <1>7, <1>8, <1>9, <1>10, <1>11, <1>12, <1>13 DEF Next, Rotate

-----------------------------------------------------------------------------
(* The inductive invariant of the stack: inits write only what they have   *)
(* created, nothing runs on incomplete secrets, and the stage of a rotation*)
(* tells which key the stores are under.                                   *)
THEOREM Invariance == Spec => []IInv
<1>1. IInv /\ [Next]_vars => IInv'
  BY TypeStep, InitStep, ReadyStep, KeyStep, RotationStep DEF IInv
<1> QED BY IInvInit, <1>1, PTL DEF Spec

(* initialize_bootstrap_secrets: whatever inits overlap or die, a complete *)
(* secret stays; only the data key is given up, when every store is under  *)
(* the new one.                                                            *)
THEOREM SecretsKeptHolds == Spec => SecretsKept
<1>1. IInv /\ [Next]_vars =>
        [\A n \in Names :
            file[n] \in Values /\ file'[n] # file[n] =>
                n = "data" /\ op = "rotated" /\ Under(store, newKey)]_vars
  <2> SUFFICES ASSUME IInv, Next, NEW n \in Names, file[n] \in Values, file'[n] # file[n]
               PROVE  n = "data" /\ op = "rotated" /\ Under(store, newKey)
    OBVIOUS
  <2>t. TypeOK
    BY DEF IInv
  <2>1. ASSUME NEW p \in Inits, OpenSecret(p) \/ WriteSecret(p) PROVE FALSE
    <3>1. Secrets[at[p]] \in Names /\ file[Secrets[at[p]]] \notin Values
      BY <2>1, Incomplete
    <3> QED BY <2>1, <2>t, <3>1 DEF OpenSecret, WriteSecret, TypeOK
  <2>2. CASE TruncateKey \/ WriteKey
    <3>1. n = "data"
      BY <2>2, <2>t DEF TruncateKey, WriteKey, TypeOK
    <3>2. ~Installing
      BY <3>1, Complete, ValueFacts DEF Installing
    <3> QED BY <2>2, <3>1, <3>2 DEF TruncateKey, WriteKey, Installing, IInv, KeyInv
  <2> QED
    BY <2>1, <2>2
       DEF Next, secrets, Initialize, StartInit, KeepSecret, RefuseSecret, InitDies, StartPostgres,
           StopPostgres, WebDies, Boot, StartWeb, DatabaseReachable, DatabaseUnreachable,
           BootstrapDatabase, Migrate, ProtectPassword, WriteSettings, EncryptTotpSecret, Encrypt,
           Rotate, Prepare, StopWeb, RotateStore, FinishRotation, RotationDies, WriteBlank,
           RestoreBackup, BeginRotation
<1> QED BY <1>1, Invariance, PTL DEF Spec, SecretsKept

(* reencrypt: at every moment, also between the steps of a rotation that   *)
(* dies, one key at hand reads every store, and the application that is up *)
(* has it.                                                                 *)
THEOREM ReadableHolds == Spec => []Readable
<1>1. IInv => Readable
  BY DEF IInv, TypeOK, KeyInv, Under, Readable
<1> QED BY Invariance, <1>1, PTL
=============================================================================
