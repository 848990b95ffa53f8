------------------------- MODULE NotificationsProofs -------------------------
(***************************************************************************)
(* Theorems about Notifications, for every set of users, notifications and *)
(* workers, every cooldown and any number of crashes.                      *)
(***************************************************************************)
EXTENDS Notifications, TLAPS

USE UserOfAssumption, BoundsAssumption, NoneAssumption DEF Times, Mailed

-----------------------------------------------------------------------------
(* The inductive invariant holds initially.                                *)
LEMMA IInvInit == Init => IInv
<1> SUFFICES ASSUME Init PROVE IInv
  OBVIOUS
<1>1. TypeOK
  BY DEF Init, TypeOK, Statuses
<1>2. LockInv /\ DecisionInv /\ CooldownKept
  BY DEF Init, LockInv, DecisionInv, CooldownKept
<1>3. MailedOnce
  BY DEF Init, MailedOnce, Accounted
<1> QED BY <1>1, <1>2, <1>3 DEF IInv

(* What a worker holds while it delivers.                                  *)
LEMMA Held ==
    ASSUME TypeOK, LockInv, NEW w \in Workers, step[w] \notin {"idle", "begun"}
    PROVE  item[w] \in Keys /\ status[item[w]] = "pending" /\ sentAt[item[w]] = NoTime
BY DEF TypeOK, LockInv

(* Types.                                                                  *)
LEMMA TypeStep == TypeOK /\ LockInv /\ [Next]_vars => TypeOK'
<1> SUFFICES ASSUME TypeOK, LockInv, [Next]_vars PROVE TypeOK'
  OBVIOUS
<1> USE DEF TypeOK, Statuses, outbox
<1>1. ASSUME NEW k \in Keys, Enqueue(k) PROVE TypeOK'
  BY <1>1 DEF Enqueue
<1>2. ASSUME NEW u \in Users, Occupy(u) \/ Release(u) PROVE TypeOK'
  BY <1>2 DEF Occupy, Release
<1>3. ASSUME SetDryRun \/ Tick PROVE TypeOK'
  <2>1. CASE SetDryRun
    <3>1. dryRun' \in BOOLEAN BY <2>1 DEF SetDryRun
    <3> QED BY <2>1, <3>1 DEF SetDryRun
  <2>2. CASE Tick
    BY <2>2 DEF Tick
  <2> QED BY <1>3, <2>1, <2>2
<1>4. ASSUME NEW w \in Workers, Begin(w) \/ Nothing(w) \/ Proceed(w) \/ Crash(w) PROVE TypeOK'
  BY <1>4 DEF Begin, Nothing, Proceed, Crash
<1>5. ASSUME NEW w \in Workers, NEW k \in Keys, Claim(w, k) PROVE TypeOK'
  BY <1>5 DEF Claim
<1>6. ASSUME NEW w \in Workers, DryRun(w) \/ Suppress(w) PROVE TypeOK'
  BY <1>6, Held DEF DryRun, Suppress, Close
<1>7. ASSUME NEW w \in Workers, Send(w) PROVE TypeOK'
  BY <1>7, Held DEF Send
<1>8. ASSUME NEW w \in Workers, Record(w) PROVE TypeOK'
  BY <1>8, Held DEF Record, Close
<1>9. CASE UNCHANGED vars
  BY <1>9 DEF vars
<1> QED
  BY <1>1, <1>2, <1>3, <1>4, <1>5, <1>6, <1>7, <1>8, <1>9 DEF Next, deliver_next

(* Locks: a delivery takes a user that no other one holds, and its         *)
(* notification changes only when the delivery ends.                       *)
LEMMA LockStep == TypeOK /\ LockInv /\ [Next]_vars => LockInv'
<1> SUFFICES ASSUME TypeOK, LockInv, [Next]_vars PROVE LockInv'
  OBVIOUS
<1> USE DEF TypeOK, LockInv, outbox
<1>1. ASSUME NEW k \in Keys, Enqueue(k) PROVE LockInv'
  BY <1>1 DEF Enqueue
<1>2. ASSUME NEW u \in Users, Occupy(u) \/ Release(u) PROVE LockInv'
  BY <1>2 DEF Occupy, Release
<1>3. ASSUME SetDryRun \/ Tick PROVE LockInv'
  BY <1>3 DEF SetDryRun, Tick
<1>4. ASSUME NEW w \in Workers, Begin(w) \/ Nothing(w) \/ Proceed(w) \/ Send(w) PROVE LockInv'
  BY <1>4 DEF Begin, Nothing, Proceed, Send
<1>5. ASSUME NEW w \in Workers, NEW k \in Keys, Claim(w, k) PROVE LockInv'
  BY <1>5 DEF Claim, Claimable, InDelivery
<1>6. ASSUME NEW w \in Workers, NEW s, Close(w, s), item[w] \in Keys PROVE LockInv'
  <2>1. \A v \in Workers : v # w => item'[v] = item[v] /\ step'[v] = step[v]
    BY <1>6 DEF Close
  <2>2. \A v \in Workers : v # w => item[v] # item[w]
    BY <1>6
  <2>3. \A k \in Keys : k # item[w] => status'[k] = status[k]
    BY <1>6 DEF Close
  <2>4. item'[w] = NoKey /\ step'[w] = "idle"
    BY <1>6 DEF Close
  <2> QED BY <2>1, <2>2, <2>3, <2>4
<1>7. ASSUME NEW w \in Workers, DryRun(w) \/ Suppress(w) \/ Record(w) PROVE LockInv'
  BY <1>6, <1>7, Held DEF DryRun, Suppress, Record
<1>8. ASSUME NEW w \in Workers, Crash(w) PROVE LockInv'
  BY <1>8 DEF Crash
<1>9. CASE UNCHANGED vars
  BY <1>9 DEF vars
<1> QED
  BY <1>1, <1>2, <1>3, <1>4, <1>5, <1>7, <1>8, <1>9 DEF Next, deliver_next

(* A step that makes no mail count as sent disturbs no decision.           *)
LEMMA SameSent ==
    ASSUME TypeOK, DecisionInv, CooldownKept, NEW w \in Workers,
           \A v \in Workers : v # w => step'[v] = step[v] /\ item'[v] = item[v] /\ current'[v] = current[v],
           step'[w] \in {"sending"} \cup Mailed =>
               item'[w] = item[w] /\ current'[w] = current[w] /\ ~(Cooldown > 0 /\ Recent(w)),
           \A k \in Keys : status'[k] = "sent" => status[k] = "sent",
           sentAt' = sentAt
    PROVE  DecisionInv' /\ CooldownKept'
BY DEF DecisionInv, CooldownKept, Recent

(* Decisions to send stay right, and the cooldown is kept: a mail is       *)
(* recorded while its user is locked, so the decision is not out of date.  *)
LEMMA CooldownStep == IInv /\ [Next]_vars => DecisionInv' /\ CooldownKept'
<1> SUFFICES ASSUME IInv, [Next]_vars PROVE DecisionInv' /\ CooldownKept'
  OBVIOUS
<1> USE DEF IInv, outbox
<1>1. ASSUME UNCHANGED <<step, item, current, sentAt>>, NEW k \in Keys,
             status' = status \/ status' = [status EXCEPT ![k] = "pending"]
      PROVE  DecisionInv' /\ CooldownKept'
  BY <1>1 DEF TypeOK, DecisionInv, CooldownKept, Recent
<1>2. ASSUME UNCHANGED <<step, item, current, sentAt, status>> PROVE DecisionInv' /\ CooldownKept'
  BY <1>2 DEF DecisionInv, CooldownKept, Recent
<1>3. ASSUME NEW w \in Workers, Begin(w) \/ Nothing(w) \/ Proceed(w) \/ Send(w) \/ Crash(w)
      PROVE  DecisionInv' /\ CooldownKept'
  <2>1. /\ \A v \in Workers : v # w =>
               step'[v] = step[v] /\ item'[v] = item[v] /\ current'[v] = current[v]
        /\ step'[w] \in {"sending"} \cup Mailed =>
               item'[w] = item[w] /\ current'[w] = current[w] /\ ~(Cooldown > 0 /\ Recent(w))
        /\ UNCHANGED <<status, sentAt>>
    BY <1>3 DEF Begin, Nothing, Proceed, Send, Crash, TypeOK, DecisionInv
  <2> QED BY <2>1, SameSent
<1>4. ASSUME NEW w \in Workers, NEW k \in Keys, Claim(w, k) PROVE DecisionInv' /\ CooldownKept'
  <2>1. /\ \A v \in Workers : v # w =>
               step'[v] = step[v] /\ item'[v] = item[v] /\ current'[v] = current[v]
        /\ step'[w] = "claimed"
        /\ UNCHANGED <<status, sentAt>>
    BY <1>4 DEF Claim, TypeOK
  <2> QED BY <2>1, SameSent
<1>5. ASSUME NEW w \in Workers, DryRun(w) \/ Suppress(w) PROVE DecisionInv' /\ CooldownKept'
  <2>1. /\ \A v \in Workers : v # w =>
               step'[v] = step[v] /\ item'[v] = item[v] /\ current'[v] = current[v]
        /\ step'[w] = "idle"
        /\ sentAt' = sentAt
    BY <1>5 DEF DryRun, Suppress, Close, TypeOK
  <2>2. \A k \in Keys : status'[k] = "sent" => status[k] = "sent"
    BY <1>5 DEF DryRun, Suppress, Close, TypeOK
  <2> QED BY <2>1, <2>2, SameSent
<1>6. ASSUME NEW w \in Workers, Record(w) PROVE DecisionInv' /\ CooldownKept'
  <2> DEFINE i == item[w]
  <2>1. i \in Keys /\ status[i] = "pending"
    BY <1>6, Held DEF Record
  <2>2. /\ \A v \in Workers : v # w =>
               step'[v] = step[v] /\ item'[v] = item[v] /\ current'[v] = current[v]
        /\ step'[w] = "idle"
        /\ \A k \in Keys : k # i => status'[k] = status[k] /\ sentAt'[k] = sentAt[k]
    BY <1>6, <2>1 DEF Record, Close, TypeOK
  <2>3. status'[i] = "sent" => sentAt'[i] = current[w]
    BY <1>6, <2>1 DEF Record, Close, TypeOK
  <2>4. ~(Cooldown > 0 /\ Recent(w))
    BY <1>6 DEF Record, DecisionInv
  <2>5. \A k \in Keys : k # i /\ UserOf[k] = UserOf[i] /\ status[k] = "sent" /\ Cooldown > 0 =>
            ~(sentAt[k] > current[w] - Cooldown)
    BY <2>4 DEF Recent
  <2>6. DecisionInv'
    <3> SUFFICES ASSUME NEW v \in Workers, step'[v] \in {"sending"} \cup Mailed
                 PROVE  ~(Cooldown > 0 /\ Recent(v)')
      BY DEF DecisionInv
    <3>1. v # w /\ step[v] \in {"sending"} \cup Mailed /\ item'[v] = item[v] /\ current'[v] = current[v]
      BY <2>2
    <3>2. ~(Cooldown > 0 /\ Recent(v)) /\ item[v] \in Keys
      BY <3>1, Held DEF DecisionInv
    <3>3. UserOf[item[v]] # UserOf[i]
      BY <1>6, <2>1, <3>1, <3>2 DEF LockInv
    <3>4. \A k \in Keys : UserOf[k] = UserOf[item[v]] => status'[k] = status[k] /\ sentAt'[k] = sentAt[k]
      BY <2>2, <3>3
    <3> QED BY <3>1, <3>2, <3>4 DEF Recent
  <2>7. ASSUME NEW j \in Keys, NEW k \in Keys,
               j # k, UserOf[j] = UserOf[k], status'[j] = "sent", status'[k] = "sent"
        PROVE  sentAt'[j] >= sentAt'[k] + Cooldown \/ sentAt'[k] >= sentAt'[j] + Cooldown
    <3>1. current[w] \in Nat
      BY DEF TypeOK
    <3>2. \A h \in Keys : status[h] = "sent" => sentAt[h] \in Nat
      BY DEF TypeOK
    <3>3. CASE j # i /\ k # i
      BY <2>2, <2>7, <3>3 DEF CooldownKept
    <3>4. CASE j = i
      <4>1. sentAt'[j] = current[w] /\ sentAt'[k] = sentAt[k] /\ status[k] = "sent" /\ sentAt[k] \in Nat
        BY <2>2, <2>3, <2>7, <3>2, <3>4
      <4>2. Cooldown > 0 => ~(sentAt[k] > current[w] - Cooldown)
        BY <2>5, <2>7, <3>4, <4>1
      <4> QED BY <3>1, <4>1, <4>2
    <3>5. CASE k = i
      <4>1. sentAt'[k] = current[w] /\ sentAt'[j] = sentAt[j] /\ status[j] = "sent" /\ sentAt[j] \in Nat
        BY <2>2, <2>3, <2>7, <3>2, <3>5
      <4>2. Cooldown > 0 => ~(sentAt[j] > current[w] - Cooldown)
        BY <2>5, <2>7, <3>5, <4>1
      <4> QED BY <3>1, <4>1, <4>2
    <3> QED BY <3>3, <3>4, <3>5
  <2> QED BY <2>6, <2>7 DEF CooldownKept
<1> QED
  BY <1>1, <1>2, <1>3, <1>4, <1>5, <1>6
     DEF Next, deliver_next, vars, Enqueue, Occupy, Release, SetDryRun, Tick

(* Whether a notification's mail is accounted for: only a crash forgets it,*)
(* and a mail is added only by the worker that has the row locked.         *)
LEMMA MailedStep == IInv /\ [Next]_vars => MailedOnce'
<1> SUFFICES ASSUME IInv, [Next]_vars, NEW k \in Keys PROVE mails'[k] <= Accounted(k)' + crashes'
  BY DEF MailedOnce
<1> USE DEF IInv, outbox
<1>1. mails[k] \in Nat /\ crashes \in Nat /\ mails[k] <= Accounted(k) + crashes
  BY DEF TypeOK, MailedOnce
<1>2. Accounted(k) \in {0, 1} /\ Accounted(k)' \in {0, 1}
  BY DEF Accounted
<1>3. ASSUME UNCHANGED <<mails, crashes>>, Accounted(k) = 1 => Accounted(k)' = 1
      PROVE  mails'[k] <= Accounted(k)' + crashes'
  BY <1>1, <1>2, <1>3
<1>4. ASSUME NEW j \in Keys, Enqueue(j) PROVE mails'[k] <= Accounted(k)' + crashes'
  BY <1>3, <1>4 DEF Enqueue, Accounted, TypeOK
<1>5. ASSUME UNCHANGED <<status, step, item, mails, crashes>>
      PROVE  mails'[k] <= Accounted(k)' + crashes'
  BY <1>1, <1>5 DEF Accounted
<1>6. ASSUME NEW w \in Workers, Begin(w) \/ Nothing(w) \/ Proceed(w) \/ \E j \in Keys : Claim(w, j)
      PROVE  mails'[k] <= Accounted(k)' + crashes'
  <2>1. /\ \A v \in Workers : v # w => step'[v] = step[v] /\ item'[v] = item[v]
        /\ step[w] \notin Mailed
        /\ UNCHANGED <<status, mails, crashes>>
    BY <1>6 DEF Begin, Nothing, Proceed, Claim, TypeOK
  <2> QED BY <1>3, <2>1 DEF Accounted
<1>7. ASSUME NEW w \in Workers, DryRun(w) \/ Suppress(w)
      PROVE  mails'[k] <= Accounted(k)' + crashes'
  <2>1. /\ \A v \in Workers : v # w => step'[v] = step[v] /\ item'[v] = item[v]
        /\ step[w] = "claimed"
        /\ UNCHANGED <<mails, crashes>>
    BY <1>7 DEF DryRun, Suppress, Close, TypeOK
  <2>2. status[k] \in Mailed => status'[k] \in Mailed
    BY <1>7, Held DEF DryRun, Suppress, Close, TypeOK
  <2> QED BY <1>3, <2>1, <2>2 DEF Accounted
<1>8. ASSUME NEW w \in Workers, Send(w) PROVE mails'[k] <= Accounted(k)' + crashes'
  <2>1. /\ item[w] \in Keys /\ status[item[w]] = "pending"
        /\ step[w] = "sending" /\ step'[w] \in Mailed
        /\ \A v \in Workers : v # w => step'[v] = step[v]
        /\ UNCHANGED <<item, status, crashes>>
    BY <1>8, Held DEF Send, TypeOK
  <2>2. CASE k = item[w]
    <3>1. Accounted(k) = 0
      BY <2>1, <2>2 DEF Accounted, LockInv
    <3>2. Accounted(k)' = 1
      BY <2>1, <2>2 DEF Accounted
    <3>3. mails'[k] \in {mails[k], mails[k] + 1}
      BY <1>1, <1>8, <2>2 DEF Send, TypeOK
    <3> QED BY <1>1, <2>1, <3>1, <3>2, <3>3
  <2>3. CASE k # item[w]
    <3>1. mails'[k] = mails[k]
      BY <1>8, <2>3 DEF Send, TypeOK
    <3>2. Accounted(k) = 1 => Accounted(k)' = 1
      BY <2>1, <2>3 DEF Accounted
    <3> QED BY <1>1, <1>2, <2>1, <3>1, <3>2
  <2> QED BY <2>2, <2>3
<1>9. ASSUME NEW w \in Workers, Record(w) PROVE mails'[k] <= Accounted(k)' + crashes'
  <2>1. /\ item[w] \in Keys /\ step[w] \in Mailed
        /\ \A v \in Workers : v # w => step'[v] = step[v] /\ item'[v] = item[v]
        /\ status' = [status EXCEPT ![item[w]] = step[w]]
        /\ UNCHANGED <<mails, crashes>>
    BY <1>9, Held DEF Record, Close, TypeOK
  <2>2. status[k] \in Mailed \/ k = item[w] => status'[k] \in Mailed
    BY <2>1 DEF TypeOK
  <2> QED BY <1>3, <2>1, <2>2 DEF Accounted
<1>10. ASSUME NEW w \in Workers, Crash(w) PROVE mails'[k] <= Accounted(k)' + crashes'
  <2>1. /\ crashes' = crashes + 1 /\ mails' = mails
    BY <1>10 DEF Crash
  <2> QED BY <1>1, <1>2, <2>1
<1>11. CASE UNCHANGED vars
  BY <1>5, <1>11 DEF vars
<1> QED
  BY <1>4, <1>5, <1>6, <1>7, <1>8, <1>9, <1>10, <1>11
     DEF Next, deliver_next, Occupy, Release, SetDryRun, Tick

-----------------------------------------------------------------------------
(* The inductive invariant of the outbox: types, the locks deliver_next    *)
(* holds, the decisions it took under them, and the two properties.        *)
THEOREM Invariance == Spec => []IInv
<1>1. IInv /\ [Next]_vars => IInv'
  BY TypeStep, LockStep, CooldownStep, MailedStep DEF IInv
<1> QED BY IInvInit, <1>1, PTL DEF Spec

(* deliver_next keeps the cooldown between any two mails to one user that  *)
(* are recorded as sent, for any number of workers.                        *)
THEOREM CooldownHolds == Spec => []CooldownKept
<1>1. IInv => CooldownKept
  BY DEF IInv
<1> QED BY Invariance, <1>1, PTL

(* deliver_next mails a notification once, but for crashes between the     *)
(* mail and the commit.                                                    *)
THEOREM MailedOnceHolds == Spec => []MailedOnce
<1>1. IInv => MailedOnce
  BY DEF IInv
<1> QED BY Invariance, <1>1, PTL
=============================================================================
