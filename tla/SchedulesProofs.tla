--------------------------- MODULE SchedulesProofs ---------------------------
(***************************************************************************)
(* Theorems about Schedules, for every set of schedules, cron expressions  *)
(* and workers.                                                            *)
(***************************************************************************)
EXTENDS Schedules, TLAPS

USE BoundsAssumption, NoneAssumption DEF Times

-----------------------------------------------------------------------------
(* next_fire_time's extra microsecond: the next occurrence is later.       *)
LEMMA NextIsLater ==
    ASSUME NEW c \in Crons, NEW t \in Times
    PROVE  next_fire_time(c, t) \in Nat /\ next_fire_time(c, t) > t
<1>1. t + 1 \in 0..MaxTime + 1
  OBVIOUS
<1> QED BY <1>1, CronAssumption DEF next_fire_time

(* The inductive invariant holds initially.                                *)
LEMMA IInvInit == Init => IInv
<1> SUFFICES ASSUME Init PROVE IInv
  OBVIOUS
<1>1. TypeOK
  BY DEF Init, TypeOK
<1>2. LeaderInv /\ PastInv /\ FiresInOrder
  BY DEF Init, LeaderInv, PastInv, FiresInOrder
<1> QED BY <1>1, <1>2 DEF IInv

(* The end of a transaction gives up the lead and the locks.               *)
LEMMA CloseFacts ==
    ASSUME TypeOK, LeaderInv, NEW w \in Workers, Close(w)
    PROVE  /\ leader' \in Workers \cup {NoWorker}
           /\ step' \in [Workers -> {"idle", "begun", "leading"}]
           /\ tick' \in [Workers -> Times]
           /\ due' \in [Workers -> SUBSET Schedules]
           /\ \A v \in Workers : step'[v] = "leading" <=> leader' = v
           /\ \A v \in Workers : step'[v] # "leading" => due'[v] = {}
           /\ \A v \in Workers : tick'[v] <= tick[v] \/ tick'[v] = 0
           /\ \A v \in Workers : \A s \in due'[v] : v # w /\ s \in due[v] /\ tick'[v] = tick[v]
BY DEF TypeOK, LeaderInv, Close

(* A loop's commit: what is dispatched was due, so it is past and before   *)
(* the occurrence the schedule moves on to.                                *)
LEMMA DispatchStep ==
    ASSUME IInv, NEW w \in Workers, Dispatch(w)
    PROVE  IInv'
<1> USE DEF IInv
<1>1. PICK done \in SUBSET {s \in due[w] : InGrace(w, s)} : Fire(done)
  BY DEF Dispatch
<1>2. done \subseteq due[w] /\ due[w] \subseteq Schedules
  BY <1>1 DEF TypeOK
<1>3. \A s \in Schedules :
        /\ s \in done => fired'[s] = Append(fired[s], nextRun[s])
        /\ s \notin done => fired'[s] = fired[s]
  BY <1>1 DEF Fire
<1>4. \A s \in Schedules :
        /\ s \in due[w] => nextRun'[s] = next_fire_time(cron[s], tick[w])
        /\ s \notin due[w] => nextRun'[s] = nextRun[s]
  BY DEF Dispatch
<1>5. \A s \in due[w] : nextRun[s] <= tick[w] /\ nextRun'[s] \in Nat /\ nextRun'[s] > tick[w]
  BY <1>2, <1>4, NextIsLater DEF TypeOK, LeaderInv
<1>6. TypeOK'
  <2>1. fired' \in [Schedules -> Seq(Nat)]
    BY <1>1 DEF Fire, TypeOK
  <2>2. nextRun' \in [Schedules -> Nat]
    BY <1>4, <1>5 DEF Dispatch, TypeOK
  <2> QED BY <2>1, <2>2, CloseFacts DEF Dispatch, TypeOK
<1>7. leader = w
  BY DEF Dispatch, LeaderInv
<1>8. LeaderInv'
  <2>1. \A v \in Workers : v # w => due[v] = {}
    BY <1>7 DEF LeaderInv
  <2>2. \A v \in Workers : due'[v] = {}
    BY <2>1, CloseFacts DEF Dispatch
  <2> QED BY <2>2, CloseFacts DEF Dispatch, LeaderInv, TypeOK
<1>9. ASSUME NEW s \in Schedules
      PROVE  /\ \A i \in 1..Len(fired'[s]) : fired'[s][i] <= now /\ fired'[s][i] < nextRun'[s]
             /\ \A i, j \in 1..Len(fired'[s]) : i < j => fired'[s][i] < fired'[s][j]
  <2>1. fired[s] \in Seq(Nat) /\ nextRun[s] \in Nat /\ tick[w] \in Nat /\ tick[w] <= now /\ now \in Nat
    BY DEF TypeOK, LeaderInv
  <2>2. /\ \A i \in 1..Len(fired[s]) : fired[s][i] <= now /\ fired[s][i] < nextRun[s]
        /\ \A i, j \in 1..Len(fired[s]) : i < j => fired[s][i] < fired[s][j]
    BY DEF PastInv, FiresInOrder
  <2>3. CASE s \in done
    <3>1. nextRun[s] <= tick[w] /\ nextRun'[s] \in Nat /\ nextRun'[s] > tick[w]
      BY <1>2, <1>5, <2>3
    <3>2. Len(fired'[s]) = Len(fired[s]) + 1 /\ fired'[s][Len(fired[s]) + 1] = nextRun[s]
      BY <1>3, <2>1, <2>3
    <3>3. \A i \in 1..Len(fired[s]) : fired'[s][i] = fired[s][i]
      BY SMTT(30), <1>3, <2>1, <2>3
    <3>4. \A i \in 1..Len(fired'[s]) : i \in 1..Len(fired[s]) \/ i = Len(fired[s]) + 1
      BY <2>1, <3>2
    <3>5. \A i \in 1..Len(fired[s]) : fired[s][i] \in Nat
      BY <2>1
    <3>6. ASSUME NEW i \in 1..Len(fired'[s])
          PROVE  fired'[s][i] <= now /\ fired'[s][i] < nextRun'[s]
      <4>1. CASE i \in 1..Len(fired[s])
        <5>1. fired'[s][i] = fired[s][i] /\ fired[s][i] \in Nat
          BY <3>3, <3>5, <4>1
        <5>2. fired[s][i] <= now /\ fired[s][i] < nextRun[s]
          BY <2>2, <4>1
        <5> QED BY SMTT(30), <2>1, <3>1, <5>1, <5>2
      <4>2. CASE i = Len(fired[s]) + 1
        BY <2>1, <3>1, <3>2, <4>2
      <4> QED BY <3>4, <4>1, <4>2
    <3>7. ASSUME NEW i \in 1..Len(fired'[s]), NEW j \in 1..Len(fired'[s]), i < j
          PROVE  fired'[s][i] < fired'[s][j]
      <4>1. i \in 1..Len(fired[s])
        BY <2>1, <3>2, <3>7
      <4>2. CASE j \in 1..Len(fired[s])
        BY <2>2, <3>3, <3>7, <4>1, <4>2
      <4>3. CASE j = Len(fired[s]) + 1
        BY <2>2, <3>2, <3>3, <4>1, <4>3
      <4> QED BY <3>4, <4>2, <4>3
    <3> QED BY <3>6, <3>7
  <2>4. CASE s \notin done
    <3>1. nextRun'[s] \in Nat /\ nextRun'[s] >= nextRun[s]
      BY <1>4, <1>5, <2>1
    <3>2. \A i \in 1..Len(fired[s]) : fired[s][i] \in Nat
      BY <2>1
    <3>3. fired'[s] = fired[s]
      BY <1>3, <2>4
    <3>4. \A i \in 1..Len(fired[s]) : fired[s][i] < nextRun'[s]
      BY <2>1, <2>2, <3>1, <3>2
    <3> QED BY <2>2, <3>3, <3>4
  <2> QED BY <2>3, <2>4
<1>10. PastInv' /\ FiresInOrder'
  BY <1>9 DEF PastInv, FiresInOrder, Dispatch
<1> QED BY <1>6, <1>8, <1>10

(* Creating or enabling a schedule starts beyond now, hence beyond all it  *)
(* has dispatched; disabling or deleting one leaves its next occurrence.   *)
LEMMA AnalystStep ==
    ASSUME IInv, NEW s \in Schedules,
           create_schedule(s) \/ toggle_schedule(s) \/ remove_schedule(s)
    PROVE  IInv'
<1> USE DEF IInv
<1>1. next_fire_time(cron[s], now) \in Nat /\ next_fire_time(cron[s], now) > now
  BY NextIsLater DEF TypeOK
<1>2. UNCHANGED <<now, cron, leader, step, tick, due, crashes, fired>>
  BY DEF create_schedule, toggle_schedule, remove_schedule, local
<1>3. TypeOK'
  BY ZenonT(60), <1>1, <1>2 DEF TypeOK, create_schedule, toggle_schedule, remove_schedule
<1>4. \A v \in Workers : s \notin due[v]
  BY DEF create_schedule, toggle_schedule, remove_schedule, Free, LeaderInv
<1>5. \A r \in Schedules : r # s => state'[r] = state[r] /\ nextRun'[r] = nextRun[r]
  BY DEF TypeOK, create_schedule, toggle_schedule, remove_schedule
<1>6. LeaderInv'
  <2>1. \A v \in Workers : \A r \in due[v] : state'[r] = state[r] /\ nextRun'[r] = nextRun[r]
    BY <1>4, <1>5 DEF TypeOK
  <2> QED BY <1>2, <2>1 DEF LeaderInv
<1>7. nextRun'[s] = nextRun[s] \/ nextRun'[s] = next_fire_time(cron[s], now)
  BY DEF TypeOK, create_schedule, toggle_schedule, remove_schedule
<1>8. ASSUME NEW r \in Schedules, NEW i \in 1..Len(fired[r])
      PROVE  fired[r][i] <= now /\ fired[r][i] < nextRun'[r]
  <2>1. fired[r] \in Seq(Nat) /\ fired[r][i] \in Nat /\ now \in Nat
    BY <1>8 DEF TypeOK
  <2>2. fired[r][i] <= now /\ fired[r][i] < nextRun[r]
    BY <1>8 DEF PastInv
  <2> QED BY <1>1, <1>5, <1>7, <2>1, <2>2
<1>9. PastInv' /\ FiresInOrder'
  BY <1>2, <1>8 DEF PastInv, FiresInOrder
<1> QED BY <1>3, <1>6, <1>9

(* Reading the clock, leading, following, crashing and time passing        *)
(* dispatch nothing.                                                       *)
LEMMA QuietStep ==
    ASSUME IInv,
           \/ \E w \in Workers : Begin(w) \/ Follow(w) \/ Lead(w) \/ Crash(w)
           \/ Tick
    PROVE  IInv'
<1> USE DEF IInv
<1>1. ASSUME NEW w \in Workers, Begin(w) PROVE TypeOK' /\ LeaderInv'
  BY <1>1 DEF Begin, TypeOK, LeaderInv, rows
<1>2. ASSUME NEW w \in Workers, Follow(w) \/ Crash(w) PROVE TypeOK' /\ LeaderInv'
  <2>1. Close(w) /\ UNCHANGED <<now, state, cron, nextRun, fired>> /\ crashes' \in 0..MaxCrashes
    BY <1>2 DEF Follow, Crash, rows, TypeOK
  <2>2. TypeOK'
    BY <2>1, CloseFacts DEF TypeOK
  <2>3. ASSUME NEW v \in Workers PROVE tick'[v] <= now'
    <3>1. tick'[v] \in Nat /\ tick[v] \in Nat /\ now \in Nat
      BY <2>2 DEF TypeOK
    <3>2. tick[v] <= now /\ (tick'[v] <= tick[v] \/ tick'[v] = 0)
      BY <2>1, CloseFacts DEF LeaderInv
    <3> QED BY <2>1, <3>1, <3>2
  <2>4. \A v \in Workers : \A s \in due'[v] : state'[s] = "enabled" /\ nextRun'[s] <= tick'[v]
    BY <2>1, CloseFacts DEF LeaderInv
  <2>5. LeaderInv'
    BY <2>1, <2>3, <2>4, CloseFacts DEF LeaderInv
  <2> QED BY <2>2, <2>5
<1>3. ASSUME NEW w \in Workers, Lead(w) PROVE TypeOK' /\ LeaderInv'
  <2>1. TypeOK'
    BY <1>3 DEF Lead, TypeOK, rows
  <2>2. \A v \in Workers : step[v] # "leading"
    BY <1>3 DEF Lead, LeaderInv
  <2>3. \A s \in due'[w] : state[s] = "enabled" /\ nextRun[s] <= tick[w]
    BY <1>3 DEF Lead, TypeOK
  <2>4. \A v \in Workers : v # w => step'[v] = step[v] /\ due'[v] = {}
    BY <1>3, <2>2 DEF Lead, TypeOK, LeaderInv
  <2>5. leader' = w /\ step'[w] = "leading" /\ UNCHANGED <<now, state, nextRun, tick>>
    BY <1>3 DEF Lead, TypeOK, rows
  <2>6. \A v \in Workers : tick[v] <= now
    BY DEF LeaderInv
  <2>7. LeaderInv'
    BY <2>2, <2>3, <2>4, <2>5, <2>6 DEF LeaderInv
  <2> QED BY <2>1, <2>7
<1>4. ASSUME Tick PROVE TypeOK' /\ LeaderInv'
  BY <1>4 DEF Tick, TypeOK, LeaderInv, rows, local
<1>5. UNCHANGED <<nextRun, fired>> /\ now' \in Nat /\ now <= now'
  BY DEF Begin, Follow, Lead, Crash, Tick, rows, TypeOK
<1>6. PastInv'
  <2> SUFFICES ASSUME NEW s \in Schedules, NEW i \in 1..Len(fired[s])
               PROVE  fired[s][i] <= now' /\ fired[s][i] < nextRun[s]
    BY <1>5 DEF PastInv
  <2>1. fired[s][i] \in Nat /\ now \in Nat
    BY DEF TypeOK
  <2>2. fired[s][i] <= now /\ fired[s][i] < nextRun[s]
    BY DEF PastInv
  <2> QED BY <1>5, <2>1, <2>2
<1>7. FiresInOrder'
  BY <1>5 DEF FiresInOrder
<1> QED BY <1>1, <1>2, <1>3, <1>4, <1>6, <1>7

-----------------------------------------------------------------------------
(* The inductive invariant of the dispatcher.                              *)
THEOREM Invariance == Spec => []IInv
<1>1. IInv /\ [Next]_vars => IInv'
  <2>1. IInv /\ Next => IInv'
    BY DispatchStep, AnalystStep, QuietStep DEF Next, dispatch_due_schedules
  <2>2. IInv /\ UNCHANGED vars => IInv'
    BY DEF IInv, TypeOK, LeaderInv, PastInv, FiresInOrder, vars, rows, local
  <2> QED BY <2>1, <2>2
<1> QED BY <1>1, IInvInit, PTL DEF Spec

(* dispatch_due_schedules dispatches every occurrence at most once and     *)
(* never one after a later one, for any number of workers, crashes and     *)
(* analysts' changes.                                                      *)
THEOREM OrderHolds == Spec => []FiresInOrder
<1>1. IInv => FiresInOrder
  BY DEF IInv
<1> QED BY <1>1, Invariance, PTL

(* A schedule that is switched off or deleted dispatches nothing: the      *)
(* leader decides on rows it has locked.                                   *)
THEOREM OffHolds == Spec => NotWhileOff
<1> DEFINE Off == \A s \in Schedules : fired'[s] # fired[s] => state[s] = "enabled"
<1>1. IInv /\ [Next]_vars => [Off]_vars
  <2> SUFFICES ASSUME IInv, Next PROVE Off
    OBVIOUS
  <2>1. ASSUME NEW w \in Workers, Dispatch(w) PROVE Off
    BY <2>1 DEF Dispatch, Fire, IInv, TypeOK, LeaderInv
  <2>2. CASE fired' = fired
    BY <2>2
  <2> QED
    BY <2>1, <2>2 DEF Next, dispatch_due_schedules, Begin, Follow, Lead, Crash, Tick,
       create_schedule, toggle_schedule, remove_schedule
<1> QED BY <1>1, Invariance, PTL DEF Spec, NotWhileOff
=============================================================================
