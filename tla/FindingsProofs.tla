--------------------------- MODULE FindingsProofs ---------------------------
(***************************************************************************)
(* Theorems about Findings, for every set of records, scans and retention  *)
(* workers, whatever the groups, passwords and sources of the records.     *)
(***************************************************************************)
EXTENDS Findings, FiniteSetTheorems, TLAPS

-----------------------------------------------------------------------------
(* An id is a record and a number, and NoId is none.                       *)
LEMMA IdFacts ==
    /\ NoId \notin Ids
    /\ \A f \in Ids : /\ f = <<f[1], f[2]>>
                      /\ f[1] \in Records
                      /\ f[2] \in 1 .. Incarnations
                      /\ \A j \in 1 .. f[2] : <<f[1], j>> \in Ids
<1>1. NoId \notin Ids
  BY DEF NoId, Ids
<1>2. Incarnations \in Nat
  BY BoundsAssumption
<1> QED BY <1>1, <1>2 DEF Ids

(* The id FreshId gives is unused, and the next in number of its record.   *)
LEMMA NextNumber ==
    ASSUME TypeOK, NumberInv, NEW rec \in Records, FreshId(rec) \in Ids
    PROVE  /\ state[FreshId(rec)] = "absent"
           /\ FreshId(rec)[1] = rec
           /\ \A j \in 1 .. (FreshId(rec)[2] - 1) : state[<<rec, j>>] # "absent"
<1> DEFINE S == {f \in Ids : f[1] = rec /\ state[f] # "absent"}
           k == 1 + Cardinality(S)
           Upto(j) == {rec} \X (1 .. j)
<1>1. Incarnations \in Nat
  BY BoundsAssumption
<1>2. IsFiniteSet(Ids)
  <2>1. IsFiniteSet(1 .. Incarnations)
    BY <1>1, FS_Interval
  <2> QED BY <2>1, RecordsAssumption, FS_Product DEF Ids
<1>3. IsFiniteSet(S) /\ Cardinality(S) \in Nat
  BY <1>2, FS_Subset, FS_CardinalityType
<1>4. FreshId(rec) = <<rec, k>> /\ k \in 1 .. Incarnations
  <2>1. FreshId(rec) = <<rec, k>>
    BY DEF FreshId
  <2>2. <<rec, k>> \in Records \X (1 .. Incarnations)
    BY <2>1 DEF Ids
  <2> HIDE DEF k
  <2> QED BY <2>1, <2>2
<1>5. ASSUME NEW j \in Nat PROVE IsFiniteSet(Upto(j)) /\ Cardinality(Upto(j)) = j
  <2>1. IsFiniteSet(1 .. j) /\ Cardinality(1 .. j) = j
    BY FS_Interval
  <2>2. IsFiniteSet({rec}) /\ Cardinality({rec}) = 1
    BY FS_Singleton
  <2> QED BY <2>1, <2>2, FS_Product
<1>6. state[<<rec, k>>] = "absent"
  <2> SUFFICES ASSUME state[<<rec, k>>] # "absent" PROVE FALSE
    OBVIOUS
  <2>1. <<rec, k>> \in Ids
    BY <1>4
  <2>2. \A j \in 1 .. k : <<rec, j>> \in Ids /\ state[<<rec, j>>] # "absent"
    <3>1. <<rec, k>>[1] = rec /\ <<rec, k>>[2] = k
      OBVIOUS
    <3> QED BY <2>1, <3>1, IdFacts DEF NumberInv
  <2>3. Upto(k) \subseteq S
    <3> SUFFICES ASSUME NEW f \in Upto(k) PROVE f \in S
      OBVIOUS
    <3>1. f = <<rec, f[2]>> /\ f[1] = rec /\ f[2] \in 1 .. k
      OBVIOUS
    <3> QED BY <3>1, <2>2
  <2>4. Cardinality(Upto(k)) <= Cardinality(S)
    BY <2>3, <1>3, FS_Subset
  <2>5. Cardinality(Upto(k)) = k
    BY SMTT(30), <1>3, <1>5
  <2> HIDE DEF S, Upto
  <2> QED BY <2>4, <2>5, <1>3
<1>7. ASSUME NEW j \in 1 .. (k - 1) PROVE state[<<rec, j>>] # "absent"
  <2> SUFFICES ASSUME state[<<rec, j>>] = "absent" PROVE FALSE
    OBVIOUS
  <2>1. j \in Nat /\ j - 1 \in Nat
    BY <1>3
  <2>2. S \subseteq Upto(j - 1)
    <3> SUFFICES ASSUME NEW f \in S PROVE f \in Upto(j - 1)
      OBVIOUS
    <3>1. f = <<rec, f[2]>> /\ f[2] \in 1 .. Incarnations
      BY IdFacts
    <3>2. \A i \in 1 .. f[2] : state[<<rec, i>>] # "absent"
      BY DEF NumberInv
    <3>3. ~(j <= f[2])
      BY <2>1, <3>2
    <3>4. f[2] \in 1 .. (j - 1)
      BY <1>1, <2>1, <3>1, <3>3
    <3> QED BY <3>1, <3>4
  <2>3. Cardinality(S) <= Cardinality(Upto(j - 1))
    BY <2>1, <2>2, <1>5, FS_Subset
  <2>4. Cardinality(Upto(j - 1)) = j - 1
    BY <2>1, <1>5
  <2> HIDE DEF S, Upto
  <2> QED BY <2>1, <2>3, <2>4, <1>3
<1>8. <<rec, k>>[1] = rec /\ <<rec, k>>[2] = k
  OBVIOUS
<1> QED BY <1>4, <1>6, <1>7, <1>8

-----------------------------------------------------------------------------
(* The inductive invariant holds initially.                                *)
LEMMA IInvInit == Init => IInv
<1> SUFFICES ASSUME Init PROVE IInv
  OBVIOUS
<1>1. TypeOK
  BY DEF Init, TypeOK
<1>2. RowInv /\ ReLeakLinks
  BY DEF Init, RowInv, ReLeakLinks, LiveIds, Live
<1>3. NumberInv
  BY DEF Init, NumberInv
<1>4. InsertInv
  BY DEF Init, InsertInv
<1>5. LinkInv
  BY DEF Init, LinkInv, SelectedForUpdate
<1> QED BY <1>1, <1>2, <1>3, <1>4, <1>5 DEF IInv

(* Steps that leave the findings and the scans' writes alone.              *)
LEMMA QuietStep ==
    ASSUME IInv, UNCHANGED <<state, sup, sev, trail, inserted, links, cur>>,
           touched' \in [Scans -> SUBSET Ids], doomed' \in [Purgers -> SUBSET Ids]
    PROVE  IInv'
<1>1. TypeOK'
  BY DEF IInv, TypeOK
<1>2. RowInv' /\ NumberInv' /\ ReLeakLinks'
  BY DEF IInv, RowInv, NumberInv, ReLeakLinks, LiveIds
<1>3. InsertInv'
  BY DEF IInv, InsertInv, ReLeaks
<1>4. LinkInv'
  BY DEF IInv, LinkInv, SelectedForUpdate
<1> QED BY <1>1, <1>2, <1>3, <1>4 DEF IInv

(* A record becomes a finding under a number nobody else has taken.        *)
LEMMA UpsertStep ==
    ASSUME IInv, NEW t \in Scans, NEW rec \in Records, Upsert(t, rec)
    PROVE  IInv'
<1> DEFINE id == FreshId(rec)
<1>1. TypeOK /\ RowInv /\ NumberInv /\ InsertInv /\ LinkInv /\ ReLeakLinks
  BY DEF IInv
<1>2. CASE \E f \in Holders(t, rec) :
             /\ touched' = [touched EXCEPT ![t] = @ \cup ({f} \ inserted[t])]
             /\ UNCHANGED <<inserted, cur>>
  <2>1. Holders(t, rec) \subseteq Ids
    BY <1>1 DEF Holders, LiveIds, TypeOK
  <2>2. touched' \in [Scans -> SUBSET Ids]
    BY <1>1, <1>2, <2>1 DEF TypeOK
  <2> QED BY <1>1, <1>2, <2>2, QuietStep DEF Upsert, rowVars, purgeVars, TypeOK
<1>3. CASE /\ Holders(t, rec) = {}
           /\ id \in Ids
           /\ inserted' = [inserted EXCEPT ![t] = @ \cup {id}]
           /\ cur' = [cur EXCEPT ![t] = id]
           /\ UNCHANGED touched
  <2>1. UNCHANGED <<state, sup, sev, trail, links, doomed>>
    BY DEF Upsert, rowVars, purgeVars
  <2>2. /\ state[id] = "absent"
        /\ id[1] = rec
        /\ \A j \in 1 .. (id[2] - 1) : state[<<id[1], j>>] # "absent"
    BY <1>1, <1>3, NextNumber
  <2>3. \A u \in Scans \ {t} : id \notin inserted[u]
    BY DEF Upsert, KeysFree
  <2>4. id \notin inserted[t]
    BY <1>3, <2>2 DEF Holders
  <2> HIDE DEF id
  <2>5. TypeOK'
    BY <1>1, <1>3, <2>1 DEF TypeOK
  <2>6. RowInv' /\ NumberInv' /\ ReLeakLinks'
    BY <1>1, <2>1 DEF RowInv, NumberInv, ReLeakLinks, LiveIds
  <2>7. inserted'[t] = inserted[t] \cup {id} /\ \A u \in Scans \ {t} : inserted'[u] = inserted[u]
    BY <1>1, <1>3 DEF TypeOK
  <2>8. cur'[t] = id /\ \A u \in Scans \ {t} : cur'[u] = cur[u]
    BY <1>1, <1>3 DEF TypeOK
  <2>9. ReLeaks(t) \subseteq inserted[t]
    BY <1>1 DEF LinkInv, ReLeaks
  <2>10. \A u \in Scans : ReLeaks(u)' = ReLeaks(u)
    BY <2>1 DEF ReLeaks
  <2>11. InsertInv'
    <3>1. ASSUME NEW u \in Scans, NEW f \in inserted'[u]
          PROVE  state'[f] = "absent" /\ \A j \in 1 .. (f[2] - 1) : state'[<<f[1], j>>] # "absent"
      BY <1>1, <2>1, <2>2, <2>7, <3>1 DEF InsertInv
    <3>2. ASSUME NEW u \in Scans, NEW v \in Scans \ {u} PROVE inserted'[u] \cap inserted'[v] = {}
      BY <1>1, <2>3, <2>7 DEF InsertInv
    <3>3. ASSUME NEW u \in Scans, cur'[u] # NoId PROVE cur'[u] \in inserted'[u] \ ReLeaks(u)'
      BY <1>1, <2>4, <2>7, <2>8, <2>9, <2>10, <3>3 DEF InsertInv
    <3> QED BY <3>1, <3>2, <3>3 DEF InsertInv
  <2>12. LinkInv'
    <3>1. \A u \in Scans : inserted[u] \subseteq inserted'[u]
      BY <2>7
    <3> QED BY ZenonT(60), <1>1, <2>1, <3>1 DEF LinkInv, SelectedForUpdate
  <2> QED BY <2>5, <2>6, <2>11, <2>12 DEF IInv
<1> QED BY <1>2, <1>3 DEF Upsert

(* A predecessor is locked by one scan only, and linked once.              *)
LEMMA LinkStep ==
    ASSUME IInv, NEW t \in Scans, Link(t)
    PROVE  IInv'
<1> DEFINE c == cur[t]
<1>1. TypeOK /\ RowInv /\ NumberInv /\ InsertInv /\ LinkInv /\ ReLeakLinks
  BY DEF IInv
<1>2. UNCHANGED <<state, sup, sev, trail, inserted, touched, doomed>>
  BY DEF Link, rowVars, purgeVars
<1>3. c \in inserted[t] /\ c \notin ReLeaks(t) /\ c \in Ids
  BY <1>1 DEF Link, InsertInv, TypeOK
<1>4. cur'[t] = NoId /\ \A u \in Scans \ {t} : cur'[u] = cur[u]
  BY <1>1 DEF Link, TypeOK
<1>5. cur' \in [Scans -> Ids \cup {NoId}]
  BY <1>1 DEF Link, TypeOK
<1>6. RowInv' /\ NumberInv' /\ ReLeakLinks'
  BY <1>1, <1>2 DEF RowInv, NumberInv, ReLeakLinks, LiveIds
<1>7. CASE UNCHANGED links
  <2>1. TypeOK'
    BY <1>1, <1>2, <1>5, <1>7 DEF TypeOK
  <2>2. InsertInv'
    BY <1>1, <1>2, <1>4, <1>7 DEF InsertInv, ReLeaks
  <2>3. LinkInv'
    BY <1>1, <1>2, <1>7 DEF LinkInv, SelectedForUpdate
  <2> QED BY <1>6, <2>1, <2>2, <2>3 DEF IInv
<1>8. ASSUME NEW f \in Predecessors(t), FreeFor(t, f),
             links' = [links EXCEPT ![t] = @ \cup {<<f, c>>}]
      PROVE  IInv'
  <2>1. /\ f \in Ids
        /\ GroupOf[c[1]] = GroupOf[f[1]]
        /\ PasswordOf[c[1]] # PasswordOf[f[1]]
        /\ state[f] = "remediated" /\ sup[f] = NoId
        /\ f \notin SelectedForUpdate(t)
    BY <1>8 DEF Predecessors
  <2>2. \A u \in Scans \ {t} : f \notin SelectedForUpdate(u)
    BY <1>8 DEF FreeFor, LockedBy
  <2> HIDE DEF c
  <2>3. links'[t] = links[t] \cup {<<f, c>>} /\ \A u \in Scans \ {t} : links'[u] = links[u]
    BY <1>1, <1>8 DEF TypeOK
  <2>4. TypeOK'
    <3>1. links' \in [Scans -> SUBSET (Ids \X Ids)]
      BY <1>1, <1>3, <1>8, <2>1 DEF TypeOK
    <3> QED BY <1>1, <1>2, <1>5, <3>1 DEF TypeOK
  <2>5. InsertInv'
    <3>1. \A u \in Scans \ {t} : ReLeaks(u)' = ReLeaks(u)
      BY <2>3 DEF ReLeaks
    <3>2. \A u \in Scans : cur'[u] # NoId => cur'[u] \in inserted'[u] \ ReLeaks(u)'
      BY <1>1, <1>2, <1>4, <3>1 DEF InsertInv
    <3> QED BY <1>1, <1>2, <3>2 DEF InsertInv
  <2>6. SelectedForUpdate(t)' = SelectedForUpdate(t) \cup {f}
    <3>1. <<f, c>>[1] = f
      OBVIOUS
    <3>2. \A g : g \in SelectedForUpdate(t)' <=> \E l \in links[t] \cup {<<f, c>>} : g = l[1]
      BY <2>3 DEF SelectedForUpdate
    <3>3. \A g : g \in SelectedForUpdate(t) <=> \E l \in links[t] : g = l[1]
      BY DEF SelectedForUpdate
    <3> QED BY <3>1, <3>2, <3>3
  <2>7. \A u \in Scans \ {t} : SelectedForUpdate(u)' = SelectedForUpdate(u)
    BY <2>3 DEF SelectedForUpdate
  <2>8. LinkInv'
    <3>1. ASSUME NEW u \in Scans, NEW l \in links'[u]
          PROVE  /\ l[2] \in inserted'[u]
                 /\ state'[l[1]] = "remediated" /\ sup'[l[1]] = NoId
                 /\ GroupOf[l[2][1]] = GroupOf[l[1][1]]
                 /\ PasswordOf[l[2][1]] # PasswordOf[l[1][1]]
      <4>1. CASE l \in links[u]
        BY <1>1, <1>2, <4>1 DEF LinkInv
      <4>2. CASE u = t /\ l = <<f, c>>
        BY <1>2, <1>3, <2>1, <4>2
      <4> QED BY <2>3, <3>1, <4>1, <4>2
    <3>2. ASSUME NEW u \in Scans, NEW l \in links'[u], NEW m \in links'[u], l[1] = m[1] \/ l[2] = m[2]
          PROVE  l = m
      <4>1. \A n \in links[t] : n[1] # f /\ n[2] # c
        BY <1>3, <2>1 DEF SelectedForUpdate, ReLeaks
      <4>2. CASE l \in links[u] /\ m \in links[u]
        BY <1>1, <3>2, <4>2 DEF LinkInv
      <4>3. CASE u = t /\ (l = <<f, c>> \/ m = <<f, c>>)
        BY <2>3, <3>2, <4>1, <4>3
      <4> QED BY <2>3, <4>2, <4>3
    <3>3. ASSUME NEW u \in Scans, NEW v \in Scans \ {u}
          PROVE  SelectedForUpdate(u)' \cap SelectedForUpdate(v)' = {}
      BY <1>1, <2>2, <2>6, <2>7 DEF LinkInv
    <3> QED BY <3>1, <3>2, <3>3 DEF LinkInv
  <2> QED BY <1>6, <2>4, <2>5, <2>8 DEF IInv
<1> QED BY <1>7, <1>8 DEF Link

(* The end of a scan's transaction leaves the other scans' writes alone.   *)
LEMMA EndScanFacts ==
    ASSUME TypeOK, NEW t \in Scans, EndScan(t)
    PROVE  /\ inserted'[t] = {} /\ links'[t] = {} /\ cur'[t] = NoId
           /\ ReLeaks(t)' = {} /\ SelectedForUpdate(t)' = {}
           /\ \A u \in Scans \ {t} :
                  /\ inserted'[u] = inserted[u] /\ links'[u] = links[u] /\ cur'[u] = cur[u]
                  /\ ReLeaks(u)' = ReLeaks(u) /\ SelectedForUpdate(u)' = SelectedForUpdate(u)
           /\ inserted' \in [Scans -> SUBSET Ids]
           /\ touched' \in [Scans -> SUBSET Ids]
           /\ links' \in [Scans -> SUBSET (Ids \X Ids)]
           /\ cur' \in [Scans -> Ids \cup {NoId}]
           /\ doomed' \in [Purgers -> SUBSET Ids]
<1>1. /\ inserted'[t] = {} /\ links'[t] = {} /\ cur'[t] = NoId
      /\ \A u \in Scans \ {t} : inserted'[u] = inserted[u] /\ links'[u] = links[u] /\ cur'[u] = cur[u]
  BY DEF TypeOK, EndScan
<1>2. /\ inserted' \in [Scans -> SUBSET Ids]
      /\ touched' \in [Scans -> SUBSET Ids]
      /\ links' \in [Scans -> SUBSET (Ids \X Ids)]
      /\ cur' \in [Scans -> Ids \cup {NoId}]
      /\ doomed' \in [Purgers -> SUBSET Ids]
  BY DEF TypeOK, EndScan, purgeVars
<1>3. ReLeaks(t)' = {} /\ SelectedForUpdate(t)' = {}
  BY <1>1 DEF ReLeaks, SelectedForUpdate
<1>4. \A u \in Scans \ {t} : ReLeaks(u)' = ReLeaks(u) /\ SelectedForUpdate(u)' = SelectedForUpdate(u)
  BY <1>1 DEF ReLeaks, SelectedForUpdate
<1> QED BY <1>1, <1>2, <1>3, <1>4

(* What a commit writes: the findings inserted are new, and those it links *)
(* are superseded by one of them each.                                     *)
LEMMA CommitFacts ==
    ASSUME IInv, NEW t \in Scans, CommitScan(t)
    PROVE  /\ SelectedForUpdate(t) \subseteq Ids /\ ReLeaks(t) \subseteq inserted[t]
           /\ \A f \in inserted[t] : /\ state[f] = "absent" /\ state'[f] = "open"
                                      /\ sup[f] = NoId /\ sup'[f] = NoId
           /\ \A f \in Ids \ inserted[t] : state'[f] = state[f] /\ sev'[f] = sev[f]
           /\ \A f \in SelectedForUpdate(t) :
                  /\ state[f] = "remediated" /\ sup[f] = NoId
                  /\ <<f, sup'[f]>> \in links[t] /\ sup'[f] \in inserted[t]
           /\ \A f \in Ids \ SelectedForUpdate(t) : sup'[f] = sup[f]
           /\ \A f \in ReLeaks(t) : sev'[f] = "high"
           /\ \A f \in Ids : sev[f] = "high" => sev'[f] = "high"
<1>1. TypeOK /\ RowInv /\ InsertInv /\ LinkInv
  BY DEF IInv
<1>2. inserted[t] \subseteq Ids /\ links[t] \subseteq Ids \X Ids
  BY <1>1 DEF TypeOK
<1>3. SelectedForUpdate(t) \subseteq Ids
  BY <1>2 DEF SelectedForUpdate
<1>4. ReLeaks(t) \subseteq inserted[t]
  BY <1>1 DEF LinkInv, ReLeaks
<1>5. \A f \in inserted[t] : state[f] = "absent" /\ sup[f] = NoId
  BY <1>1, <1>2 DEF InsertInv, RowInv, Live
<1>6. \A f \in SelectedForUpdate(t) : state[f] = "remediated" /\ sup[f] = NoId
  BY <1>1 DEF LinkInv, SelectedForUpdate
<1>7. ASSUME NEW f \in SelectedForUpdate(t)
      PROVE  <<f, sup'[f]>> \in links[t] /\ sup'[f] \in inserted[t]
  <2>1. PICK l \in links[t] : l[1] = f
    BY <1>7 DEF SelectedForUpdate
  <2>2. l = <<f, l[2]>> /\ l[2] \in ReLeaks(t)
    BY <1>2, <2>1 DEF ReLeaks
  <2>3. sup'[f] = CHOOSE c \in ReLeaks(t) : <<f, c>> \in links[t]
    BY <1>3, <1>7 DEF CommitScan
  <2>4. sup'[f] \in ReLeaks(t) /\ <<f, sup'[f]>> \in links[t]
    BY <2>1, <2>2, <2>3
  <2> QED BY <1>4, <2>4
<1>8. \A f \in Ids \ SelectedForUpdate(t) : sup'[f] = sup[f]
  BY DEF CommitScan
<1>9. \A f \in inserted[t] : sup'[f] = NoId
  BY <1>2, <1>5, <1>6, <1>8
<1>10. /\ \A f \in inserted[t] : state'[f] = "open"
       /\ \A f \in Ids \ inserted[t] : state'[f] = state[f]
  BY <1>2 DEF CommitScan
<1>11. /\ \A f \in Ids \ inserted[t] : sev'[f] = sev[f]
       /\ \A f \in ReLeaks(t) : sev'[f] = "high"
       /\ \A f \in Ids : sev[f] = "high" => sev'[f] = "high"
  BY <1>2, <1>4 DEF CommitScan
<1> QED BY <1>3, <1>4, <1>5, <1>6, <1>7, <1>8, <1>9, <1>10, <1>11

(* A commit keeps the types; a trail grows by at most two events.          *)
LEMMA CommitTypes ==
    ASSUME IInv, NEW t \in Scans, CommitScan(t)
    PROVE  TypeOK'
<1>1. TypeOK
  BY DEF IInv
<1>2. state' \in [Ids -> {"absent", "deleted"} \cup Live]
  BY <1>1 DEF TypeOK, CommitScan, Live
<1>3. sev' \in [Ids -> {"medium", "high"}]
  BY <1>1 DEF TypeOK, CommitScan
<1>4. sup' \in [Ids -> Ids \cup {NoId}]
  <2>1. inserted[t] \subseteq Ids
    BY <1>1 DEF TypeOK
  <2>2. \A f \in Ids : sup'[f] \in Ids \cup {NoId}
    BY ZenonT(60), <1>1, <2>1, CommitFacts DEF TypeOK
  <2>3. sup' = [f \in Ids |-> sup'[f]]
    BY DEF CommitScan
  <2> QED BY <2>2, <2>3
<1>5. trail' \in [Ids -> Seq(EventTypes)]
  <2> DEFINE A(f) == IF f \in inserted[t] THEN <<"discovered">> ELSE <<>>
             B(f) == IF f \in ReLeaks(t) THEN <<"re_leaked">> ELSE <<>>
  <2>1. <<"discovered">> \in Seq(EventTypes) /\ <<"re_leaked">> \in Seq(EventTypes) /\ <<>> \in Seq(EventTypes)
    BY DEF EventTypes
  <2>2. \A f \in Ids : A(f) \in Seq(EventTypes) /\ B(f) \in Seq(EventTypes) /\ trail[f] \in Seq(EventTypes)
    BY <1>1, <2>1 DEF TypeOK
  <2>3. trail' = [f \in Ids |-> trail[f] \o A(f) \o B(f)]
    BY DEF CommitScan
  <2> HIDE DEF A, B
  <2>4. \A f \in Ids : trail[f] \o A(f) \o B(f) \in Seq(EventTypes)
    BY <2>2
  <2> QED BY <2>3, <2>4
<1> QED BY <1>1, <1>2, <1>3, <1>4, <1>5, EndScanFacts DEF TypeOK, CommitScan

(* A commit: only what was absent becomes a finding, only what its scan    *)
(* locked is superseded, and by a finding of its own.                      *)
LEMMA CommitStep ==
    ASSUME IInv, NEW t \in Scans, CommitScan(t)
    PROVE  IInv'
<1> USE CommitFacts
<1>1. TypeOK /\ RowInv /\ NumberInv /\ InsertInv /\ LinkInv /\ ReLeakLinks
  BY DEF IInv
<1>2. EndScan(t)
  BY DEF CommitScan
<1>3. inserted[t] \subseteq Ids /\ links[t] \subseteq Ids \X Ids
  BY <1>1 DEF TypeOK
<1>4. TypeOK'
  BY CommitTypes
<1>5. RowInv'
  <2> SUFFICES ASSUME NEW f \in Ids, state'[f] \notin Live
               PROVE  sup'[f] = NoId /\ sev'[f] = "medium" /\ trail'[f] = <<>>
    BY DEF RowInv
  <2>1. f \notin inserted[t] /\ state'[f] = state[f] /\ sev'[f] = sev[f]
    BY DEF Live
  <2>2. sup[f] = NoId /\ sev[f] = "medium" /\ trail[f] = <<>>
    BY <1>1, <2>1 DEF RowInv
  <2>3. f \notin SelectedForUpdate(t)
    BY <2>1 DEF Live
  <2>4. trail'[f] = trail[f] \o <<>> \o <<>>
    BY <2>1 DEF CommitScan
  <2> QED BY <2>1, <2>2, <2>3, <2>4
<1>6. NumberInv'
  <2> SUFFICES ASSUME NEW f \in Ids, state'[f] # "absent", NEW j \in 1 .. f[2]
               PROVE  state'[<<f[1], j>>] # "absent"
    BY DEF NumberInv
  <2>1. <<f[1], j>> \in Ids /\ f = <<f[1], f[2]>> /\ f[2] \in Nat
    BY IdFacts, BoundsAssumption
  <2>2. state[<<f[1], j>>] # "absent" => state'[<<f[1], j>>] # "absent"
    BY <2>1
  <2>3. CASE f \in inserted[t]
    <3>1. CASE j = f[2]
      BY <2>1, <3>1
    <3>2. CASE j \in 1 .. (f[2] - 1)
      BY <1>1, <2>2, <2>3, <3>2 DEF InsertInv
    <3> QED BY <2>1, <3>1, <3>2
  <2>4. CASE f \notin inserted[t]
    BY <1>1, <2>2, <2>4 DEF NumberInv
  <2> QED BY <2>3, <2>4
<1>7. InsertInv'
  <2>1. ASSUME NEW u \in Scans, NEW f \in inserted'[u]
        PROVE  state'[f] = "absent" /\ \A j \in 1 .. (f[2] - 1) : state'[<<f[1], j>>] # "absent"
    <3>1. u # t /\ f \in inserted[u] /\ f \in Ids
      BY <1>1, <1>2, <2>1, EndScanFacts DEF TypeOK
    <3>2. f \notin inserted[t]
      BY <1>1, <3>1 DEF InsertInv
    <3>3. ASSUME NEW j \in 1 .. (f[2] - 1) PROVE state'[<<f[1], j>>] # "absent"
      <4>1. <<f[1], j>> \in Ids
        BY <3>1, IdFacts, BoundsAssumption
      <4>2. state[<<f[1], j>>] # "absent"
        BY <1>1, <3>1 DEF InsertInv
      <4> QED BY <4>1, <4>2
    <3> QED BY <1>1, <3>1, <3>2, <3>3 DEF InsertInv
  <2>2. ASSUME NEW u \in Scans, NEW v \in Scans \ {u} PROVE inserted'[u] \cap inserted'[v] = {}
    BY <1>1, <1>2, EndScanFacts DEF InsertInv
  <2>3. ASSUME NEW u \in Scans, cur'[u] # NoId PROVE cur'[u] \in inserted'[u] \ ReLeaks(u)'
    BY <1>1, <1>2, <2>3, EndScanFacts DEF InsertInv
  <2> QED BY <2>1, <2>2, <2>3 DEF InsertInv
<1>8. LinkInv'
  <2>1. ASSUME NEW u \in Scans, NEW l \in links'[u]
        PROVE  /\ l[2] \in inserted'[u]
               /\ state'[l[1]] = "remediated" /\ sup'[l[1]] = NoId
               /\ GroupOf[l[2][1]] = GroupOf[l[1][1]]
               /\ PasswordOf[l[2][1]] # PasswordOf[l[1][1]]
    <3>1. u # t /\ l \in links[u] /\ inserted'[u] = inserted[u]
      BY <1>1, <1>2, <2>1, EndScanFacts
    <3>2. l[1] \in Ids /\ l[1] \in SelectedForUpdate(u)
      BY <1>1, <3>1 DEF TypeOK, SelectedForUpdate
    <3>3. l[1] \notin SelectedForUpdate(t)
      BY <1>1, <3>1, <3>2 DEF LinkInv
    <3>4. state[l[1]] = "remediated" /\ sup[l[1]] = NoId
      BY <1>1, <3>1 DEF LinkInv
    <3>5. state'[l[1]] = "remediated" /\ sup'[l[1]] = NoId
      BY <3>2, <3>3, <3>4
    <3> QED BY <1>1, <3>1, <3>5 DEF LinkInv
  <2>2. ASSUME NEW u \in Scans, NEW l \in links'[u], NEW m \in links'[u], l[1] = m[1] \/ l[2] = m[2]
        PROVE  l = m
    BY <1>1, <1>2, <2>2, EndScanFacts DEF LinkInv
  <2>3. ASSUME NEW u \in Scans, NEW v \in Scans \ {u}
        PROVE  SelectedForUpdate(u)' \cap SelectedForUpdate(v)' = {}
    BY <1>1, <1>2, EndScanFacts DEF LinkInv
  <2> QED BY <2>1, <2>2, <2>3 DEF LinkInv
<1>9. ReLeakLinks'
  <2>1. ASSUME NEW f \in Ids, sup[f] # NoId PROVE f \in LiveIds
    BY <1>1, <2>1 DEF RowInv, LiveIds
  <2>2. LiveIds \subseteq LiveIds' /\ LiveIds' \subseteq Ids
    BY <1>3 DEF LiveIds, Live
  <2>3. inserted[t] \subseteq LiveIds' /\ inserted[t] \cap LiveIds = {}
    BY <1>3 DEF LiveIds, Live
  <2> SUFFICES ASSUME NEW f \in LiveIds', sup'[f] # NoId
               PROVE  /\ sup'[f] \in LiveIds'
                      /\ GroupOf[sup'[f][1]] = GroupOf[f[1]]
                      /\ PasswordOf[sup'[f][1]] # PasswordOf[f[1]]
                      /\ sev'[sup'[f]] = "high"
                      /\ \A g \in LiveIds' : sup'[g] = sup'[f] => g = f
    BY DEF ReLeakLinks
  <2>4. CASE f \in SelectedForUpdate(t)
    <3> DEFINE c == sup'[f]
    <3>1. <<f, c>> \in links[t] /\ c \in inserted[t] /\ c \in Ids
      BY <1>3, <2>4
    <3>2. <<f, c>>[1] = f /\ <<f, c>>[2] = c
      OBVIOUS
    <3>3. GroupOf[c[1]] = GroupOf[f[1]] /\ PasswordOf[c[1]] # PasswordOf[f[1]]
      BY <1>1, <3>1, <3>2 DEF LinkInv
    <3>4. sev'[c] = "high"
      <4>1. c \in ReLeaks(t)
        BY <3>1, <3>2 DEF ReLeaks
      <4> QED BY <4>1
    <3>5. ASSUME NEW g \in LiveIds', sup'[g] = c PROVE g = f
      <4>1. CASE g \in SelectedForUpdate(t)
        <5>1. <<g, c>> \in links[t] /\ <<g, c>>[1] = g /\ <<g, c>>[2] = c
          BY <3>5, <4>1
        <5>2. <<g, c>> = <<f, c>>
          BY <1>1, <3>1, <3>2, <5>1 DEF LinkInv
        <5> QED BY <3>2, <5>1, <5>2
      <4>2. CASE g \notin SelectedForUpdate(t)
        <5>1. sup[g] = c /\ g \in Ids
          BY <2>2, <3>5, <4>2
        <5>2. sup[g] # NoId
          BY <3>1, <5>1, IdFacts
        <5>3. c \in LiveIds
          BY <1>1, <2>1, <5>1, <5>2 DEF ReLeakLinks
        <5> QED BY <2>3, <3>1, <5>3
      <4> QED BY <4>1, <4>2
    <3> QED BY <2>3, <3>1, <3>3, <3>4, <3>5
  <2>5. CASE f \notin SelectedForUpdate(t)
    <3>1. sup'[f] = sup[f] /\ f \in Ids /\ f \in LiveIds
      BY <2>1, <2>2, <2>5
    <3>2. sup[f] \in LiveIds /\ sup[f] \in Ids /\ sup'[f] \in LiveIds'
      BY <1>1, <2>2, <3>1 DEF ReLeakLinks
    <3>3. sev'[sup[f]] = "high"
      BY <1>1, <3>1, <3>2 DEF ReLeakLinks
    <3>4. ASSUME NEW g \in LiveIds', sup'[g] = sup'[f] PROVE g = f
      <4>1. g \notin SelectedForUpdate(t)
        BY <2>3, <3>1, <3>2, <3>4
      <4>2. sup[g] = sup[f] /\ g \in LiveIds
        BY <2>1, <2>2, <3>1, <3>4, <4>1
      <4> QED BY <1>1, <3>1, <4>2 DEF ReLeakLinks
    <3> QED BY <1>1, <3>1, <3>2, <3>3, <3>4 DEF ReLeakLinks
  <2> QED BY <2>4, <2>5
<1> QED BY <1>4, <1>5, <1>6, <1>7, <1>8, <1>9 DEF IInv

(* A rollback leaves no trace.                                             *)
LEMMA AbortStep ==
    ASSUME IInv, NEW t \in Scans, AbortScan(t)
    PROVE  IInv'
<1>1. TypeOK /\ RowInv /\ NumberInv /\ InsertInv /\ LinkInv /\ ReLeakLinks
  BY DEF IInv
<1>2. EndScan(t) /\ UNCHANGED <<state, sup, sev, trail>>
  BY DEF AbortScan
<1>3. TypeOK'
  BY <1>1, <1>2, EndScanFacts DEF TypeOK
<1>4. RowInv' /\ NumberInv' /\ ReLeakLinks'
  BY <1>1, <1>2 DEF RowInv, NumberInv, ReLeakLinks, LiveIds
<1>5. InsertInv'
  BY <1>1, <1>2, EndScanFacts DEF InsertInv
<1>6. LinkInv'
  BY <1>1, <1>2, EndScanFacts DEF LinkInv
<1> QED BY <1>3, <1>4, <1>5, <1>6 DEF IInv

(* An analyst's request changes one live finding, which stays live, and    *)
(* closes or reopens none that a scan has selected for update.             *)
LEMMA RequestStep ==
    ASSUME IInv, NEW f \in Ids, state[f] \in Live, NEW e \in EventTypes,
           \A g \in Ids : g # f => state'[g] = state[g],
           state' \in [Ids -> {"absent", "deleted"} \cup Live], state'[f] \in Live,
           state'[f] = state[f] \/ Unlocked(f),
           trail' = [trail EXCEPT ![f] = Append(@, e)],
           UNCHANGED <<sup, sev, inserted, touched, links, cur, doomed>>
    PROVE  IInv'
<1>1. TypeOK /\ RowInv /\ NumberInv /\ InsertInv /\ LinkInv /\ ReLeakLinks
  BY DEF IInv
<1>2. TypeOK'
  <2>1. Append(trail[f], e) \in Seq(EventTypes)
    BY <1>1 DEF TypeOK
  <2>2. trail' \in [Ids -> Seq(EventTypes)]
    BY <1>1, <2>1 DEF TypeOK
  <2> QED BY <1>1, <2>2 DEF TypeOK
<1>3. RowInv'
  <2>1. \A g \in Ids : g # f => trail'[g] = trail[g]
    BY <1>1 DEF TypeOK
  <2> QED BY <1>1, <2>1 DEF RowInv
<1>4. \A g \in Ids : state'[g] = "absent" <=> state[g] = "absent"
  BY DEF Live
<1>5. NumberInv'
  BY <1>1, <1>4, IdFacts DEF NumberInv
<1>6. InsertInv'
  <2>1. ASSUME NEW t \in Scans, NEW g \in inserted[t]
        PROVE  state'[g] = "absent" /\ \A j \in 1 .. (g[2] - 1) : state'[<<g[1], j>>] # "absent"
    <3>1. g \in Ids
      BY <1>1 DEF TypeOK
    <3>2. g[2] \in Nat /\ \A j \in 1 .. g[2] : <<g[1], j>> \in Ids
      BY <3>1, IdFacts, BoundsAssumption
    <3>3. \A j \in 1 .. (g[2] - 1) : <<g[1], j>> \in Ids
      BY <3>2
    <3> QED BY <1>1, <1>4, <3>1, <3>3 DEF InsertInv
  <2>2. \A t \in Scans : ReLeaks(t)' = ReLeaks(t)
    BY DEF ReLeaks
  <2> QED BY <1>1, <2>1, <2>2 DEF InsertInv
<1>7. LinkInv'
  <2>1. ASSUME NEW t \in Scans, NEW l \in links[t] PROVE state'[l[1]] = "remediated"
    <3>1. l[1] \in Ids /\ state[l[1]] = "remediated"
      BY <1>1 DEF TypeOK, LinkInv
    <3>2. l[1] \in LockedBy(t)
      BY DEF LockedBy, SelectedForUpdate
    <3> QED BY <3>1, <3>2 DEF Unlocked
  <2> QED BY ZenonT(60), <1>1, <2>1 DEF LinkInv, SelectedForUpdate
<1>8. ReLeakLinks'
  <2>1. LiveIds' = LiveIds
    BY DEF LiveIds
  <2> QED BY <1>1, <2>1 DEF ReLeakLinks
<1> QED BY <1>2, <1>3, <1>5, <1>6, <1>7, <1>8 DEF IInv

(* The retention pass: the foreign keys keep what supersedes a finding     *)
(* alive, and it waits for what scans have selected.                       *)
LEMMA PurgeStepInv ==
    ASSUME IInv, NEW p \in Purgers, PurgeFindings(p)
    PROVE  IInv'
<1> DEFINE gone == doomed[p] \cap LiveIds
<1>1. TypeOK /\ RowInv /\ NumberInv /\ InsertInv /\ LinkInv /\ ReLeakLinks
  BY DEF IInv
<1>2. UNCHANGED <<inserted, touched, links, cur>> /\ doomed' \in [Purgers -> SUBSET Ids]
  BY <1>1 DEF PurgeFindings, EndPurge, scanVars, TypeOK
<1>3. /\ \A f \in Ids \ gone : /\ state'[f] = state[f] /\ sup'[f] = sup[f]
                               /\ sev'[f] = sev[f] /\ trail'[f] = trail[f]
      /\ \A f \in Ids \cap gone : /\ state'[f] = "deleted" /\ sup'[f] = NoId
                                 /\ sev'[f] = "medium" /\ trail'[f] = <<>>
  BY DEF PurgeFindings
<1>4. TypeOK'
  <2>1. state' \in [Ids -> {"absent", "deleted"} \cup Live]
    BY <1>1 DEF PurgeFindings, TypeOK
  <2>2. sup' \in [Ids -> Ids \cup {NoId}]
    BY <1>1 DEF PurgeFindings, TypeOK
  <2>3. sev' \in [Ids -> {"medium", "high"}]
    BY <1>1 DEF PurgeFindings, TypeOK
  <2>4. trail' \in [Ids -> Seq(EventTypes)]
    BY <1>1 DEF PurgeFindings, TypeOK
  <2> QED BY <1>1, <1>2, <2>1, <2>2, <2>3, <2>4 DEF TypeOK
<1>5. \A f \in gone : f \in Ids /\ state[f] \in Live /\ Unlocked(f)
  BY DEF PurgeFindings, LiveIds
<1>6. ASSUME NEW f \in LiveIds, f \notin gone PROVE f \in Ids /\ sup[f] \notin gone
  BY <1>6 DEF PurgeFindings, ForeignKeysHold, LiveIds
<1> HIDE DEF gone
<1>7. \A g \in Ids : state'[g] = "absent" <=> state[g] = "absent"
  BY <1>3, <1>5 DEF Live
<1>8. RowInv'
  BY <1>1, <1>3 DEF RowInv
<1>9. NumberInv'
  BY <1>1, <1>7, IdFacts DEF NumberInv
<1>10. InsertInv'
  <2>1. ASSUME NEW t \in Scans, NEW g \in inserted[t]
        PROVE  state'[g] = "absent" /\ \A j \in 1 .. (g[2] - 1) : state'[<<g[1], j>>] # "absent"
    <3>1. g \in Ids
      BY <1>1 DEF TypeOK
    <3>2. g[2] \in Nat /\ \A j \in 1 .. g[2] : <<g[1], j>> \in Ids
      BY <3>1, IdFacts, BoundsAssumption
    <3>3. \A j \in 1 .. (g[2] - 1) : <<g[1], j>> \in Ids
      BY <3>2
    <3> QED BY <1>1, <1>7, <3>1, <3>3 DEF InsertInv
  <2>2. \A t \in Scans : ReLeaks(t)' = ReLeaks(t)
    BY <1>2 DEF ReLeaks
  <2> QED BY <1>1, <1>2, <2>1, <2>2 DEF InsertInv
<1>11. LinkInv'
  <2>1. ASSUME NEW t \in Scans, NEW l \in links[t]
        PROVE  state'[l[1]] = "remediated" /\ sup'[l[1]] = NoId
    <3>1. l[1] \in Ids /\ state[l[1]] = "remediated" /\ sup[l[1]] = NoId
      BY <1>1 DEF TypeOK, LinkInv
    <3>2. l[1] \in LockedBy(t)
      BY DEF LockedBy, SelectedForUpdate
    <3>3. l[1] \notin gone
      BY <1>5, <3>2 DEF Unlocked
    <3> QED BY <1>3, <3>1, <3>3
  <2> QED BY ZenonT(60), <1>1, <1>2, <2>1 DEF LinkInv, SelectedForUpdate
<1>12. ReLeakLinks'
  <2>1. LiveIds' = LiveIds \ gone
    BY <1>3, <1>5 DEF LiveIds, Live
  <2> SUFFICES ASSUME NEW f \in LiveIds \ gone, sup'[f] # NoId
               PROVE  /\ sup'[f] \in LiveIds \ gone
                      /\ GroupOf[sup'[f][1]] = GroupOf[f[1]]
                      /\ PasswordOf[sup'[f][1]] # PasswordOf[f[1]]
                      /\ sev'[sup'[f]] = "high"
                      /\ \A g \in LiveIds \ gone : sup'[g] = sup'[f] => g = f
    BY <2>1 DEF ReLeakLinks
  <2>2. \A g \in LiveIds \ gone : g \in Ids /\ sup'[g] = sup[g]
    BY <1>3 DEF LiveIds
  <2>3. sup[f] \in LiveIds \ gone /\ sup[f] \in Ids
    BY <1>1, <1>6, <2>2 DEF ReLeakLinks, LiveIds
  <2>4. sev'[sup[f]] = sev[sup[f]]
    BY <1>3, <2>3
  <2> QED BY <1>1, <2>2, <2>3, <2>4 DEF ReLeakLinks
<1> QED BY <1>4, <1>8, <1>9, <1>10, <1>11, <1>12 DEF IInv

(* The steps that concern neither the findings nor what scans write.       *)
LEMMA OtherSteps ==
    ASSUME IInv,
           \/ \E p \in Purgers : PurgeSelect(p) \/ PurgeEvents(p) \/ PurgeFails(p)
           \/ SetPolicy \/ Tick \/ UNCHANGED vars
    PROVE  IInv' /\ UNCHANGED rowVars
<1>1. doomed \in [Purgers -> SUBSET Ids] /\ touched \in [Scans -> SUBSET Ids]
  BY DEF IInv, TypeOK
<1>2. ASSUME NEW p \in Purgers, PurgeSelect(p) PROVE IInv' /\ UNCHANGED rowVars
  <2>1. Expired \subseteq Ids
    BY DEF Expired
  <2>2. doomed' \in [Purgers -> SUBSET Ids]
    BY <1>1, <1>2, <2>1 DEF PurgeSelect
  <2> QED BY <1>1, <1>2, <2>2, QuietStep DEF PurgeSelect, rowVars, scanVars
<1>3. ASSUME NEW p \in Purgers, PurgeEvents(p) PROVE IInv' /\ UNCHANGED rowVars
  BY <1>1, <1>3, QuietStep DEF PurgeEvents, rowVars, scanVars
<1>4. ASSUME NEW p \in Purgers, PurgeFails(p) PROVE IInv' /\ UNCHANGED rowVars
  <2>1. doomed' \in [Purgers -> SUBSET Ids]
    BY <1>1, <1>4 DEF PurgeFails, EndPurge
  <2> QED BY <1>1, <1>4, <2>1, QuietStep DEF PurgeFails, EndPurge, rowVars, scanVars
<1>5. CASE SetPolicy \/ Tick
  BY <1>1, <1>5, QuietStep DEF SetPolicy, Tick, rowVars, scanVars, purgeVars
<1>6. CASE UNCHANGED vars
  BY <1>1, <1>6, QuietStep DEF vars, rowVars, scanVars, purgeVars
<1> QED BY <1>2, <1>3, <1>4, <1>5, <1>6

(* An analyst's three requests are requests in the sense above.            *)
LEMMA AnalystSteps ==
    ASSUME IInv, NEW f \in Ids, Remediate(f) \/ Unremediate(f) \/ RevealPassword(f)
    PROVE  IInv' /\ UNCHANGED <<sup, sev>>
<1>1. state \in [Ids -> {"absent", "deleted"} \cup Live]
  BY DEF IInv, TypeOK
<1>2. CASE Remediate(f)
  <2>1. state' \in [Ids -> {"absent", "deleted"} \cup Live] /\ state'[f] \in Live
    BY <1>1, <1>2 DEF Remediate, Live
  <2> QED BY <1>1, <1>2, <2>1, RequestStep DEF Remediate, Live, EventTypes, scanVars, purgeVars
<1>3. CASE Unremediate(f)
  <2>1. state' \in [Ids -> {"absent", "deleted"} \cup Live] /\ state'[f] \in Live
    BY <1>1, <1>3 DEF Unremediate, Live
  <2> QED BY <1>1, <1>3, <2>1, RequestStep DEF Unremediate, Live, EventTypes, scanVars, purgeVars
<1>4. CASE RevealPassword(f)
  BY <1>1, <1>4, RequestStep DEF RevealPassword, EventTypes, scanVars, purgeVars
<1> QED BY <1>2, <1>3, <1>4

(* Every step keeps the inductive invariant.                               *)
LEMMA IInvStep == IInv /\ [Next]_vars => IInv'
<1> SUFFICES ASSUME IInv, [Next]_vars PROVE IInv'
  OBVIOUS
<1> QED
  BY UpsertStep, LinkStep, CommitStep, AbortStep, PurgeStepInv, OtherSteps, AnalystSteps
  DEF Next, PurgeStep
-----------------------------------------------------------------------------
(* link_releak: whoever is superseded is superseded by a live, HIGH        *)
(* finding of the same identity and source with another password, and by   *)
(* one that supersedes nothing else, however the scans, the analysts and   *)
(* the retention pass interleave.                                          *)
THEOREM ReLeakLinksHold == Spec => []ReLeakLinks
<1>1. IInv => ReLeakLinks
  BY DEF IInv
<1> QED BY <1>1, IInvInit, IInvStep, PTL DEF Spec

(* find_remediated_predecessor's FOR UPDATE: no live finding's             *)
(* superseded_by_id is ever overwritten.                                   *)
THEOREM NeverRelinkedHolds == Spec => NeverRelinked
<1> DEFINE A == \A f \in Ids : sup[f] # NoId /\ state'[f] \in Live => sup'[f] = sup[f]
<1>1. IInv /\ [Next]_vars => [A]_vars
  <2> SUFFICES ASSUME IInv, [Next]_vars PROVE A
    OBVIOUS
  <2>1. ASSUME NEW t \in Scans, NEW rec \in Records, Upsert(t, rec) PROVE A
    BY <2>1 DEF Upsert, rowVars
  <2>2. ASSUME NEW t \in Scans, Link(t) \/ AbortScan(t) PROVE A
    BY <2>2 DEF Link, AbortScan, rowVars
  <2>3. ASSUME NEW t \in Scans, CommitScan(t) PROVE A
    BY <2>3, CommitFacts
  <2>4. ASSUME NEW p \in Purgers, PurgeFindings(p) PROVE A
    BY <2>4 DEF PurgeFindings, Live
  <2>5. ASSUME NEW f \in Ids, Remediate(f) \/ Unremediate(f) \/ RevealPassword(f) PROVE A
    BY <2>5, AnalystSteps
  <2> HIDE DEF A
  <2>6. ASSUME UNCHANGED rowVars PROVE A
    BY <2>6 DEF A, rowVars
  <2> QED BY <2>1, <2>2, <2>3, <2>4, <2>5, <2>6, OtherSteps DEF Next, PurgeStep
<1> QED BY <1>1, IInvInit, IInvStep, PTL DEF Spec, NeverRelinked

-----------------------------------------------------------------------------
(* A step that only removes findings and links nothing ends no chain.      *)
LEMMA ChainsKept ==
    ASSUME ChainsEnd, LiveIds' \subseteq LiveIds, \A f \in LiveIds' : sup'[f] = sup[f]
    PROVE  ChainsEnd'
<1> SUFFICES ASSUME NEW S \in (SUBSET LiveIds') \ {{}} PROVE \E f \in S : sup'[f] \notin S
  BY DEF ChainsEnd
<1>1. S \in (SUBSET LiveIds) \ {{}}
  OBVIOUS
<1>2. PICK f \in S : sup[f] \notin S
  BY <1>1 DEF ChainsEnd
<1> QED BY <1>2

(* A commit links old findings to new ones only, and a new one to nothing. *)
LEMMA ChainsCommit ==
    ASSUME IInv, ChainsEnd, NEW t \in Scans, CommitScan(t)
    PROVE  ChainsEnd'
<1> SUFFICES ASSUME NEW S \in (SUBSET LiveIds') \ {{}} PROVE \E f \in S : sup'[f] \notin S
  BY DEF ChainsEnd
<1>1. S \subseteq Ids /\ NoId \notin S
  BY IdFacts DEF LiveIds
<1>2. CASE S \cap inserted[t] # {}
  BY <1>1, <1>2, CommitFacts
<1>3. CASE S \cap inserted[t] = {}
  <2>1. S \subseteq LiveIds
    BY <1>1, <1>3, CommitFacts DEF LiveIds
  <2>2. PICK f \in S : sup[f] \notin S
    BY <2>1 DEF ChainsEnd
  <2>3. CASE f \in SelectedForUpdate(t)
    <3>1. sup'[f] \in inserted[t]
      BY <2>3, CommitFacts
    <3> QED BY <1>3, <3>1
  <2>4. CASE f \notin SelectedForUpdate(t)
    <3>1. sup'[f] = sup[f]
      BY <1>1, <2>4, CommitFacts
    <3> QED BY <2>2, <3>1
  <2> QED BY <2>3, <2>4
<1> QED BY <1>2, <1>3

(* No step closes a chain of superseded findings into a ring.              *)
LEMMA ChainsStep == IInv /\ ChainsEnd /\ [Next]_vars => ChainsEnd'
<1> SUFFICES ASSUME IInv, ChainsEnd, [Next]_vars PROVE ChainsEnd'
  OBVIOUS
<1>1. ASSUME UNCHANGED rowVars PROVE ChainsEnd'
  BY <1>1, ChainsKept DEF rowVars, LiveIds
<1>2. ASSUME NEW t \in Scans, NEW rec \in Records, Upsert(t, rec) PROVE ChainsEnd'
  BY <1>1, <1>2 DEF Upsert
<1>3. ASSUME NEW t \in Scans, Link(t) PROVE ChainsEnd'
  BY <1>1, <1>3 DEF Link
<1>4. ASSUME NEW t \in Scans, AbortScan(t) PROVE ChainsEnd'
  BY <1>1, <1>4 DEF AbortScan, EndScan, rowVars
<1>5. ASSUME NEW f \in Ids, Remediate(f) \/ Unremediate(f) \/ RevealPassword(f) PROVE ChainsEnd'
  <2>1. state \in [Ids -> {"absent", "deleted"} \cup Live]
    BY DEF IInv, TypeOK
  <2>2. LiveIds' = LiveIds
    BY <1>5, <2>1 DEF Remediate, Unremediate, RevealPassword, LiveIds, Live
  <2> QED BY <1>5, <2>2, AnalystSteps, ChainsKept
<1>6. ASSUME NEW p \in Purgers, PurgeFindings(p) PROVE ChainsEnd'
  <2>1. LiveIds' \subseteq LiveIds /\ \A f \in LiveIds' : sup'[f] = sup[f]
    BY <1>6 DEF PurgeFindings, LiveIds, Live
  <2> QED BY <2>1, ChainsKept
<1> QED BY <1>1, <1>2, <1>3, <1>4, <1>5, <1>6, ChainsCommit, OtherSteps DEF Next, PurgeStep

(* Following superseded_by_id ends: no set of live findings is closed      *)
(* under it, for any number of findings and re-leaks.                      *)
THEOREM ChainsEndHolds == Spec => []ChainsEnd
<1>1. Init => ChainsEnd
  BY DEF Init, ChainsEnd, LiveIds, Live
<1> QED BY <1>1, IInvInit, IInvStep, ChainsStep, PTL DEF Spec
-----------------------------------------------------------------------------
Occurs(s, e) == Cardinality({i \in DOMAIN s : s[i] = e})

(* What an event adds to the events of a trail.                            *)
LEMMA OccursAppend ==
    ASSUME NEW s \in Seq(EventTypes), NEW x \in EventTypes, NEW e
    PROVE  /\ Occurs(s, e) \in Nat
           /\ Occurs(Append(s, x), e) = Occurs(s, e) + IF x = e THEN 1 ELSE 0
<1> DEFINE S == {i \in DOMAIN s : s[i] = e}
           T == {i \in DOMAIN Append(s, x) : Append(s, x)[i] = e}
           n == Len(s) + 1
<1>1. IsFiniteSet(S) /\ Cardinality(S) \in Nat
  <2>1. IsFiniteSet(1 .. Len(s))
    BY FS_Interval
  <2>2. S \subseteq 1 .. Len(s)
    OBVIOUS
  <2> QED BY <2>1, <2>2, FS_Subset, FS_CardinalityType
<1>2. T = IF x = e THEN S \cup {n} ELSE S
  OBVIOUS
<1>3. n \notin S
  OBVIOUS
<1>4. Cardinality(T) = Cardinality(S) + IF x = e THEN 1 ELSE 0
  <2> HIDE DEF S, T, n
  <2>1. Cardinality(S \cup {n}) = Cardinality(S) + 1
    BY <1>1, <1>3, FS_AddElement
  <2> QED BY <1>1, <1>2, <2>1
<1> QED BY <1>1, <1>4 DEF Occurs

(* The trail of a finding just discovered, as a re-leak or not.            *)
LEMMA OccursNew ==
    ASSUME NEW e \in EventTypes, NEW s, s = <<>> \o <<"discovered">>
    PROVE  /\ s \in Seq(EventTypes)
           /\ Occurs(s \o <<>>, e) = IF e = "discovered" THEN 1 ELSE 0
           /\ Occurs(s \o <<"re_leaked">>, e) = IF e \in {"discovered", "re_leaked"} THEN 1 ELSE 0
<1>1. <<>> \in Seq(EventTypes) /\ s = Append(<<>>, "discovered") /\ s \in Seq(EventTypes)
  BY DEF EventTypes
<1>2. Occurs(<<>>, e) = 0
  <2>1. {i \in DOMAIN <<>> : <<>>[i] = e} = {}
    OBVIOUS
  <2> QED BY <2>1, FS_EmptySet DEF Occurs
<1>3. "discovered" \in EventTypes /\ "re_leaked" \in EventTypes
  BY DEF EventTypes
<1>4. Occurs(s, e) = IF "discovered" = e THEN 1 ELSE 0
  <2>1. Occurs(Append(<<>>, "discovered"), e) = Occurs(<<>>, e) + IF "discovered" = e THEN 1 ELSE 0
    BY <1>1, <1>3, OccursAppend
  <2> QED BY <1>1, <1>2, <2>1
<1>5. s \o <<>> = s /\ s \o <<"re_leaked">> = Append(s, "re_leaked")
  BY <1>1, <1>3
<1>6. Occurs(Append(s, "re_leaked"), e) = Occurs(s, e) + IF "re_leaked" = e THEN 1 ELSE 0
  BY ZenonT(60), <1>1, <1>3, OccursAppend
<1>7. Occurs(s \o <<"re_leaked">>, e) = IF e \in {"discovered", "re_leaked"} THEN 1 ELSE 0
  <2>1. Occurs(s \o <<"re_leaked">>, e) = Occurs(s, e) + IF "re_leaked" = e THEN 1 ELSE 0
    BY <1>5, <1>6
  <2>2. CASE e = "discovered"
    <3>1. Occurs(s, e) = 1
      BY <1>4, <2>2
    <3>2. Occurs(s \o <<"re_leaked">>, e) = 1 + 0
      BY <2>1, <2>2, <3>1
    <3> QED BY <2>2, <3>2
  <2>3. CASE e # "discovered"
    <3>1. Occurs(s, e) = 0
      BY <1>4, <2>3
    <3>2. Occurs(s \o <<"re_leaked">>, e) = 0 + IF "re_leaked" = e THEN 1 ELSE 0
      BY <2>1, <3>1
    <3> QED BY <2>3, <3>2
  <2> QED BY <2>2, <2>3
<1>8. Occurs(s \o <<>>, e) = IF e = "discovered" THEN 1 ELSE 0
  BY <1>4, <1>5
<1> QED BY <1>1, <1>7, <1>8

(* TrailAgrees for one finding: its trail s tells its state and severity.  *)
AgreesWith(s, st, sv) ==
    /\ Occurs(s, "discovered") = 1
    /\ Occurs(s, "re_leaked") = IF sv = "high" THEN 1 ELSE 0
    /\ Occurs(s, "remediated") - Occurs(s, "unremediated") = IF st = "remediated" THEN 1 ELSE 0

LEMMA AgreesAll == TrailAgrees <=> \A f \in LiveIds : AgreesWith(trail[f], state[f], sev[f])
BY DEF TrailAgrees, AgreesWith, Occurs, Count

(* Every step that changes a finding's state or severity says so in its    *)
(* trail.                                                                  *)
LEMMA TrailStep == IInv /\ TrailAgrees /\ [Next]_vars => TrailAgrees'
<1> SUFFICES ASSUME IInv, TrailAgrees, [Next]_vars PROVE TrailAgrees'
  OBVIOUS
<1>1. TypeOK /\ RowInv
  BY DEF IInv
<1>2. TrailAgrees' <=> \A f \in LiveIds' : AgreesWith(trail'[f], state'[f], sev'[f])
  BY DEF TrailAgrees, AgreesWith, Occurs, Count
<1>3. \A f \in LiveIds : AgreesWith(trail[f], state[f], sev[f])
  BY AgreesAll
<1>4. ASSUME UNCHANGED rowVars PROVE TrailAgrees'
  <2>1. UNCHANGED <<state, sev, trail>> /\ LiveIds' = LiveIds
    BY <1>4 DEF rowVars, LiveIds
  <2> QED BY <1>2, <1>3, <2>1
<1>5. ASSUME NEW t \in Scans, NEW rec \in Records, Upsert(t, rec) PROVE TrailAgrees'
  BY <1>4, <1>5 DEF Upsert
<1>6. ASSUME NEW t \in Scans, Link(t) PROVE TrailAgrees'
  BY <1>4, <1>6 DEF Link
<1>7. ASSUME NEW t \in Scans, AbortScan(t) PROVE TrailAgrees'
  BY <1>4, <1>7 DEF AbortScan, EndScan, rowVars
<1>8. ASSUME NEW t \in Scans, CommitScan(t) PROVE TrailAgrees'
  <2> SUFFICES ASSUME NEW f \in LiveIds' PROVE AgreesWith(trail'[f], state'[f], sev'[f])
    BY <1>2
  <2>1. f \in Ids /\ trail[f] \in Seq(EventTypes)
    BY <1>1 DEF LiveIds, TypeOK
  <2>2. CASE f \in inserted[t]
    <3>1. state[f] = "absent" /\ state'[f] = "open"
      BY <1>8, <2>2, CommitFacts
    <3>2. trail[f] = <<>> /\ sev[f] = "medium"
      BY <1>1, <2>1, <3>1 DEF RowInv, Live
    <3>3. CASE f \in ReLeaks(t)
      <4>1. sev'[f] = "high"
        BY <1>8, <3>3, CommitFacts
      <4>2. trail'[f] = <<>> \o <<"discovered">> \o <<"re_leaked">>
        BY <1>8, <2>1, <2>2, <3>2, <3>3 DEF CommitScan
      <4> QED BY <3>1, <4>1, <4>2, OccursNew DEF AgreesWith, EventTypes
    <3>4. CASE f \notin ReLeaks(t)
      <4>1. sev'[f] = "medium"
        BY <1>8, <2>1, <3>2, <3>4 DEF CommitScan
      <4>2. trail'[f] = <<>> \o <<"discovered">> \o <<>>
        BY <1>8, <2>1, <2>2, <3>2, <3>4 DEF CommitScan
      <4> QED BY <3>1, <4>1, <4>2, OccursNew DEF AgreesWith, EventTypes
    <3> QED BY <3>3, <3>4
  <2>3. CASE f \notin inserted[t]
    <3>1. state'[f] = state[f] /\ sev'[f] = sev[f] /\ f \notin ReLeaks(t)
      BY <1>8, <2>1, <2>3, CommitFacts
    <3>2. trail'[f] = trail[f] \o <<>> \o <<>>
      BY <1>8, <2>1, <2>3, <3>1 DEF CommitScan
    <3>3. trail'[f] = trail[f]
      BY <2>1, <3>2
    <3>4. f \in LiveIds
      BY <2>1, <3>1 DEF LiveIds
    <3> QED BY <1>3, <3>1, <3>3, <3>4
  <2> QED BY <2>2, <2>3
<1>9. ASSUME NEW f \in Ids, Remediate(f) \/ Unremediate(f) \/ RevealPassword(f) PROVE TrailAgrees'
  <2>1. /\ state \in [Ids -> {"absent", "deleted"} \cup Live]
        /\ trail \in [Ids -> Seq(EventTypes)]
        /\ sev' = sev
    BY <1>1, <1>9, AnalystSteps DEF TypeOK
  <2>2. f \in LiveIds /\ LiveIds' = LiveIds
    BY <1>9, <2>1 DEF Remediate, Unremediate, RevealPassword, LiveIds, Live
  <2>3. \A g \in Ids \ {f} : state'[g] = state[g] /\ trail'[g] = trail[g]
    BY <1>9, <2>1 DEF Remediate, Unremediate, RevealPassword
  <2>4. trail[f] \in Seq(EventTypes) /\ AgreesWith(trail[f], state[f], sev[f])
    BY <1>3, <2>1, <2>2
  <2>5. AgreesWith(trail'[f], state'[f], sev'[f])
    <3>1. \A e \in EventTypes : Occurs(trail[f], e) \in Nat
      BY <2>4, OccursAppend
    <3>2. CASE Remediate(f)
      <4>1. state[f] = "open" /\ state'[f] = "remediated" /\ trail'[f] = Append(trail[f], "remediated")
        BY <2>1, <3>2 DEF Remediate
      <4>2. \A e \in EventTypes : Occurs(trail'[f], e) = Occurs(trail[f], e) + IF "remediated" = e THEN 1 ELSE 0
        BY <2>4, <4>1, OccursAppend DEF EventTypes
      <4>3. /\ Occurs(trail'[f], "discovered") = Occurs(trail[f], "discovered")
            /\ Occurs(trail'[f], "re_leaked") = Occurs(trail[f], "re_leaked")
            /\ Occurs(trail'[f], "remediated") = Occurs(trail[f], "remediated") + 1
            /\ Occurs(trail'[f], "unremediated") = Occurs(trail[f], "unremediated")
        BY <3>1, <4>2 DEF EventTypes
      <4>4. Occurs(trail[f], "remediated") \in Nat /\ Occurs(trail[f], "unremediated") \in Nat
        BY <3>1 DEF EventTypes
      <4>5. Occurs(trail[f], "remediated") - Occurs(trail[f], "unremediated") = 0
        BY <2>4, <4>1 DEF AgreesWith
      <4> QED BY <2>1, <2>4, <4>1, <4>3, <4>4, <4>5 DEF AgreesWith
    <3>3. CASE Unremediate(f)
      <4>1. state[f] = "remediated" /\ state'[f] = "open" /\ trail'[f] = Append(trail[f], "unremediated")
        BY <2>1, <3>3 DEF Unremediate
      <4>2. \A e \in EventTypes : Occurs(trail'[f], e) = Occurs(trail[f], e) + IF "unremediated" = e THEN 1 ELSE 0
        BY <2>4, <4>1, OccursAppend DEF EventTypes
      <4> QED BY <2>1, <2>4, <3>1, <4>1, <4>2 DEF AgreesWith, EventTypes
    <3>4. CASE RevealPassword(f)
      <4>1. state'[f] = state[f] /\ trail'[f] = Append(trail[f], "password_viewed")
        BY <2>1, <3>4 DEF RevealPassword
      <4>2. \A e \in EventTypes : Occurs(trail'[f], e) = Occurs(trail[f], e) + IF "password_viewed" = e THEN 1 ELSE 0
        BY <2>4, <4>1, OccursAppend DEF EventTypes
      <4> QED BY <2>1, <2>4, <3>1, <4>1, <4>2 DEF AgreesWith, EventTypes
    <3> QED BY <1>9, <3>2, <3>3, <3>4
  <2>6. LiveIds \subseteq Ids
    BY DEF LiveIds
  <2> QED BY <1>2, <1>3, <2>1, <2>2, <2>3, <2>5, <2>6
<1>10. ASSUME NEW p \in Purgers, PurgeFindings(p) PROVE TrailAgrees'
  <2>1. \A f \in LiveIds' : /\ f \in LiveIds /\ state'[f] = state[f]
                            /\ sev'[f] = sev[f] /\ trail'[f] = trail[f]
    BY <1>10 DEF PurgeFindings, LiveIds, Live
  <2> QED BY <1>2, <1>3, <2>1
<1> QED BY <1>4, <1>5, <1>6, <1>7, <1>8, <1>9, <1>10, OtherSteps DEF Next, PurgeStep

(* finding_events agree with findings: the trail of every live finding     *)
(* has one DISCOVERED event, a RE_LEAKED one exactly if it is HIGH, and    *)
(* tells whether it is remediated.                                         *)
THEOREM TrailAgreesHolds == Spec => []TrailAgrees
<1>1. Init => TrailAgrees
  BY DEF Init, TrailAgrees, LiveIds, Live
<1> QED BY <1>1, IInvInit, IInvStep, TrailStep, PTL DEF Spec
=============================================================================
