------------------------------ MODULE Findings ------------------------------
(***************************************************************************)
(* The life of a finding (src/app/ingest.py, remediation.py, retention.py  *)
(* and the analyst's password view in routers/analyst.py): scans discover  *)
(* it and link re-leaks, analysts close and reopen it, and the worker's    *)
(* retention pass deletes it.                                              *)
(*                                                                         *)
(* Scans ingest inside one long transaction each, holding row locks until  *)
(* it commits; their writes are kept apart until then.  The retention pass *)
(* is one transaction of three statements, each of which sees what others  *)
(* have committed in between.  Analysts' requests lock one finding and     *)
(* commit at once, so each is one action.  A lock held by somebody else is *)
(* a guard: the statement waits.                                           *)
(*                                                                         *)
(* A vendor record stands for its fingerprint.  A finding's id is a record *)
(* and an incarnation: a record seen again after its finding was deleted   *)
(* becomes a new finding with a new id.                                    *)
(***************************************************************************)
EXTENDS Integers, FiniteSets, Sequences

CONSTANTS
    Records,      \* vendor records, by fingerprint
    Sources,      \* breach_sources rows: a source name and a breach date
    SourceOf,     \* the source of a record
    GroupOf,      \* subject, identity key and source name of a record
    NoGroup,      \* the group of records without identity or source name
    PasswordOf,   \* password hash of a record
    NoPassword,   \* the hash of a record without a password
    Scans,        \* ingesting transactions
    Purgers,      \* workers running the retention pass
    Policies,     \* retention modes a super-admin may choose
    Days,         \* retention_days of the "days" mode
    Limit,        \* rows one retention pass selects
    Incarnations, \* bound on the findings a record may become in turn
    MaxTime,      \* bound on the clock
    MaxTrail,     \* bound on a finding's events
    MaxReopens    \* bound on un-remediations

ASSUME RecordsAssumption == IsFiniteSet(Records)
ASSUME SourceOfAssumption == SourceOf \in [Records -> Sources]
ASSUME PoliciesAssumption == Policies \subseteq {"indefinite", "none", "days"}
ASSUME BoundsAssumption ==
    /\ Days \in Nat \ {0}
    /\ Limit \in Nat \ {0}
    /\ Incarnations \in Nat \ {0}
    /\ MaxTime \in Nat
    /\ MaxTrail \in Nat
    /\ MaxReopens \in Nat

Ids == Records \X (1 .. Incarnations)
NoId == <<>>
Live == {"open", "remediated"}
EventTypes == {"discovered", "re_leaked", "remediated", "unremediated", "password_viewed"}

VARIABLES
    now,       \* the clock
    policy,    \* the stored retention mode
    state,     \* of each finding: absent, open, remediated or deleted
    remAt,     \* findings.remediated_at
    sup,       \* findings.superseded_by_id
    sev,       \* findings.severity
    trail,     \* the finding's finding_events, in order
    sources,   \* breach_sources rows locked by each scan's transaction
    inserted,  \* findings it has inserted
    touched,   \* findings it has updated by upsert
    links,     \* pairs <<previous, current>> it has linked as re-leaks
    cur,       \* inserted finding whose predecessor it has yet to look up
    stage,     \* where each retention pass stands
    doomed,    \* ids the pass has selected
    cut,       \* events of each selected finding the pass has deleted
    reopens    \* un-remediations so far

rowVars == <<state, remAt, sup, sev, trail>>
scanVars == <<sources, inserted, touched, links, cur>>
purgeVars == <<stage, doomed, cut>>
vars == <<now, policy, rowVars, scanVars, purgeVars, reopens>>

Init ==
    /\ now = 0
    /\ policy \in Policies
    /\ state = [f \in Ids |-> "absent"]
    /\ remAt = [f \in Ids |-> 0]
    /\ sup = [f \in Ids |-> NoId]
    /\ sev = [f \in Ids |-> "medium"]
    /\ trail = [f \in Ids |-> <<>>]
    /\ sources = [t \in Scans |-> {}]
    /\ inserted = [t \in Scans |-> {}]
    /\ touched = [t \in Scans |-> {}]
    /\ links = [t \in Scans |-> {}]
    /\ cur = [t \in Scans |-> NoId]
    /\ stage = [p \in Purgers |-> "idle"]
    /\ doomed = [p \in Purgers |-> {}]
    /\ cut = [p \in Purgers |-> [f \in Ids |-> 0]]
    /\ reopens = 0

-----------------------------------------------------------------------------
(* Locks.  An upsert that updates a finding, and a predecessor selected    *)
(* FOR UPDATE, stay locked until their scan commits or rolls back; so do   *)
(* the breach_sources rows resolve_source upserts, and the one the         *)
(* predecessor query joins.                                                *)
SelectedForUpdate(t) == {l[1] : l \in links[t]}
LockedBy(t) == touched[t] \cup SelectedForUpdate(t)
Unlocked(f) == \A t \in Scans : f \notin LockedBy(t)
FreeFor(t, f) == \A u \in Scans \ {t} : f \notin LockedBy(u)
SourceFreeFor(t, s) == \A u \in Scans \ {t} : s \notin sources[u]

LiveIds == {f \in Ids : state[f] \in Live}

(* The finding that holds a record's fingerprint, committed or inserted by *)
(* the transaction itself.                                                 *)
Holders(t, rec) == {f \in LiveIds \cup inserted[t] : f[1] = rec}

(* The id of the finding a record becomes next.                            *)
FreshId(rec) ==
    <<rec, 1 + Cardinality({f \in Ids : f[1] = rec /\ state[f] # "absent"})>>

(* uq_breach_sources_identity and uq_findings_fingerprint: both upserts    *)
(* wait for whoever has written the same key and not committed.            *)
KeysFree(t, rec) ==
    /\ SourceFreeFor(t, SourceOf[rec])
    /\ \A u \in Scans \ {t} : FreshId(rec) \notin inserted[u]

(* Variant for mutation: a record seen again is looked up for predecessors *)
(* as a new one is.                                                        *)
UpsertAlwaysNew(t, rec) ==
    /\ cur[t] = NoId
    /\ KeysFree(t, rec)
    /\ sources' = [sources EXCEPT ![t] = @ \cup {SourceOf[rec]}]
    /\ \/ \E f \in Holders(t, rec) :
            /\ FreeFor(t, f)
            /\ touched' = [touched EXCEPT ![t] = @ \cup ({f} \ inserted[t])]
            /\ cur' = [cur EXCEPT ![t] = f]
            /\ UNCHANGED inserted
       \/ /\ Holders(t, rec) = {}
          /\ FreshId(rec) \in Ids
          /\ inserted' = [inserted EXCEPT ![t] = @ \cup {FreshId(rec)}]
          /\ cur' = [cur EXCEPT ![t] = FreshId(rec)]
          /\ UNCHANGED touched
    /\ UNCHANGED <<now, policy, rowVars, links, purgeVars, reopens>>

(* ingest_records, up to the event of a new finding: resolve_source and    *)
(* upsert_finding.  A record already held is refreshed and nothing more;   *)
(* a new one is recorded with its DISCOVERED event.                        *)
Upsert(t, rec) ==
    /\ cur[t] = NoId
    /\ KeysFree(t, rec)
    /\ sources' = [sources EXCEPT ![t] = @ \cup {SourceOf[rec]}]
    /\ \/ \E f \in Holders(t, rec) :
            /\ FreeFor(t, f)
            /\ touched' = [touched EXCEPT ![t] = @ \cup ({f} \ inserted[t])]
            /\ UNCHANGED <<inserted, cur>>
       \/ /\ Holders(t, rec) = {}
          /\ FreshId(rec) \in Ids
          /\ inserted' = [inserted EXCEPT ![t] = @ \cup {FreshId(rec)}]
          /\ cur' = [cur EXCEPT ![t] = FreshId(rec)]
          /\ UNCHANGED touched
    /\ UNCHANGED <<now, policy, rowVars, links, purgeVars, reopens>>

(* Variant for mutation: a predecessor may be superseded already.          *)
PredecessorsSuperseded(t) ==
    {f \in Ids :
        /\ GroupOf[cur[t][1]] # NoGroup
        /\ GroupOf[f[1]] = GroupOf[cur[t][1]]
        /\ f # cur[t]
        /\ state[f] = "remediated"
        /\ PasswordOf[f[1]] # PasswordOf[cur[t][1]]}

(* find_remediated_predecessor's WHERE clause.                             *)
Predecessors(t) ==
    {f \in Ids :
        /\ GroupOf[cur[t][1]] # NoGroup
        /\ GroupOf[f[1]] = GroupOf[cur[t][1]]
        /\ f # cur[t]
        /\ state[f] = "remediated"
        /\ sup[f] = NoId
        /\ f \notin SelectedForUpdate(t)
        /\ PasswordOf[f[1]] # PasswordOf[cur[t][1]]}

(* Its ORDER BY remediated_at DESC LIMIT 1 FOR UPDATE, and link_releak.    *)
Link(t) ==
    /\ cur[t] # NoId
    /\ \/ /\ Predecessors(t) = {}
          /\ UNCHANGED <<sources, links>>
       \/ \E f \in Predecessors(t) :
            /\ \A g \in Predecessors(t) : remAt[g] <= remAt[f]
            /\ FreeFor(t, f)
            /\ SourceFreeFor(t, SourceOf[f[1]])
            /\ sources' = [sources EXCEPT ![t] = @ \cup {SourceOf[f[1]]}]
            /\ links' = [links EXCEPT ![t] = @ \cup {<<f, cur[t]>>}]
    /\ cur' = [cur EXCEPT ![t] = NoId]
    /\ UNCHANGED <<now, policy, rowVars, inserted, touched, purgeVars, reopens>>

EndScan(t) ==
    /\ sources' = [sources EXCEPT ![t] = {}]
    /\ inserted' = [inserted EXCEPT ![t] = {}]
    /\ touched' = [touched EXCEPT ![t] = {}]
    /\ links' = [links EXCEPT ![t] = {}]
    /\ cur' = [cur EXCEPT ![t] = NoId]
    /\ UNCHANGED <<now, policy, remAt, purgeVars, reopens>>

ReLeaks(t) == {l[2] : l \in links[t]}

(* execute_scan's commit: what the scan has written becomes visible.       *)
CommitScan(t) ==
    /\ sources[t] # {}
    /\ cur[t] = NoId
    /\ state' = [f \in Ids |-> IF f \in inserted[t] THEN "open" ELSE state[f]]
    /\ sup' = [f \in Ids |-> IF f \in SelectedForUpdate(t)
                             THEN CHOOSE c \in ReLeaks(t) : <<f, c>> \in links[t]
                             ELSE sup[f]]
    /\ sev' = [f \in Ids |-> IF f \in ReLeaks(t) THEN "high" ELSE sev[f]]
    /\ trail' = [f \in Ids |->
            trail[f] \o (IF f \in inserted[t] THEN <<"discovered">> ELSE <<>>)
                     \o (IF f \in ReLeaks(t) THEN <<"re_leaked">> ELSE <<>>)]
    /\ EndScan(t)

(* execute_scan's rollback: any exception, a deadlock the database breaks, *)
(* or the death of the process.                                            *)
AbortScan(t) ==
    /\ sources[t] # {}
    /\ EndScan(t)
    /\ UNCHANGED <<state, sup, sev, trail>>

-----------------------------------------------------------------------------
(* Variant for mutation: closing a closed finding again.                   *)
RemediateAgain(f) ==
    /\ state[f] \in Live
    /\ Unlocked(f)
    /\ Len(trail[f]) < MaxTrail
    /\ state' = [state EXCEPT ![f] = "remediated"]
    /\ remAt' = [remAt EXCEPT ![f] = now]
    /\ trail' = [trail EXCEPT ![f] = Append(@, "remediated")]
    /\ UNCHANGED <<now, policy, sup, sev, scanVars, purgeVars, reopens>>

(* remediate_finding; a finding already remediated is returned as it is.   *)
Remediate(f) ==
    /\ state[f] = "open"
    /\ Unlocked(f)
    /\ Len(trail[f]) < MaxTrail
    /\ state' = [state EXCEPT ![f] = "remediated"]
    /\ remAt' = [remAt EXCEPT ![f] = now]
    /\ trail' = [trail EXCEPT ![f] = Append(@, "remediated")]
    /\ UNCHANGED <<now, policy, sup, sev, scanVars, purgeVars, reopens>>

(* unremediate_finding; superseded_by_id stays.                            *)
Unremediate(f) ==
    /\ state[f] = "remediated"
    /\ Unlocked(f)
    /\ Len(trail[f]) < MaxTrail
    /\ reopens < MaxReopens
    /\ reopens' = reopens + 1
    /\ state' = [state EXCEPT ![f] = "open"]
    /\ remAt' = [remAt EXCEPT ![f] = 0]
    /\ trail' = [trail EXCEPT ![f] = Append(@, "unremediated")]
    /\ UNCHANGED <<now, policy, sup, sev, scanVars, purgeVars>>

(* reveal_finding_password: the event's foreign key waits for a finding    *)
(* selected FOR UPDATE, not for one an upsert is refreshing.               *)
RevealPassword(f) ==
    /\ state[f] \in Live
    /\ PasswordOf[f[1]] # NoPassword
    /\ \A t \in Scans : f \notin SelectedForUpdate(t)
    /\ Len(trail[f]) < MaxTrail
    /\ trail' = [trail EXCEPT ![f] = Append(@, "password_viewed")]
    /\ UNCHANGED <<now, policy, state, remAt, sup, sev, scanVars, purgeVars, reopens>>

(* A super-admin stores a retention mode.                                  *)
SetPolicy ==
    /\ policy' \in Policies \ {policy}
    /\ UNCHANGED <<now, rowVars, scanVars, purgeVars, reopens>>

-----------------------------------------------------------------------------
(* RetentionPolicy.cutoff, and the rows it makes eligible.                 *)
Cutoff == IF policy = "none" THEN now ELSE now - Days
Expired == {f \in Ids : state[f] = "remediated" /\ remAt[f] <= Cutoff}

(* purge_expired_findings' SELECT: no lock, no order, at most Limit rows.  *)
PurgeSelect(p) ==
    /\ stage[p] = "idle"
    /\ policy # "indefinite"
    /\ Expired # {}
    /\ \E ids \in SUBSET Expired :
        /\ Cardinality(ids) = IF Cardinality(Expired) < Limit THEN Cardinality(Expired) ELSE Limit
        /\ doomed' = [doomed EXCEPT ![p] = ids]
    /\ stage' = [stage EXCEPT ![p] = "selected"]
    /\ UNCHANGED <<now, policy, rowVars, scanVars, cut, reopens>>

(* Variant for mutation: the findings go before their events.              *)
PurgeEventsSkipped(p) ==
    /\ stage[p] = "selected"
    /\ stage' = [stage EXCEPT ![p] = "cutting"]
    /\ UNCHANGED <<now, policy, rowVars, scanVars, doomed, cut, reopens>>

(* Its DELETE of the events, which waits for another pass deleting them.   *)
PurgeEvents(p) ==
    /\ stage[p] = "selected"
    /\ \A q \in Purgers \ {p} : stage[q] = "cutting" => doomed[q] \cap doomed[p] = {}
    /\ cut' = [cut EXCEPT ![p] = [f \in Ids |-> IF f \in doomed[p] THEN Len(trail[f]) ELSE 0]]
    /\ stage' = [stage EXCEPT ![p] = "cutting"]
    /\ UNCHANGED <<now, policy, rowVars, scanVars, doomed, reopens>>

(* Variant for mutation: superseded_by_id without its foreign key.         *)
ForeignKeysWithoutLinks(p) ==
    \A f \in doomed[p] \cap LiveIds : Len(trail[f]) = cut[p][f]

(* fk_finding_events_finding_id and fk_findings_superseded_by_id, checked  *)
(* at the end of the DELETE of the findings.                               *)
ForeignKeysHold(p) ==
    /\ \A f \in doomed[p] \cap LiveIds : Len(trail[f]) = cut[p][f]
    /\ \A f \in LiveIds \ doomed[p] : sup[f] \notin doomed[p]

EndPurge(p) ==
    /\ stage' = [stage EXCEPT ![p] = "idle"]
    /\ doomed' = [doomed EXCEPT ![p] = {}]
    /\ cut' = [cut EXCEPT ![p] = [f \in Ids |-> 0]]
    /\ UNCHANGED <<now, policy, scanVars, reopens>>

(* Its DELETE of the findings by id and the worker's COMMIT.               *)
PurgeFindings(p) ==
    /\ stage[p] = "cutting"
    /\ \A f \in doomed[p] : Unlocked(f)
    /\ ForeignKeysHold(p)
    /\ LET gone == doomed[p] \cap LiveIds
       IN  /\ state' = [f \in Ids |-> IF f \in gone THEN "deleted" ELSE state[f]]
           /\ remAt' = [f \in Ids |-> IF f \in gone THEN 0 ELSE remAt[f]]
           /\ sup' = [f \in Ids |-> IF f \in gone THEN NoId ELSE sup[f]]
           /\ sev' = [f \in Ids |-> IF f \in gone THEN "medium" ELSE sev[f]]
           /\ trail' = [f \in Ids |-> IF f \in gone THEN <<>> ELSE trail[f]]
    /\ EndPurge(p)

(* A foreign key refuses the DELETE: the transaction is rolled back, the   *)
(* worker crashes and its supervisor restarts it.                          *)
PurgeFails(p) ==
    /\ stage[p] = "cutting"
    /\ \A f \in doomed[p] : Unlocked(f)
    /\ ~ForeignKeysHold(p)
    /\ EndPurge(p)
    /\ UNCHANGED rowVars

Tick ==
    /\ now < MaxTime
    /\ now' = now + 1
    /\ UNCHANGED <<policy, rowVars, scanVars, purgeVars, reopens>>

PurgeStep(p) == PurgeSelect(p) \/ PurgeEvents(p) \/ PurgeFindings(p) \/ PurgeFails(p)

Next ==
    \/ \E t \in Scans :
        \/ \E rec \in Records : Upsert(t, rec)
        \/ Link(t)
        \/ CommitScan(t)
        \/ AbortScan(t)
    \/ \E f \in Ids : Remediate(f) \/ Unremediate(f) \/ RevealPassword(f)
    \/ \E p \in Purgers : PurgeStep(p)
    \/ SetPolicy
    \/ Tick

Spec == Init /\ [][Next]_vars

(* A scan's transaction ends, the worker's loop goes round and time        *)
(* passes.  The DELETE waits in the database's lock queue, so scans that   *)
(* keep locking the finding do not pass it for ever: hence strong fairness.*)
Fairness ==
    /\ \A t \in Scans : WF_vars(CommitScan(t) \/ AbortScan(t))
    /\ \A p \in Purgers :
        WF_vars(PurgeStep(p)) /\ SF_vars(PurgeFindings(p) \/ PurgeFails(p))
    /\ WF_vars(Tick)

FairSpec == Spec /\ Fairness
-----------------------------------------------------------------------------
(* link_releak: a finding is superseded by a live finding of the same      *)
(* identity and source with another password, marked HIGH; and one re-leak *)
(* supersedes one finding.                                                 *)
ReLeakLinks ==
    \A f \in LiveIds : sup[f] # NoId =>
        /\ sup[f] \in LiveIds
        /\ GroupOf[sup[f][1]] = GroupOf[f[1]]
        /\ PasswordOf[sup[f][1]] # PasswordOf[f[1]]
        /\ sev[sup[f]] = "high"
        /\ \A g \in LiveIds : sup[g] = sup[f] => g = f

(* Following superseded_by_id always ends: every set of findings holds one *)
(* that none of them supersedes, though findings are closed, reopened and  *)
(* seen again.                                                             *)
ChainsEnd ==
    \A S \in (SUBSET LiveIds) \ {{}} : \E f \in S : sup[f] \notin S

(* find_remediated_predecessor's FOR UPDATE: while a finding lives, the    *)
(* one that supersedes it never changes, even when two scans discover its  *)
(* re-leak at once.                                                        *)
NeverRelinked ==
    [][\A f \in Ids : sup[f] # NoId /\ state'[f] \in Live => sup'[f] = sup[f]]_vars

Count(f, e) == Cardinality({i \in DOMAIN trail[f] : trail[f][i] = e})

(* The append-only trail tells the finding's state: discovered once, a     *)
(* RE_LEAKED event exactly for HIGH, and one more closing than reopening   *)
(* exactly while it is remediated.                                         *)
TrailAgrees ==
    \A f \in LiveIds :
        /\ Count(f, "discovered") = 1
        /\ Count(f, "re_leaked") = IF sev[f] = "high" THEN 1 ELSE 0
        /\ Count(f, "remediated") - Count(f, "unremediated")
               = IF state[f] = "remediated" THEN 1 ELSE 0

(* "Only remediated findings are eligible: an open exposure is never       *)
(* deleted out from under an analyst regardless of age"                    *)
(* (purge_expired_findings).                                               *)
NoOpenDeleted ==
    [][\A f \in Ids : state'[f] = "deleted" => state[f] # "open"]_vars

(* "Remediated findings are deleted as soon as they are closed"            *)
(* (RetentionPolicy.describe): under a lasting "none" policy a remediated  *)
(* finding is deleted unless an analyst reopens it first.  The code does   *)
(* not keep it: see Blocked.                                               *)
RemediatedAreDeleted ==
    <>[](policy = "none") => \A f \in Ids : state[f] = "remediated" ~> state[f] # "remediated"

(* The pass has selected a re-leak and not the finding it supersedes,      *)
(* because the SELECT's LIMIT, which has no ORDER BY, left that one out or *)
(* because an analyst has reopened it.                                     *)
Blocked(p) == \E f \in LiveIds \ doomed[p] : sup[f] \in doomed[p]

(* That promise fails in no other way: either every remediated finding is  *)
(* deleted, or passes are blocked again and again.  Scans that lock the    *)
(* findings, events appended after the pass has deleted the others, and    *)
(* records seen again do not keep a finding for ever.                      *)
DeletedUnlessBlocked ==
    <>[](policy = "none") =>
        \/ \A f \in Ids : state[f] = "remediated" ~> state[f] # "remediated"
        \/ []<>(\E p \in Purgers : stage[p] = "cutting" /\ Blocked(p))
-----------------------------------------------------------------------------
(* The inductive invariant behind the four safety properties.              *)
TypeOK ==
    /\ state \in [Ids -> {"absent", "deleted"} \cup Live]
    /\ sup \in [Ids -> Ids \cup {NoId}]
    /\ sev \in [Ids -> {"medium", "high"}]
    /\ trail \in [Ids -> Seq(EventTypes)]
    /\ inserted \in [Scans -> SUBSET Ids]
    /\ touched \in [Scans -> SUBSET Ids]
    /\ links \in [Scans -> SUBSET (Ids \X Ids)]
    /\ cur \in [Scans -> Ids \cup {NoId}]
    /\ doomed \in [Purgers -> SUBSET Ids]

(* A finding that does not exist, or no longer, has no columns.            *)
RowInv ==
    \A f \in Ids : state[f] \notin Live => sup[f] = NoId /\ sev[f] = "medium" /\ trail[f] = <<>>

(* The findings a record has become are numbered without gaps, so the next *)
(* number is free.                                                         *)
NumberInv ==
    \A f \in Ids : state[f] # "absent" => \A j \in 1 .. f[2] : state[<<f[1], j>>] # "absent"

(* What scans have inserted is theirs alone, new, and next in number; what *)
(* one has yet to look up is not linked.                                   *)
InsertInv ==
    \A t \in Scans :
        /\ \A f \in inserted[t] :
               /\ state[f] = "absent"
               /\ \A j \in 1 .. (f[2] - 1) : state[<<f[1], j>>] # "absent"
        /\ \A u \in Scans \ {t} : inserted[t] \cap inserted[u] = {}
        /\ cur[t] # NoId => cur[t] \in inserted[t] \ ReLeaks(t)

(* A link under way leads from a finding its scan has locked, remediated   *)
(* and not superseded, to one the scan has inserted; one from each and one *)
(* to each.                                                                *)
LinkInv ==
    \A t \in Scans :
        /\ \A l \in links[t] :
               /\ l[2] \in inserted[t]
               /\ state[l[1]] = "remediated" /\ sup[l[1]] = NoId
               /\ GroupOf[l[2][1]] = GroupOf[l[1][1]]
               /\ PasswordOf[l[2][1]] # PasswordOf[l[1][1]]
        /\ \A l, m \in links[t] : l[1] = m[1] \/ l[2] = m[2] => l = m
        /\ \A u \in Scans \ {t} : SelectedForUpdate(t) \cap SelectedForUpdate(u) = {}

IInv ==
    /\ TypeOK
    /\ RowInv
    /\ NumberInv
    /\ InsertInv
    /\ LinkInv
    /\ ReLeakLinks
=============================================================================
