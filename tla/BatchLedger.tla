---------------------------- MODULE BatchLedger -----------------------------
(***************************************************************************)
(* What a scan batch promises its owner, with no queue, no worker and no   *)
(* transaction in sight: a batch opens with its subjects fixed, each       *)
(* subject gets one outcome, once, and the batch gets one verdict, once,   *)
(* when every subject has its outcome, and the right one.                  *)
(***************************************************************************)
CONSTANTS Batches, Subjects

VARIABLES
    outcome,  \* of each subject of each batch
    verdict   \* of each batch

Rows == Batches \X Subjects
Outcomes == {"succeeded", "failed"}

Init ==
    /\ outcome = [r \in Rows |-> "absent"]
    /\ verdict = [b \in Batches |-> "absent"]

Open(b) ==
    /\ verdict[b] = "absent"
    /\ verdict' = [verdict EXCEPT ![b] = "open"]
    /\ \E S \in (SUBSET Subjects) \ {{}} :
        outcome' = [r \in Rows |-> IF r \in {b} \X S THEN "open" ELSE outcome[r]]

(* No subject of the batch is left open in the outcomes o.                 *)
AllSettled(b, o) == \A r \in {b} \X Subjects : o[r] # "open"

RightVerdict(b, o) ==
    IF \E r \in {b} \X Subjects : o[r] = "failed" THEN "partial" ELSE "succeeded"

(* A verdict may be given on the step that settles the last subject, or    *)
(* later, and is never taken back.                                         *)
MayClose(b, o) ==
    \/ UNCHANGED verdict
    \/ /\ AllSettled(b, o)
       /\ verdict[b] = "open"
       /\ verdict' = [verdict EXCEPT ![b] = RightVerdict(b, o)]

Settle(r) ==
    /\ outcome[r] = "open"
    /\ \E o \in Outcomes : outcome' = [outcome EXCEPT ![r] = o]
    /\ MayClose(r[1], outcome')

Close(b) ==
    /\ verdict[b] = "open"
    /\ AllSettled(b, outcome)
    /\ verdict' = [verdict EXCEPT ![b] = RightVerdict(b, outcome)]
    /\ UNCHANGED outcome

Next ==
    \/ \E b \in Batches : Open(b) \/ Close(b)
    \/ \E r \in Rows : Settle(r)

Spec == Init /\ [][Next]_<<outcome, verdict>>
=============================================================================
