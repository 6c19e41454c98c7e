-------------------------- MODULE QualificationCase --------------------------
(***************************************************************************)
(* One qualification case of the paper release desk: the aggregate         *)
(* internal/domain/types.go Case, driven by the write commands of          *)
(* internal/application/service.go.  Service.mutate hands every command a  *)
(* private clone of the case and stores the clone only when the command    *)
(* succeeds, so a command is one atomic step and a refused command is no   *)
(* step at all.  Request ids, expected revisions and files are left out:   *)
(* they decide which commands reach the case, not what a command does.     *)
(*                                                                         *)
(* What is kept of the data is what the guards tell apart:                 *)
(*   - a plan is its min_exposure (required; 0 before submission);         *)
(*   - the readings are the length of the longest continuous compliant     *)
(*     window they form (exposure);                                        *)
(*   - a pair of measurements is who executed it, the metrics on which     *)
(*     the two groups differ by more than 0.1, the metrics that fail the   *)
(*     plan's thresholds, and those of the positive metrics that one       *)
(*     group left at zero, the value of an absent JSON field;              *)
(*   - a discrepancy is its decision;                                      *)
(*   - an event is its type, the person it names and its outcome, and      *)
(*     its revision is its position.                                       *)
(***************************************************************************)
EXTENDS Integers, Sequences, FiniteSets

CONSTANTS
    People,           \* the names that occur in requests
    Teams,            \* the sets of people that may execute a pair of measurements
    Metrics,          \* DefaultMetricRules
    PositiveMetrics,  \* those RequiredMetricsComplete wants above zero
    NoOne,            \* the author of an event that names nobody
    MaxExposure,      \* bound on minutes of exposure
    MaxRevision       \* bound on the length of the log

ASSUME CaseAssumptions ==
    /\ Teams \subseteq SUBSET People
    /\ {} \notin Teams
    /\ IsFiniteSet(Metrics)
    /\ PositiveMetrics \subseteq Metrics
    /\ NoOne \notin People
    /\ MaxExposure \in Nat
    /\ MaxRevision \in Nat

VARIABLES
    status,         \* Case.Status
    duties,         \* Case.Owner, Reviewer, Authorizer
    required,       \* Plan.MinExposure, 0 while Plan is nil
    exposure,       \* LongestContinuousMinutes of Case.Conditioning
    measurement,    \* Case.Measurements
    discrepancies,  \* Case.Discrepancies: the decision on each metric
    remediations,   \* Case.Remediations
    events          \* Case.Events

vars == <<status, duties, required, exposure, measurement, discrepancies,
          remediations, events>>

-----------------------------------------------------------------------------
(* Values *)

Statuses == {"DRAFT", "PLAN_READY", "CONDITIONED", "TESTED", "REVIEW_PENDING",
             "RELEASED", "SEALED"}

Duties == [owner : People, reviewer : People, authorizer : People]

\* A discrepancy that does not exist, one without a decision, one decided.
Decisions == {"NONE", "OPEN", "PASS", "FAIL"}

\* Measurements as requests carry them, and the empty map of a new case.
Measured == [by : Teams, differ : SUBSET Metrics, failed : SUBSET Metrics,
             unreported : SUBSET PositiveMetrics]
NoMeasurement == [by |-> {}, differ |-> {}, failed |-> {}, unreported |-> {}]

MeasurementTypes == {"MEASUREMENTS_RECORDED", "REMEDIATION_MEASUREMENTS_RECORDED"}
EventTypes == {"CASE_CREATED", "PLAN_SUBMITTED", "CONDITIONING_READING",
               "CONDITIONING_BATCH_RECORDED", "CONDITIONED", "DISCREPANCY_DECIDED",
               "REVIEW_RESULT", "RELEASE_DECISION", "SEALED"} \cup MeasurementTypes

\* ok is the pass of a REVIEW_RESULT and the approved of a RELEASE_DECISION.
Event == [type : EventTypes, by : People \cup {NoOne}, ok : BOOLEAN]

\* rejected and supersedes are revisions; replacement is 0 until it is recorded.
Round == [rejected : Nat, supersedes : Nat, replacement : Nat]

-----------------------------------------------------------------------------
(* The case *)

Revision == Len(events)

HasRoom(n) == Revision + n <= MaxRevision

EventBy(type, p) == [type |-> type, by |-> p, ok |-> TRUE]
Outcome(type, p, ok) == [type |-> type, by |-> p, ok |-> ok]

MeasurementRevisions == {i \in 1..Len(events) : events[i].type \in MeasurementTypes}

IsLatestMeasurement(i) ==
    i \in MeasurementRevisions /\ \A j \in MeasurementRevisions : j <= i

\* latestMeasurementRevision: 0 when nothing was measured.
LatestMeasurementRevision ==
    IF \E i \in MeasurementRevisions : IsLatestMeasurement(i)
    THEN CHOOSE i \in MeasurementRevisions : IsLatestMeasurement(i)
    ELSE 0

OpenDiscrepancies == {m \in Metrics : discrepancies[m] = "OPEN"}

\* Discrepancies whose decision is not PASS: OpenDiscrepancyIDs of the preview.
Unresolved == {m \in Metrics : discrepancies[m] \in {"OPEN", "FAIL"}}

NoDiscrepancies == \A m \in Metrics : discrepancies[m] = "NONE"

-----------------------------------------------------------------------------
(* Faulty variants.  No specification uses them: each stands for a bug of   *)
(* the definition it resembles, and shows that a property notices it.       *)

VerdictsUnchecked == {"PASS", "FAIL", "MAYBE"}
CanSignUntested ==
    /\ \/ status = "REVIEW_PENDING"
       \/ status = "TESTED" /\ NoDiscrepancies
    /\ Unresolved = {}
    /\ required > 0 /\ measurement.by # {}
CanSignAfterRefusal ==
    /\ status \in {"REVIEW_PENDING", "TESTED"}
    /\ Unresolved = {}
    /\ required > 0 /\ measurement.by # {}
    /\ measurement.failed = {}
ConfirmableOnceExposed(minutes) == minutes > 0
MayDecideOwnWork(p) == p = duties.reviewer
DecidableAgain == {m \in Metrics : discrepancies[m] # "NONE"}
ReviewedInPlace(pass) == IF pass THEN "REVIEW_PENDING" ELSE "TESTED"
MaySignAgain(p) ==
    /\ status \in {"REVIEW_PENDING", "TESTED", "RELEASED"}
    /\ p = duties.authorizer
NewRoundTooEarly == [rejected |-> Revision, supersedes |-> LatestMeasurementRevision,
                     replacement |-> 0]
AwaitsAnyReplacement ==
    /\ status = "TESTED"
    /\ remediations # <<>>
    /\ remediations[Len(remediations)].replacement = 0

-----------------------------------------------------------------------------
(* The guards of the commands *)

\* What a reviewer may decide.
Verdicts == {"PASS", "FAIL"}

\* What AddMeasurements leaves of the discrepancies: a metric on which the new
\* pair differs gets a new undecided one, any other keeps what it had.
Rediscovered(old, m) == [x \in Metrics |-> IF x \in m.differ THEN "OPEN" ELSE old[x]]

\* BuildReleasePreview.CanSign.
CanSign ==
    /\ \/ status = "REVIEW_PENDING"
       \/ status = "TESTED" /\ NoDiscrepancies
    /\ Unresolved = {}
    /\ required > 0 /\ measurement.by # {}
    /\ measurement.failed = {}

-----------------------------------------------------------------------------
(* The commands *)

\* NewCase, Service.Create.
Init ==
    /\ status = "DRAFT"
    /\ duties \in {d \in Duties : /\ d.owner # d.reviewer
                                  /\ d.owner # d.authorizer
                                  /\ d.reviewer # d.authorizer}
    /\ required = 0
    /\ exposure = 0
    /\ measurement = NoMeasurement
    /\ discrepancies = [m \in Metrics |-> "NONE"]
    /\ remediations = <<>>
    /\ events = <<EventBy("CASE_CREATED", duties.owner)>>

SubmitPlan(p, minutes) ==
    /\ status = "DRAFT"
    /\ HasRoom(1)
    /\ minutes > 0
    /\ p \notin {duties.owner, duties.reviewer, duties.authorizer}
    /\ required' = minutes
    /\ status' = "PLAN_READY"
    /\ events' = Append(events, EventBy("PLAN_SUBMITTED", p))
    /\ UNCHANGED <<duties, exposure, measurement, discrepancies, remediations>>

\* BuildConditioningSummary.Confirmable, in a state that is not locked.
Confirmable(minutes) == minutes >= required

\* A reading, or a batch of them, was recorded under the given event type and
\* the longest window is now minutes; confirm locks the conditioning at once.
Condition(type, minutes, confirm) ==
    /\ HasRoom(IF confirm THEN 2 ELSE 1)
    /\ exposure' = minutes
    /\ \/ /\ ~confirm
          /\ status' = status
          /\ events' = Append(events, EventBy(type, NoOne))
       \/ /\ confirm
          /\ Confirmable(minutes)
          /\ status' = "CONDITIONED"
          /\ events' = events \o <<EventBy(type, NoOne), EventBy("CONDITIONED", NoOne)>>
    /\ UNCHANGED <<duties, required, measurement, discrepancies, remediations>>

\* A single reading may overlap or fall inside what is covered already.
AddConditioning(minutes, confirm) ==
    /\ status = "PLAN_READY"
    /\ minutes > 0 /\ minutes >= exposure
    /\ Condition("CONDITIONING_READING", minutes, confirm)

\* A batch must continue the timeline without overlap and without gap.
AddConditioningBatch(minutes, confirm) ==
    /\ status = "PLAN_READY"
    /\ minutes > exposure
    /\ Condition("CONDITIONING_BATCH_RECORDED", minutes, confirm)

ConfirmConditioning ==
    /\ status = "PLAN_READY"
    /\ HasRoom(1)
    /\ Confirmable(exposure)
    /\ status' = "CONDITIONED"
    /\ events' = Append(events, EventBy("CONDITIONED", NoOne))
    /\ UNCHANGED <<duties, required, exposure, measurement, discrepancies, remediations>>

AddMeasurements(m) ==
    /\ status = "CONDITIONED"
    /\ HasRoom(1)
    /\ measurement' = m
    /\ discrepancies' = Rediscovered(discrepancies, m)
    /\ status' = "TESTED"
    /\ events' = Append(events, EventBy("MEASUREMENTS_RECORDED", NoOne))
    /\ UNCHANGED <<duties, required, exposure, remediations>>

\* Who may decide: the case's reviewer, unless the reviewer measured.
MayDecide(p) ==
    /\ p = duties.reviewer
    /\ p \notin measurement.by

\* A discrepancy can be decided once.
Decidable == OpenDiscrepancies

Decided(old, verdicts) ==
    [m \in Metrics |-> IF m \in DOMAIN verdicts THEN verdicts[m] ELSE old[m]]

\* The status in which a completed review leaves the case.
Reviewed(pass) == IF pass THEN "REVIEW_PENDING" ELSE "CONDITIONED"

\* Decide and DecideBatch: verdicts maps the metrics of the request to the
\* decisions.  The item that leaves nothing undecided closes the review.
DecideDiscrepancies(p, verdicts) ==
    LET items == [i \in 1..Cardinality(DOMAIN verdicts) |-> EventBy("DISCREPANCY_DECIDED", p)]
        left  == OpenDiscrepancies \ DOMAIN verdicts
        pass  == \A m \in Metrics : discrepancies'[m] \in {"NONE", "PASS"}
    IN  /\ status = "TESTED"
        /\ DOMAIN verdicts # {} /\ DOMAIN verdicts \subseteq Decidable
        /\ MayDecide(p)
        /\ HasRoom(Cardinality(DOMAIN verdicts) + 1)
        /\ discrepancies' = Decided(discrepancies, verdicts)
        /\ \/ /\ left # {}
              /\ status' = status
              /\ events' = events \o items
           \/ /\ left = {}
              /\ status' = Reviewed(pass)
              /\ events' = events \o items \o <<Outcome("REVIEW_RESULT", NoOne, pass)>>
        /\ UNCHANGED <<duties, required, exposure, measurement, remediations>>

\* Release signs in these two states and by this person only.
MaySign(p) ==
    /\ status \in {"REVIEW_PENDING", "TESTED"}
    /\ p = duties.authorizer

ApproveRelease(p) ==
    /\ MaySign(p)
    /\ HasRoom(1)
    /\ CanSign
    /\ status' = "RELEASED"
    /\ events' = Append(events, Outcome("RELEASE_DECISION", p, TRUE))
    /\ UNCHANGED <<duties, required, exposure, measurement, discrepancies, remediations>>

NewRound == [rejected |-> Revision + 1, supersedes |-> LatestMeasurementRevision,
             replacement |-> 0]

RejectRelease(p) ==
    /\ MaySign(p)
    /\ HasRoom(1)
    /\ status' = "TESTED"
    /\ remediations' = Append(remediations, NewRound)
    /\ events' = Append(events, Outcome("RELEASE_DECISION", p, FALSE))
    /\ UNCHANGED <<duties, required, exposure, measurement, discrepancies>>

\* The round a replacement answers: the last one, still unanswered, and the
\* measurement it rejected is still the latest.
AwaitsReplacement ==
    /\ status = "TESTED"
    /\ remediations # <<>>
    /\ LET round == remediations[Len(remediations)]
       IN  /\ round.replacement = 0
           /\ round.supersedes > 0
           /\ round.supersedes = LatestMeasurementRevision

\* Stricter than a first measurement: complete, within every threshold, and not
\* executed by the people who judge it.
AcceptableReplacement(m) ==
    /\ m.by \cap {duties.reviewer, duties.authorizer} = {}
    /\ m.unreported = {}
    /\ m.failed = {}

ReplaceMeasurements(m) ==
    /\ AwaitsReplacement
    /\ HasRoom(1)
    /\ AcceptableReplacement(m)
    /\ measurement' = m
    /\ discrepancies' = Rediscovered([x \in Metrics |-> "NONE"], m)
    /\ remediations' = [remediations EXCEPT ![Len(remediations)].replacement = Revision + 1]
    /\ events' = Append(events, EventBy("REMEDIATION_MEASUREMENTS_RECORDED", NoOne))
    /\ UNCHANGED <<status, duties, required, exposure>>

Seal(p) ==
    /\ status = "RELEASED"
    /\ HasRoom(1)
    /\ p \notin {duties.owner, duties.reviewer}
    /\ status' = "SEALED"
    /\ events' = Append(events, EventBy("SEALED", p))
    /\ UNCHANGED <<duties, required, exposure, measurement, discrepancies, remediations>>

Next ==
    \/ \E p \in People, minutes \in 0..MaxExposure : SubmitPlan(p, minutes)
    \/ \E minutes \in 0..MaxExposure, confirm \in BOOLEAN :
          \/ AddConditioning(minutes, confirm)
          \/ AddConditioningBatch(minutes, confirm)
    \/ ConfirmConditioning
    \/ \E m \in Measured : AddMeasurements(m) \/ ReplaceMeasurements(m)
    \/ \E p \in People, named \in SUBSET Metrics :
          \E verdicts \in [named -> Verdicts] : DecideDiscrepancies(p, verdicts)
    \/ \E p \in People : ApproveRelease(p) \/ RejectRelease(p) \/ Seal(p)

Spec == Init /\ [][Next]_vars

-----------------------------------------------------------------------------
(* Properties *)

\* Every variable has its type, and an evidence that does not exist yet is empty.
TypeOK ==
    /\ status \in Statuses
    /\ duties \in Duties
    /\ required \in 0..MaxExposure
    /\ exposure \in 0..MaxExposure
    /\ measurement \in Measured \cup {NoMeasurement}
    /\ discrepancies \in [Metrics -> Decisions]
    /\ remediations \in Seq(Round)
    /\ events \in Seq(Event)

\* The status a case has after an event, by the type and outcome of the event.
StatusAfter(e) ==
    CASE e.type = "CASE_CREATED" -> "DRAFT"
      [] e.type \in {"PLAN_SUBMITTED", "CONDITIONING_READING",
                     "CONDITIONING_BATCH_RECORDED"} -> "PLAN_READY"
      [] e.type = "CONDITIONED" -> "CONDITIONED"
      [] e.type \in MeasurementTypes \cup {"DISCREPANCY_DECIDED"} -> "TESTED"
      [] e.type = "REVIEW_RESULT" -> IF e.ok THEN "REVIEW_PENDING" ELSE "CONDITIONED"
      [] e.type = "RELEASE_DECISION" -> IF e.ok THEN "RELEASED" ELSE "TESTED"
      [] e.type = "SEALED" -> "SEALED"

\* The event types that may follow in a status (an event of type CONDITIONED or
\* REVIEW_RESULT that closes a command follows the other events of the command).
LegalIn(st) ==
    CASE st = "DRAFT" -> {"PLAN_SUBMITTED"}
      [] st = "PLAN_READY" -> {"CONDITIONING_READING", "CONDITIONING_BATCH_RECORDED",
                               "CONDITIONED"}
      [] st = "CONDITIONED" -> {"MEASUREMENTS_RECORDED"}
      [] st = "TESTED" -> {"DISCREPANCY_DECIDED", "REVIEW_RESULT", "RELEASE_DECISION",
                           "REMEDIATION_MEASUREMENTS_RECORDED"}
      [] st = "REVIEW_PENDING" -> {"RELEASE_DECISION"}
      [] st = "RELEASED" -> {"SEALED"}
      [] st = "SEALED" -> {}

\* The log alone tells the story of the case: every event is one that the case
\* could accept after the event before it, and the last one gives the status the
\* snapshot in cases.json has.  Audit and the sealed manifest show the log, every
\* query shows the status: they must not disagree.
LogExplainsStatus ==
    /\ status = StatusAfter(events[Len(events)])
    /\ \A i \in 1..(Len(events) - 1) :
          events[i + 1].type \in LegalIn(StatusAfter(events[i]))

IsReleased == status \in {"RELEASED", "SEALED"}

\* However the case got there, a released paper has measurements within every
\* threshold, and each metric on which they disagree was decided PASS.
ReleasedIsClear ==
    IsReleased => /\ measurement \in Measured
                  /\ measurement.failed = {}
                  /\ Unresolved = {}
                  /\ \A m \in measurement.differ : discrepancies[m] = "PASS"

DecisionsSince(r) ==
    {i \in 1..Len(events) : i > r /\ events[i].type = "DISCREPANCY_DECIDED"}

\* A disagreement between the groups is decided exactly once for the measurement
\* that shows it: the decisions recorded since the latest measurement are as many
\* as the metrics it disagrees on that are no longer open.
EachDisagreementDecidedOnce ==
    /\ OpenDiscrepancies \subseteq measurement.differ
    /\ Cardinality(DecisionsSince(LatestMeasurementRevision))
         = Cardinality(measurement.differ \ OpenDiscrepancies)

\* When the released measurements disagreed, their release stands directly on the
\* review that passed them: nothing, a refusal least of all, came in between.
ApprovalFollowsReview ==
    IsReleased =>
        \E i \in LatestMeasurementRevision..Len(events) :
            /\ i < Len(events)
            /\ events[i + 1].type = "RELEASE_DECISION" /\ events[i + 1].ok
            /\ measurement.differ # {} =>
                  events[i].type = "REVIEW_RESULT" /\ events[i].ok

\* Nobody judges their own work.  Who decided on the latest measurement neither
\* executed it nor owns the case; reviewers, signers and the author of the plan
\* are different people throughout the log; who sealed never reviewed; and a
\* replacement was executed by neither the reviewer nor the authorizer.
HandsAreSeparate ==
    LET Authors(type) == {events[i].by : i \in {j \in 1..Len(events) : events[j].type = type}}
    IN  /\ \A i \in DecisionsSince(LatestMeasurementRevision) :
              events[i].by \notin measurement.by \cup {duties.owner}
        /\ Authors("DISCREPANCY_DECIDED") \cap Authors("RELEASE_DECISION") = {}
        /\ Authors("DISCREPANCY_DECIDED") \cap Authors("SEALED") = {}
        /\ Authors("PLAN_SUBMITTED")
              \cap (Authors("DISCREPANCY_DECIDED") \cup Authors("RELEASE_DECISION")) = {}
        /\ (/\ LatestMeasurementRevision > 0
            /\ events[LatestMeasurementRevision].type = "REMEDIATION_MEASUREMENTS_RECORDED")
              => measurement.by \cap {duties.reviewer, duties.authorizer} = {}

RoundSound(k) ==
    LET r == remediations[k]
    IN  /\ r.rejected \in 1..Len(events)
        /\ events[r.rejected].type = "RELEASE_DECISION" /\ ~events[r.rejected].ok
        /\ r.supersedes \in MeasurementRevisions /\ r.supersedes < r.rejected
        /\ \A i \in MeasurementRevisions : i <= r.supersedes \/ i > r.rejected
        /\ r.replacement # 0 =>
              /\ r.replacement \in r.rejected..Len(events)
              /\ events[r.replacement].type = "REMEDIATION_MEASUREMENTS_RECORDED"
        /\ k < Len(remediations) =>
              /\ r.rejected < remediations[k + 1].rejected
              /\ r.replacement < remediations[k + 1].rejected

HasRound(i) ==
    /\ events[i].type = "RELEASE_DECISION" /\ ~events[i].ok
          => \E k \in 1..Len(remediations) : remediations[k].rejected = i
    /\ events[i].type = "REMEDIATION_MEASUREMENTS_RECORDED"
          => \E k \in 1..Len(remediations) : remediations[k].replacement = i

\* The revisions a round names are computed ahead of the events they point to:
\* rejected is a refusal, supersedes the measurement that was the latest when it
\* was refused, replacement a later replacement; every refusal has its round and
\* every replacement answers one; and rounds do not overlap.
RemediationLinksSound ==
    /\ \A k \in 1..Len(remediations) : RoundSound(k)
    /\ \A i \in 1..Len(events) : HasRound(i)

\* A replacement replaces what was refused: no other measurement was recorded
\* between the one the round rejected and the one that answers it, although a
\* failed review can send a case with an open round back to CONDITIONED.
ReplacementAnswersRefusedMeasurement ==
    \A k \in 1..Len(remediations) :
        LET r == remediations[k]
        IN  \A i \in MeasurementRevisions :
                ~(r.supersedes < i /\ i < r.replacement)

\* No measurement without the plan's exposure: whichever of the three commands
\* confirmed the conditioning, and however often the case came back to it.
MeasuredAfterExposure ==
    status \notin {"DRAFT", "PLAN_READY"} => required > 0 /\ exposure >= required

-----------------------------------------------------------------------------
(* What documents say and the code does not do *)

\* BENZHI_README.md:13: a detection that is incomplete must not advance.
\* AddMeasurements never calls RequiredMetricsComplete.
IncompleteNeverAdvances == status = "TESTED" => measurement.unreported = {}

\* README.md:24: a refusal opens a remediation round, then the complete
\* replacement is submitted, then the case is signed again.
SignedAgainOnlyAfterReplacement ==
    IsReleased => \A k \in 1..Len(remediations) :
                      k = Len(remediations) => remediations[k].replacement # 0

-----------------------------------------------------------------------------
(* The case implements the release gate *)

Gate == INSTANCE ReleaseGate WITH
    stage    <- IF IsReleased THEN status ELSE "OPEN",
    recorded <- measurement.by # {},
    disputed <- Unresolved,
    failing  <- measurement.failed,
    refused  <- remediations # <<>> /\ remediations[Len(remediations)].replacement = 0

\* Every command is a step of the gate or does not concern it.
ImplementsGate == Gate!Spec
=============================================================================
