---------------------- MODULE QualificationCaseLogProofs ----------------------
(***************************************************************************)
(* Proofs about the log of QualificationCase, for any people, metrics and  *)
(* bounds: the log explains the status, nobody judges their own work,      *)
(* every disagreement is decided once, a release follows its review, and   *)
(* the links of the remediation rounds are sound.                          *)
(***************************************************************************)
EXTENDS QualificationCaseProofs

-----------------------------------------------------------------------------
(* The tables, row by row *)

\* The status after an event, by its type.
LEMMA StatusTable ==
    ASSUME NEW e
    PROVE  /\ e.type = "CASE_CREATED" => StatusAfter(e) = "DRAFT"
           /\ e.type = "PLAN_SUBMITTED" => StatusAfter(e) = "PLAN_READY"
           /\ e.type = "CONDITIONING_READING" => StatusAfter(e) = "PLAN_READY"
           /\ e.type = "CONDITIONING_BATCH_RECORDED" => StatusAfter(e) = "PLAN_READY"
           /\ e.type = "CONDITIONED" => StatusAfter(e) = "CONDITIONED"
           /\ e.type = "MEASUREMENTS_RECORDED" => StatusAfter(e) = "TESTED"
           /\ e.type = "REMEDIATION_MEASUREMENTS_RECORDED" => StatusAfter(e) = "TESTED"
           /\ e.type = "DISCREPANCY_DECIDED" => StatusAfter(e) = "TESTED"
           /\ e.type = "REVIEW_RESULT" =>
                 StatusAfter(e) = IF e.ok THEN "REVIEW_PENDING" ELSE "CONDITIONED"
           /\ e.type = "RELEASE_DECISION" =>
                 StatusAfter(e) = IF e.ok THEN "RELEASED" ELSE "TESTED"
           /\ e.type = "SEALED" => StatusAfter(e) = "SEALED"
BY Zenon DEF StatusAfter, MeasurementTypes

\* The types of events that may follow in each status.
LEMMA LegalTable ==
    /\ LegalIn("DRAFT") = {"PLAN_SUBMITTED"}
    /\ LegalIn("PLAN_READY") =
          {"CONDITIONING_READING", "CONDITIONING_BATCH_RECORDED", "CONDITIONED"}
    /\ LegalIn("CONDITIONED") = {"MEASUREMENTS_RECORDED"}
    /\ LegalIn("TESTED") = {"DISCREPANCY_DECIDED", "REVIEW_RESULT", "RELEASE_DECISION",
                            "REMEDIATION_MEASUREMENTS_RECORDED"}
    /\ LegalIn("REVIEW_PENDING") = {"RELEASE_DECISION"}
    /\ LegalIn("RELEASED") = {"SEALED"}
BY Zenon DEF LegalIn

-----------------------------------------------------------------------------
(* The inductive invariant *)

\* There is a latest measurement as soon as there is any, and a tested case has one.
LatestFound ==
    /\ MeasurementRevisions # {} => \E i \in MeasurementRevisions : IsLatestMeasurement(i)
    /\ status \in {"TESTED", "REVIEW_PENDING", "RELEASED", "SEALED"} => MeasurementRevisions # {}

\* Only a tested case has undecided disagreements: every way out of that status is
\* closed while one is open.
OpenOnlyWhenTested == status # "TESTED" => OpenDiscrepancies = {}

\* Three different people have the duties, and events are by who has the duty.
AuthorsKnown ==
    /\ duties.owner # duties.reviewer /\ duties.owner # duties.authorizer
    /\ duties.reviewer # duties.authorizer
    /\ \A i \in 1..Len(events) :
          /\ events[i].type = "DISCREPANCY_DECIDED" => events[i].by = duties.reviewer
          /\ events[i].type = "RELEASE_DECISION" => events[i].by = duties.authorizer
          /\ events[i].type = "SEALED" => events[i].by # duties.reviewer
          /\ events[i].type = "PLAN_SUBMITTED" =>
                events[i].by \notin {duties.reviewer, duties.authorizer}

\* Who measured last, compared with who decided since and who will judge.
OwnWork ==
    /\ DecisionsSince(LatestMeasurementRevision) # {} => duties.reviewer \notin measurement.by
    /\ (/\ LatestMeasurementRevision > 0
        /\ events[LatestMeasurementRevision].type = "REMEDIATION_MEASUREMENTS_RECORDED")
          => measurement.by \cap {duties.reviewer, duties.authorizer} = {}

\* The properties of the log need each other: a release follows its review because
\* the log explains the status, a round is answered once because the latest
\* measurement is known, and decisions are counted right because nothing is open
\* when a case is measured anew.
Story ==
    /\ IInv
    /\ Len(events) > 0
    /\ LatestFound
    /\ OpenOnlyWhenTested
    /\ AuthorsKnown
    /\ OwnWork
    /\ LogExplainsStatus
    /\ EachDisagreementDecidedOnce
    /\ ApprovalFollowsReview
    /\ RemediationLinksSound
    /\ ReplacementAnswersRefusedMeasurement

-----------------------------------------------------------------------------
(* What a command adds to the log *)

\* The log keeps what it has and gets n events more.
Adds(n) ==
    /\ n \in Nat
    /\ events' \in Seq(Event) /\ Len(events') = Len(events) + n
    /\ \A i \in 1..Len(events) : events'[i] = events[i]

Added(n) == (Len(events) + 1)..(Len(events) + n)

\* The log is a sequence of events.
LEMMA LogIsASeq == TypeOK => events \in Seq(Event) /\ Len(events) \in Nat
BY DEF TypeOK

\* A command that records one event.
LEMMA OneEvent ==
    ASSUME TypeOK, NEW e \in Event, events' = Append(events, e)
    PROVE  Adds(1) /\ Added(1) = {Len(events) + 1} /\ events'[Len(events) + 1] = e
BY LogIsASeq, AppendProperties DEF Adds, Added

\* A command that records two events.
LEMMA TwoEvents ==
    ASSUME TypeOK, NEW e \in Event, NEW f \in Event, events' = events \o <<e, f>>
    PROVE  /\ Adds(2) /\ Added(2) = {Len(events) + 1, Len(events) + 2}
           /\ events'[Len(events) + 1] = e /\ events'[Len(events) + 2] = f
<1>1. <<e, f>> \in Seq(Event) /\ Len(<<e, f>>) = 2 /\ <<e, f>>[1] = e /\ <<e, f>>[2] = f
  OBVIOUS
<1> QED
  BY <1>1, LogIsASeq, ConcatProperties DEF Adds, Added

-----------------------------------------------------------------------------
(* The latest measurement *)

\* The latest measurement in the log.
LEMMA LatestIs ==
    ASSUME TypeOK, LatestFound
    PROVE  /\ MeasurementRevisions \subseteq 1..Len(events)
           /\ LatestMeasurementRevision \in 0..Len(events)
           /\ \A j \in MeasurementRevisions : j <= LatestMeasurementRevision
           /\ MeasurementRevisions # {} => LatestMeasurementRevision \in MeasurementRevisions
           /\ MeasurementRevisions = {} => LatestMeasurementRevision = 0
<1>1. MeasurementRevisions \subseteq 1..Len(events)
  BY DEF MeasurementRevisions
<1>2. CASE MeasurementRevisions = {}
  BY <1>2, LogIsASeq DEF LatestMeasurementRevision
<1>3. CASE MeasurementRevisions # {}
  <2>1. \E i \in MeasurementRevisions : IsLatestMeasurement(i)
    BY <1>3 DEF LatestFound
  <2>2. /\ LatestMeasurementRevision \in MeasurementRevisions
        /\ IsLatestMeasurement(LatestMeasurementRevision)
    BY <2>1 DEF LatestMeasurementRevision
  <2> QED
    BY <1>1, <1>3, <2>2 DEF IsLatestMeasurement
<1> QED
  BY <1>2, <1>3

\* Events that are no measurements leave the latest measurement where it is.
LEMMA LatestStays ==
    ASSUME TypeOK, LatestFound, NEW n, Adds(n),
           \A i \in Added(n) : events'[i].type \notin MeasurementTypes
    PROVE  /\ MeasurementRevisions' = MeasurementRevisions
           /\ LatestMeasurementRevision' = LatestMeasurementRevision
<1>1. MeasurementRevisions' = MeasurementRevisions
  BY LogIsASeq DEF Adds, Added, MeasurementRevisions
<1>2. \A i : IsLatestMeasurement(i)' <=> IsLatestMeasurement(i)
  BY <1>1 DEF IsLatestMeasurement
<1> QED
  BY <1>1, <1>2 DEF LatestMeasurementRevision

\* A measurement becomes the latest.
LEMMA LatestMoves ==
    ASSUME TypeOK, LatestFound, Adds(1), events'[Len(events) + 1].type \in MeasurementTypes
    PROVE  /\ MeasurementRevisions' = MeasurementRevisions \cup {Len(events) + 1}
           /\ LatestMeasurementRevision' = Len(events) + 1
           /\ LatestFound'
<1>1. MeasurementRevisions' = MeasurementRevisions \cup {Len(events) + 1}
  BY LogIsASeq DEF Adds, MeasurementRevisions
<1>2. MeasurementRevisions \subseteq 1..Len(events) /\ Len(events) \in Nat
  BY LatestIs, LogIsASeq
<1>3. \A i : IsLatestMeasurement(i)' <=> i = Len(events) + 1
  <2>1. ASSUME NEW i, i = Len(events) + 1 PROVE IsLatestMeasurement(i)'
    BY <1>1, <1>2, <2>1 DEF IsLatestMeasurement
  <2>2. ASSUME NEW i, IsLatestMeasurement(i)' PROVE i = Len(events) + 1
    <3>1. i \in MeasurementRevisions' /\ Len(events) + 1 <= i
      BY <1>1, <2>2 DEF IsLatestMeasurement
    <3> QED
      BY <1>1, <1>2, <3>1
  <2> QED
    BY <2>1, <2>2
<1> QED
  BY <1>1, <1>3 DEF LatestMeasurementRevision, LatestFound

-----------------------------------------------------------------------------
(* What the parts of the invariant live through *)

\* A log goes on as its status allows.
LEMMA LogGoesOn ==
    ASSUME TypeOK, LogExplainsStatus, NEW n, Adds(n), n > 0,
           events'[Len(events) + 1].type \in LegalIn(status),
           \A i \in Added(n) : i < Len(events) + n =>
               events'[i + 1].type \in LegalIn(StatusAfter(events'[i])),
           status' = StatusAfter(events'[Len(events) + n])
    PROVE  LogExplainsStatus'
<1>1. status' = StatusAfter(events'[Len(events')])
  BY DEF Adds
<1>2. ASSUME NEW i \in 1..(Len(events') - 1)
      PROVE  events'[i + 1].type \in LegalIn(StatusAfter(events'[i]))
  <2>1. CASE i < Len(events)
    <3>1. i \in 1..(Len(events) - 1) /\ i \in 1..Len(events) /\ i + 1 \in 1..Len(events)
      BY <2>1, LogIsASeq DEF Adds
    <3>2. events'[i] = events[i] /\ events'[i + 1] = events[i + 1]
      BY <3>1 DEF Adds
    <3> QED
      BY <3>1, <3>2 DEF LogExplainsStatus
  <2>2. CASE i = Len(events)
    BY <2>2, LogIsASeq DEF Adds, LogExplainsStatus
  <2>3. CASE i > Len(events)
    BY <2>3, LogIsASeq DEF Adds, Added
  <2> QED
    BY <2>1, <2>2, <2>3, LogIsASeq DEF Adds
<1> QED
  BY <1>1, <1>2 DEF LogExplainsStatus, StatusAfter, LegalIn

\* Events by the right people leave the authors of the log the right ones.
LEMMA AuthorsStay ==
    ASSUME TypeOK, AuthorsKnown, UNCHANGED duties, NEW n, Adds(n),
           \A i \in Added(n) :
              /\ events'[i].type = "DISCREPANCY_DECIDED" => events'[i].by = duties.reviewer
              /\ events'[i].type = "RELEASE_DECISION" => events'[i].by = duties.authorizer
              /\ events'[i].type = "SEALED" => events'[i].by # duties.reviewer
              /\ events'[i].type = "PLAN_SUBMITTED" =>
                    events'[i].by \notin {duties.reviewer, duties.authorizer}
    PROVE  AuthorsKnown'
BY LogIsASeq DEF Adds, Added, AuthorsKnown

\* While nothing is measured or decided, the decisions on the latest measurement are
\* what they were.
LEMMA DecisionsStay ==
    ASSUME TypeOK, LatestFound, OwnWork, EachDisagreementDecidedOnce, NEW n, Adds(n),
           \A i \in Added(n) : /\ events'[i].type \notin MeasurementTypes
                               /\ events'[i].type # "DISCREPANCY_DECIDED",
           UNCHANGED <<duties, measurement, discrepancies>>
    PROVE  OwnWork' /\ EachDisagreementDecidedOnce' /\ OpenDiscrepancies' = OpenDiscrepancies
<1>1. /\ LatestMeasurementRevision' = LatestMeasurementRevision
      /\ LatestMeasurementRevision \in 0..Len(events)
  BY LatestIs, LatestStays
<1>2. DecisionsSince(LatestMeasurementRevision)' = DecisionsSince(LatestMeasurementRevision)
  BY <1>1, LogIsASeq DEF Adds, Added, DecisionsSince
<1>3. OpenDiscrepancies' = OpenDiscrepancies
  BY DEF OpenDiscrepancies
<1>4. OwnWork'
  BY <1>1, <1>2, LogIsASeq DEF OwnWork, Adds
<1>5. EachDisagreementDecidedOnce'
  BY <1>2, <1>3 DEF EachDisagreementDecidedOnce
<1> QED
  BY <1>3, <1>4, <1>5

\* Rounds stay sound while nothing is measured or refused.
LEMMA LinksStay ==
    ASSUME TypeOK, LatestFound, RemediationLinksSound, ReplacementAnswersRefusedMeasurement,
           NEW n, Adds(n),
           \A i \in Added(n) : /\ events'[i].type \notin MeasurementTypes
                               /\ events'[i].type = "RELEASE_DECISION" => events'[i].ok,
           UNCHANGED remediations
    PROVE  RemediationLinksSound' /\ ReplacementAnswersRefusedMeasurement'
<1>1. MeasurementRevisions' = MeasurementRevisions
  BY LatestStays
<1>2. ReplacementAnswersRefusedMeasurement'
  BY <1>1 DEF ReplacementAnswersRefusedMeasurement
<1>3. ASSUME NEW k \in 1..Len(remediations) PROVE RoundSound(k)'
  <2>1. RoundSound(k)
    BY DEF RemediationLinksSound
  <2> QED
    BY <1>1, <2>1, LogIsASeq DEF RoundSound, Adds
<1>4. ASSUME NEW i \in 1..Len(events') PROVE HasRound(i)'
  <2>1. CASE i \in 1..Len(events)
    BY <2>1 DEF RemediationLinksSound, HasRound, Adds
  <2>2. CASE i \in Added(n)
    BY <2>2 DEF HasRound, MeasurementTypes
  <2> QED
    BY <2>1, <2>2, LogIsASeq DEF Adds, Added
<1>5. RemediationLinksSound'
  BY <1>3, <1>4 DEF RemediationLinksSound
<1> QED
  BY <1>2, <1>5

\* The review under a release stays where it is.
LEMMA ApprovalStays ==
    ASSUME TypeOK, LatestFound, ApprovalFollowsReview, NEW n, Adds(n),
           \A i \in Added(n) : events'[i].type \notin MeasurementTypes,
           UNCHANGED measurement, IsReleased' => IsReleased
    PROVE  ApprovalFollowsReview'
<1> SUFFICES ASSUME IsReleased'
             PROVE  \E i \in LatestMeasurementRevision'..Len(events') :
                       /\ i < Len(events')
                       /\ events'[i + 1].type = "RELEASE_DECISION" /\ events'[i + 1].ok
                       /\ measurement'.differ # {} =>
                             events'[i].type = "REVIEW_RESULT" /\ events'[i].ok
  BY DEF ApprovalFollowsReview
<1>1. /\ LatestMeasurementRevision' = LatestMeasurementRevision
      /\ LatestMeasurementRevision \in 1..Len(events)
  BY LatestIs, LatestStays DEF LatestFound, IsReleased
<1>2. PICK i \in LatestMeasurementRevision..Len(events) :
          /\ i < Len(events)
          /\ events[i + 1].type = "RELEASE_DECISION" /\ events[i + 1].ok
          /\ measurement.differ # {} => events[i].type = "REVIEW_RESULT" /\ events[i].ok
  BY DEF ApprovalFollowsReview
<1>3. i \in 1..Len(events) /\ i + 1 \in 1..Len(events) /\ i \in Nat
  BY <1>1, <1>2, LogIsASeq
<1>4. /\ i \in LatestMeasurementRevision'..Len(events') /\ i < Len(events')
      /\ events'[i] = events[i] /\ events'[i + 1] = events[i + 1]
  BY <1>1, <1>2, <1>3, LogIsASeq DEF Adds
<1> QED
  BY <1>2, <1>4

-----------------------------------------------------------------------------
(* The commands that judge nothing and measure nothing *)

Tested == {"TESTED", "REVIEW_PENDING", "RELEASED", "SEALED"}

\* Events that are neither measurements, nor decisions, nor refusals, while nothing
\* is open, leave all but the status, the authors and the approval as it was.
LEMMA QuietStep ==
    ASSUME Story, NEW n, Adds(n), OpenDiscrepancies = {},
           \A i \in Added(n) :
              /\ events'[i].type \notin MeasurementTypes \cup {"DISCREPANCY_DECIDED"}
              /\ events'[i].type = "RELEASE_DECISION" => events'[i].ok,
           UNCHANGED <<duties, measurement, discrepancies, remediations>>,
           status' \in Tested => status \in Tested
    PROVE  /\ Len(events') > 0 /\ LatestFound' /\ OpenOnlyWhenTested' /\ OwnWork'
           /\ EachDisagreementDecidedOnce'
           /\ RemediationLinksSound' /\ ReplacementAnswersRefusedMeasurement'
<1>1. TypeOK
  BY DEF Story, IInv
<1>2. Len(events') > 0
  BY <1>1, LogIsASeq DEF Story, Adds
<1>3. MeasurementRevisions' = MeasurementRevisions
  BY <1>1, LatestStays DEF Story
<1>4. \A i : IsLatestMeasurement(i)' <=> IsLatestMeasurement(i)
  BY <1>3 DEF IsLatestMeasurement
<1>5. LatestFound'
  BY <1>3, <1>4 DEF Story, LatestFound, Tested
<1>6. OwnWork' /\ EachDisagreementDecidedOnce' /\ OpenDiscrepancies' = OpenDiscrepancies
  BY <1>1, DecisionsStay DEF Story
<1>7. RemediationLinksSound' /\ ReplacementAnswersRefusedMeasurement'
  BY <1>1, LinksStay DEF Story
<1> QED
  BY <1>2, <1>5, <1>6, <1>7 DEF OpenOnlyWhenTested

\* A step that leaves the case unreleased needs no approval.
LEMMA NoApproval == ASSUME status' \notin {"RELEASED", "SEALED"} PROVE ApprovalFollowsReview'
BY DEF ApprovalFollowsReview, IsReleased

\* SubmitPlan keeps the story.
LEMMA StoryPlan ==
    ASSUME Story, IInv', NEW p \in People, NEW minutes \in 0..MaxExposure,
           SubmitPlan(p, minutes)
    PROVE  Story'
<1> DEFINE e == EventBy("PLAN_SUBMITTED", p)
<1>1. TypeOK
  BY DEF Story, IInv
<1>2. e \in Event /\ e.type = "PLAN_SUBMITTED" /\ e.by = p
  BY EventType DEF EventTypes, EventBy
<1>3. /\ status = "DRAFT" /\ status' = "PLAN_READY" /\ events' = Append(events, e)
      /\ p \notin {duties.reviewer, duties.authorizer}
      /\ UNCHANGED <<duties, measurement, discrepancies, remediations>>
  BY DEF SubmitPlan
<1> HIDE DEF e
<1>4. Adds(1) /\ Added(1) = {Len(events) + 1} /\ events'[Len(events) + 1] = e
  BY <1>1, <1>2, <1>3, OneEvent
<1>5. OpenDiscrepancies = {}
  BY <1>3 DEF Story, OpenOnlyWhenTested
<1>6. /\ Len(events') > 0 /\ LatestFound' /\ OpenOnlyWhenTested' /\ OwnWork'
      /\ EachDisagreementDecidedOnce'
      /\ RemediationLinksSound' /\ ReplacementAnswersRefusedMeasurement'
  BY <1>2, <1>3, <1>4, <1>5, QuietStep DEF MeasurementTypes, Tested
<1>7. AuthorsKnown'
  BY <1>1, <1>2, <1>3, <1>4, AuthorsStay DEF Story
<1>8. LogExplainsStatus'
  BY <1>1, <1>2, <1>3, <1>4, LogGoesOn, StatusTable, LegalTable, LogIsASeq DEF Story
<1>9. ApprovalFollowsReview'
  BY <1>3, NoApproval
<1> QED
  BY <1>6, <1>7, <1>8, <1>9 DEF Story

\* Seal keeps the story.
LEMMA StorySeal ==
    ASSUME Story, IInv', NEW p \in People, Seal(p)
    PROVE  Story'
<1> DEFINE e == EventBy("SEALED", p)
<1>1. TypeOK
  BY DEF Story, IInv
<1>2. e \in Event /\ e.type = "SEALED" /\ e.by = p
  BY EventType DEF EventTypes, EventBy
<1>3. /\ status = "RELEASED" /\ status' = "SEALED" /\ events' = Append(events, e)
      /\ p # duties.reviewer
      /\ UNCHANGED <<duties, measurement, discrepancies, remediations>>
  BY DEF Seal
<1> HIDE DEF e
<1>4. Adds(1) /\ Added(1) = {Len(events) + 1} /\ events'[Len(events) + 1] = e
  BY <1>1, <1>2, <1>3, OneEvent
<1>5. OpenDiscrepancies = {}
  BY <1>3 DEF Story, OpenOnlyWhenTested
<1>6. /\ Len(events') > 0 /\ LatestFound' /\ OpenOnlyWhenTested' /\ OwnWork'
      /\ EachDisagreementDecidedOnce'
      /\ RemediationLinksSound' /\ ReplacementAnswersRefusedMeasurement'
  BY <1>2, <1>3, <1>4, <1>5, QuietStep DEF MeasurementTypes, Tested
<1>7. AuthorsKnown'
  BY <1>1, <1>2, <1>3, <1>4, AuthorsStay DEF Story
<1>8. LogExplainsStatus'
  BY <1>1, <1>2, <1>3, <1>4, LogGoesOn, StatusTable, LegalTable, LogIsASeq DEF Story
<1>9. ApprovalFollowsReview'
  BY <1>1, <1>2, <1>3, <1>4, ApprovalStays DEF Story, IsReleased, MeasurementTypes
<1> QED
  BY <1>6, <1>7, <1>8, <1>9 DEF Story

\* ConfirmConditioning keeps the story.
LEMMA StoryConfirm ==
    ASSUME Story, IInv', ConfirmConditioning
    PROVE  Story'
<1> DEFINE e == EventBy("CONDITIONED", NoOne)
<1>1. TypeOK
  BY DEF Story, IInv
<1>2. e \in Event /\ e.type = "CONDITIONED"
  BY EventType DEF EventTypes, EventBy
<1>3. /\ status = "PLAN_READY" /\ status' = "CONDITIONED" /\ events' = Append(events, e)
      /\ UNCHANGED <<duties, measurement, discrepancies, remediations>>
  BY DEF ConfirmConditioning
<1> HIDE DEF e
<1>4. Adds(1) /\ Added(1) = {Len(events) + 1} /\ events'[Len(events) + 1] = e
  BY <1>1, <1>2, <1>3, OneEvent
<1>5. OpenDiscrepancies = {}
  BY <1>3 DEF Story, OpenOnlyWhenTested
<1>6. /\ Len(events') > 0 /\ LatestFound' /\ OpenOnlyWhenTested' /\ OwnWork'
      /\ EachDisagreementDecidedOnce'
      /\ RemediationLinksSound' /\ ReplacementAnswersRefusedMeasurement'
  BY <1>2, <1>3, <1>4, <1>5, QuietStep DEF MeasurementTypes, Tested
<1>7. AuthorsKnown'
  BY <1>1, <1>2, <1>3, <1>4, AuthorsStay DEF Story
<1>8. LogExplainsStatus'
  BY <1>1, <1>2, <1>3, <1>4, LogGoesOn, StatusTable, LegalTable, LogIsASeq DEF Story
<1>9. ApprovalFollowsReview'
  BY <1>3, NoApproval
<1> QED
  BY <1>6, <1>7, <1>8, <1>9 DEF Story

\* A reading or a batch keeps the story.
LEMMA StoryCondition ==
    ASSUME Story, IInv', NEW minutes, NEW confirm \in BOOLEAN, status = "PLAN_READY",
           NEW type \in {"CONDITIONING_READING", "CONDITIONING_BATCH_RECORDED"},
           Condition(type, minutes, confirm)
    PROVE  Story'
<1> DEFINE e == EventBy(type, NoOne)
           f == EventBy("CONDITIONED", NoOne)
<1>1. TypeOK
  BY DEF Story, IInv
<1>2. /\ e \in Event /\ e.type = type
      /\ f \in Event /\ f.type = "CONDITIONED"
  BY EventType DEF EventTypes, EventBy
<1>3. UNCHANGED <<duties, measurement, discrepancies, remediations>>
  BY DEF Condition
<1>4. \/ status' = status /\ events' = Append(events, e)
      \/ status' = "CONDITIONED" /\ events' = events \o <<e, f>>
  BY DEF Condition
<1> HIDE DEF e, f
<1>5. OpenDiscrepancies = {}
  BY DEF Story, OpenOnlyWhenTested
<1>6. ASSUME NEW n, Adds(n), \A i \in Added(n) : events'[i] \in {e, f}
      PROVE  /\ Len(events') > 0 /\ LatestFound' /\ OpenOnlyWhenTested' /\ OwnWork'
             /\ EachDisagreementDecidedOnce'
             /\ RemediationLinksSound' /\ ReplacementAnswersRefusedMeasurement'
             /\ AuthorsKnown' /\ ApprovalFollowsReview'
  <2>1. \A i \in Added(n) : events'[i].type \in {type, "CONDITIONED"}
    BY <1>2, <1>6
  <2>2. /\ Len(events') > 0 /\ LatestFound' /\ OpenOnlyWhenTested' /\ OwnWork'
        /\ EachDisagreementDecidedOnce'
        /\ RemediationLinksSound' /\ ReplacementAnswersRefusedMeasurement'
    BY <1>3, <1>4, <1>5, <1>6, <2>1, QuietStep DEF MeasurementTypes, Tested
  <2>3. AuthorsKnown'
    BY <1>1, <1>3, <1>6, <2>1, AuthorsStay DEF Story
  <2> QED
    BY <1>4, <2>2, <2>3, NoApproval
<1>7. CASE status' = status /\ events' = Append(events, e)
  <2>1. Adds(1) /\ Added(1) = {Len(events) + 1} /\ events'[Len(events) + 1] = e
    BY <1>1, <1>2, <1>7, OneEvent
  <2>2. LogExplainsStatus'
    BY <1>1, <1>2, <1>7, <2>1, LogGoesOn, StatusTable, LegalTable, LogIsASeq DEF Story
  <2> QED
    BY <1>6, <2>1, <2>2 DEF Story
<1>8. CASE status' = "CONDITIONED" /\ events' = events \o <<e, f>>
  <2>1. /\ Adds(2) /\ Added(2) = {Len(events) + 1, Len(events) + 2}
        /\ events'[Len(events) + 1] = e /\ events'[Len(events) + 2] = f
    BY <1>1, <1>2, <1>8, TwoEvents
  <2>2. /\ e.type \in LegalIn(status) /\ StatusAfter(e) = "PLAN_READY"
        /\ f.type \in LegalIn("PLAN_READY") /\ StatusAfter(f) = "CONDITIONED"
    BY <1>2, StatusTable, LegalTable
  <2>3. \A i \in Added(2) : i < Len(events) + 2 => i = Len(events) + 1 /\ i + 1 = Len(events) + 2
    BY <1>1, LogIsASeq DEF Added
  <2>4. \A i \in Added(2) : i < Len(events) + 2 =>
            events'[i + 1].type \in LegalIn(StatusAfter(events'[i]))
    BY <2>1, <2>2, <2>3
  <2>5. /\ events'[Len(events) + 1].type \in LegalIn(status)
        /\ status' = StatusAfter(events'[Len(events) + 2])
        /\ LogExplainsStatus
    BY <1>8, <2>1, <2>2 DEF Story
  <2>6. LogExplainsStatus'
    BY <1>1, <2>1, <2>4, <2>5, LogGoesOn
  <2> QED
    BY <1>6, <2>1, <2>6 DEF Story
<1> QED
  BY <1>4, <1>7, <1>8

-----------------------------------------------------------------------------
(* Release decisions *)

\* A metric without a discrepancy is one the groups agree on.
LEMMA NoDisagreement == IInv /\ NoDiscrepancies /\ measurement \in Measured => measurement.differ = {}
<1> SUFFICES ASSUME IInv, NoDiscrepancies, measurement \in Measured
             PROVE  measurement.differ = {}
  OBVIOUS
<1>1. measurement.differ \subseteq Metrics
  BY DEF Measured
<1> QED
  BY <1>1 DEF IInv, Evidence, NoDiscrepancies

\* A case waits for a release because a review passed it.
LEMMA ReviewIsLast ==
    ASSUME Story, status = "REVIEW_PENDING"
    PROVE  events[Len(events)].type = "REVIEW_RESULT" /\ events[Len(events)].ok
<1>1. events[Len(events)] \in Event
  BY LogIsASeq DEF Story, IInv
<1>2. StatusAfter(events[Len(events)]) = "REVIEW_PENDING"
  BY DEF Story, LogExplainsStatus
<1> QED
  BY <1>1, <1>2, StatusTable DEF Event, EventTypes, MeasurementTypes

\* ApproveRelease keeps the story.
LEMMA StoryApprove ==
    ASSUME Story, IInv', NEW p \in People, ApproveRelease(p)
    PROVE  Story'
<1> DEFINE e == Outcome("RELEASE_DECISION", p, TRUE)
<1>1. TypeOK
  BY DEF Story, IInv
<1>2. e \in Event /\ e.type = "RELEASE_DECISION" /\ e.by = p /\ e.ok
  BY EventType DEF EventTypes, Outcome
<1>3. /\ status \in {"REVIEW_PENDING", "TESTED"} /\ status' = "RELEASED"
      /\ events' = Append(events, e) /\ p = duties.authorizer
      /\ status = "TESTED" => NoDiscrepancies
      /\ Unresolved = {}
      /\ UNCHANGED <<duties, measurement, discrepancies, remediations>>
  BY DEF ApproveRelease, MaySign, CanSign
<1> HIDE DEF e
<1>4. Adds(1) /\ Added(1) = {Len(events) + 1} /\ events'[Len(events) + 1] = e
  BY <1>1, <1>2, <1>3, OneEvent
<1>5. OpenDiscrepancies = {}
  BY <1>3 DEF Unresolved, OpenDiscrepancies
<1>6. /\ Len(events') > 0 /\ LatestFound' /\ OpenOnlyWhenTested' /\ OwnWork'
      /\ EachDisagreementDecidedOnce'
      /\ RemediationLinksSound' /\ ReplacementAnswersRefusedMeasurement'
  BY <1>2, <1>3, <1>4, <1>5, QuietStep DEF MeasurementTypes, Tested
<1>7. AuthorsKnown'
  BY <1>1, <1>2, <1>3, <1>4, AuthorsStay DEF Story
<1>8. LogExplainsStatus'
  BY <1>1, <1>2, <1>3, <1>4, LogGoesOn, StatusTable, LegalTable, LogIsASeq DEF Story
<1>9. ApprovalFollowsReview'
  <2>1. measurement.differ # {} =>
            events[Len(events)].type = "REVIEW_RESULT" /\ events[Len(events)].ok
    BY <1>3, NoDisagreement, ReviewIsLast DEF Story, IInv, Evidence
  <2>2. /\ LatestMeasurementRevision' = LatestMeasurementRevision
        /\ LatestMeasurementRevision \in 0..Len(events)
    BY <1>1, <1>2, <1>4, LatestIs, LatestStays DEF Story, MeasurementTypes
  <2>3. PICK i : i = Len(events)
    OBVIOUS
  <2>4. /\ i \in LatestMeasurementRevision'..Len(events') /\ i < Len(events')
        /\ events'[i] = events[i] /\ events'[i + 1] = e
    BY <1>1, <1>4, <2>2, <2>3, LogIsASeq DEF Adds, Story
  <2> QED
    BY <1>2, <1>3, <2>1, <2>3, <2>4 DEF ApprovalFollowsReview
<1> QED
  BY <1>6, <1>7, <1>8, <1>9 DEF Story

\* RejectRelease keeps the story.
LEMMA StoryReject ==
    ASSUME Story, IInv', NEW p \in People, RejectRelease(p)
    PROVE  Story'
<1> DEFINE e == Outcome("RELEASE_DECISION", p, FALSE)
           last == Len(remediations)
<1>1. TypeOK
  BY DEF Story, IInv
<1>2. e \in Event /\ e.type = "RELEASE_DECISION" /\ e.by = p /\ ~e.ok
  BY EventType DEF EventTypes, Outcome
<1>3. /\ status \in {"REVIEW_PENDING", "TESTED"} /\ status' = "TESTED"
      /\ events' = Append(events, e) /\ p = duties.authorizer
      /\ remediations' = Append(remediations, NewRound)
      /\ UNCHANGED <<duties, measurement, discrepancies>>
  BY DEF RejectRelease, MaySign
<1> HIDE DEF e
<1>4. Adds(1) /\ Added(1) = {Len(events) + 1} /\ events'[Len(events) + 1] = e
  BY <1>1, <1>2, <1>3, OneEvent
<1>5. /\ MeasurementRevisions' = MeasurementRevisions
      /\ LatestMeasurementRevision' = LatestMeasurementRevision
  BY <1>1, <1>2, <1>4, LatestStays DEF Story, MeasurementTypes
<1>6. /\ LatestMeasurementRevision \in MeasurementRevisions
      /\ MeasurementRevisions \subseteq 1..Len(events)
      /\ \A j \in MeasurementRevisions : j <= LatestMeasurementRevision
  BY <1>1, <1>3, LatestIs DEF Story, LatestFound
<1>7. LatestFound'
  <2>1. \A i : IsLatestMeasurement(i)' <=> IsLatestMeasurement(i)
    BY <1>5 DEF IsLatestMeasurement
  <2> QED
    BY <1>3, <1>5, <1>6, <2>1 DEF Story, LatestFound
<1>8. OwnWork' /\ EachDisagreementDecidedOnce' /\ OpenDiscrepancies' = OpenDiscrepancies
  BY <1>1, <1>2, <1>3, <1>4, DecisionsStay DEF Story, MeasurementTypes
<1>9. AuthorsKnown'
  BY <1>1, <1>2, <1>3, <1>4, AuthorsStay DEF Story
<1>10. LogExplainsStatus'
  BY <1>1, <1>2, <1>3, <1>4, LogGoesOn, StatusTable, LegalTable, LogIsASeq DEF Story
<1>11. /\ NewRound.rejected = Len(events) + 1 /\ NewRound.replacement = 0
       /\ NewRound.supersedes = LatestMeasurementRevision
       /\ NewRound \in Round
  BY <1>1, LatestIsNat, LogIsASeq DEF NewRound, Round, Revision
<1>12. /\ remediations \in Seq(Round) /\ last \in Nat /\ Len(remediations') = last + 1
       /\ \A k \in 1..last : remediations'[k] = remediations[k] /\ remediations[k] \in Round
       /\ remediations'[last + 1] = NewRound
  BY <1>1, <1>3, <1>11, AppendProperties, ElementOfSeq DEF TypeOK
<1>13. \A k \in 1..last : RoundSound(k)
  BY DEF Story, RemediationLinksSound
<1>14. ASSUME NEW k \in 1..(last + 1) PROVE RoundSound(k)'
  <2>1. CASE k \in 1..last
    <3>1. RoundSound(k) /\ remediations'[k] = remediations[k]
      BY <1>12, <1>13, <2>1
    <3>2. k + 1 \in 1..(last + 1) /\ (k < last => k + 1 \in 1..last)
      BY <1>12, <2>1
    <3>3. /\ remediations[k].rejected < Len(events) + 1
          /\ remediations[k].replacement < Len(events) + 1
      BY <1>1, <1>12, <2>1, <3>1, LogIsASeq DEF RoundSound, Round
    <3>4. k = last => remediations'[k + 1] = NewRound
      BY <1>12
    <3>5. k < last => remediations'[k + 1] = remediations[k + 1]
      BY <1>12, <3>2
    <3>6. /\ remediations'[k].rejected < remediations'[k + 1].rejected
          /\ remediations'[k].replacement < remediations'[k + 1].rejected
      <4>1. CASE k = last
        BY <1>11, <3>1, <3>3, <3>4, <4>1
      <4>2. CASE k < last
        BY <3>1, <3>5, <4>2 DEF RoundSound
      <4> QED
        BY <1>12, <2>1, <4>1, <4>2
    <3> QED
      BY <1>1, <1>4, <1>5, <3>1, <3>6, LogIsASeq DEF RoundSound, Adds
  <2>2. CASE k = last + 1
    <3>1. remediations'[k] = NewRound /\ ~(k < Len(remediations'))
      BY <1>12, <2>2
    <3>2. events'[Len(events) + 1] = e /\ Len(events) + 1 \in 1..Len(events')
      BY <1>1, <1>4, LogIsASeq DEF Adds
    <3> QED
      BY <1>1, <1>2, <1>5, <1>6, <1>11, <3>1, <3>2, LogIsASeq DEF RoundSound
  <2> QED
    BY <1>12, <2>1, <2>2
<1>15. ASSUME NEW i \in 1..Len(events') PROVE HasRound(i)'
  <2>1. CASE i \in 1..Len(events)
    <3>1. HasRound(i) /\ events'[i] = events[i]
      BY <1>4, <2>1 DEF Story, RemediationLinksSound, Adds
    <3> QED
      BY <1>12, <3>1 DEF HasRound
  <2>2. CASE i = Len(events) + 1
    <3>1. last + 1 \in 1..Len(remediations') /\ remediations'[last + 1].rejected = i
      BY <1>11, <1>12, <2>2
    <3>2. events'[i].type = "RELEASE_DECISION"
      BY <1>2, <1>4, <2>2
    <3> QED
      BY <3>1, <3>2 DEF HasRound
  <2> QED
    BY <1>1, <1>4, <2>1, <2>2, LogIsASeq DEF Adds
<1>16. RemediationLinksSound'
  BY <1>12, <1>14, <1>15 DEF RemediationLinksSound
<1>17. ReplacementAnswersRefusedMeasurement'
  <2>1. ASSUME NEW k \in 1..(last + 1), NEW i \in MeasurementRevisions
        PROVE  ~(remediations'[k].supersedes < i /\ i < remediations'[k].replacement)
    <3>1. CASE k \in 1..last
      BY <1>12, <3>1 DEF Story, ReplacementAnswersRefusedMeasurement
    <3>2. CASE k = last + 1
      BY <1>6, <1>11, <1>12, <3>2
    <3> QED
      BY <1>12, <3>1, <3>2
  <2> QED
    BY <1>5, <1>12, <2>1 DEF ReplacementAnswersRefusedMeasurement
<1>18. OpenOnlyWhenTested' /\ ApprovalFollowsReview' /\ Len(events') > 0
  BY <1>1, <1>3, <1>4, NoApproval, LogIsASeq DEF OpenOnlyWhenTested, Adds
<1> QED
  BY <1>7, <1>8, <1>9, <1>10, <1>16, <1>17, <1>18 DEF Story

-----------------------------------------------------------------------------
(* Measurements *)

\* A measurement of a case with nothing open starts its decisions afresh.
LEMMA FreshMeasurement ==
    ASSUME Story, Adds(1), events'[Len(events) + 1].type \in MeasurementTypes,
           NEW m \in Measured, measurement' = m,
           NEW old \in [Metrics -> Decisions], \A x \in Metrics : old[x] # "OPEN",
           discrepancies' = Rediscovered(old, m)
    PROVE  /\ LatestFound' /\ EachDisagreementDecidedOnce'
           /\ MeasurementRevisions' = MeasurementRevisions \cup {Len(events) + 1}
           /\ LatestMeasurementRevision' = Len(events) + 1
           /\ DecisionsSince(LatestMeasurementRevision)' = {}
<1>1. TypeOK
  BY DEF Story, IInv
<1>2. /\ MeasurementRevisions' = MeasurementRevisions \cup {Len(events) + 1}
      /\ LatestMeasurementRevision' = Len(events) + 1
      /\ LatestFound'
  BY <1>1, LatestMoves DEF Story
<1>3. DecisionsSince(LatestMeasurementRevision)' = {}
  BY <1>1, <1>2, LogIsASeq DEF DecisionsSince, Adds
<1>4. OpenDiscrepancies' = m.differ
  BY DEF OpenDiscrepancies, Rediscovered, Measured
<1>5. (measurement.differ \ OpenDiscrepancies)' = {}
  BY <1>4
<1>6. EachDisagreementDecidedOnce'
  BY <1>3, <1>4, <1>5 DEF EachDisagreementDecidedOnce
<1> QED
  BY <1>2, <1>3, <1>6

\* AddMeasurements keeps the story.
LEMMA StoryMeasure ==
    ASSUME Story, IInv', NEW m \in Measured, AddMeasurements(m)
    PROVE  Story'
<1> DEFINE e == EventBy("MEASUREMENTS_RECORDED", NoOne)
<1>1. TypeOK
  BY DEF Story, IInv
<1>2. e \in Event /\ e.type = "MEASUREMENTS_RECORDED"
  BY EventType DEF EventTypes, MeasurementTypes, EventBy
<1>3. /\ status = "CONDITIONED" /\ status' = "TESTED" /\ events' = Append(events, e)
      /\ measurement' = m /\ discrepancies' = Rediscovered(discrepancies, m)
      /\ UNCHANGED <<duties, remediations>>
  BY DEF AddMeasurements
<1> HIDE DEF e
<1>4. Adds(1) /\ Added(1) = {Len(events) + 1} /\ events'[Len(events) + 1] = e
  BY <1>1, <1>2, <1>3, OneEvent
<1>5. /\ discrepancies \in [Metrics -> Decisions]
      /\ \A x \in Metrics : discrepancies[x] # "OPEN"
  BY <1>1, <1>3 DEF Story, OpenOnlyWhenTested, OpenDiscrepancies, TypeOK
<1>6. /\ LatestFound' /\ EachDisagreementDecidedOnce'
      /\ MeasurementRevisions' = MeasurementRevisions \cup {Len(events) + 1}
      /\ LatestMeasurementRevision' = Len(events) + 1
      /\ DecisionsSince(LatestMeasurementRevision)' = {}
  BY <1>2, <1>3, <1>4, <1>5, FreshMeasurement DEF MeasurementTypes
<1>7. OwnWork'
  BY <1>2, <1>4, <1>6 DEF OwnWork
<1>8. AuthorsKnown'
  BY <1>1, <1>2, <1>3, <1>4, AuthorsStay DEF Story
<1>9. LogExplainsStatus'
  BY <1>1, <1>2, <1>3, <1>4, LogGoesOn, StatusTable, LegalTable, LogIsASeq DEF Story
<1>10. ASSUME NEW k \in 1..Len(remediations)
       PROVE  /\ RoundSound(k)'
              /\ \A i \in MeasurementRevisions' :
                    ~(remediations[k].supersedes < i /\ i < remediations[k].replacement)
  <2>1. /\ RoundSound(k) /\ remediations[k] \in Round
        /\ \A i \in MeasurementRevisions :
              ~(remediations[k].supersedes < i /\ i < remediations[k].replacement)
    BY <1>1, ElementOfSeq
    DEF Story, RemediationLinksSound, ReplacementAnswersRefusedMeasurement, TypeOK
  <2>2. remediations[k].rejected < Len(events) + 1 /\ remediations[k].replacement < Len(events) + 1
    BY <1>1, <2>1, LogIsASeq DEF RoundSound, Round
  <2>3. RoundSound(k)'
    BY <1>1, <1>3, <1>4, <1>6, <2>1, <2>2, LogIsASeq DEF RoundSound, Adds
  <2> QED
    BY <1>1, <1>6, <2>1, <2>2, <2>3, LogIsASeq DEF Round
<1>11. ASSUME NEW i \in 1..Len(events') PROVE HasRound(i)'
  <2>1. CASE i \in 1..Len(events)
    BY <1>3, <1>4, <2>1 DEF Story, RemediationLinksSound, HasRound, Adds
  <2>2. CASE i = Len(events) + 1
    BY <1>2, <1>4, <2>2 DEF HasRound
  <2> QED
    BY <1>1, <1>4, <2>1, <2>2, LogIsASeq DEF Adds
<1>12. RemediationLinksSound' /\ ReplacementAnswersRefusedMeasurement'
  BY <1>3, <1>10, <1>11 DEF RemediationLinksSound, ReplacementAnswersRefusedMeasurement
<1>13. OpenOnlyWhenTested' /\ ApprovalFollowsReview' /\ Len(events') > 0
  BY <1>1, <1>3, <1>4, NoApproval, LogIsASeq DEF OpenOnlyWhenTested, Adds
<1> QED
  BY <1>6, <1>7, <1>8, <1>9, <1>12, <1>13 DEF Story

\* ReplaceMeasurements keeps the story.
LEMMA StoryReplace ==
    ASSUME Story, IInv', NEW m \in Measured, ReplaceMeasurements(m)
    PROVE  Story'
<1> DEFINE e == EventBy("REMEDIATION_MEASUREMENTS_RECORDED", NoOne)
           last == Len(remediations)
           round == [remediations[last] EXCEPT !.replacement = Revision + 1]
           none == [x \in Metrics |-> "NONE"]
<1>1. TypeOK
  BY DEF Story, IInv
<1>2. e \in Event /\ e.type = "REMEDIATION_MEASUREMENTS_RECORDED"
  BY EventType DEF EventTypes, MeasurementTypes, EventBy
<1>3. /\ status = "TESTED" /\ status' = status /\ events' = Append(events, e)
      /\ measurement' = m /\ discrepancies' = Rediscovered(none, m)
      /\ remediations' = [remediations EXCEPT ![last] = round]
      /\ m.by \cap {duties.reviewer, duties.authorizer} = {}
      /\ UNCHANGED duties
  BY DEF ReplaceMeasurements, AwaitsReplacement, AcceptableReplacement
<1>4. /\ remediations # <<>> /\ remediations[last].replacement = 0
      /\ remediations[last].supersedes = LatestMeasurementRevision
  BY DEF ReplaceMeasurements, AwaitsReplacement
<1> HIDE DEF e
<1>5. Adds(1) /\ Added(1) = {Len(events) + 1} /\ events'[Len(events) + 1] = e
  BY <1>1, <1>2, <1>3, OneEvent
<1>6. none \in [Metrics -> Decisions] /\ \A x \in Metrics : none[x] # "OPEN"
  BY DEF Decisions
<1> HIDE DEF none
<1>7. /\ LatestFound' /\ EachDisagreementDecidedOnce'
      /\ MeasurementRevisions' = MeasurementRevisions \cup {Len(events) + 1}
      /\ LatestMeasurementRevision' = Len(events) + 1
      /\ DecisionsSince(LatestMeasurementRevision)' = {}
  BY <1>2, <1>3, <1>5, <1>6, FreshMeasurement DEF MeasurementTypes
<1>8. OwnWork'
  BY <1>3, <1>7 DEF OwnWork
<1>9. AuthorsKnown'
  BY <1>1, <1>2, <1>3, <1>5, AuthorsStay DEF Story
<1>10. LogExplainsStatus'
  BY <1>1, <1>2, <1>3, <1>5, LogGoesOn, StatusTable, LegalTable, LogIsASeq DEF Story
<1>11. remediations \in Seq(Round) /\ last \in 1..last
  BY <1>1, <1>4, EmptySeq DEF TypeOK
<1>12. /\ round \in Round /\ round.replacement = Len(events) + 1
       /\ round.rejected = remediations[last].rejected
       /\ round.supersedes = remediations[last].supersedes
  <2>1. remediations[last] \in Round
    BY <1>11, ElementOfSeq
  <2> QED
    BY <1>1, <2>1, LogIsASeq DEF Round, Revision
<1> HIDE DEF round
<1>13. /\ Len(remediations') = last /\ remediations'[last] = round
       /\ \A k \in 1..last : k # last => remediations'[k] = remediations[k]
  BY <1>3, <1>11, <1>12, ExceptSeq
<1> HIDE DEF last
<1>14. \A k \in 1..last : /\ remediations'[k].rejected = remediations[k].rejected
                          /\ remediations'[k].supersedes = remediations[k].supersedes
  BY <1>12, <1>13
<1>15. ASSUME NEW k \in 1..last
       PROVE  /\ RoundSound(k) /\ remediations[k] \in Round
              /\ remediations[k].rejected < Len(events) + 1
              /\ remediations[k].replacement < Len(events) + 1
              /\ \A i \in MeasurementRevisions :
                    ~(remediations[k].supersedes < i /\ i < remediations[k].replacement)
  <2>1. /\ RoundSound(k) /\ remediations[k] \in Round
        /\ \A i \in MeasurementRevisions :
              ~(remediations[k].supersedes < i /\ i < remediations[k].replacement)
    BY <1>11, ElementOfSeq
    DEF Story, RemediationLinksSound, ReplacementAnswersRefusedMeasurement, last
  <2> QED
    BY <1>1, <2>1, LogIsASeq DEF RoundSound, Round
<1>16. ASSUME NEW k \in 1..last PROVE RoundSound(k)'
  <2>1. CASE k # last
    <3>1. k + 1 \in 1..last /\ k < last
      BY <1>11, <2>1
    <3>2. remediations'[k] = remediations[k] /\ remediations'[k + 1].rejected = remediations[k + 1].rejected
      BY <1>13, <1>14, <2>1, <3>1
    <3>3. /\ Len(events) \in Nat /\ Len(events') = Len(events) + 1
          /\ \A i \in 1..Len(events) : events'[i] = events[i]
      BY <1>1, <1>5, LogIsASeq DEF Adds
    <3>4. PICK r \in Round : r = remediations[k]
      BY <1>15
    <3>5. RoundSound(k) /\ r.rejected < Len(events) + 1 /\ r.replacement < Len(events) + 1
      BY <1>15, <3>4
    <3>6. /\ r.rejected \in Nat /\ r.replacement \in Nat /\ r.rejected \in 1..Len(events')
      BY <3>3, <3>4, <3>5 DEF RoundSound, Round
    <3>7. events'[r.rejected].type = "RELEASE_DECISION" /\ ~events'[r.rejected].ok
      BY <3>3, <3>4, <3>5 DEF RoundSound
    <3>8. /\ r.supersedes \in MeasurementRevisions' /\ r.supersedes < r.rejected
          /\ \A i \in MeasurementRevisions' : i <= r.supersedes \/ i > r.rejected
      BY <1>7, <3>3, <3>4, <3>5, <3>6 DEF RoundSound
    <3>9. r.replacement # 0 =>
              /\ r.replacement \in r.rejected..Len(events')
              /\ events'[r.replacement].type = "REMEDIATION_MEASUREMENTS_RECORDED"
      BY <3>3, <3>4, <3>5, <3>6 DEF RoundSound
    <3>10. /\ r.rejected < remediations'[k + 1].rejected
           /\ r.replacement < remediations'[k + 1].rejected
      BY <3>1, <3>2, <3>4, <3>5 DEF RoundSound, last
    <3> QED
      BY <3>2, <3>4, <3>6, <3>7, <3>8, <3>9, <3>10 DEF RoundSound
  <2>2. CASE k = last
    <3>1. /\ RoundSound(k) /\ remediations[k] \in Round
          /\ remediations[k].rejected < Len(events) + 1
      BY <1>15
    <3>2. /\ remediations'[k] = round /\ ~(k < Len(remediations'))
          /\ round.rejected = remediations[k].rejected
          /\ round.supersedes = remediations[k].supersedes
          /\ round.replacement = Len(events) + 1
      BY <1>11, <1>12, <1>13, <2>2
    <3> QED
      BY <1>1, <1>2, <1>5, <1>7, <3>1, <3>2, LogIsASeq DEF RoundSound, Adds, Round
  <2> QED
    BY <2>1, <2>2
<1>17. ASSUME NEW i \in 1..Len(events') PROVE HasRound(i)'
  <2>1. CASE i \in 1..Len(events)
    <3>1. HasRound(i) /\ events'[i] = events[i] /\ i # 0
      BY <1>1, <1>5, <2>1, LogIsASeq DEF Story, RemediationLinksSound, Adds
    <3> QED
      BY <1>4, <1>13, <1>14, <3>1 DEF HasRound, last
  <2>2. CASE i = Len(events) + 1
    <3>1. remediations'[last].replacement = i /\ last \in 1..Len(remediations')
      BY <1>11, <1>12, <1>13, <2>2
    <3>2. events'[i].type = "REMEDIATION_MEASUREMENTS_RECORDED"
      BY <1>2, <1>5, <2>2
    <3> QED
      BY <3>1, <3>2 DEF HasRound
  <2> QED
    BY <1>1, <1>5, <2>1, <2>2, LogIsASeq DEF Adds
<1>18. RemediationLinksSound'
  BY <1>13, <1>16, <1>17 DEF RemediationLinksSound
<1>19. ASSUME NEW k \in 1..last, NEW i \in MeasurementRevisions'
       PROVE  ~(remediations'[k].supersedes < i /\ i < remediations'[k].replacement)
  <2>1. CASE k # last
    BY <1>1, <1>7, <1>13, <1>15, <2>1, LogIsASeq DEF Round
  <2>2. CASE k = last
    <3>1. \A j \in MeasurementRevisions : j <= LatestMeasurementRevision
      BY <1>1, LatestIs DEF Story
    <3> QED
      BY <1>1, <1>4, <1>7, <1>12, <1>13, <2>2, <3>1, LogIsASeq, LatestIs DEF last, Story
  <2> QED
    BY <2>1, <2>2
<1>20. ReplacementAnswersRefusedMeasurement'
  BY <1>13, <1>19 DEF ReplacementAnswersRefusedMeasurement
<1>21. OpenOnlyWhenTested' /\ ApprovalFollowsReview' /\ Len(events') > 0
  BY <1>1, <1>3, <1>5, NoApproval, LogIsASeq DEF OpenOnlyWhenTested, Adds
<1> QED
  BY <1>7, <1>8, <1>9, <1>10, <1>18, <1>20, <1>21 DEF Story

-----------------------------------------------------------------------------
(* Reviews *)

\* What one request of decisions adds to the log: its decisions and, when it closes
\* the review, the result.
DecisionsMade(p, n) == \A i \in Added(n) : events'[i] = EventBy("DISCREPANCY_DECIDED", p)

\* DecideDiscrepancies records one decision for each metric that is named, and the result
\* of the review behind them when it is complete.
LEMMA DecisionsAdded ==
    ASSUME TypeOK, NEW p \in People, NEW named \in SUBSET Metrics,
           NEW verdicts \in [named -> Verdicts], DecideDiscrepancies(p, verdicts)
    PROVE  LET n == Cardinality(named)
           IN  /\ n \in Nat /\ n > 0
               /\ \/ /\ Adds(n) /\ DecisionsMade(p, n)
                     /\ status' = "TESTED"
                  \/ \E pass \in BOOLEAN :
                        /\ Adds(n + 1) /\ DecisionsMade(p, n)
                        /\ events'[Len(events) + n + 1] = Outcome("REVIEW_RESULT", NoOne, pass)
                        /\ OpenDiscrepancies \ named = {}
                        /\ status' = Reviewed(pass)
<1> DEFINE n == Cardinality(named)
           e == EventBy("DISCREPANCY_DECIDED", p)
           items == [i \in 1..n |-> e]
           pass  == \A m \in Metrics : discrepancies'[m] \in {"NONE", "PASS"}
           f == Outcome("REVIEW_RESULT", NoOne, pass)
<1>1. DOMAIN verdicts = named /\ n \in Nat
  BY VerdictsFinite
<1>2. n > 0
  <2>1. named # {} /\ IsFiniteSet(named)
    BY <1>1, CaseAssumptions, FS_Subset DEF DecideDiscrepancies
  <2> QED
    BY <1>1, <2>1, FS_EmptySet
<1>3. \/ /\ status' = status
         /\ events' = events \o items
      \/ /\ OpenDiscrepancies \ named = {}
         /\ status' = Reviewed(pass)
         /\ events' = events \o items \o <<f>>
  BY <1>1 DEF DecideDiscrepancies
<1>4. status = "TESTED"
  BY DEF DecideDiscrepancies
<1>5. e \in Event /\ f \in Event
  BY EventType DEF EventTypes
<1> HIDE DEF n, e, f
<1>6. items \in Seq(Event) /\ Len(items) = n /\ \A i \in 1..n : items[i] = e
  BY <1>1, <1>5
<1> HIDE DEF items
<1>7. /\ events \o items \in Seq(Event)
      /\ Len(events \o items) = Len(events) + n
      /\ \A i \in 1..Len(events) : (events \o items)[i] = events[i]
      /\ \A i \in Added(n) : (events \o items)[i] = e
  <2>1. /\ events \o items \in Seq(Event)
        /\ Len(events \o items) = Len(events) + n
        /\ \A i \in 1..(Len(events) + n) :
              (events \o items)[i] = IF i <= Len(events) THEN events[i] ELSE items[i - Len(events)]
    BY <1>6, LogIsASeq, ConcatProperties
  <2>2. ASSUME NEW i \in Added(n)
        PROVE  i \in 1..(Len(events) + n) /\ ~(i <= Len(events)) /\ i - Len(events) \in 1..n
    BY <1>1, LogIsASeq DEF Added
  <2>3. \A i \in 1..Len(events) : i \in 1..(Len(events) + n) /\ i <= Len(events)
    BY <1>1, LogIsASeq
  <2> QED
    BY <1>6, <2>1, <2>2, <2>3
<1>8. CASE status' = status /\ events' = events \o items
  BY <1>1, <1>2, <1>4, <1>7, <1>8 DEF Adds, DecisionsMade, e, n
<1>9. CASE /\ OpenDiscrepancies \ named = {}
           /\ status' = Reviewed(pass)
           /\ events' = events \o items \o <<f>>
  <2>1. <<f>> \in Seq(Event) /\ Len(<<f>>) = 1 /\ <<f>>[1] = f
    BY <1>5
  <2>2. PICK long \in Seq(Event) : long = events \o items
    BY <1>7
  <2>3. events' = long \o <<f>>
    BY <1>9, <2>2
  <2>4. /\ events' \in Seq(Event)
        /\ Len(events') = Len(long) + 1
        /\ \A i \in 1..Len(long) : events'[i] = long[i]
        /\ events'[Len(long) + 1] = f
    BY <2>1, <2>3, ConcatProperties, LenProperties
  <2>5. Adds(n + 1) /\ DecisionsMade(p, n) /\ events'[Len(events) + n + 1] = f
    BY <1>1, <1>7, <2>2, <2>4, LogIsASeq DEF Adds, Added, DecisionsMade, e
  <2>6. pass \in BOOLEAN
    OBVIOUS
  <2> HIDE DEF pass
  <2> QED
    BY <1>1, <1>2, <1>9, <2>5, <2>6 DEF f, n
<1> QED
  BY <1>3, <1>8, <1>9

\* Deciding a metric takes it from the open ones.
LEMMA DecidedIsClosed ==
    ASSUME TypeOK, NEW p \in People, NEW named \in SUBSET Metrics,
           NEW verdicts \in [named -> Verdicts], DecideDiscrepancies(p, verdicts)
    PROVE  named \subseteq OpenDiscrepancies /\ OpenDiscrepancies' = OpenDiscrepancies \ named
<1>1. /\ DOMAIN verdicts = named /\ named \subseteq OpenDiscrepancies
      /\ discrepancies' = Decided(discrepancies, verdicts)
  BY DEF DecideDiscrepancies, Decidable
<1> QED
  BY <1>1 DEF OpenDiscrepancies, Decided, Verdicts

\* The decisions of a request count as many disagreements as they close.
LEMMA CountsAgree ==
    ASSUME TypeOK, LatestFound, EachDisagreementDecidedOnce,
           NEW named \in SUBSET OpenDiscrepancies, NEW n \in Nat, n = Cardinality(named),
           UNCHANGED <<measurement, LatestMeasurementRevision>>,
           OpenDiscrepancies' = OpenDiscrepancies \ named,
           DecisionsSince(LatestMeasurementRevision)'
             = DecisionsSince(LatestMeasurementRevision) \cup Added(n)
    PROVE  EachDisagreementDecidedOnce'
<1> DEFINE S == DecisionsSince(LatestMeasurementRevision)
           T == measurement.differ \ OpenDiscrepancies
<1>1. Len(events) \in Nat
  BY LogIsASeq
<1>2. IsFiniteSet(S) /\ S \cap Added(n) = {}
  <2>1. S \subseteq 1..Len(events)
    BY DEF DecisionsSince
  <2>2. IsFiniteSet(S)
    <3>1. IsFiniteSet(1..Len(events))
      BY <1>1, FS_Interval
    <3> QED
      BY <2>1, <3>1, FS_Subset
  <2>3. (1..Len(events)) \cap Added(n) = {}
    BY <1>1 DEF Added
  <2> QED
    BY <2>1, <2>2, <2>3
<1>3. IsFiniteSet(Added(n)) /\ Cardinality(Added(n)) = n
  <2>1. PICK a \in Int : a = Len(events) + 1
    BY <1>1
  <2>2. PICK b \in Int : b = Len(events) + n
    BY <1>1
  <2>3. IsFiniteSet(a..b) /\ Cardinality(a..b) = IF a > b THEN 0 ELSE b - a + 1
    BY FS_Interval
  <2>4. Added(n) = a..b /\ (IF a > b THEN 0 ELSE b - a + 1) = n
    BY <1>1, <2>1, <2>2 DEF Added
  <2> QED
    BY <2>3, <2>4
<1>4. Cardinality(S \cup Added(n)) = Cardinality(S) + n
  <2>1. Cardinality({}) = 0 /\ Cardinality(S) \in Nat
    BY <1>2, FS_EmptySet, FS_CardinalityType
  <2> QED
    BY <1>2, <1>3, <2>1, FS_Union
<1>5. measurement.differ \subseteq Metrics /\ OpenDiscrepancies \subseteq measurement.differ
  BY DEF TypeOK, Measured, NoMeasurement, EachDisagreementDecidedOnce
<1>6. IsFiniteSet(T) /\ IsFiniteSet(named) /\ T \cap named = {}
  BY <1>5, CaseAssumptions, FS_Subset
<1>7. Cardinality(T \cup named) = Cardinality(T) + n
  <2>1. Cardinality({}) = 0 /\ Cardinality(T) \in Nat
    BY <1>6, FS_EmptySet, FS_CardinalityType
  <2> QED
    BY <1>6, <2>1, FS_Union
<1>8. (measurement.differ \ OpenDiscrepancies)' = T \cup named
  BY <1>5
<1>9. Cardinality(S) = Cardinality(T)
  BY DEF EachDisagreementDecidedOnce
<1>10. /\ DecisionsSince(LatestMeasurementRevision)' = S \cup Added(n)
       /\ OpenDiscrepancies' \subseteq measurement'.differ
  BY <1>5
<1> HIDE DEF S, T
<1> QED
  BY <1>4, <1>7, <1>8, <1>9, <1>10 DEF EachDisagreementDecidedOnce

\* DecideDiscrepancies keeps the story.
LEMMA StoryDecide ==
    ASSUME Story, IInv', NEW p \in People, NEW named \in SUBSET Metrics,
           NEW verdicts \in [named -> Verdicts], DecideDiscrepancies(p, verdicts)
    PROVE  Story'
<1> DEFINE n == Cardinality(named)
           e == EventBy("DISCREPANCY_DECIDED", p)
<1>1. TypeOK
  BY DEF Story, IInv
<1>2. /\ status = "TESTED" /\ p = duties.reviewer /\ p \notin measurement.by
      /\ UNCHANGED <<duties, measurement, remediations>>
  BY DEF DecideDiscrepancies, MayDecide
<1>3. e.type = "DISCREPANCY_DECIDED" /\ e.by = p
  BY DEF EventBy
<1>4. named \subseteq OpenDiscrepancies /\ OpenDiscrepancies' = OpenDiscrepancies \ named
  BY <1>1, DecidedIsClosed
<1>5. n \in Nat /\ n > 0
  BY <1>1, DecisionsAdded
<1>6. Added(n) = (Len(events) + 1)..(Len(events) + n) /\ Len(events) \in Nat
  BY <1>1, LogIsASeq DEF Added
<1>7. \/ Adds(n) /\ DecisionsMade(p, n) /\ status' = "TESTED"
      \/ \E pass \in BOOLEAN :
            /\ Adds(n + 1) /\ DecisionsMade(p, n)
            /\ events'[Len(events) + n + 1] = Outcome("REVIEW_RESULT", NoOne, pass)
            /\ OpenDiscrepancies \ named = {}
            /\ status' = Reviewed(pass)
  BY <1>1, DecisionsAdded
<1> HIDE DEF n, e
<1>8. ASSUME NEW k \in {n, n + 1}, Adds(k), DecisionsMade(p, n),
             k = n + 1 => events'[Len(events) + n + 1].type = "REVIEW_RESULT",
             status' \in {"TESTED", "REVIEW_PENDING", "CONDITIONED"}
      PROVE  /\ Len(events') > 0 /\ LatestFound' /\ AuthorsKnown' /\ OwnWork'
             /\ EachDisagreementDecidedOnce' /\ ApprovalFollowsReview'
             /\ RemediationLinksSound' /\ ReplacementAnswersRefusedMeasurement'
  <2>1. \A i \in Added(k) : i \in Added(n) \/ (k = n + 1 /\ i = Len(events) + n + 1)
    BY <1>5, <1>6, <1>8 DEF Added
  <2>2. \A i \in Added(k) : \/ i \in Added(n) /\ events'[i] = e
                            \/ i \notin Added(n) /\ events'[i].type = "REVIEW_RESULT"
    BY <1>5, <1>6, <1>8, <2>1 DEF DecisionsMade, e
  <2>3. \A i \in Added(k) : events'[i].type \in {"DISCREPANCY_DECIDED", "REVIEW_RESULT"}
    BY <1>3, <2>2
  <2>4. /\ MeasurementRevisions' = MeasurementRevisions
        /\ LatestMeasurementRevision' = LatestMeasurementRevision
    BY <1>1, <1>8, <2>3, LatestStays DEF Story, MeasurementTypes
  <2>5. LatestFound'
    <3>1. \A i : IsLatestMeasurement(i)' <=> IsLatestMeasurement(i)
      BY <2>4 DEF IsLatestMeasurement
    <3> QED
      BY <1>2, <2>4, <3>1 DEF Story, LatestFound
  <2>6. LatestMeasurementRevision \in 1..Len(events)
    BY <1>1, <1>2, LatestIs DEF Story, LatestFound
  <2>7. AuthorsKnown'
    BY <1>1, <1>2, <1>3, <1>8, <2>2, AuthorsStay DEF Story
  <2>8. DecisionsSince(LatestMeasurementRevision)'
          = DecisionsSince(LatestMeasurementRevision) \cup Added(n)
    <3>1. \A i \in 1..Len(events') : i \in 1..Len(events) \/ i \in Added(k)
      BY <1>6, <1>8 DEF Adds, Added
    <3>2. Added(n) \subseteq Added(k) /\ Added(k) \subseteq 1..Len(events')
      BY <1>5, <1>6, <1>8 DEF Adds, Added
    <3>3. \A i \in Added(k) : i > Len(events) /\ i > LatestMeasurementRevision
      BY <1>6, <2>6 DEF Added
    <3>4. \A i : i \in DecisionsSince(LatestMeasurementRevision)' <=>
                 i \in DecisionsSince(LatestMeasurementRevision) \cup Added(n)
      <4>1. ASSUME NEW i \in 1..Len(events)
            PROVE  i \in DecisionsSince(LatestMeasurementRevision)' <=>
                   i \in DecisionsSince(LatestMeasurementRevision) \cup Added(n)
        <5>1. events'[i] = events[i] /\ i \in 1..Len(events') /\ i \notin Added(n)
          BY <1>6, <1>8 DEF Adds, Added
        <5> QED
          BY <2>4, <5>1 DEF DecisionsSince
      <4>2. ASSUME NEW i \in Added(k)
            PROVE  i \in DecisionsSince(LatestMeasurementRevision)' <=>
                   i \in DecisionsSince(LatestMeasurementRevision) \cup Added(n)
        <5>1. i \in 1..Len(events') /\ i > LatestMeasurementRevision
              /\ i \notin DecisionsSince(LatestMeasurementRevision)
          BY <1>6, <3>2, <3>3 DEF DecisionsSince
        <5>2. i \in Added(n) <=> events'[i].type = "DISCREPANCY_DECIDED"
          BY <1>3, <2>2
        <5> QED
          BY <2>4, <5>1, <5>2 DEF DecisionsSince
      <4> QED
        BY <3>1, <3>2, <4>1, <4>2 DEF DecisionsSince
    <3> QED
      BY <3>4
  <2>9. EachDisagreementDecidedOnce'
    BY <1>1, <1>2, <1>4, <1>5, <2>4, <2>8, CountsAgree DEF Story, n
  <2>10. OwnWork'
    <3>1. events'[LatestMeasurementRevision] = events[LatestMeasurementRevision]
      BY <1>8, <2>6 DEF Adds
    <3> QED
      BY <1>2, <2>4, <3>1 DEF Story, OwnWork
  <2>11. RemediationLinksSound' /\ ReplacementAnswersRefusedMeasurement'
    BY <1>1, <1>2, <1>8, <2>3, LinksStay DEF Story, MeasurementTypes
  <2> QED
    BY <1>5, <1>6, <1>8, <2>5, <2>7, <2>9, <2>10, <2>11, NoApproval DEF Adds
<1>9. CASE Adds(n) /\ DecisionsMade(p, n) /\ status' = "TESTED"
  <2>1. LogExplainsStatus'
    <3>1. \A i \in Added(n) : events'[i] = e
      BY <1>9 DEF DecisionsMade, e
    <3>2. Len(events) + 1 \in Added(n) /\ Len(events) + n \in Added(n)
      BY <1>5, <1>6
    <3>3. e.type \in LegalIn("TESTED") /\ StatusAfter(e) = "TESTED"
      BY <1>3, StatusTable, LegalTable
    <3>4. \A i \in Added(n) : i < Len(events) + n => i + 1 \in Added(n)
      BY <1>5, <1>6
    <3> QED
      BY <1>1, <1>2, <1>5, <1>9, <3>1, <3>2, <3>3, <3>4, LogGoesOn DEF Story
  <2> QED
    BY <1>5, <1>8, <1>9, <2>1 DEF Story, OpenOnlyWhenTested
<1>10. ASSUME NEW pass \in BOOLEAN,
              Adds(n + 1), DecisionsMade(p, n),
              events'[Len(events) + n + 1] = Outcome("REVIEW_RESULT", NoOne, pass),
              OpenDiscrepancies \ named = {},
              status' = Reviewed(pass)
       PROVE  Story'
  <2> DEFINE f == Outcome("REVIEW_RESULT", NoOne, pass)
  <2>1. f.type = "REVIEW_RESULT" /\ f.ok = pass
    BY DEF Outcome
  <2>2. events'[Len(events) + n + 1] = f
    BY <1>10
  <2> HIDE DEF f
  <2>3. status' \in {"REVIEW_PENDING", "CONDITIONED"}
    BY <1>10 DEF Reviewed
  <2>4. LogExplainsStatus'
    <3>1. \A i \in Added(n) : events'[i] = e
      BY <1>10 DEF DecisionsMade, e
    <3>2. Len(events) + 1 \in Added(n)
      BY <1>5, <1>6
    <3>3. /\ e.type \in LegalIn("TESTED") /\ StatusAfter(e) = "TESTED"
          /\ f.type \in LegalIn("TESTED") /\ StatusAfter(f) = Reviewed(pass)
      BY <1>3, <2>1, StatusTable, LegalTable DEF Reviewed
    <3>4. \A i \in Added(n + 1) : i < Len(events) + (n + 1) =>
              i \in Added(n) /\ (i + 1 \in Added(n) \/ i + 1 = Len(events) + n + 1)
      BY <1>5, <1>6 DEF Added
    <3>5. \A i \in Added(n + 1) : i < Len(events) + (n + 1) =>
              events'[i + 1].type \in LegalIn(StatusAfter(events'[i]))
      BY <2>2, <3>1, <3>3, <3>4
    <3>6. /\ events'[Len(events) + 1].type \in LegalIn(status)
          /\ status' = StatusAfter(events'[Len(events) + (n + 1)])
          /\ n + 1 > 0 /\ LogExplainsStatus
      <4>1. Len(events) + (n + 1) = Len(events) + n + 1
        BY <1>5, <1>6
      <4> QED
        BY <1>2, <1>5, <1>10, <2>2, <3>1, <3>2, <3>3, <4>1 DEF Story
    <3> QED
      BY <1>1, <1>10, <3>5, <3>6, LogGoesOn
  <2> QED
    BY <1>4, <1>8, <1>10, <2>1, <2>2, <2>3, <2>4 DEF Story, OpenOnlyWhenTested
<1> QED
  BY <1>7, <1>9, <1>10

-----------------------------------------------------------------------------
(* The invariant *)

\* The story begins with the creation of the case.
LEMMA StoryInit == Init => Story
<1> SUFFICES ASSUME Init PROVE Story
  OBVIOUS
<1> DEFINE e == EventBy("CASE_CREATED", duties.owner)
<1>1. IInv /\ duties \in Duties
  BY IInvInit DEF Init
<1>2. e.type = "CASE_CREATED"
  BY DEF EventBy
<1>3. events = <<e>>
  BY DEF Init
<1> HIDE DEF e
<1>4. Len(events) = 1 /\ events[1] = e /\ \A i \in 1..Len(events) : i = 1
  BY <1>3
<1>5. MeasurementRevisions = {} /\ LatestMeasurementRevision = 0
  BY <1>2, <1>4 DEF MeasurementRevisions, LatestMeasurementRevision, MeasurementTypes
<1>6. DecisionsSince(LatestMeasurementRevision) = {}
  BY <1>2, <1>4 DEF DecisionsSince
<1>7. OpenDiscrepancies = {} /\ measurement.differ = {}
  BY DEF Init, OpenDiscrepancies, NoMeasurement
<1>8. LatestFound /\ OwnWork
  BY <1>5, <1>6 DEF LatestFound, OwnWork, Init
<1>9. AuthorsKnown
  BY <1>2, <1>4 DEF AuthorsKnown, Init
<1>10. LogExplainsStatus
  BY <1>2, <1>4, StatusTable DEF LogExplainsStatus, Init
<1>11. EachDisagreementDecidedOnce
  <2>1. measurement.differ \ OpenDiscrepancies = {}
    BY <1>7
  <2> QED
    BY <1>6, <1>7, <2>1 DEF EachDisagreementDecidedOnce
<1>12. RemediationLinksSound /\ ReplacementAnswersRefusedMeasurement
  <2>1. Len(remediations) = 0
    BY DEF Init
  <2>2. \A i \in 1..Len(events) : HasRound(i)
    BY <1>2, <1>4 DEF HasRound
  <2> QED
    BY <2>1, <2>2 DEF RemediationLinksSound, ReplacementAnswersRefusedMeasurement
<1> QED
  BY <1>1, <1>4, <1>7, <1>8, <1>9, <1>10, <1>11, <1>12
  DEF Story, OpenOnlyWhenTested, ApprovalFollowsReview, IsReleased, Init

\* A stutter keeps the story.
LEMMA StoryStutters == Story /\ UNCHANGED vars => Story'
<1> SUFFICES ASSUME Story, UNCHANGED vars PROVE Story'
  OBVIOUS
<1>1. UNCHANGED <<status, duties, required, exposure, measurement, discrepancies,
                  remediations, events>>
  BY DEF vars
<1>2. TypeOK /\ IInv'
  BY <1>1, TypeNext, EvidenceNext DEF Story, IInv
<1>3. Adds(0) /\ Added(0) = {}
  BY <1>1, <1>2, LogIsASeq DEF Adds, Added
<1>4. /\ MeasurementRevisions' = MeasurementRevisions
      /\ LatestMeasurementRevision' = LatestMeasurementRevision
  BY <1>2, <1>3, LatestStays DEF Story
<1>5. LatestFound'
  <2>1. \A i : IsLatestMeasurement(i)' <=> IsLatestMeasurement(i)
    BY <1>4 DEF IsLatestMeasurement
  <2> QED
    BY <1>1, <1>4, <2>1 DEF Story, LatestFound
<1>6. OwnWork' /\ EachDisagreementDecidedOnce' /\ OpenDiscrepancies' = OpenDiscrepancies
  BY <1>1, <1>2, <1>3, DecisionsStay DEF Story
<1>7. RemediationLinksSound' /\ ReplacementAnswersRefusedMeasurement'
  BY <1>1, <1>2, <1>3, LinksStay DEF Story
<1>8. ApprovalFollowsReview'
  BY <1>1, <1>2, <1>3, ApprovalStays DEF Story, IsReleased
<1>9. AuthorsKnown' /\ LogExplainsStatus' /\ OpenOnlyWhenTested' /\ Len(events') > 0
  BY <1>1, <1>6 DEF Story, AuthorsKnown, LogExplainsStatus, OpenOnlyWhenTested
<1> QED
  BY <1>2, <1>5, <1>6, <1>7, <1>8, <1>9 DEF Story

\* Every step keeps the story.
LEMMA StoryNext == Story /\ IInv' /\ [Next]_vars => Story'
<1> SUFFICES ASSUME Story, IInv', [Next]_vars PROVE Story'
  OBVIOUS
<1>1. ASSUME NEW minutes \in 0..MaxExposure, NEW confirm \in BOOLEAN,
             AddConditioning(minutes, confirm) \/ AddConditioningBatch(minutes, confirm)
      PROVE  Story'
  BY <1>1, StoryCondition DEF AddConditioning, AddConditioningBatch
<1> QED
  BY <1>1, StoryPlan, StoryConfirm, StoryMeasure, StoryReplace, StoryDecide, StoryApprove,
     StoryReject, StorySeal, StoryStutters DEF Next

\* The log and the rest of the case tell the same story in every state.
THEOREM StoryHolds == Spec => []Story
<1>1. Init => Story
  BY StoryInit
<1>2. Story /\ IInv' /\ [Next]_vars => Story'
  BY StoryNext
<1>3. Spec => []IInv
  BY EvidenceCorrect
<1> QED
  BY <1>1, <1>2, <1>3, PTL DEF Spec

-----------------------------------------------------------------------------
(* What the log tells *)

\* Every event is one the case could accept after the event before it, and the last
\* one gives the status of the snapshot.
THEOREM LogAgreesWithStatus == Spec => []LogExplainsStatus
<1>1. Story => LogExplainsStatus
  BY DEF Story
<1> QED
  BY <1>1, StoryHolds, PTL

\* A disagreement between the groups is decided once for the measurement showing it.
THEOREM DecidedOnce == Spec => []EachDisagreementDecidedOnce
<1>1. Story => EachDisagreementDecidedOnce
  BY DEF Story
<1> QED
  BY <1>1, StoryHolds, PTL

\* A release of measurements that disagreed stands directly on the review that
\* passed them.
THEOREM ReleaseFollowsReview == Spec => []ApprovalFollowsReview
<1>1. Story => ApprovalFollowsReview
  BY DEF Story
<1> QED
  BY <1>1, StoryHolds, PTL

\* The revisions a remediation round names point where they should, and rounds do not
\* overlap.
THEOREM RoundsAreSound == Spec => []RemediationLinksSound
<1>1. Story => RemediationLinksSound
  BY DEF Story
<1> QED
  BY <1>1, StoryHolds, PTL

\* A replacement replaces the very measurement that was refused.
THEOREM ReplacementsAnswer == Spec => []ReplacementAnswersRefusedMeasurement
<1>1. Story => ReplacementAnswersRefusedMeasurement
  BY DEF Story
<1> QED
  BY <1>1, StoryHolds, PTL

\* Nobody judges their own work.
THEOREM NobodyJudgesOwnWork == Spec => []HandsAreSeparate
<1>1. ASSUME Story PROVE HandsAreSeparate
  <2> DEFINE Authors(type) == {events[i].by : i \in {j \in 1..Len(events) : events[j].type = type}}
  <2>1. ASSUME NEW i \in DecisionsSince(LatestMeasurementRevision)
        PROVE  events[i].by \notin measurement.by \cup {duties.owner}
    BY <1>1, <2>1 DEF Story, OwnWork, AuthorsKnown, DecisionsSince
  <2>2. Authors("DISCREPANCY_DECIDED") \subseteq {duties.reviewer}
    BY <1>1 DEF Story, AuthorsKnown
  <2>3. Authors("RELEASE_DECISION") \subseteq {duties.authorizer}
    BY <1>1 DEF Story, AuthorsKnown
  <2>4. duties.reviewer \notin Authors("SEALED")
    BY <1>1 DEF Story, AuthorsKnown
  <2>5. Authors("PLAN_SUBMITTED") \cap {duties.reviewer, duties.authorizer} = {}
    BY <1>1 DEF Story, AuthorsKnown
  <2>6. duties.reviewer # duties.authorizer
    BY <1>1 DEF Story, AuthorsKnown
  <2> HIDE DEF Authors
  <2>7. /\ Authors("DISCREPANCY_DECIDED") \cap Authors("RELEASE_DECISION") = {}
        /\ Authors("DISCREPANCY_DECIDED") \cap Authors("SEALED") = {}
        /\ Authors("PLAN_SUBMITTED")
              \cap (Authors("DISCREPANCY_DECIDED") \cup Authors("RELEASE_DECISION")) = {}
    BY <2>2, <2>3, <2>4, <2>5, <2>6
  <2>8. (/\ LatestMeasurementRevision > 0
         /\ events[LatestMeasurementRevision].type = "REMEDIATION_MEASUREMENTS_RECORDED")
          => measurement.by \cap {duties.reviewer, duties.authorizer} = {}
    BY <1>1 DEF Story, OwnWork
  <2> QED
    BY <2>1, <2>7, <2>8 DEF HandsAreSeparate, Authors
<1> QED
  BY <1>1, StoryHolds, PTL
=============================================================================
