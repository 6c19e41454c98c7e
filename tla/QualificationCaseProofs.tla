----------------------- MODULE QualificationCaseProofs -----------------------
(***************************************************************************)
(* Proofs about QualificationCase, for any people, metrics and bounds:     *)
(* type correctness, what a release rests on, and the release gate.        *)
(***************************************************************************)
EXTENDS QualificationCase, FiniteSetTheorems, SequenceTheorems, TLAPS

-----------------------------------------------------------------------------
(* Values *)

\* An event made by either constructor is an event.
LEMMA EventType ==
    ASSUME NEW type \in EventTypes, NEW p \in People \cup {NoOne}, NEW ok \in BOOLEAN
    PROVE  EventBy(type, p) \in Event /\ Outcome(type, p, ok) \in Event
BY DEF EventBy, Outcome, Event

\* The decisions of one request are finitely many.
LEMMA VerdictsFinite ==
    ASSUME NEW named \in SUBSET Metrics, NEW verdicts \in [named -> Verdicts]
    PROVE  DOMAIN verdicts = named /\ Cardinality(DOMAIN verdicts) \in Nat
<1>1. DOMAIN verdicts = named
  OBVIOUS
<1>2. IsFiniteSet(named)
  BY CaseAssumptions, FS_Subset
<1> QED
  BY <1>1, <1>2, FS_CardinalityType

\* The latest measurement revision is a revision, or 0.
LEMMA LatestIsNat == LatestMeasurementRevision \in Nat
<1>1. MeasurementRevisions \subseteq Nat
  BY DEF MeasurementRevisions
<1> QED
  BY <1>1 DEF LatestMeasurementRevision

\* Measurements name at least one executor, so none look like the empty map.
LEMMA MeasuredIsNotEmpty ==
    /\ \A m \in Measured : m.by # {}
    /\ NoMeasurement \notin Measured
BY CaseAssumptions DEF Measured, NoMeasurement

\* Decisions stay decisions when a measurement or a review changes them.
LEMMA DecisionsType ==
    ASSUME NEW old \in [Metrics -> Decisions]
    PROVE  /\ \A m \in Measured : Rediscovered(old, m) \in [Metrics -> Decisions]
           /\ \A named \in SUBSET Metrics : \A v \in [named -> Verdicts] :
                 Decided(old, v) \in [Metrics -> Decisions]
BY DEF Rediscovered, Decided, Decisions, Verdicts

-----------------------------------------------------------------------------
(* Type correctness *)

\* The variables have their types at first.
LEMMA TypeInit == Init => TypeOK
<1> SUFFICES ASSUME Init PROVE TypeOK
  OBVIOUS
<1>1. duties \in Duties
  BY DEF Init
<1>2. duties.owner \in People \cup {NoOne}
  BY <1>1 DEF Duties
<1>3. EventBy("CASE_CREATED", duties.owner) \in Event
  BY <1>2, EventType DEF EventTypes
<1>4. events \in Seq(Event)
  BY <1>3 DEF Init
<1>5. remediations \in Seq(Round)
  BY DEF Init
<1>6. discrepancies \in [Metrics -> Decisions]
  BY DEF Init, Decisions
<1> QED
  BY <1>1, <1>4, <1>5, <1>6, CaseAssumptions DEF Init, TypeOK, Statuses

\* Recording readings keeps the types, whichever command records them.
LEMMA TypeCondition ==
    ASSUME TypeOK, NEW minutes \in 0..MaxExposure, NEW confirm \in BOOLEAN,
           NEW type \in {"CONDITIONING_READING", "CONDITIONING_BATCH_RECORDED"},
           Condition(type, minutes, confirm)
    PROVE  TypeOK'
<1>1. EventBy(type, NoOne) \in Event /\ EventBy("CONDITIONED", NoOne) \in Event
  BY EventType DEF EventTypes
<1>2. <<EventBy(type, NoOne), EventBy("CONDITIONED", NoOne)>> \in Seq(Event)
  BY <1>1
<1>3. events' \in Seq(Event)
  <2>1. CASE ~confirm
    <3>1. events' = Append(events, EventBy(type, NoOne))
      BY <2>1 DEF Condition
    <3>2. events \in Seq(Event)
      BY DEF TypeOK
    <3> QED
      BY <3>1, <3>2, <1>1, AppendProperties
  <2>2. CASE confirm
    <3>1. events' = events \o <<EventBy(type, NoOne), EventBy("CONDITIONED", NoOne)>>
      BY <2>2 DEF Condition
    <3>2. events \in Seq(Event)
      BY DEF TypeOK
    <3> QED
      BY <3>1, <3>2, <1>2, ConcatProperties
  <2> QED
    BY <2>1, <2>2
<1>4. status' \in Statuses
  BY DEF Condition, TypeOK, Statuses
<1> QED
  BY <1>3, <1>4 DEF Condition, TypeOK

\* DecideDiscrepancies keeps the types.
LEMMA TypeDecide ==
    ASSUME TypeOK, NEW p \in People, NEW named \in SUBSET Metrics,
           NEW verdicts \in [named -> Verdicts], DecideDiscrepancies(p, verdicts)
    PROVE  TypeOK'
<1> DEFINE items == [i \in 1..Cardinality(DOMAIN verdicts) |-> EventBy("DISCREPANCY_DECIDED", p)]
           left  == OpenDiscrepancies \ DOMAIN verdicts
           pass  == \A m \in Metrics : discrepancies'[m] \in {"NONE", "PASS"}
<1>1. /\ discrepancies' = Decided(discrepancies, verdicts)
      /\ \/ /\ left # {}
            /\ status' = status
            /\ events' = events \o items
         \/ /\ left = {}
            /\ status' = Reviewed(pass)
            /\ events' = events \o items \o <<Outcome("REVIEW_RESULT", NoOne, pass)>>
      /\ UNCHANGED <<duties, required, exposure, measurement, remediations>>
  BY DEF DecideDiscrepancies
<1>2. EventBy("DISCREPANCY_DECIDED", p) \in Event
  BY EventType DEF EventTypes
<1>3. pass \in BOOLEAN
  OBVIOUS
<1>4. Outcome("REVIEW_RESULT", NoOne, pass) \in Event
  BY <1>3, EventType DEF EventTypes
<1>5. items \in Seq(Event)
  <2>1. Cardinality(DOMAIN verdicts) \in Nat
    BY VerdictsFinite
  <2> QED
    BY <2>1, <1>2
<1>6. events \in Seq(Event)
  BY DEF TypeOK
<1>7. events \o items \in Seq(Event)
  BY <1>5, <1>6, ConcatProperties
<1> HIDE DEF items, pass
<1>8. events \o items \o <<Outcome("REVIEW_RESULT", NoOne, pass)>> \in Seq(Event)
  BY <1>4, <1>7, ConcatProperties
<1>9. events' \in Seq(Event)
  BY <1>1, <1>7, <1>8
<1>10. status' \in Statuses
  BY <1>1 DEF TypeOK, Statuses, Reviewed
<1>11. discrepancies' \in [Metrics -> Decisions]
  BY <1>1, DecisionsType DEF TypeOK
<1> QED
  BY <1>1, <1>9, <1>10, <1>11 DEF TypeOK

\* Every step keeps the types.
LEMMA TypeNext == TypeOK /\ [Next]_vars => TypeOK'
<1> SUFFICES ASSUME TypeOK, [Next]_vars PROVE TypeOK'
  OBVIOUS
<1> USE DEF EventTypes, MeasurementTypes
<1>1. ASSUME NEW p \in People, NEW minutes \in 0..MaxExposure, SubmitPlan(p, minutes)
      PROVE  TypeOK'
  <2>1. EventBy("PLAN_SUBMITTED", p) \in Event
    BY EventType
  <2> QED
    BY <1>1, <2>1 DEF SubmitPlan, TypeOK, Statuses
<1>2. ASSUME NEW minutes \in 0..MaxExposure, NEW confirm \in BOOLEAN,
             AddConditioning(minutes, confirm) \/ AddConditioningBatch(minutes, confirm)
      PROVE  TypeOK'
  BY <1>2, TypeCondition DEF AddConditioning, AddConditioningBatch
<1>3. ASSUME ConfirmConditioning PROVE TypeOK'
  <2>1. EventBy("CONDITIONED", NoOne) \in Event
    BY EventType
  <2> QED
    BY <1>3, <2>1 DEF ConfirmConditioning, TypeOK, Statuses
<1>4. ASSUME NEW m \in Measured, AddMeasurements(m) PROVE TypeOK'
  <2>1. EventBy("MEASUREMENTS_RECORDED", NoOne) \in Event
    BY EventType
  <2>2. discrepancies' \in [Metrics -> Decisions]
    BY <1>4, DecisionsType DEF AddMeasurements, TypeOK
  <2> QED
    BY <1>4, <2>1, <2>2 DEF AddMeasurements, TypeOK, Statuses
<1>5. ASSUME NEW m \in Measured, ReplaceMeasurements(m) PROVE TypeOK'
  <2>1. EventBy("REMEDIATION_MEASUREMENTS_RECORDED", NoOne) \in Event
    BY EventType
  <2>2. discrepancies' \in [Metrics -> Decisions]
    <3>1. [x \in Metrics |-> "NONE"] \in [Metrics -> Decisions]
      BY DEF Decisions
    <3> QED
      BY <1>5, <3>1, DecisionsType DEF ReplaceMeasurements
  <2>3. remediations' \in Seq(Round)
    <3>1. remediations \in Seq(Round) /\ remediations # <<>>
      BY <1>5 DEF ReplaceMeasurements, AwaitsReplacement, TypeOK
    <3>2. Revision + 1 \in Nat
      BY DEF Revision, TypeOK
    <3>3. Len(remediations) \in 1..Len(remediations)
      BY <3>1, EmptySeq
    <3>4. remediations[Len(remediations)] \in Round
      BY <3>1, <3>3, ElementOfSeq
    <3>5. [remediations[Len(remediations)] EXCEPT !.replacement = Revision + 1] \in Round
      BY <3>2, <3>4 DEF Round
    <3> QED
      BY <1>5, <3>1, <3>3, <3>5, ExceptSeq DEF ReplaceMeasurements
  <2> QED
    BY <1>5, <2>1, <2>2, <2>3 DEF ReplaceMeasurements, TypeOK
<1>6. ASSUME NEW p \in People, NEW named \in SUBSET Metrics,
             NEW verdicts \in [named -> Verdicts], DecideDiscrepancies(p, verdicts)
      PROVE  TypeOK'
  BY <1>6, TypeDecide
<1>7. ASSUME NEW p \in People, ApproveRelease(p) PROVE TypeOK'
  <2>1. Outcome("RELEASE_DECISION", p, TRUE) \in Event
    BY EventType
  <2>2. events' \in Seq(Event)
    BY <1>7, <2>1, AppendProperties DEF ApproveRelease, TypeOK
  <2> QED
    BY <1>7, <2>2 DEF ApproveRelease, TypeOK, Statuses
<1>8. ASSUME NEW p \in People, RejectRelease(p) PROVE TypeOK'
  <2>1. Outcome("RELEASE_DECISION", p, FALSE) \in Event
    BY EventType
  <2>2. NewRound \in Round
    BY LatestIsNat DEF NewRound, Round, Revision, TypeOK
  <2>3. events' \in Seq(Event) /\ remediations' \in Seq(Round)
    BY <1>8, <2>1, <2>2, AppendProperties DEF RejectRelease, TypeOK
  <2> QED
    BY <1>8, <2>3 DEF RejectRelease, TypeOK, Statuses
<1>9. ASSUME NEW p \in People, Seal(p) PROVE TypeOK'
  <2>1. EventBy("SEALED", p) \in Event
    BY EventType
  <2> QED
    BY <1>9, <2>1 DEF Seal, TypeOK, Statuses
<1>10. CASE UNCHANGED vars
  BY <1>10 DEF vars, TypeOK
<1> QED
  BY <1>1, <1>2, <1>3, <1>4, <1>5, <1>6, <1>7, <1>8, <1>9, <1>10 DEF Next

\* Every variable keeps its type.
THEOREM TypeCorrect == Spec => []TypeOK
BY TypeInit, TypeNext, PTL DEF Spec

-----------------------------------------------------------------------------
(* What a release rests on *)

\* The strengthening of ReleasedIsClear and MeasuredAfterExposure.  A release
\* looks only at the evidence in front of it; that this is enough needs to be
\* known of the states on the way: a plan asks for some exposure, a tested case
\* has been measured, and a metric on which the groups differ has a discrepancy.
Evidence ==
    /\ status # "DRAFT" => required > 0
    /\ status \notin {"DRAFT", "PLAN_READY"} => exposure >= required
    /\ status \in {"TESTED", "REVIEW_PENDING", "RELEASED", "SEALED"} => measurement \in Measured
    /\ \A m \in measurement.differ : discrepancies[m] # "NONE"
    /\ IsReleased => Unresolved = {} /\ measurement.failed = {}

IInv == TypeOK /\ Evidence

\* The inductive invariant holds at first.
LEMMA IInvInit == Init => IInv
BY TypeInit DEF IInv, Evidence, Init, NoMeasurement, IsReleased

\* A discrepancy a measurement finds exists, and the review does not remove any.
LEMMA DiscrepanciesStay ==
    ASSUME NEW old \in [Metrics -> Decisions]
    PROVE  /\ \A m \in Measured : \A x \in m.differ : Rediscovered(old, m)[x] = "OPEN"
           /\ \A named \in SUBSET Metrics : \A v \in [named -> Verdicts] : \A x \in Metrics :
                 old[x] # "NONE" => Decided(old, v)[x] # "NONE"
BY DEF Measured, Rediscovered, Decided, Verdicts

\* Every step keeps the evidence current.
LEMMA EvidenceNext == IInv /\ [Next]_vars => Evidence'
<1> SUFFICES ASSUME IInv, [Next]_vars PROVE Evidence'
  OBVIOUS
<1> USE DEF IInv, Evidence, IsReleased
<1>1. ASSUME NEW p \in People, NEW minutes \in 0..MaxExposure, SubmitPlan(p, minutes)
      PROVE  Evidence'
  BY <1>1 DEF SubmitPlan, Unresolved
<1>2. ASSUME NEW minutes \in 0..MaxExposure, NEW confirm \in BOOLEAN,
             AddConditioning(minutes, confirm) \/ AddConditioningBatch(minutes, confirm)
      PROVE  Evidence'
  BY <1>2 DEF AddConditioning, AddConditioningBatch, Condition, Confirmable, Unresolved
<1>3. ASSUME ConfirmConditioning PROVE Evidence'
  BY <1>3 DEF ConfirmConditioning, Confirmable, Unresolved
<1>4. ASSUME NEW m \in Measured, AddMeasurements(m) PROVE Evidence'
  <2>1. \A x \in measurement'.differ : discrepancies'[x] # "NONE"
    BY <1>4, DiscrepanciesStay DEF AddMeasurements, TypeOK
  <2> QED
    BY <1>4, <2>1 DEF AddMeasurements
<1>5. ASSUME NEW m \in Measured, ReplaceMeasurements(m) PROVE Evidence'
  <2>1. [x \in Metrics |-> "NONE"] \in [Metrics -> Decisions]
    BY DEF Decisions
  <2>2. \A x \in measurement'.differ : discrepancies'[x] # "NONE"
    BY <1>5, <2>1, DiscrepanciesStay DEF ReplaceMeasurements
  <2> QED
    BY <1>5, <2>2 DEF ReplaceMeasurements, AwaitsReplacement
<1>6. ASSUME NEW p \in People, NEW named \in SUBSET Metrics,
             NEW verdicts \in [named -> Verdicts], DecideDiscrepancies(p, verdicts)
      PROVE  Evidence'
  <2>1. /\ status = "TESTED"
        /\ status' \in {"TESTED", "REVIEW_PENDING", "CONDITIONED"}
        /\ discrepancies' = Decided(discrepancies, verdicts)
        /\ UNCHANGED <<required, exposure, measurement>>
    BY <1>6 DEF DecideDiscrepancies, Reviewed
  <2>2. measurement.differ \subseteq Metrics
    BY <2>1 DEF Measured
  <2>3. \A x \in measurement'.differ : discrepancies'[x] # "NONE"
    BY <2>1, <2>2, DiscrepanciesStay DEF TypeOK
  <2> QED
    BY <2>1, <2>3
<1>7. ASSUME NEW p \in People, ApproveRelease(p) PROVE Evidence'
  <2>1. /\ status \in {"TESTED", "REVIEW_PENDING"} /\ status' = "RELEASED"
        /\ Unresolved = {} /\ measurement.failed = {}
        /\ UNCHANGED <<required, exposure, measurement, discrepancies>>
    BY <1>7 DEF ApproveRelease, MaySign, CanSign
  <2>2. Unresolved' = {}
    BY <2>1 DEF Unresolved
  <2> QED
    BY <2>1, <2>2
<1>8. ASSUME NEW p \in People, RejectRelease(p) PROVE Evidence'
  BY <1>8 DEF RejectRelease, MaySign
<1>9. ASSUME NEW p \in People, Seal(p) PROVE Evidence'
  BY <1>9 DEF Seal, Unresolved
<1>10. CASE UNCHANGED vars
  BY <1>10 DEF vars, Unresolved
<1> QED
  BY <1>1, <1>2, <1>3, <1>4, <1>5, <1>6, <1>7, <1>8, <1>9, <1>10 DEF Next

\* The evidence a release needs is there in every state of every case.
THEOREM EvidenceCorrect == Spec => []IInv
<1>1. Init => IInv
  BY IInvInit
<1>2. IInv /\ [Next]_vars => IInv'
  BY TypeNext, EvidenceNext DEF IInv
<1> QED
  BY <1>1, <1>2, PTL DEF Spec

\* A released or sealed case has measurements that meet every threshold, and every
\* disagreement between the groups was decided PASS.
THEOREM ReleaseIsClear == Spec => []ReleasedIsClear
<1>1. IInv => ReleasedIsClear
  <2> SUFFICES ASSUME IInv, IsReleased
               PROVE  /\ measurement \in Measured /\ measurement.failed = {} /\ Unresolved = {}
                      /\ \A m \in measurement.differ : discrepancies[m] = "PASS"
    BY DEF ReleasedIsClear
  <2>1. measurement \in Measured /\ measurement.failed = {} /\ Unresolved = {}
    BY DEF IInv, Evidence, IsReleased
  <2>2. ASSUME NEW m \in measurement.differ PROVE discrepancies[m] = "PASS"
    <3>1. m \in Metrics
      BY <2>1, <2>2 DEF Measured
    <3>2. discrepancies[m] \in Decisions /\ discrepancies[m] # "NONE"
      BY <3>1 DEF IInv, Evidence, TypeOK
    <3>3. discrepancies[m] \notin {"OPEN", "FAIL"}
      BY <2>1, <3>1 DEF Unresolved
    <3> QED
      BY <3>2, <3>3 DEF Decisions
  <2> QED
    BY <2>1, <2>2
<1> QED
  BY <1>1, EvidenceCorrect, PTL

\* No measurement without the plan's exposure.
THEOREM ExposureComesFirst == Spec => []MeasuredAfterExposure
<1>1. IInv => MeasuredAfterExposure
  BY DEF IInv, Evidence, MeasuredAfterExposure
<1> QED
  BY <1>1, EvidenceCorrect, PTL

-----------------------------------------------------------------------------
(* The release gate *)

\* In the initial state of a case its gate is in its initial state.
LEMMA GateInit == Init => Gate!Init
BY DEF Init, Gate!Init, IsReleased, Unresolved, NoMeasurement

\* Measuring again clears no dispute, and a review raises none.
LEMMA DisputesMove ==
    ASSUME TypeOK
    PROVE  /\ \A m \in Measured :
                 discrepancies' = Rediscovered(discrepancies, m) => Unresolved \subseteq Unresolved'
           /\ \A named \in SUBSET OpenDiscrepancies : \A v \in [named -> Verdicts] :
                 discrepancies' = Decided(discrepancies, v) => Unresolved' \subseteq Unresolved
BY DEF Rediscovered, Decided, Unresolved, OpenDiscrepancies

\* Every command of a case is a step of the gate or leaves the gate alone.
LEMMA GateNext == IInv /\ IInv' /\ [Next]_vars => [Gate!Next]_Gate!gateVars
<1> SUFFICES ASSUME IInv, IInv', [Next]_vars PROVE [Gate!Next]_Gate!gateVars
  OBVIOUS
<1> USE DEF IsReleased, Gate!gateVars
<1>1. ASSUME NEW p \in People, NEW minutes \in 0..MaxExposure, SubmitPlan(p, minutes)
      PROVE  UNCHANGED Gate!gateVars
  BY <1>1 DEF SubmitPlan, Unresolved
<1>2. ASSUME NEW minutes \in 0..MaxExposure, NEW confirm \in BOOLEAN,
             AddConditioning(minutes, confirm) \/ AddConditioningBatch(minutes, confirm)
      PROVE  UNCHANGED Gate!gateVars
  BY <1>2 DEF AddConditioning, AddConditioningBatch, Condition, Unresolved
<1>3. ASSUME ConfirmConditioning PROVE UNCHANGED Gate!gateVars
  BY <1>3 DEF ConfirmConditioning, Unresolved
<1>4. ASSUME NEW m \in Measured, AddMeasurements(m) PROVE Gate!Record
  <2>1. Unresolved \subseteq Unresolved'
    BY <1>4, DisputesMove DEF AddMeasurements, IInv
  <2>2. Unresolved' \subseteq Metrics
    BY DEF Unresolved
  <2>3. m.failed \subseteq Metrics /\ m.by # {}
    BY MeasuredIsNotEmpty DEF Measured
  <2> QED
    BY <1>4, <2>1, <2>2, <2>3 DEF AddMeasurements, Gate!Record
<1>5. ASSUME NEW m \in Measured, ReplaceMeasurements(m) PROVE Gate!Replace
  <2>1. Unresolved' \subseteq Metrics
    BY DEF Unresolved
  <2>2. measurement.by # {} /\ m.by # {}
    BY <1>5, MeasuredIsNotEmpty DEF ReplaceMeasurements, AwaitsReplacement, IInv, Evidence
  <2>3. /\ remediations # <<>> /\ remediations[Len(remediations)].replacement = 0
        /\ remediations'[Len(remediations')].replacement # 0
    <3>1. remediations \in Seq(Round) /\ remediations # <<>>
      BY <1>5 DEF ReplaceMeasurements, AwaitsReplacement, IInv, TypeOK
    <3>2. Len(remediations) \in 1..Len(remediations)
      BY <3>1, EmptySeq
    <3>3. remediations[Len(remediations)] \in Round
      BY <3>1, <3>2, ElementOfSeq
    <3> DEFINE round == [remediations[Len(remediations)] EXCEPT !.replacement = Revision + 1]
    <3>4. Revision + 1 \in Nat \ {0}
      BY DEF Revision, IInv, TypeOK
    <3>5. round \in Round /\ round.replacement # 0
      BY <3>3, <3>4 DEF Round
    <3>6. remediations' = [remediations EXCEPT ![Len(remediations)] = round]
      BY <1>5 DEF ReplaceMeasurements
    <3> HIDE DEF round
    <3>7. Len(remediations') = Len(remediations) /\ remediations'[Len(remediations)] = round
      BY <3>1, <3>2, <3>5, <3>6, ExceptSeq
    <3>8. remediations[Len(remediations)].replacement = 0
      BY <1>5 DEF ReplaceMeasurements, AwaitsReplacement
    <3> QED
      BY <3>1, <3>5, <3>7, <3>8
  <2> QED
    BY <1>5, <2>1, <2>2, <2>3
    DEF ReplaceMeasurements, AwaitsReplacement, AcceptableReplacement, Gate!Replace
<1>6. ASSUME NEW p \in People, NEW named \in SUBSET Metrics,
             NEW verdicts \in [named -> Verdicts], DecideDiscrepancies(p, verdicts)
      PROVE  Gate!Review
  <2>1. /\ status = "TESTED"
        /\ status' \in {"TESTED", "REVIEW_PENDING", "CONDITIONED"}
        /\ discrepancies' = Decided(discrepancies, verdicts)
        /\ named # {} /\ named \subseteq OpenDiscrepancies
        /\ UNCHANGED <<measurement, remediations>>
    BY <1>6 DEF DecideDiscrepancies, Reviewed, Decidable
  <2>2. Unresolved' \subseteq Unresolved
    BY <2>1, DisputesMove DEF IInv
  <2>3. Unresolved # {}
    BY <2>1 DEF OpenDiscrepancies, Unresolved
  <2> QED
    BY <2>1, <2>2, <2>3 DEF Gate!Review
<1>7. ASSUME NEW p \in People, ApproveRelease(p) PROVE Gate!Grant
  <2>1. Unresolved' = Unresolved
    BY <1>7 DEF ApproveRelease, Unresolved
  <2> QED
    BY <1>7, <2>1 DEF ApproveRelease, MaySign, CanSign, Gate!Grant
<1>8. ASSUME NEW p \in People, RejectRelease(p) PROVE Gate!Refuse
  <2>1. Unresolved' = Unresolved
    BY <1>8 DEF RejectRelease, Unresolved
  <2>2. measurement.by # {}
    BY <1>8, MeasuredIsNotEmpty DEF RejectRelease, MaySign, IInv, Evidence
  <2>3. remediations' # <<>> /\ remediations'[Len(remediations')].replacement = 0
    <3>1. NewRound \in Round /\ NewRound.replacement = 0
      BY LatestIsNat DEF NewRound, Round, Revision, IInv, TypeOK
    <3> QED
      BY <1>8, <3>1, AppendProperties DEF RejectRelease, IInv, TypeOK
  <2> QED
    BY <1>8, <2>1, <2>2, <2>3 DEF RejectRelease, MaySign, Gate!Refuse
<1>9. ASSUME NEW p \in People, Seal(p) PROVE Gate!Seal
  <2>1. Unresolved' = Unresolved
    BY <1>9 DEF Seal, Unresolved
  <2> QED
    BY <1>9, <2>1 DEF Seal, Gate!Seal
<1>10. CASE UNCHANGED vars
  BY <1>10 DEF vars, Unresolved
<1> QED
  BY <1>1, <1>2, <1>3, <1>4, <1>5, <1>6, <1>7, <1>8, <1>9, <1>10 DEF Next, Gate!Next

\* The case implements the release gate.
THEOREM CaseImplementsGate == Spec => ImplementsGate
<1>1. Init => Gate!Init
  BY GateInit
<1>2. IInv /\ IInv' /\ [Next]_vars => [Gate!Next]_Gate!gateVars
  BY GateNext
<1>3. Spec => []IInv
  BY EvidenceCorrect
<1> QED
  BY <1>1, <1>2, <1>3, PTL DEF Spec, ImplementsGate, Gate!Spec
=============================================================================
