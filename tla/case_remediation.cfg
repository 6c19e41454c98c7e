CONSTANTS
    People = {p1, p2, p3, p4}
    NoOne = NoOne
    Metrics = {ph}
    PositiveMetrics = {ph}
    Teams <- SmallTeams
    MaxExposure = 1
    MaxRevision = 14
SPECIFICATION Spec
INVARIANTS
    ApprovalFollowsReview
    RemediationLinksSound
    ReplacementAnswersRefusedMeasurement
SYMMETRY PeopleSymmetry
\* A sealed case accepts no command, and the log is bounded.
CHECK_DEADLOCK FALSE
