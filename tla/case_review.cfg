CONSTANTS
    People = {p1, p2, p3, p4}
    NoOne = NoOne
    Metrics = {ph, color}
    PositiveMetrics = {ph}
    Teams <- SingleTeams
    MaxExposure = 2
    MaxRevision = 10
SPECIFICATION Spec
INVARIANTS
    TypeOK
    LogExplainsStatus
    ReleasedIsClear
    EachDisagreementDecidedOnce
    HandsAreSeparate
    MeasuredAfterExposure
PROPERTY ImplementsGate
SYMMETRY PeopleSymmetry
\* A sealed case accepts no command, and the log is bounded.
CHECK_DEADLOCK FALSE
