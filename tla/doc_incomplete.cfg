CONSTANTS
    People = {p1, p2, p3, p4}
    NoOne = NoOne
    Metrics = {ph}
    PositiveMetrics = {ph}
    Teams <- SingleTeams
    MaxExposure = 1
    MaxRevision = 9
SPECIFICATION Spec
INVARIANT IncompleteNeverAdvances
SYMMETRY PeopleSymmetry
CHECK_DEADLOCK FALSE
