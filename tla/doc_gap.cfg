\* README.md:21 lets the summary return gaps; the code reports one between a short
\* reading and its successor although an earlier reading covers it.
SPECIFICATION Spec
CONSTANTS
    Horizon = 4
    MaxMinutes = 4
    MaxBatch = 1
    MaxReadings = 3
    Required = 3
    Inputs <- MCInputs
INVARIANT ReportedGapsAreUncovered
CHECK_DEADLOCK FALSE
