\* Up to four readings that overlap, touch, contain or miss each other, one by one
\* and in batches of two: what the summary finds, what may be confirmed,
\* what an accepted batch leaves and what a refused one is told.
SPECIFICATION Spec
CONSTANTS
    Horizon = 4
    MaxMinutes = 3
    MaxBatch = 2
    MaxReadings = 4
    Required = 3
    Inputs <- MCInputs
INVARIANTS
    TypeOK
    SummaryFindsRuns
    ConfirmedIsARun
    UntimedReadingJoins
    RefusalNamesTheItem
PROPERTIES
    BatchLeavesOneWindow
    ExposureGrows
\* A confirmed case takes no more readings.
CHECK_DEADLOCK FALSE
