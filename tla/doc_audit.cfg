\* README.md:26: the first and last hash prove the page.  A log that lost its last but
\* one line, or in which the revision of an event was altered to one beyond the number
\* of lines, verifies, and the page shows an event the proof does not cover.
SPECIFICATION Spec
CONSTANTS
    Types <- MCTypes
    Values = {"v1"}
    Stages = {"seal"}
    MaxRevision = 4
INVARIANT ProofCoversThePage
