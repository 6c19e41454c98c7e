\* Every query against every interleaving of commands, seals that fail half-way and
\* one damage, on cases of up to four events.
SPECIFICATION Spec
CONSTANTS
    Types <- MCTypes
    Values = {"v1", "v2"}
    Stages = {"measurement", "seal"}
    MaxRevision = 4
INVARIANTS
    TypeOK
    ReportIsOfOneMoment
    VerifiedMeansAsSealed
    CredentialIsComplete
    NoFalseAlarm
    BlameIsAtTheDamage
    FullRangeIsProven
