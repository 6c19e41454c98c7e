\* Stops between commands only, and no write fails.
CONSTANTS
    a = a
    b = b
    createA = createA
    changeA1 = changeA1
    changeA2 = changeA2
    sealA = sealA
    createB = createB
    sealB = sealB
    checkA = checkA
    Cases = {a, b}
    Requests <- AllRequests
    CaseOf <- MCCaseOf
    Creates = {createA, createB}
    Seals = {sealA, sealB}
    Checks = {checkA}
    KillAnytime = FALSE
    MaxKills = 2
    MaxEvents = 2
    MaxErrors = 0
    MaxLines = 9
SPECIFICATION Spec
INVARIANTS
    TypeOK
    LogMatchesSnapshot
    SameReplyAlways
    SealedHasManifest
    NeverRefused
CHECK_DEADLOCK FALSE
