\* Up to two kills between any two writes, and one write that fails.
CONSTANTS
    a = a
    b = b
    createA = createA
    changeA1 = changeA1
    changeA2 = changeA2
    sealA = sealA
    createB = createB
    sealB = sealB
    checkA = checkA
    Cases = {a, b}
    Requests <- SomeRequests
    CaseOf <- MCCaseOf
    Creates = {createA, createB}
    Seals = {sealA}
    Checks = {checkA}
    KillAnytime = TRUE
    MaxKills = 2
    MaxEvents = 2
    MaxErrors = 1
    MaxLines = 7
SPECIFICATION Spec
INVARIANTS
    SnapshotIsLogged
    AnsweredIsLogged
PROPERTY OpensAtMostOneCommandBehind
CHECK_DEADLOCK FALSE
