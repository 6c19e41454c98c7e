\* README.md:28: after a kill between the append to events.jsonl and cases.json the log
\* and the case disagree.
CONSTANTS
    a = a
    b = b
    createA = createA
    changeA1 = changeA1
    changeA2 = changeA2
    sealA = sealA
    createB = createB
    sealB = sealB
    checkA = checkA
    Cases = {a, b}
    Requests <- SomeRequests
    CaseOf <- MCCaseOf
    Creates = {createA, createB}
    Seals = {sealA}
    Checks = {checkA}
    KillAnytime = TRUE
    MaxKills = 2
    MaxEvents = 2
    MaxErrors = 0
    MaxLines = 8
SPECIFICATION Spec
INVARIANT LogMatchesSnapshot
CHECK_DEADLOCK FALSE
