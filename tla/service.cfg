\* Two clients with two calls and one, a shared pool of two request ids, and a
\* connection that breaks as long as a client has calls left.
SPECIFICATION Spec
CONSTANTS
    c1 = c1
    c2 = c2
    Clients = {c1, c2}
    Cases = {k}
    Requests = {r1, r2}
    Forms <- MCForms
    Histories <- MCHistories
    NoCall = NoCall
    Unspent = Unspent
    MaxCalls <- MCCalls
    MaxRevision = 4
INVARIANTS
    TypeOK
    TakesEffectWhereSeen
    RefusalIsFinal
    SuccessShowsOwnEffect
    ChecksChangeNothing
PROPERTIES
    ImplementsLedger
    EveryClientIsAnswered
\* A client makes no more than MaxCalls calls.
CHECK_DEADLOCK FALSE
