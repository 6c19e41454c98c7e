---------------------------- MODULE MCEventStore ----------------------------
(* EventStore with two cases: a is created, changed by two commands and       *)
(* sealed; b is created and sealed; a validation of a is asked for.           *)
EXTENDS EventStore, TLC

CONSTANTS a, b, createA, changeA1, changeA2, sealA, createB, sealB, checkA

\* All of them, and those of one seal and two creations.
AllRequests == {createA, changeA1, changeA2, sealA, createB, sealB, checkA}
SomeRequests == AllRequests \ {sealB, changeA2}

MCCaseOf == [r \in Requests |-> IF r \in {createB, sealB} THEN b ELSE a]
=============================================================================
