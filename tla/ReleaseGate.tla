----------------------------- MODULE ReleaseGate -----------------------------
(***************************************************************************)
(* What the release desk promises of a case, whatever the number of        *)
(* commands a step takes: a paper is released only on measurements that    *)
(* nobody disputes and that meet every threshold; a dispute, once raised,  *)
(* is cleared by a review or by the replacement that answers a refusal,    *)
(* never by measuring again; and what was released is not touched again.   *)
(* QualificationCase implements this module.                               *)
(***************************************************************************)
CONSTANT Metrics

VARIABLES
    stage,     \* OPEN until the release is granted, then RELEASED, then SEALED
    recorded,  \* a pair of measurements exists
    disputed,  \* metrics on which its two groups disagree, not yet cleared
    failing,   \* metrics that do not meet the thresholds
    refused    \* the last refusal still waits for a replacement

gateVars == <<stage, recorded, disputed, failing, refused>>

Init ==
    /\ stage = "OPEN"
    /\ recorded = FALSE
    /\ disputed = {}
    /\ failing = {}
    /\ refused = FALSE

\* Measuring again can raise disputes and cannot clear one.
Record ==
    /\ stage = "OPEN"
    /\ recorded' = TRUE
    /\ disputed' \in SUBSET Metrics /\ disputed \subseteq disputed'
    /\ failing' \in SUBSET Metrics
    /\ UNCHANGED <<stage, refused>>

Review ==
    /\ stage = "OPEN"
    /\ disputed # {}
    /\ disputed' \in SUBSET disputed
    /\ UNCHANGED <<stage, recorded, failing, refused>>

Refuse ==
    /\ stage = "OPEN"
    /\ recorded
    /\ refused' = TRUE
    /\ UNCHANGED <<stage, recorded, disputed, failing>>

Replace ==
    /\ stage = "OPEN"
    /\ recorded /\ refused
    /\ refused' = FALSE
    /\ disputed' \in SUBSET Metrics
    /\ failing' = {}
    /\ UNCHANGED <<stage, recorded>>

Grant ==
    /\ stage = "OPEN"
    /\ recorded /\ disputed = {} /\ failing = {}
    /\ stage' = "RELEASED"
    /\ UNCHANGED <<recorded, disputed, failing, refused>>

Seal ==
    /\ stage = "RELEASED"
    /\ stage' = "SEALED"
    /\ UNCHANGED <<recorded, disputed, failing, refused>>

Next == Record \/ Review \/ Refuse \/ Replace \/ Grant \/ Seal

Spec == Init /\ [][Next]_gateVars
=============================================================================
