---------------------------- MODULE MCCaseQueries ----------------------------
(* CaseQueries with measurements of two values and reviews between them.      *)
EXTENDS CaseQueries, TLC

MCTypes == {"MEASUREMENTS_RECORDED", "REVIEW_RESULT"}
=============================================================================
