------------------------- MODULE MCQualificationCase -------------------------
(* QualificationCase on small sets.  People are interchangeable: every duty   *)
(* is assigned in Init in all ways and no definition names a person.          *)
EXTENDS QualificationCase, TLC

\* One executor for both groups, or one for each.
SmallTeams == {t \in SUBSET People : Cardinality(t) \in 1..2}
SingleTeams == {t \in SUBSET People : Cardinality(t) = 1}

PeopleSymmetry == Permutations(People)
=============================================================================
