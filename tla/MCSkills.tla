------------------------------ MODULE MCSkills ------------------------------
(***************************************************************************)
(* Skills with two skills, one with any of two supporting files, one of    *)
(* them two directories down, one without any.                              *)
(***************************************************************************)
EXTENDS Skills

Paths      == {<<"a">>, <<"r", "d", "b">>}
MCSegments == {"", ".", "..", "SKILL.md", "a", "b", "d", "r"}
MCTables   == {[go |-> files, nats |-> {}] : files \in SUBSET Paths}
MCProbes   == {<<>>, <<"">>, SKILL_MD, <<"r">>, <<"r", "">>, <<"r", "..", "a">>, <<".", "a">>}
=============================================================================
