---------------------------- MODULE MCWorkloads -----------------------------
(* Every struct of WireTypes, with two puts; names of up to five           *)
(* characters against a limit of three.                                    *)
EXTENDS Workloads

AllKinds == Structs

AnyChars   == {"a", "b", "A", "-", "_"}
Lower      == [c \in AnyChars |-> IF c = "A" THEN "a" ELSE c]
Letters    == {"a", "b"}
FallbackB  == <<"b">>
Offered    == UNION {[1..n -> {"a", "A", "-", "_"}] : n \in 0..5}
NoLabel    == <<>>
TypedNames == {<<>>, <<"A">>, <<"a", "-">>, <<"a", "a", "a", "a">>, <<"a">>}
=============================================================================
