--------------------------- MODULE MC_SentinelNames ---------------------------
(* Products a and a-a (validateProduct accepts '-') sharing the sentinels, *)
(* each with a group named a; names over the characters "a" and "-".      *)
EXTENDS SentinelNames

NestedProducts == {<<"a">>, <<"a", "-", "a">>}
NestedGroups == [p \in NestedProducts |-> {<<"a">>}]
=============================================================================
