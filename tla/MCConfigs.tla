------------------------------- MODULE MCConfigs -------------------------------
(***************************************************************************)
(* Values of ConfigView's constants for TLC: a configuration with every    *)
(* kind of value in a map, in a list and in a list of a list.              *)
(***************************************************************************)
EXTENDS Naturals, Sequences, FiniteSets, TLC

Nested ==
  (<<>> :> "map") @@ (<<"a">> :> "map") @@ (<<"a", "pw">> :> "leaf") @@ (<<"a", "t">> :> "class")
    @@ (<<"b">> :> "list") @@ (<<"b", "0">> :> "class") @@ (<<"b", "1">> :> "map")
    @@ (<<"b", "1", "pw">> :> "leaf") @@ (<<"b", "1", "t">> :> "class")
    @@ (<<"b", "2">> :> "list") @@ (<<"b", "2", "0">> :> "class") @@ (<<"b", "2", "1">> :> "map")
    @@ (<<"b", "2", "1", "pw">> :> "map") @@ (<<"b", "2", "1", "pw", "t">> :> "class")
Strings   == {"a", "b", "pw", "t", "0", "1", "2"}
Parts     == {<<>>, <<"a">>, <<"b">>, <<"b", "1">>, <<"a", "pw">>, <<"a", "t">>}
Hideable  == {<<"pw">>, <<"a", "t">>, <<"b">>, <<"b", "0">>, <<"b", "1", "pw">>}
Filters   == {F \in SUBSET Hideable : Cardinality(F) <= 2}
Ruled     == {<<"a">>, <<"a", "pw">>, <<"b">>, <<"b", "1", "t">>}
Needs     == UNION {[P -> {{}, {"see"}, {"see", "edit"}}] : P \in {Q \in SUBSET Ruled : Cardinality(Q) <= 2}}
Roles     == {{}, {"see"}, {"edit"}}
OneConfig == {Nested}
=============================================================================
