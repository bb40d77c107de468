----------------------------- MODULE MCStorageApis -----------------------------
EXTENDS StorageApis, TLC

Words == {"a", "b", "-with-collection"}
One   == {<<"a">>}
Two   == {<<"a">>, <<"a", "-with-collection">>}
Other == {<<"b">>}

Alike ==
  Permutations(Ids) \cup Permutations(Values) \cup Permutations(Requests) \cup Permutations(Asks)
=============================================================================
