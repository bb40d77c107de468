------------------------- MODULE MCStorageController -------------------------
EXTENDS StorageController, TLC

Words == {"a", "-with-collection"}
One   == {<<"a">>}

Alike == Permutations(Ids) \cup Permutations(Values) \cup Permutations(Requests) \cup Permutations(Asks)
=============================================================================
