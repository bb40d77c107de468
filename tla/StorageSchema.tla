----------------------------- MODULE StorageSchema -----------------------------
(***************************************************************************)
(* getStorageSchema of StorageAPIController: the description of a storage  *)
(* (its options, the schema of its entities and, if asked for, its         *)
(* collections), computed over several awaits and kept in a cache for a    *)
(* day.  getMetadata is one Ask; getMetadatas and getMetadataEntities are  *)
(* an Ask for every storage, without collections and without refresh.      *)
(*                                                                         *)
(* What is described changes meanwhile: entity classes are registered and  *)
(* collections come and go.  Each change makes a new version.              *)
(***************************************************************************)
EXTENDS Naturals, Sequences

CONSTANTS
  Pieces,      \* what names are put together of
  Suffix,      \* the piece `-with-collection'
  Storages,    \* the storages that are configured, by name
  OtherNames,  \* names asked for that no storage has
  Asks,        \* requests under way at a time
  MaxVersion,  \* bound on the changes to the schema and collections of a storage
  Changing,    \* the storages whose schema and collections change
  NoEntry, NoWish, Unasked, Failed

ASSUME SchemaAssumption ==
  /\ MaxVersion \in Nat /\ Changing \subseteq Storages
  /\ Storages \cup OtherNames \subseteq Seq(Pieces) /\ Suffix \in Pieces
  /\ Storages \cap OtherNames = {}
  /\ Unasked # Failed /\ Unasked \notin Nat /\ Failed \notin Nat

Version     == 0 .. MaxVersion
Collections == Version \cup {Unasked, Failed}
Entry       == [storage : Storages, schema : Version, collections : Collections]
Wish        == [storage : Storages \cup OtherNames, withCollections : BOOLEAN, refresh : BOOLEAN]

(* The prefix that all keys have is left out.                              *)
Key_OneForBoth(w) == w.storage
Key(w)            == IF w.withCollections THEN Append(w.storage, Suffix) ELSE w.storage

CacheKeys == {Key(w) : w \in Wish}

VARIABLES
  schemas,      \* the version of the schema of a storage
  collections,  \* the version of the collections of a storage
  bin,          \* the cache bin `storage-info'
  step,         \* where a request is
  wish,         \* what it asked for
  entry,        \* what it has computed or found
  since         \* what the versions were when a refresh was asked for

requestVars == <<step, wish, entry, since>>
schemaVars  == <<schemas, collections, bin, requestVars>>

Steps    == {"idle", "looking", "filtering", "collecting", "storing", "answered"}
Versions == [schema : Version, collections : Version]
Unread   == [schema |-> 0, collections |-> 0]

ASSUME NothingAssumption == NoEntry \notin Entry /\ NoWish \notin Wish

SchemaTypeOK ==
  /\ schemas \in [Storages -> Version]
  /\ collections \in [Storages -> Version]
  /\ bin \in [CacheKeys -> {NoEntry} \cup Entry]
  /\ step \in [Asks -> Steps]
  /\ wish \in [Asks -> {NoWish} \cup Wish]
  /\ entry \in [Asks -> {NoEntry} \cup Entry]
  /\ since \in [Asks -> Versions]
  /\ \A r \in Asks : step[r] # "idle" => wish[r] # NoWish
  /\ \A r \in Asks : step[r] \in {"collecting", "storing", "answered"} => entry[r] # NoEntry
  /\ \A r \in Asks : step[r] \in {"filtering", "collecting", "storing"} => wish[r].storage \in Storages

SchemaInit ==
  /\ schemas = [s \in Storages |-> 0]
  /\ collections = [s \in Storages |-> 0]
  /\ bin = [k \in CacheKeys |-> NoEntry]
  /\ step = [r \in Asks |-> "idle"]
  /\ wish = [r \in Asks |-> NoWish]
  /\ entry = [r \in Asks |-> NoEntry]
  /\ since = [r \in Asks |-> Unread]

-----------------------------------------------------------------------------
Known_Any(s) == TRUE
Known(s)     == s \in Storages

Goes(r, to) == step' = [step EXCEPT ![r] = to]
Has(r, e)   == entry' = [entry EXCEPT ![r] = e]

(* The promise of the handler rejects, and the request is over.            *)
Rejects(r) ==
  /\ Goes(r, "idle") /\ Has(r, NoEntry)
  /\ wish' = [wish EXCEPT ![r] = NoWish]
  /\ since' = [since EXCEPT ![r] = Unread]

Ask(r, w) ==
  /\ step[r] \in {"idle", "answered"}
  /\ Goes(r, "looking") /\ Has(r, NoEntry)
  /\ wish' = [wish EXCEPT ![r] = w]
  /\ since' = [since EXCEPT ![r] =
                 IF w.refresh /\ w.storage \in Storages
                 THEN [schema |-> schemas[w.storage], collections |-> collections[w.storage]]
                 ELSE Unread]
  /\ UNCHANGED <<schemas, collections, bin>>

(* The entry that the cache holds serves unless a refresh is asked for.    *)
Serves_Always(e, w) == e # NoEntry
Serves(e, w)        == e # NoEntry /\ ~w.refresh

LookHit(r) ==
  LET e == bin[Key(wish[r])] IN
  /\ step[r] = "looking" /\ Serves(e, wish[r])
  /\ Goes(r, "answered") /\ Has(r, e)
  /\ UNCHANGED <<schemas, collections, bin, wish, since>>

LookMiss(r) ==
  /\ step[r] = "looking" /\ Known(wish[r].storage)
  /\ ~Serves(bin[Key(wish[r])], wish[r])
  /\ Goes(r, "filtering")
  /\ UNCHANGED <<schemas, collections, bin, wish, entry, since>>

(* storage.get of a name that no storage has is undefined, and reading its *)
(* options throws.                                                         *)
LookNowhere(r) ==
  /\ step[r] = "looking" /\ ~Known(wish[r].storage)
  /\ ~Serves(bin[Key(wish[r])], wish[r])
  /\ Rejects(r)
  /\ UNCHANGED <<schemas, collections, bin>>

(* The filter keys have come, from their own cache key or computed and     *)
(* cached; the schema is then serialized in one go.                        *)
Serialize(r) ==
  LET s == wish[r].storage IN
  /\ step[r] = "filtering"
  /\ Has(r, [storage |-> s, schema |-> schemas[s], collections |-> Unasked])
  /\ Goes(r, IF wish[r].withCollections THEN "collecting" ELSE "storing")
  /\ UNCHANGED <<schemas, collections, bin, wish, since>>

(* getStorageRefCollections answers [] when the storage fails, which is    *)
(* then kept like any other answer.                                        *)
Collect(r) ==
  /\ step[r] = "collecting"
  /\ \E c \in {collections[wish[r].storage], Failed} :
       Has(r, [storage |-> entry[r].storage, schema |-> entry[r].schema, collections |-> c])
  /\ Goes(r, "storing")
  /\ UNCHANGED <<schemas, collections, bin, wish, since>>

Keep(r) ==
  /\ step[r] = "storing"
  /\ bin' = [bin EXCEPT ![Key(wish[r])] = entry[r]]
  /\ Goes(r, "answered")
  /\ UNCHANGED <<schemas, collections, wish, entry, since>>

(* get and set of the cache may fail, and the request fails with them.     *)
CacheFails(r) ==
  /\ step[r] \in {"looking", "filtering", "storing"}
  /\ Rejects(r)
  /\ UNCHANGED <<schemas, collections, bin>>

(* The 24 hours of an entry are over.                                      *)
Expire(k) ==
  /\ bin[k] # NoEntry
  /\ bin' = [bin EXCEPT ![k] = NoEntry]
  /\ UNCHANGED <<schemas, collections, requestVars>>

SchemaChanges(s) ==
  /\ schemas[s] + collections[s] < MaxVersion
  /\ schemas' = [schemas EXCEPT ![s] = @ + 1]
  /\ UNCHANGED <<collections, bin, requestVars>>

CollectionsChange(s) ==
  /\ schemas[s] + collections[s] < MaxVersion
  /\ collections' = [collections EXCEPT ![s] = @ + 1]
  /\ UNCHANGED <<schemas, bin, requestVars>>

SchemaNext ==
  \/ \E r \in Asks :
       \/ \E w \in Wish : Ask(r, w)
       \/ LookHit(r) \/ LookMiss(r) \/ LookNowhere(r)
       \/ Serialize(r) \/ Collect(r) \/ Keep(r) \/ CacheFails(r)
  \/ \E k \in CacheKeys : Expire(k)
  \/ \E s \in Changing : SchemaChanges(s) \/ CollectionsChange(s)

SchemaSpec == SchemaInit /\ [][SchemaNext]_schemaVars

-----------------------------------------------------------------------------
(* Properties.                                                             *)

Describes(e, w) == e.storage = w.storage /\ (e.collections = Unasked <=> ~w.withCollections)

(* The key of a storage with collections is that of a storage without them *)
(* whose name ends in the suffix.                                          *)
SharesItsKey(w) ==
  \/ w.withCollections /\ Append(w.storage, Suffix) \in Storages
  \/ ~w.withCollections /\ w.storage \in {Append(s, Suffix) : s \in Storages}

DescribesOneOf(e, w) == \E v \in Wish : Key(v) = Key(w) /\ Describes(e, v)

(* A request is answered with the storage it named, with collections if    *)
(* and only if it asked for them, whoever filled the cache.  If its name   *)
(* and that of a storage differ by the suffix of the key alone, it may be  *)
(* answered with what was asked for under the other name, and with nothing *)
(* else (lines 736-741, 790).                                              *)
OwnSchema ==
  \A r \in Asks : step[r] = "answered" =>
    IF SharesItsKey(wish[r]) THEN DescribesOneOf(entry[r], wish[r]) ELSE Describes(entry[r], wish[r])

(* The answer to a refresh is no older than the refresh: not a schema and  *)
(* not a collection that was read before the request came, though other    *)
(* requests fill the same key meanwhile (lines 740, 784-791).              *)
RefreshReadsThrough ==
  \A r \in Asks : step[r] = "answered" /\ wish[r].refresh =>
    /\ entry[r].schema >= since[r].schema
    /\ entry[r].collections \in Nat => entry[r].collections >= since[r].collections
=============================================================================
