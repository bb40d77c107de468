------------------------ MODULE StorageControllerProofs ------------------------
(***************************************************************************)
(* Proofs about EntityApi, StorageSchema and the controller that has both, *)
(* for any ids, values, storages, requests and versions.                   *)
(***************************************************************************)
EXTENDS StorageController, TLAPS

USE ValuesAssumption, NoCallAssumption

-----------------------------------------------------------------------------
(* What the database leaves is a table, and what it returns are rows.      *)

LEMMA BodyOfCall ==
  ASSUME NEW c \in Calls, c.op \in {"save", "updateById"}
  PROVE  c.body \in Bodies
BY DEF Calls

LEMMA IdsOfCall ==
  ASSUME NEW c \in Calls, c.op \in {"get", "deleteById"}
  PROVE  c.ids \subseteq Ids
BY DEF Calls

LEMMA UpdateOfCall ==
  ASSUME NEW c \in Calls, c.op = "update"
  PROVE  c.value \in Values \cup {Absent}
BY DEF Calls

LEMMA SavedType ==
  ASSUME NEW R \in Table, NEW b \in Bodies
  PROVE  Saved(R, b) \in Table
<1>1. PICK I \in SUBSET Ids : b \in [I -> Values]
  BY DEF Bodies
<1> QED
  BY <1>1 DEF Saved, Table

LEMMA UpdatedType ==
  ASSUME NEW R \in Table, NEW I, NEW v \in Values \cup {Absent}
  PROVE  Updated(R, I, v) \in Table
BY DEF Updated, Table

LEMMA RemovedType ==
  ASSUME NEW R \in Table, NEW I
  PROVE  Removed(R, I) \in Table
BY DEF Removed, Table

LEMMA OnlyType ==
  ASSUME NEW R \in Table, NEW I
  PROVE  Only(R, I) \in UNION {[J -> Values] : J \in SUBSET Ids}
<1>1. Only(R, I) \in [Present(R) \cap I -> Values]
  BY DEF Only, Present, Table
<1>2. Present(R) \cap I \in SUBSET Ids
  BY DEF Present
<1> QED
  BY <1>1, <1>2

LEMMA NoRowsType == <<>> \in UNION {[J -> Values] : J \in SUBSET Ids}
<1>1. <<>> \in [{} -> Values]
  OBVIOUS
<1> QED
  BY <1>1

-----------------------------------------------------------------------------
(* The type invariant, and what the handler has checked of a call that it  *)
(* works on.                                                               *)

Checked ==
  /\ \A r \in Requests : at[r] # "idle" => Resolves(call[r]) /\ WellFormed(call[r])
  /\ \A r \in Requests : at[r] = "removing" => call[r].op = "deleteById" /\ found[r] \subseteq call[r].ids

EntityInv == EntityTypeOK /\ Checked

LEMMA AnswerStep ==
  ASSUME EntityInv, NEW r \in Requests, NEW a \in Answers, Answer(r, a), rows' \in Table
  PROVE  EntityInv'
BY DEF EntityInv, EntityTypeOK, Checked, Answer

LEMMA PlainType ==
  ASSUME NEW r \in Requests, NEW k \in {"refused", "failed", "done"}
  PROVE  Plain(r, k) \in Answers
BY NoRowsType DEF Plain, Answers

LEMMA PostProcessedStep ==
  ASSUME EntityInv, NEW r \in Requests, NEW a \in Answers, PostProcessed(r, a), rows' \in Table
  PROVE  EntityInv'
BY AnswerStep, PlainType DEF PostProcessed

LEMMA EntityInvCorrect == EntitySpec => []EntityInv
<1>1. EntityInit => EntityInv
  BY DEF EntityInit, EntityInv, EntityTypeOK, Checked
<1>2. EntityInv /\ [EntityNext]_entityVars => EntityInv'
  <2> SUFFICES ASSUME EntityInv, [EntityNext]_entityVars PROVE EntityInv'
    OBVIOUS
  <2>a. rows \in Table /\ \A r \in Requests : at[r] # "idle" => call[r] \in Calls
    BY DEF EntityInv, EntityTypeOK
  <2>1. ASSUME NEW r \in Requests, NEW c \in Calls, Receive(r, c) PROVE EntityInv'
    BY <2>1 DEF Receive, EntityInv, EntityTypeOK, Checked
  <2>2. ASSUME NEW r \in Requests, Refuse(r) PROVE EntityInv'
    BY <2>2, PlainType DEF Refuse, EntityInv, EntityTypeOK, Checked
  <2>3. ASSUME NEW r \in Requests, query(r) PROVE EntityInv'
    <3> DEFINE R == IF call[r].roles = "others" THEN <<>> ELSE Only(rows, Matching(rows, call[r].where))
    <3>1. R \in UNION {[J -> Values] : J \in SUBSET Ids}
      BY <2>a, OnlyType, NoRowsType
    <3> HIDE DEF R
    <3>2. [to |-> r, kind |-> "rows", rows |-> R] \in Answers
      BY <3>1 DEF Answers
    <3>3. PostProcessed(r, [to |-> r, kind |-> "rows", rows |-> R]) /\ rows' = rows
      BY <2>3 DEF query, R
    <3> QED
      BY <2>a, <3>2, <3>3, PostProcessedStep
  <2>4. ASSUME NEW r \in Requests, get(r) PROVE EntityInv'
    <3>1. [to |-> r, kind |-> "rows", rows |-> Only(rows, call[r].ids)] \in Answers
      BY <2>a, OnlyType DEF Answers
    <3> QED
      BY <2>a, <2>4, <3>1, PostProcessedStep DEF get
  <2>5. ASSUME NEW r \in Requests, save(r) \/ updateById(r) PROVE EntityInv'
    <3>1. Saved(rows, call[r].body) \in Table
      BY <2>5, <2>a, BodyOfCall, SavedType DEF save, updateById, Calling
    <3> QED
      BY <2>5, <3>1, PlainType, PostProcessedStep DEF save, updateById
  <2>6. ASSUME NEW r \in Requests, updateByCondition(r) PROVE EntityInv'
    <3>1. Updated(rows, Matching(rows, call[r].where), call[r].value) \in Table
      BY <2>6, <2>a, UpdateOfCall, UpdatedType DEF updateByCondition, Calling
    <3> QED
      BY <2>6, <3>1, PlainType, PostProcessedStep DEF updateByCondition
  <2>7. ASSUME NEW r \in Requests, deleteByQuery(r) PROVE EntityInv'
    BY <2>7, <2>a, RemovedType, PlainType, PostProcessedStep DEF deleteByQuery
  <2>8. ASSUME NEW r \in Requests, FindNothing(r) PROVE EntityInv'
    BY <2>8, <2>a, PlainType, PostProcessedStep DEF FindNothing
  <2>9. ASSUME NEW r \in Requests, FindSome(r) PROVE EntityInv'
    <3>1. Finds(r) \subseteq call[r].ids /\ Finds(r) \subseteq Ids
      BY DEF Finds, Present
    <3> QED
      BY <2>9, <3>1 DEF FindSome, Calling, EntityInv, EntityTypeOK, Checked
  <2>10. ASSUME NEW r \in Requests, Remove(r) PROVE EntityInv'
    BY <2>10, <2>a, RemovedType, PlainType, AnswerStep DEF Remove
  <2>11. ASSUME NEW r \in Requests, Fails(r) PROVE EntityInv'
    BY <2>11, <2>a, PlainType, AnswerStep DEF Fails
  <2>12. CASE UNCHANGED entityVars
    BY <2>12 DEF entityVars, EntityInv, EntityTypeOK, Checked
  <2> QED
    BY <2>1, <2>2, <2>3, <2>4, <2>5, <2>6, <2>7, <2>8, <2>9, <2>10, <2>11, <2>12 DEF EntityNext
<1> QED
  BY <1>1, <1>2, PTL DEF EntitySpec

(* The rows, the requests and their answers keep their types               *)
(* (StorageAPIController.ts:217-634).                                      *)
THEOREM EntityTypeCorrect == EntitySpec => []EntityTypeOK
BY EntityInvCorrect, PTL DEF EntityInv

-----------------------------------------------------------------------------
(* EntityApi implements EntityStore: the abstract store sees a call while  *)
(* the handler runs, and of a deletion the ids that find() did not return. *)

Gone == [r \in Requests |-> IF at[r] = "removing" THEN call[r].ids \ found[r] ELSE {}]

LEMMA AnswerMaps ==
  ASSUME EntityInv, NEW r \in Requests, NEW a, Answer(r, a)
  PROVE  Store!Answer(r, a)
<1>1. Gone' = [Gone EXCEPT ![r] = {}]
  BY DEF Gone, Answer, EntityInv, EntityTypeOK
<1> QED
  BY <1>1 DEF Store!Answer, Answer, Gone

LEMMA CallOf ==
  ASSUME EntityInv, NEW r \in Requests, at[r] # "idle"
  PROVE  /\ call[r] \in Calls /\ call[r] # NoCall
         /\ Resolves(call[r]) /\ WellFormed(call[r])
BY DEF EntityInv, EntityTypeOK, Checked

LEMMA FailMaps ==
  ASSUME EntityInv, NEW r \in Requests, at[r] # "idle", Answer(r, Plain(r, "failed")), rows' = rows
  PROVE  Store!Fail(r)
BY AnswerMaps, CallOf DEF Store!Fail, Store!Plain, Plain

(* A read is answered with Store!Shown of its call, or fails.              *)
LEMMA ReadMaps ==
  ASSUME EntityInv, NEW r \in Requests, query(r) \/ get(r)
  PROVE  Store!Next
<1>1. at[r] # "idle" /\ rows' = rows /\ call[r].op \in {"query", "get"}
  BY DEF query, get, Calling
<1>2. call[r] \in Calls /\ call[r] # NoCall /\ Resolves(call[r])
  BY <1>1, CallOf
<1> DEFINE a == [to |-> r, kind |-> "rows", rows |-> Store!Shown(call[r])]
<1>3. PostProcessed(r, a)
  <2>1. CASE get(r)
    BY <2>1 DEF get, Calling, Store!Shown, Store!Only, Only, Store!Present, Present
  <2>2. CASE query(r)
    <3>1. call[r].op = "query"
      BY <2>2 DEF query, Calling
    <3>2. call[r].roles \in {"this", "others"}
      BY <3>1, <1>2 DEF Resolves, Calls, Roles
    <3>3. Store!Shown(call[r]) = IF call[r].roles = "others" THEN <<>> ELSE Only(rows, Matching(rows, call[r].where))
      BY <3>1, <3>2 DEF Store!Shown, Store!Only, Only, Store!Present, Present, Store!Matching, Matching
    <3> QED
      BY <2>2, <3>3 DEF query
  <2> QED
    BY <2>1, <2>2
<1>4. CASE Answer(r, a)
  <2>1. PICK b : b = a
    OBVIOUS
  <2>2. Answer(r, b)
    BY <1>4, <2>1 DEF Answer
  <2>3. Store!Answer(r, b)
    BY <2>2, AnswerMaps
  <2>4. Store!Answer(r, a)
    BY <2>1, <2>3 DEF Store!Answer
  <2> QED
    BY <1>1, <1>2, <2>4 DEF Store!Next, Store!Read
<1>5. CASE Answer(r, Plain(r, "failed"))
  BY <1>1, <1>5, FailMaps DEF Store!Next
<1> QED
  BY <1>3, <1>4, <1>5 DEF PostProcessed

(* A write is Store!Written of its call, whether or not the                *)
(* post-processing fails after it.                                         *)
LEMMA WriteMaps ==
  ASSUME EntityInv, NEW r \in Requests,
         save(r) \/ updateById(r) \/ updateByCondition(r) \/ deleteByQuery(r)
  PROVE  Store!Next
<1>1. /\ at[r] # "idle" /\ PostProcessed(r, Plain(r, "done"))
      /\ call[r].op \in {"save", "updateById", "update", "deleteByQuery"}
  BY DEF save, updateById, updateByCondition, deleteByQuery, Calling
<1>2. call[r] # NoCall /\ WellFormed(call[r])
  BY <1>1, CallOf
<1>3. rows' = Store!Written(call[r])
  <2>1. CASE save(r) \/ updateById(r)
    BY <2>1 DEF save, updateById, Calling, Store!Written, Store!Saved, Saved
  <2>2. CASE updateByCondition(r)
    BY <2>2 DEF updateByCondition, Calling, Store!Written, Store!Updated, Updated,
                Store!Matching, Matching, Store!Present, Present
  <2>3. CASE deleteByQuery(r)
    BY <2>3, <1>2 DEF deleteByQuery, Calling, WellFormed, Store!Written, Store!Removed, Removed,
                      Store!Matching, Matching, Store!Present, Present
  <2> QED
    BY <2>1, <2>2, <2>3
<1>4. \E k \in {"done", "failed"} : Store!Answer(r, Store!Plain(r, k))
  BY <1>1, AnswerMaps DEF PostProcessed, Store!Plain, Plain
<1> QED
  BY <1>1, <1>2, <1>3, <1>4 DEF Store!Next, Store!Write

(* deleteById: find() removes nothing and sees what is absent; the removal *)
(* takes what was found, so that afterwards every id has been seen absent. *)
LEMMA FindNothingMaps ==
  ASSUME EntityInv, NEW r \in Requests, FindNothing(r)
  PROVE  Store!Next
<1>1. at[r] # "idle" /\ call[r].op = "deleteById" /\ rows' = rows /\ PostProcessed(r, Plain(r, "done"))
  BY DEF FindNothing, Calling
<1>2. CASE Answer(r, Plain(r, "failed"))
  BY <1>1, <1>2, FailMaps DEF Store!Next
<1>3. CASE Answer(r, Plain(r, "done"))
  <2>1. rows = Store!Removed(rows, {})
    BY DEF Store!Removed, EntityInv, EntityTypeOK, Table
  <2>2. call[r].ids \ Store!Present(rows) = call[r].ids
    BY DEF FindNothing, Some, Finds, Present, Store!Present
  <2>3. Store!Answer(r, Store!Plain(r, "done"))
    BY <1>3, AnswerMaps DEF Store!Plain, Plain
  <2>4. Gone[r] = {}
    BY DEF Gone, FindNothing, Calling
  <2>5. Store!Delete(r)
    BY <1>1, <2>1, <2>2, <2>3, <2>4, CallOf DEF Store!Delete, Gone
  <2> QED
    BY <2>5 DEF Store!Next
<1> QED
  BY <1>1, <1>2, <1>3 DEF PostProcessed

LEMMA FindSomeMaps ==
  ASSUME EntityInv, NEW r \in Requests, FindSome(r)
  PROVE  Store!Next
<1>1. /\ at[r] = "called" /\ call[r].op = "deleteById"
      /\ rows' = rows /\ call' = call /\ reply' = reply
  BY DEF FindSome, Calling
<1>2. rows = Store!Removed(rows, {})
  BY DEF Store!Removed, EntityInv, EntityTypeOK, Table
<1>3. Gone' = [Gone EXCEPT ![r] = call[r].ids \ Store!Present(rows)]
  BY <1>1 DEF Gone, FindSome, Finds, Present, Store!Present, EntityInv, EntityTypeOK
<1>4. Gone[r] \cup (call[r].ids \ Store!Present(Store!Removed(rows, {}))) = call[r].ids \ Store!Present(rows)
  BY <1>1, <1>2 DEF Gone
<1>5. Gone' = [Gone EXCEPT ![r] = Gone[r] \cup (call[r].ids \ Store!Present(Store!Removed(rows, {})))]
  BY <1>3, <1>4
<1>6. {} \in SUBSET call[r].ids /\ rows' = Store!Removed(rows, {}) /\ call[r] # NoCall
  BY <1>1, <1>2, CallOf
<1>7. Store!Delete(r)
  BY <1>1, <1>5, <1>6 DEF Store!Delete, Gone
<1> QED
  BY <1>7 DEF Store!Next

LEMMA RemoveMaps ==
  ASSUME EntityInv, NEW r \in Requests, Remove(r)
  PROVE  Store!Next
<1>1. /\ at[r] = "removing" /\ call[r].op = "deleteById" /\ found[r] \subseteq call[r].ids
      /\ rows' = Removed(rows, found[r]) /\ Answer(r, Plain(r, "done"))
  BY DEF Remove, EntityInv, Checked
<1>2. rows' = Store!Removed(rows, found[r])
  BY <1>1 DEF Removed, Store!Removed
<1>3. Gone[r] = call[r].ids \ found[r]
  BY <1>1 DEF Gone
<1>4. Gone[r] \cup (call[r].ids \ Store!Present(Store!Removed(rows, found[r]))) = call[r].ids
  BY <1>1, <1>3 DEF Store!Present, Store!Removed
<1>5. Store!Answer(r, Store!Plain(r, "done"))
  BY <1>1, AnswerMaps DEF Store!Plain, Plain
<1>6. Store!Delete(r)
  BY <1>1, <1>2, <1>4, <1>5, CallOf DEF Store!Delete, Gone
<1> QED
  BY <1>6 DEF Store!Next

LEMMA ReceiveMaps ==
  ASSUME EntityInv, NEW r \in Requests, NEW c \in Calls, Receive(r, c)
  PROVE  Store!Next
<1>1. Gone' = Gone
  BY DEF Gone, Receive, EntityInv, EntityTypeOK
<1>2. call'[r] = c /\ call' = [call EXCEPT ![r] = c]
  BY DEF Receive, EntityInv, EntityTypeOK
<1>3. Calls = Store!Calls
  BY DEF Calls, Store!Calls, EntityNames, Store!EntityNames, Roles, Store!Roles,
         Conditions, Store!Conditions, Bodies, Store!Bodies
<1>4. Store!Begin(r)
  <2>1. call[r] = NoCall /\ rows' = rows /\ reply' = reply
    BY DEF Receive, EntityInv, EntityTypeOK
  <2>2. call'[r] \in Store!Calls /\ call' = [call EXCEPT ![r] = call'[r]]
    BY <1>2, <1>3
  <2> QED
    BY <1>1, <2>1, <2>2 DEF Store!Begin, Gone
<1> QED
  BY <1>4 DEF Store!Next

(* Requests that overlap in any order, each in one or two steps on the rows*)
(* of a class, are served as EntityStore promises: a read shows rows of one*)
(* moment that the user may see, a write happens at one moment or is       *)
(* reported as failed, and a deletion has seen each of its ids absent      *)
(* (StorageAPIController.ts:217-634).                                      *)
THEOREM FulfilsStoreCorrect == EntitySpec => FulfilsStore
<1>1. EntityInit => Store!Init
  BY DEF EntityInit, Store!Init, Table, Store!Table, NoReply, Store!NoReply
<1>2. EntityInv /\ [EntityNext]_entityVars => [Store!Next]_(Store!vars)
  <2> SUFFICES ASSUME EntityInv, [EntityNext]_entityVars PROVE [Store!Next]_(Store!vars)
    OBVIOUS
  <2>1. CASE UNCHANGED entityVars
    BY <2>1 DEF entityVars, Store!vars
  <2>2. ASSUME NEW r \in Requests, Refuse(r) PROVE Store!Next
    <3>1. call[r] = NoCall
      BY <2>2 DEF Refuse, EntityInv, EntityTypeOK
    <3>2. Store!Refuse(r)
      BY <2>2, <3>1 DEF Refuse, Store!Refuse, Store!Plain, Plain
    <3> QED
      BY <3>2 DEF Store!Next
  <2>3. ASSUME NEW r \in Requests, Fails(r) PROVE Store!Next
    BY <2>3, FailMaps DEF Fails, Store!Next
  <2> QED
    BY <2>1, <2>2, <2>3, ReceiveMaps, ReadMaps, WriteMaps, FindNothingMaps, FindSomeMaps, RemoveMaps
    DEF EntityNext
<1> QED
  BY <1>1, <1>2, EntityInvCorrect, PTL DEF EntitySpec, FulfilsStore, Store!Spec

-----------------------------------------------------------------------------
USE SchemaAssumption, NothingAssumption

-----------------------------------------------------------------------------
(* The type invariant.                                                     *)

LEMMA WishType ==
  ASSUME SchemaTypeOK, NEW r \in Asks, step[r] # "idle"
  PROVE  /\ wish[r] \in Wish
         /\ Key(wish[r]) \in CacheKeys
<1>1. wish[r] \in Wish
  BY DEF SchemaTypeOK
<1> QED
  BY <1>1 DEF CacheKeys

(* The cache, the requests and what they have computed keep their types    *)
(* (StorageAPIController.ts:735-792).                                      *)
THEOREM SchemaTypeCorrect == SchemaSpec => []SchemaTypeOK
<1>1. SchemaInit => SchemaTypeOK
  BY DEF SchemaInit, SchemaTypeOK, Steps, Version, Versions, Unread
<1>2. SchemaTypeOK /\ [SchemaNext]_schemaVars => SchemaTypeOK'
  <2> SUFFICES ASSUME SchemaTypeOK, [SchemaNext]_schemaVars PROVE SchemaTypeOK'
    OBVIOUS
  <2> USE DEF SchemaTypeOK, Steps, Goes, Has
  <2>a. Unread \in Versions
    BY DEF Unread, Versions, Version
  <2>1. ASSUME NEW r \in Asks, NEW w \in Wish, Ask(r, w) PROVE SchemaTypeOK'
    <3>1. since' \in [Asks -> Versions]
      BY <2>1, <2>a DEF Ask, Versions
    <3>2. wish' \in [Asks -> {NoWish} \cup Wish] /\ wish'[r] # NoWish
      BY <2>1 DEF Ask
    <3> QED
      BY <2>1, <3>1, <3>2 DEF Ask
  <2>2. ASSUME NEW r \in Asks, LookHit(r) PROVE SchemaTypeOK'
    <3>1. Key(wish[r]) \in CacheKeys
      BY <2>2, WishType DEF LookHit
    <3>2. bin[Key(wish[r])] \in {NoEntry} \cup Entry /\ bin[Key(wish[r])] # NoEntry
      BY <2>2, <3>1 DEF LookHit, Serves
    <3> QED
      BY <2>2, <3>2 DEF LookHit
  <2>3. ASSUME NEW r \in Asks, LookMiss(r) PROVE SchemaTypeOK'
    BY <2>3 DEF LookMiss, Known
  <2>4. ASSUME NEW r \in Asks, LookNowhere(r) PROVE SchemaTypeOK'
    BY <2>4, <2>a DEF LookNowhere, Rejects
  <2>5. ASSUME NEW r \in Asks, Serialize(r) PROVE SchemaTypeOK'
    <3>1. wish[r].storage \in Storages
      BY <2>5 DEF Serialize
    <3>2. [storage |-> wish[r].storage, schema |-> schemas[wish[r].storage], collections |-> Unasked] \in Entry
      BY <3>1 DEF Entry, Collections
    <3> QED
      BY <2>5, <3>1, <3>2 DEF Serialize
  <2>6. ASSUME NEW r \in Asks, Collect(r) PROVE SchemaTypeOK'
    <3>1. PICK c \in {collections[wish[r].storage], Failed} :
            Has(r, [storage |-> entry[r].storage, schema |-> entry[r].schema, collections |-> c])
      BY <2>6 DEF Collect
    <3>2. wish[r].storage \in Storages /\ entry[r] \in Entry
      BY <2>6 DEF Collect
    <3>3. c \in Collections
      BY <3>2 DEF Collections
    <3>4. [storage |-> entry[r].storage, schema |-> entry[r].schema, collections |-> c] \in Entry
      BY <3>2, <3>3 DEF Entry
    <3> QED
      BY <2>6, <3>1, <3>2, <3>4 DEF Collect
  <2>7. ASSUME NEW r \in Asks, Keep(r) PROVE SchemaTypeOK'
    <3>1. Key(wish[r]) \in CacheKeys /\ entry[r] \in Entry
      BY <2>7, WishType DEF Keep
    <3>2. bin' \in [CacheKeys -> {NoEntry} \cup Entry]
      BY <2>7, <3>1 DEF Keep
    <3> QED
      BY <2>7, <3>1, <3>2 DEF Keep
  <2>8. ASSUME NEW r \in Asks, CacheFails(r) PROVE SchemaTypeOK'
    BY <2>8, <2>a DEF CacheFails, Rejects
  <2>9. ASSUME NEW k \in CacheKeys, Expire(k) PROVE SchemaTypeOK'
    BY <2>9 DEF Expire, requestVars
  <2>10. ASSUME NEW s \in Changing, SchemaChanges(s) PROVE SchemaTypeOK'
    BY <2>10 DEF SchemaChanges, requestVars, Version
  <2>11. ASSUME NEW s \in Changing, CollectionsChange(s) PROVE SchemaTypeOK'
    BY <2>11 DEF CollectionsChange, requestVars, Version
  <2>12. CASE UNCHANGED schemaVars
    BY <2>12 DEF schemaVars, requestVars
  <2> QED
    BY <2>1, <2>2, <2>3, <2>4, <2>5, <2>6, <2>7, <2>8, <2>9, <2>10, <2>11, <2>12 DEF SchemaNext
<1> QED
  BY <1>1, <1>2, PTL DEF SchemaSpec

-----------------------------------------------------------------------------
(* Everybody gets what they asked for, or what was asked for under the same*)
(* key.  What the cache holds under a key describes something of that key, *)
(* and what a request is about to keep describes the storage that the      *)
(* request named, whose key it then has.                                   *)

BinDescribes == \A w \in Wish : bin[Key(w)] # NoEntry => DescribesOneOf(bin[Key(w)], w)

Underway ==
  \A r \in Asks :
    /\ step[r] = "collecting" => entry[r].storage = wish[r].storage /\ wish[r].withCollections
    /\ step[r] = "storing" => Describes(entry[r], wish[r])
    /\ step[r] = "answered" => DescribesOneOf(entry[r], wish[r])

(* A name is found again in what it is a part of, so a key that is not     *)
(* shared tells the storage and what was asked for, if what was kept there *)
(* was of a storage (line 736).                                            *)
LEMMA KeyTells ==
  ASSUME NEW v \in Wish, NEW w \in Wish, Key(v) = Key(w), v.storage \in Storages, ~SharesItsKey(w)
  PROVE  v.storage = w.storage /\ v.withCollections = w.withCollections
<1>1. v.storage \in Seq(Pieces) /\ w.storage \in Seq(Pieces)
  BY DEF Wish
<1>2. v.withCollections \in BOOLEAN /\ w.withCollections \in BOOLEAN
  BY DEF Wish
<1>3. CASE v.withCollections /\ w.withCollections
  <2>1. Append(v.storage, Suffix) = Append(w.storage, Suffix)
    BY <1>3 DEF Key
  <2>2. ASSUME NEW s \in Seq(Pieces), NEW t \in Seq(Pieces), Append(s, Suffix) = Append(t, Suffix) PROVE s = t
    <3>1. Len(s) = Len(t)
      BY <2>2
    <3>2. \A i \in 1 .. Len(s) : s[i] = t[i]
      BY <2>2, <3>1
    <3> QED
      BY <3>1, <3>2
  <2> QED
    BY <1>1, <1>3, <2>1, <2>2
<1>4. CASE v.withCollections /\ ~w.withCollections
  BY <1>4 DEF Key, SharesItsKey
<1>5. CASE ~v.withCollections /\ w.withCollections
  BY <1>5 DEF Key, SharesItsKey
<1>6. CASE ~v.withCollections /\ ~w.withCollections
  <2>1. v.storage = w.storage
    BY <1>6 DEF Key
  <2> QED
    BY <1>2, <1>6, <2>1
<1> QED
  BY <1>2, <1>3, <1>4, <1>5, <1>6

(* A request is answered with the storage it named, with collections if    *)
(* and only if it asked for them, and if its name and that of a storage    *)
(* differ by the suffix of the key alone, with what was asked for under the*)
(* other name at worst (StorageAPIController.ts:736-741, 790).             *)
THEOREM OwnSchemaCorrect == SchemaSpec => []OwnSchema
<1> DEFINE Inv == BinDescribes /\ Underway
<1>1. SchemaInit => Inv
  <2> SUFFICES ASSUME SchemaInit PROVE Inv
    OBVIOUS
  <2>1. \A w \in Wish : Key(w) \in CacheKeys
    BY DEF CacheKeys
  <2> QED
    BY <2>1 DEF SchemaInit, BinDescribes, Underway
<1>2. SchemaTypeOK /\ Inv /\ [SchemaNext]_schemaVars => Inv'
  <2> SUFFICES ASSUME SchemaTypeOK, Inv, [SchemaNext]_schemaVars PROVE Inv'
    OBVIOUS
  <2>a. SchemaTypeOK
    OBVIOUS
  <2> USE DEF Steps, Goes, Has
  <2>1. ASSUME NEW r \in Asks, NEW w \in Wish, Ask(r, w) PROVE Inv'
    BY <2>1 DEF Ask, SchemaTypeOK, BinDescribes, Underway, DescribesOneOf, Describes, Key
  <2>2. ASSUME NEW r \in Asks, LookHit(r) PROVE Inv'
    <3>1. wish[r] \in Wish
      BY <2>2, WishType DEF LookHit
    <3>2. DescribesOneOf(bin[Key(wish[r])], wish[r])
      BY <2>2, <3>1 DEF LookHit, Serves, BinDescribes
    <3>3. Underway'
      BY <2>2, <3>2 DEF LookHit, SchemaTypeOK, Underway, DescribesOneOf, Describes
    <3> QED
      BY <2>2, <3>3 DEF LookHit, BinDescribes, DescribesOneOf, Key, Describes
  <2>3. ASSUME NEW r \in Asks, LookMiss(r) PROVE Inv'
    BY <2>3 DEF LookMiss, SchemaTypeOK, BinDescribes, Underway, DescribesOneOf, Describes, Key
  <2>4. ASSUME NEW r \in Asks, LookNowhere(r) PROVE Inv'
    BY <2>4 DEF LookNowhere, Rejects, SchemaTypeOK, BinDescribes, Underway, DescribesOneOf, Describes, Key
  <2>5. ASSUME NEW r \in Asks, Serialize(r) PROVE Inv'
    <3>1. wish[r] \in Wish
      BY <2>5, WishType DEF Serialize
    <3>2. Underway'
      BY <2>5, <3>1 DEF Serialize, SchemaTypeOK, Underway, DescribesOneOf, Describes, Wish
    <3> QED
      BY <2>5, <3>2 DEF Serialize, BinDescribes, DescribesOneOf, Key, Describes
  <2>6. ASSUME NEW r \in Asks, Collect(r) PROVE Inv'
    <3>1. PICK c \in {collections[wish[r].storage], Failed} :
            Has(r, [storage |-> entry[r].storage, schema |-> entry[r].schema, collections |-> c])
      BY <2>6 DEF Collect
    <3>2. c # Unasked
      BY <2>6, <3>1 DEF Collect, SchemaTypeOK, Version
    <3>3. Underway'
      BY <2>6, <3>1, <3>2 DEF Collect, SchemaTypeOK, Underway, DescribesOneOf, Describes
    <3> QED
      BY <2>6, <3>3 DEF Collect, BinDescribes, DescribesOneOf, Key, Describes
  <2>7. ASSUME NEW r \in Asks, Keep(r) PROVE Inv'
    <3>1. wish[r] \in Wish /\ Key(wish[r]) \in CacheKeys
      BY <2>7, WishType DEF Keep
    <3>2. Describes(entry[r], wish[r])
      BY <2>7 DEF Keep, Underway
    <3>3. ASSUME NEW w \in Wish, bin'[Key(w)] # NoEntry PROVE DescribesOneOf(bin'[Key(w)], w)
      <4>1. CASE Key(w) = Key(wish[r])
        <5>1. bin'[Key(w)] = entry[r]
          BY <2>7, <3>1, <4>1 DEF Keep, SchemaTypeOK
        <5> QED
          BY <3>1, <3>2, <4>1, <5>1 DEF DescribesOneOf
      <4>2. CASE Key(w) # Key(wish[r])
        <5>1. bin'[Key(w)] = bin[Key(w)]
          BY <2>7, <4>2 DEF Keep, SchemaTypeOK
        <5> QED
          BY <3>3, <5>1 DEF BinDescribes
      <4> QED
        BY <4>1, <4>2
    <3>4. Underway'
      BY <2>7, <3>2 DEF Keep, SchemaTypeOK, Underway, DescribesOneOf, Describes
    <3> QED
      BY <3>3, <3>4 DEF BinDescribes, DescribesOneOf, Key, Describes
  <2>8. ASSUME NEW r \in Asks, CacheFails(r) PROVE Inv'
    BY <2>8 DEF CacheFails, Rejects, SchemaTypeOK, BinDescribes, Underway, DescribesOneOf, Describes, Key
  <2>9. ASSUME NEW k \in CacheKeys, Expire(k) PROVE Inv'
    BY <2>9 DEF Expire, SchemaTypeOK, requestVars, BinDescribes, Underway, DescribesOneOf, Describes, Key
  <2>10. ASSUME NEW s \in Changing, SchemaChanges(s) \/ CollectionsChange(s) PROVE Inv'
    BY <2>10 DEF SchemaChanges, CollectionsChange, requestVars, BinDescribes, Underway, DescribesOneOf, Describes, Key
  <2>11. CASE UNCHANGED schemaVars
    BY <2>11 DEF schemaVars, requestVars, BinDescribes, Underway, DescribesOneOf, Describes, Key
  <2> QED
    BY <2>1, <2>2, <2>3, <2>4, <2>5, <2>6, <2>7, <2>8, <2>9, <2>10, <2>11 DEF SchemaNext
<1>3. SchemaTypeOK /\ Inv => OwnSchema
  <2> SUFFICES ASSUME SchemaTypeOK, Inv, NEW r \in Asks, step[r] = "answered", ~SharesItsKey(wish[r])
               PROVE  Describes(entry[r], wish[r])
    BY DEF OwnSchema, Underway
  <2>1. PICK v \in Wish : Key(v) = Key(wish[r]) /\ Describes(entry[r], v)
    BY DEF Underway, DescribesOneOf
  <2>2. v.storage \in Storages
    BY <2>1 DEF SchemaTypeOK, Entry, Describes
  <2>3. v.storage = wish[r].storage /\ v.withCollections = wish[r].withCollections
    BY <2>1, <2>2, KeyTells, WishType
  <2> QED
    BY <2>1, <2>3 DEF Describes
<1> QED
  BY <1>1, <1>2, <1>3, SchemaTypeCorrect, PTL DEF SchemaSpec

-----------------------------------------------------------------------------
(* A refresh reads through.  The versions only grow, so what they were when*)
(* the refresh came is a lower bound of whatever is read afterwards; and a *)
(* refresh is never answered from the cache.                               *)

Bounded(r) ==
  wish[r].storage \in Storages =>
    /\ since[r].schema <= schemas[wish[r].storage]
    /\ since[r].collections <= collections[wish[r].storage]

ReadSince(r) ==
  /\ entry[r].schema >= since[r].schema
  /\ entry[r].collections \in Nat => entry[r].collections >= since[r].collections

Fresh ==
  \A r \in Asks : step[r] # "idle" /\ wish[r].refresh =>
    /\ Bounded(r)
    /\ step[r] \in {"collecting", "storing", "answered"} => ReadSince(r)

(* A step that leaves a request and what it has read alone, and takes no   *)
(* version back, leaves Fresh true of it.                                  *)
LEMMA FreshOfOthers ==
  ASSUME SchemaTypeOK, SchemaTypeOK', Fresh, NEW q \in Asks,
         UNCHANGED <<wish[q], entry[q], since[q]>>, step[q] # "idle", wish[q].refresh,
         step'[q] \in {"collecting", "storing", "answered"} => step[q] \in {"collecting", "storing", "answered"},
         \A s \in Storages : schemas'[s] >= schemas[s] /\ collections'[s] >= collections[s]
  PROVE  /\ Bounded(q)'
         /\ step'[q] \in {"collecting", "storing", "answered"} => ReadSince(q)'
<1>1. Bounded(q) /\ (step[q] \in {"collecting", "storing", "answered"} => ReadSince(q))
  BY DEF Fresh
<1>2. Bounded(q)'
  BY <1>1 DEF Bounded, SchemaTypeOK, Version, Versions
<1> QED
  BY <1>1, <1>2 DEF ReadSince

(* The answer to a refresh is no older than the refresh, whatever other    *)
(* requests do to the cache (StorageAPIController.ts:740, 784-791).        *)
THEOREM RefreshReadsThroughCorrect == SchemaSpec => []RefreshReadsThrough
<1>1. SchemaInit => Fresh
  BY DEF SchemaInit, Fresh
<1>2. SchemaTypeOK /\ SchemaTypeOK' /\ Fresh /\ [SchemaNext]_schemaVars => Fresh'
  <2> SUFFICES ASSUME SchemaTypeOK, SchemaTypeOK', Fresh, [SchemaNext]_schemaVars,
                      NEW q \in Asks, step'[q] # "idle", wish'[q].refresh
               PROVE  /\ Bounded(q)'
                      /\ step'[q] \in {"collecting", "storing", "answered"} => ReadSince(q)'
    BY DEF Fresh
  <2> USE DEF Goes, Has
  <2>a. ASSUME UNCHANGED <<schemas, collections>>
        PROVE  \A s \in Storages : schemas'[s] >= schemas[s] /\ collections'[s] >= collections[s]
    BY <2>a DEF SchemaTypeOK, Version
  <2>b. ASSUME UNCHANGED <<schemas, collections>>, UNCHANGED <<wish[q], entry[q], since[q], step[q]>>
        PROVE  Bounded(q)' /\ (step'[q] \in {"collecting", "storing", "answered"} => ReadSince(q)')
    BY <2>a, <2>b, FreshOfOthers
  <2>1. ASSUME NEW r \in Asks, NEW w \in Wish, Ask(r, w)
        PROVE  Bounded(q)' /\ (step'[q] \in {"collecting", "storing", "answered"} => ReadSince(q)')
    <3>1. CASE q = r
      <4>1. wish'[q] = w /\ step'[q] = "looking" /\ UNCHANGED <<schemas, collections>>
        BY <2>1, <3>1 DEF Ask, SchemaTypeOK
      <4>2. w.storage \in Storages => since'[q] = [schema |-> schemas[w.storage], collections |-> collections[w.storage]]
        BY <2>1, <3>1, <4>1 DEF Ask, SchemaTypeOK
      <4> QED
        BY <4>1, <4>2 DEF Bounded, SchemaTypeOK, Version
    <3>2. CASE q # r
      BY <2>1, <2>b, <3>2 DEF Ask, SchemaTypeOK
    <3> QED
      BY <3>1, <3>2
  <2>2. ASSUME NEW r \in Asks, LookHit(r)
        PROVE  Bounded(q)' /\ (step'[q] \in {"collecting", "storing", "answered"} => ReadSince(q)')
    <3>1. q # r
      BY <2>2 DEF LookHit, Serves
    <3> QED
      BY <2>2, <2>b, <3>1 DEF LookHit, SchemaTypeOK
  <2>3. ASSUME NEW r \in Asks, LookMiss(r)
        PROVE  Bounded(q)' /\ (step'[q] \in {"collecting", "storing", "answered"} => ReadSince(q)')
    <3>1. UNCHANGED <<schemas, collections, wish, entry, since>> /\ step'[r] = "filtering" /\ step[r] = "looking"
      BY <2>3 DEF LookMiss, SchemaTypeOK
    <3>2. \A s \in Storages : schemas'[s] >= schemas[s] /\ collections'[s] >= collections[s]
      BY <2>a, <3>1
    <3>3. CASE q = r
      BY <3>1, <3>2, <3>3, FreshOfOthers
    <3>4. CASE q # r
      BY <2>3, <2>b, <3>4 DEF LookMiss, SchemaTypeOK
    <3> QED
      BY <3>3, <3>4
  <2>4. ASSUME NEW r \in Asks, LookNowhere(r) \/ CacheFails(r)
        PROVE  Bounded(q)' /\ (step'[q] \in {"collecting", "storing", "answered"} => ReadSince(q)')
    <3>1. q # r
      BY <2>4 DEF LookNowhere, CacheFails, Rejects, SchemaTypeOK
    <3> QED
      BY <2>4, <2>b, <3>1 DEF LookNowhere, CacheFails, Rejects, SchemaTypeOK
  <2>5. ASSUME NEW r \in Asks, Serialize(r)
        PROVE  Bounded(q)' /\ (step'[q] \in {"collecting", "storing", "answered"} => ReadSince(q)')
    <3>1. CASE q = r
      <4>1. UNCHANGED <<schemas, collections, wish, since>> /\ wish[q].storage \in Storages /\ step[q] = "filtering"
        BY <2>5, <3>1 DEF Serialize, SchemaTypeOK
      <4>2. entry'[q].schema = schemas[wish[q].storage] /\ entry'[q].collections = Unasked
        BY <2>5, <3>1 DEF Serialize, SchemaTypeOK
      <4>3. Bounded(q)
        BY <4>1 DEF Fresh
      <4> QED
        BY <4>1, <4>2, <4>3 DEF Bounded, ReadSince, SchemaTypeOK, Version, Versions
    <3>2. CASE q # r
      BY <2>5, <2>b, <3>2 DEF Serialize, SchemaTypeOK
    <3> QED
      BY <3>1, <3>2
  <2>6. ASSUME NEW r \in Asks, Collect(r)
        PROVE  Bounded(q)' /\ (step'[q] \in {"collecting", "storing", "answered"} => ReadSince(q)')
    <3>1. CASE q = r
      <4>1. UNCHANGED <<schemas, collections, wish, since>> /\ wish[q].storage \in Storages /\ step[q] = "collecting"
        BY <2>6, <3>1 DEF Collect, SchemaTypeOK
      <4>2. PICK c \in {collections[wish[r].storage], Failed} :
              Has(r, [storage |-> entry[r].storage, schema |-> entry[r].schema, collections |-> c])
        BY <2>6 DEF Collect
      <4>3. entry'[q].schema = entry[q].schema /\ entry'[q].collections = c
        BY <3>1, <4>2 DEF SchemaTypeOK
      <4>4. Bounded(q) /\ ReadSince(q)
        BY <4>1 DEF Fresh
      <4>5. c \in Nat => c >= since[q].collections
        BY <3>1, <4>1, <4>2, <4>4 DEF Bounded, SchemaTypeOK, Version, Versions
      <4> QED
        BY <4>1, <4>3, <4>4, <4>5 DEF Bounded, ReadSince
    <3>2. CASE q # r
      BY <2>6, <2>b, <3>2 DEF Collect, SchemaTypeOK
    <3> QED
      BY <3>1, <3>2
  <2>7. ASSUME NEW r \in Asks, Keep(r)
        PROVE  Bounded(q)' /\ (step'[q] \in {"collecting", "storing", "answered"} => ReadSince(q)')
    <3>1. UNCHANGED <<schemas, collections, wish, entry, since>> /\ step[r] = "storing"
      BY <2>7 DEF Keep
    <3>2. \A s \in Storages : schemas'[s] >= schemas[s] /\ collections'[s] >= collections[s]
      BY <2>a, <3>1
    <3>3. CASE q = r
      BY <3>1, <3>2, <3>3, FreshOfOthers
    <3>4. CASE q # r
      BY <2>7, <2>b, <3>4 DEF Keep, SchemaTypeOK
    <3> QED
      BY <3>3, <3>4
  <2>8. ASSUME NEW k \in CacheKeys, Expire(k)
        PROVE  Bounded(q)' /\ (step'[q] \in {"collecting", "storing", "answered"} => ReadSince(q)')
    BY <2>8, <2>b DEF Expire, requestVars
  <2>9. ASSUME NEW s \in Changing, SchemaChanges(s) \/ CollectionsChange(s)
        PROVE  Bounded(q)' /\ (step'[q] \in {"collecting", "storing", "answered"} => ReadSince(q)')
    <3>1. UNCHANGED <<step, wish, entry, since>>
      BY <2>9 DEF SchemaChanges, CollectionsChange, requestVars
    <3>2. \A t \in Storages : schemas'[t] >= schemas[t] /\ collections'[t] >= collections[t]
      <4>1. \A t \in Storages : schemas[t] \in Nat /\ collections[t] \in Nat
        BY DEF SchemaTypeOK, Version
      <4>2. schemas \in [Storages -> Version] /\ collections \in [Storages -> Version]
        BY DEF SchemaTypeOK
      <4>3. CASE SchemaChanges(s)
        BY <4>1, <4>2, <4>3 DEF SchemaChanges
      <4>4. CASE CollectionsChange(s)
        BY <4>1, <4>2, <4>4 DEF CollectionsChange
      <4> QED
        BY <2>9, <4>3, <4>4
    <3> QED
      BY <3>1, <3>2, FreshOfOthers
  <2>10. CASE UNCHANGED schemaVars
    BY <2>10, <2>b DEF schemaVars, requestVars
  <2> QED
    BY <2>1, <2>2, <2>3, <2>4, <2>5, <2>6, <2>7, <2>8, <2>9, <2>10 DEF SchemaNext
<1>3. Fresh => RefreshReadsThrough
  BY DEF Fresh, ReadSince, RefreshReadsThrough
<1> QED
  BY <1>1, <1>2, <1>3, SchemaTypeCorrect, PTL DEF SchemaSpec

-----------------------------------------------------------------------------
(* The controller.                                                         *)

LEMMA ControllerServesEntities == Spec => EntitySpec
<1>1. Init => EntityInit
  BY DEF Init
<1>2. [Next]_vars => [EntityNext]_entityVars
  BY DEF Next, vars
<1> QED
  BY <1>1, <1>2, PTL DEF Spec, EntitySpec

LEMMA ControllerServesMetadata == Spec => SchemaSpec
<1>1. Init => SchemaInit
  BY DEF Init
<1>2. [Next]_vars => [SchemaNext]_schemaVars
  BY DEF Next, vars
<1> QED
  BY <1>1, <1>2, PTL DEF Spec, SchemaSpec

(* Serving entities leaves what serving metadata relies on, and the other  *)
(* way round: rows, requests, the cache and what is read for it keep their *)
(* types (StorageAPIController.ts:217-792).                                *)
THEOREM TypeCorrect == Spec => []TypeOK
BY ControllerServesEntities, ControllerServesMetadata, EntityTypeCorrect, SchemaTypeCorrect, PTL DEF TypeOK
=============================================================================
