------------------------------ MODULE EntityCalls ------------------------------
(***************************************************************************)
(* What can be asked of the entity handlers of StorageAPIController, and   *)
(* what the entity controller of @typexs/base, which is not part of this   *)
(* repository, does to the rows of one entity class.  An entity is its id  *)
(* and a value; one that is created without an id gets one that no row     *)
(* has, so it is an entity with such an id.                                *)
(***************************************************************************)
CONSTANTS Ids, Values, Absent, NoConditions, Malformed, NoCall

ASSUME ValuesAssumption ==
  /\ Absent \notin Values
  /\ \A w \in SUBSET Values : NoConditions # w /\ Malformed # w
  /\ NoConditions # Malformed

(* What :name is: an entity class, several of that name in one storage, or *)
(* a name for which there is no storage or, in it, no class.               *)
EntityNames == {"entity", "several", "unknown"}

(* Which classes the roles of the user give access to: this one (or there  *)
(* are no roles to ask), others of the same name only, none.               *)
Roles == {"this", "others", "none"}

Conditions == {NoConditions} \cup ((SUBSET Values) \ {{}})
Bodies     == UNION {[I -> Values] : I \in (SUBSET Ids) \ {{}}}

Calls ==
  [op : {"query"}, name : EntityNames, roles : Roles, where : {Malformed} \cup Conditions]
    \cup [op : {"get"}, name : EntityNames, ids : SUBSET Ids]
    \cup [op : {"save"}, name : EntityNames, body : Bodies]
    \cup [op : {"updateById"}, name : EntityNames, id : Ids, body : Bodies]
    \cup [op : {"update"}, name : EntityNames, where : Conditions, value : Values \cup {Absent}]
    \cup [op : {"deleteById"}, name : EntityNames, ids : (SUBSET Ids) \ {{}}]
    \cup [op : {"deleteByQuery"}, name : EntityNames, where : Conditions]

ASSUME NoCallAssumption == NoCall \notin Calls

(* Answers without rows.                                                   *)
Plain(r, k) == [to |-> r, kind |-> k, rows |-> <<>>]
NoReply     == [kind |-> "none"]

Table == [Ids -> Values \cup {Absent}]

-----------------------------------------------------------------------------
Present(R)     == {i \in Ids : R[i] # Absent}
Matching(R, w) == {i \in Present(R) : w = NoConditions \/ R[i] \in w}
Only(R, I)     == [i \in Present(R) \cap I |-> R[i]]

Saved(R, b)      == [i \in Ids |-> IF i \in DOMAIN b THEN b[i] ELSE R[i]]
Updated(R, I, v) == [i \in Ids |-> IF i \in I THEN v ELSE R[i]]
Removed(R, I)    == [i \in Ids |-> IF i \in I THEN Absent ELSE R[i]]
=============================================================================
