------------------------------- MODULE EntityApi -------------------------------
(***************************************************************************)
(* The entity handlers of StorageAPIController (query and aggregate, get,  *)
(* save, updateById, updateByCondition, deleteById, deleteByQuery), several*)
(* requests at a time on one entity class.  A handler runs in one go up to *)
(* its call of the entity controller, which works on the rows, and from    *)
(* there, in one go, to the answer or, in deleteById, to a second call.    *)
(***************************************************************************)
EXTENDS EntityCalls

CONSTANTS Requests

VARIABLES
  rows,    \* the rows of the class
  at,      \* where a request is
  call,    \* what it was asked for, as long as the handler runs
  found,   \* deleteById: the ids that find() returned
  reply    \* the last answer, and to which request

entityVars == <<rows, at, call, found, reply>>

Answers == [to : Requests, kind : {"refused", "failed", "done", "rows"}, rows : UNION {[I -> Values] : I \in SUBSET Ids}]

EntityTypeOK ==
  /\ rows \in Table
  /\ at \in [Requests -> {"idle", "called", "removing"}]
  /\ call \in [Requests -> Calls \cup {NoCall}]
  /\ found \in [Requests -> SUBSET Ids]
  /\ reply \in {NoReply} \cup Answers
  /\ \A r \in Requests : call[r] = NoCall <=> at[r] = "idle"

EntityInit ==
  /\ rows \in Table
  /\ at = [r \in Requests |-> "idle"]
  /\ call = [r \in Requests |-> NoCall]
  /\ found = [r \in Requests |-> {}]
  /\ reply = NoReply

-----------------------------------------------------------------------------
(* getControllerForEntityName: only reads take several classes, and only   *)
(* reads ask what the user may see.                                        *)
Resolves(c) ==
  \/ c.name = "entity"  /\ (c.op = "query" => c.roles = "this")
  \/ c.name = "several" /\ c.op = "query" /\ c.roles # "none"

(* The other checks that come before the first await.                      *)
WellFormed(c) ==
  /\ c.op = "query" => c.where # Malformed
  /\ c.op = "get" => c.ids # {}
  /\ c.op = "update" => c.value # Absent
  /\ c.op = "deleteByQuery" => c.where # NoConditions

Receive(r, c) ==
  /\ at[r] = "idle" /\ Resolves(c) /\ WellFormed(c)
  /\ at' = [at EXCEPT ![r] = "called"]
  /\ call' = [call EXCEPT ![r] = c]
  /\ UNCHANGED <<rows, found, reply>>

Refuse(r) ==
  /\ at[r] = "idle" /\ \E c \in Calls : ~(Resolves(c) /\ WellFormed(c))
  /\ reply' = Plain(r, "refused")
  /\ UNCHANGED <<rows, at, call, found>>

Answer(r, a) ==
  /\ reply' = a
  /\ at' = [at EXCEPT ![r] = "idle"]
  /\ call' = [call EXCEPT ![r] = NoCall]
  /\ found' = [found EXCEPT ![r] = {}]

(* postProcessResults of an extension looks at the results; when it throws,*)
(* the request fails, whatever has been written.                           *)
PostProcessed(r, a) == Answer(r, a) \/ Answer(r, Plain(r, "failed"))

Calling(r, op) == at[r] = "called" /\ call[r].op = op

query(r) ==
  /\ Calling(r, "query")
  /\ PostProcessed(r, [to |-> r, kind |-> "rows",
                       rows |-> IF call[r].roles = "others" THEN <<>>
                                ELSE Only(rows, Matching(rows, call[r].where))])
  /\ UNCHANGED rows

(* One id is looked up with limit 1, several with `or' and no limit.       *)
get(r) ==
  /\ Calling(r, "get")
  /\ PostProcessed(r, [to |-> r, kind |-> "rows", rows |-> Only(rows, call[r].ids)])
  /\ UNCHANGED rows

save(r) ==
  /\ Calling(r, "save")
  /\ rows' = Saved(rows, call[r].body)
  /\ PostProcessed(r, Plain(r, "done"))

(* The id of the request goes to postProcessResults and nowhere else.      *)
updateById(r) ==
  /\ Calling(r, "updateById")
  /\ rows' = Saved(rows, call[r].body)
  /\ PostProcessed(r, Plain(r, "done"))

updateByCondition(r) ==
  /\ Calling(r, "update")
  /\ rows' = Updated(rows, Matching(rows, call[r].where), call[r].value)
  /\ PostProcessed(r, Plain(r, "done"))

deleteByQuery(r) ==
  /\ Calling(r, "deleteByQuery")
  /\ rows' = Removed(rows, Matching(rows, call[r].where))
  /\ PostProcessed(r, Plain(r, "done"))

(* deleteById first finds the entities; if there are none, it is over.     *)
Finds(r) == Present(rows) \cap call[r].ids

Some_ButOne(I) == \E i, j \in I : i # j
Some(I)        == I # {}

FindNothing(r) ==
  /\ Calling(r, "deleteById") /\ ~Some(Finds(r))
  /\ PostProcessed(r, Plain(r, "done"))
  /\ UNCHANGED rows

FindSome(r) ==
  /\ Calling(r, "deleteById") /\ Some(Finds(r))
  /\ found' = [found EXCEPT ![r] = Finds(r)]
  /\ at' = [at EXCEPT ![r] = "removing"]
  /\ UNCHANGED <<rows, call, reply>>

(* What was found is removed by its id, whatever has become of it by then; *)
(* the results are not post-processed.                                     *)
Remove(r) ==
  /\ at[r] = "removing"
  /\ rows' = Removed(rows, found[r])
  /\ Answer(r, Plain(r, "done"))

(* The entity controller rejects, with nothing done.                       *)
Fails(r) == at[r] # "idle" /\ Answer(r, Plain(r, "failed")) /\ UNCHANGED rows

EntityNext == \E r \in Requests :
  \/ \E c \in Calls : Receive(r, c)
  \/ Refuse(r)
  \/ query(r) \/ get(r) \/ save(r) \/ updateById(r) \/ updateByCondition(r) \/ deleteByQuery(r)
  \/ FindNothing(r) \/ FindSome(r) \/ Remove(r) \/ Fails(r)

EntitySpec == EntityInit /\ [][EntityNext]_entityVars

-----------------------------------------------------------------------------
(* Properties.                                                             *)

(* Requests that overlap are served as EntityStore promises.  The ids that *)
(* a deletion has seen absent are those that its find() did not return.    *)
Store == INSTANCE EntityStore WITH
  pending <- call,
  gone    <- [r \in Requests |-> IF at[r] = "removing" THEN call[r].ids \ found[r] ELSE {}]

FulfilsStore == Store!Spec

(* An update by id changes the entity with that id and no other (test `update   *)
(* entity by id').                                                         *)
UpdatesItsId ==
  [][\A r \in Requests : updateById(r) => \A i \in Ids \ {call[r].id} : rows'[i] = rows[i]]_entityVars
=============================================================================
