--------------------------- MODULE DistributedStorage ---------------------------
(***************************************************************************)
(* DistributedStorageAPIController: the entity handlers over several nodes.*)
(* A handler runs in one go up to its call of the distributed controller   *)
(* of @typexs/base, which sends it to the nodes and gathers what they      *)
(* answer until it gives up; deleteById makes two such calls.  A message to*)
(* a node may be lost, its answer may be lost or come too late, and a write*)
(* that is on its way takes effect whether anyone waits for it or not.     *)
(* Requests meet only in the rows of the nodes, which other programs change*)
(* as well; a request of Clients is made once.                             *)
(***************************************************************************)
EXTENDS EntityCalls

CONSTANTS Nodes, Clients

VARIABLES
  tables,    \* the rows of every node
  stage,     \* where a request is
  job,       \* what it asks for, and of which nodes (options.targetIds)
  mail,      \* the nodes that its message is on the way to
  answered,  \* the nodes that the present call has heard
  listed,    \* deleteById: the nodes that its find() has heard
  heard,     \* the rows that they have answered, each with __nodeId__
  told       \* the last answer, and to which request

distributedVars == <<tables, stage, job, mail, answered, listed, heard, told>>

Row  == [node : Nodes, id : Ids, value : Values]
Jobs == [call : Calls, nodes : (SUBSET Nodes) \ {{}}]

ASSUME NoJobAssumption == NoCall \notin Jobs

Silent == [kind |-> "none"]
Told ==
  [to : Clients, kind : {"refused", "failed"}] \cup [to : Clients, kind : {"rows"}, rows : SUBSET Row]
    \cup [to : Clients, kind : {"done"}, from : SUBSET Nodes]

(* Nobody answers who was not asked, or whose message is still on its way; *)
(* only deleteById takes two calls.                                        *)
DistributedTypeOK ==
  /\ tables \in [Nodes -> Table]
  /\ stage \in [Clients -> {"idle", "asking", "removing", "over"}]
  /\ \A r \in Clients : IF stage[r] = "idle" THEN job[r] = NoCall ELSE job[r] \in Jobs
  /\ mail \in [Clients -> SUBSET Nodes] /\ answered \in [Clients -> SUBSET Nodes]
  /\ listed \in [Clients -> SUBSET Nodes] /\ heard \in [Clients -> SUBSET Row]
  /\ told = Silent \/ told \in Told
  /\ \A r \in Clients : mail[r] \cap answered[r] = {}
  /\ \A r \in Clients : mail[r] # {} => stage[r] # "idle" /\ mail[r] \subseteq job[r].nodes
  /\ \A r \in Clients : stage[r] = "removing" => job[r].call.op = "deleteById" /\ heard[r] # {}

DistributedInit ==
  /\ tables \in [Nodes -> Table]
  /\ stage = [r \in Clients |-> "idle"]
  /\ job = [r \in Clients |-> NoCall]
  /\ mail = [r \in Clients |-> {}]
  /\ answered = [r \in Clients |-> {}]
  /\ listed = [r \in Clients |-> {}]
  /\ heard = [r \in Clients |-> {}]
  /\ told = Silent

(* Rows matter while a node has still to look at them or to write.         *)
Changes(n, i, v) ==
  /\ \E r \in Clients : n \in mail[r]
  /\ tables' = [tables EXCEPT ![n][i] = v]
  /\ UNCHANGED <<stage, job, mail, answered, listed, heard, told>>

-----------------------------------------------------------------------------
(* Up to the first call.                                                   *)

(* getControllerForEntityName; several classes of one name only for query. *)
ResolvesHere(c) == c.name = "entity" \/ (c.name = "several" /\ c.op = "query")

Complete(c) ==
  /\ c.op = "query" => c.where # Malformed
  /\ c.op = "get" => c.ids # {}
  /\ c.op = "update" => c.value # Absent

Selective_Any(c) == TRUE
Selective(c)     == c.op = "deleteByQuery" => c.where # NoConditions

Accepts(c) == ResolvesHere(c) /\ Complete(c) /\ Selective(c)

(* opts.targetIds, which checkOptions lets through, or :nodeId; a query has*)
(* no :nodeId.  T is empty for a request without targetIds.                *)
TargetIds(c, n, T) == IF T # {} THEN T ELSE IF c.op = "query" THEN Nodes ELSE {n}

Request(r, c, n, T) ==
  /\ stage[r] = "idle" /\ Accepts(c)
  /\ stage' = [stage EXCEPT ![r] = "asking"]
  /\ job' = [job EXCEPT ![r] = [call |-> c, nodes |-> TargetIds(c, n, T)]]
  /\ mail' = [mail EXCEPT ![r] = TargetIds(c, n, T)]
  /\ UNCHANGED <<tables, answered, listed, heard, told>>

TurnDown(r) ==
  /\ stage[r] = "idle" /\ \E c \in Calls : ~Accepts(c)
  /\ told' = [to |-> r, kind |-> "refused"]
  /\ UNCHANGED <<tables, stage, job, mail, answered, listed, heard>>

-----------------------------------------------------------------------------
(* The nodes.                                                              *)

Writing(r) ==
  \/ stage[r] \in {"removing", "over"}
  \/ stage[r] = "asking" /\ job[r].call.op \in {"save", "updateById", "update", "deleteByQuery"}

(* What find() gives of a node.                                            *)
FoundAt(n, c) ==
  LET R == tables[n]
      I == IF c.op = "query" THEN Matching(R, c.where) ELSE Present(R) \cap c.ids
  IN {[node |-> n, id |-> i, value |-> R[i]] : i \in I}

LooksUp(r, n) ==
  /\ n \in mail[r] /\ ~Writing(r)
  /\ mail' = [mail EXCEPT ![r] = @ \ {n}]
  /\ answered' = [answered EXCEPT ![r] = @ \cup {n}]
  /\ heard' = [heard EXCEPT ![r] = @ \cup FoundAt(n, job[r].call)]
  /\ UNCHANGED <<tables, stage, job, listed, told>>

(* remove() at a node: what was found on it, or all that was found.        *)
Removals(r, n) ==
  {{x.id : x \in {y \in heard[r] : y.node = n}}, {x.id : x \in heard[r]}}

Effects(r, n) ==
  LET c == job[r].call
      R == tables[n]
  IN CASE c.op \in {"save", "updateById"} -> {Saved(R, c.body)}
       [] c.op = "update"                 -> {Updated(R, Matching(R, c.where), c.value)}
       [] c.op = "deleteByQuery"          -> {Removed(R, Matching(R, c.where))}
       [] c.op = "deleteById"             -> {Removed(R, I) : I \in Removals(r, n)}

WritesAt(r, n) ==
  /\ n \in mail[r] /\ Writing(r)
  /\ \E t \in Effects(r, n) : tables' = [tables EXCEPT ![n] = t]
  /\ mail' = [mail EXCEPT ![r] = @ \ {n}]
  /\ \/ (stage[r] # "over" /\ answered' = [answered EXCEPT ![r] = @ \cup {n}])
     \/ UNCHANGED answered
  /\ UNCHANGED <<stage, job, listed, heard, told>>

(* The message is lost, the node fails, or the answer to a find is lost.   *)
Loses(r, n) ==
  /\ n \in mail[r]
  /\ mail' = [mail EXCEPT ![r] = @ \ {n}]
  /\ UNCHANGED <<tables, stage, job, answered, listed, heard, told>>

-----------------------------------------------------------------------------
(* From the answers of the nodes on.                                       *)

(* Only a write that is on its way matters after the reply.                *)
Over(r, a) ==
  /\ told' = a
  /\ stage' = [stage EXCEPT ![r] = "over"]
  /\ mail' = IF Writing(r) THEN mail ELSE [mail EXCEPT ![r] = {}]
  /\ heard' = IF Writing(r) THEN heard ELSE [heard EXCEPT ![r] = {}]
  /\ answered' = [answered EXCEPT ![r] = {}]
  /\ listed' = [listed EXCEPT ![r] = {}]
  /\ UNCHANGED <<tables, job>>

Gathers(r, ops) == stage[r] = "asking" /\ job[r].call.op \in ops

(* query, and get of several ids: all rows, with their url on their node.  *)
(* get of one id: results.shift().                                         *)
AllRows(r) == {heard[r]}
OneRow(r)  == IF heard[r] = {} THEN {{}} ELSE {{x} : x \in heard[r]}

IsOne(I) == \E i \in I : I = {i}

distributedQuery(r) == Gathers(r, {"query"}) /\ \E X \in AllRows(r) : Over(r, [to |-> r, kind |-> "rows", rows |-> X])

distributedGet(r) ==
  /\ Gathers(r, {"get"})
  /\ \E X \in IF IsOne(job[r].call.ids) THEN OneRow(r) ELSE AllRows(r) :
       Over(r, [to |-> r, kind |-> "rows", rows |-> X])

(* save, updateById (which saves, whatever its id), updateByCondition and  *)
(* deleteByQuery pass on what the nodes have answered.                     *)
writeResults(r) ==
  /\ Gathers(r, {"save", "updateById", "update", "deleteByQuery"})
  /\ Over(r, [to |-> r, kind |-> "done", from |-> answered[r]])

FindsNothing(r) ==
  /\ Gathers(r, {"deleteById"}) /\ heard[r] = {}
  /\ Over(r, [to |-> r, kind |-> "done", from |-> answered[r]])

(* The same nodes are asked again, the silent ones too.                    *)
FindsSome_AnswersKept(r) ==
  /\ Gathers(r, {"deleteById"}) /\ heard[r] # {}
  /\ stage' = [stage EXCEPT ![r] = "removing"]
  /\ mail' = [mail EXCEPT ![r] = job[r].nodes]
  /\ listed' = [listed EXCEPT ![r] = answered[r]]
  /\ UNCHANGED <<tables, job, answered, heard, told>>

FindsSome(r) ==
  /\ Gathers(r, {"deleteById"}) /\ heard[r] # {}
  /\ stage' = [stage EXCEPT ![r] = "removing"]
  /\ mail' = [mail EXCEPT ![r] = job[r].nodes]
  /\ listed' = [listed EXCEPT ![r] = answered[r]]
  /\ answered' = [answered EXCEPT ![r] = {}]
  /\ UNCHANGED <<tables, job, heard, told>>

(* The results of remove(): those of the nodes that answered it, whether or*)
(* not they had answered find().                                           *)
Removes_Either(r) ==
  /\ stage[r] = "removing"
  /\ Over(r, [to |-> r, kind |-> "done", from |-> answered[r] \cup listed[r]])

Removes(r) ==
  /\ stage[r] = "removing"
  /\ Over(r, [to |-> r, kind |-> "done", from |-> answered[r]])

(* No worker, no node of that id, or nothing but errors: the call rejects. *)
CallRejects(r) == stage[r] \in {"asking", "removing"} /\ Over(r, [to |-> r, kind |-> "failed"])

(* All requests are over: nothing more is to be seen.                      *)
AllOver ==
  /\ \A r \in Clients : stage[r] = "over" /\ mail[r] = {}
  /\ UNCHANGED distributedVars

DistributedNext ==
  \/ \E n \in Nodes, i \in Ids, v \in Values \cup {Absent} : Changes(n, i, v)
  \/ \E r \in Clients :
       \/ \E c \in Calls, n \in Nodes, T \in SUBSET Nodes : Request(r, c, n, T)
       \/ TurnDown(r)
       \/ \E n \in Nodes : LooksUp(r, n) \/ WritesAt(r, n) \/ Loses(r, n)
       \/ distributedQuery(r) \/ distributedGet(r) \/ writeResults(r) \/ FindsNothing(r) \/ FindsSome(r) \/ Removes(r)
       \/ CallRejects(r)
  \/ AllOver

DistributedSpec == DistributedInit /\ [][DistributedNext]_distributedVars

-----------------------------------------------------------------------------
(* Properties.                                                             *)

(* A deletion has seen absent what find() did not list at a node that      *)
(* answered, and at such a node all ids once it has confirmed the removal. *)
SeenAbsent(r) ==
  LET first == IF stage[r] = "asking" THEN answered[r] ELSE listed[r] IN
  {x \in first \X job[r].call.ids : \/ x \notin {<<y.node, y.id>> : y \in heard[r]}
                                    \/ stage[r] = "removing" /\ x[1] \in answered[r]}

Waiting(r, ops) == stage[r] \in {"asking", "removing"} /\ job[r].call.op \in ops

(* The handlers over several nodes keep the promises of DistributedStore,  *)
(* with messages and answers lost or late and rows that change meanwhile   *)
(* (DistributedStorageAPIController.ts:163-509).                           *)
Promised == INSTANCE DistributedStore WITH
  phase <- [r \in Clients |-> IF stage[r] \in {"asking", "removing"} THEN "open" ELSE stage[r]],
  may   <- [r \in Clients |-> IF Waiting(r, {"deleteById"}) THEN job[r].nodes ELSE mail[r]],
  seen  <- [r \in Clients |-> IF Waiting(r, {"query", "get"}) THEN heard[r] ELSE {}],
  did   <- [r \in Clients |-> IF Waiting(r, {"save", "updateById", "update", "deleteByQuery", "deleteById"})
                              THEN answered[r] ELSE {}],
  unheard <- [r \in Clients |-> IF stage[r] = "removing" THEN job[r].nodes \ listed[r] ELSE {}],
  gone  <- [r \in Clients |-> IF Waiting(r, {"deleteById"}) THEN SeenAbsent(r) ELSE {}]

FulfilsDistributedStore == Promised!Spec
=============================================================================
