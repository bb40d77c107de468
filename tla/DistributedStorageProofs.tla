------------------------ MODULE DistributedStorageProofs ------------------------
(***************************************************************************)
(* Proofs about DistributedStorage, for any nodes, ids, values and number  *)
(* of requests, and about the storage API as a whole.                      *)
(***************************************************************************)
EXTENDS StorageApis, StorageControllerProofs, TLAPS

USE ValuesAssumption, NoCallAssumption, NoJobAssumption

WritingOps == {"save", "updateById", "update", "deleteByQuery"}
Ops        == WritingOps \cup {"query", "get", "deleteById"}

-----------------------------------------------------------------------------
(* Calls and what they make of a table.                                    *)

LEMMA CallFields ==
  ASSUME NEW c \in Calls
  PROVE  /\ c.op \in Ops
         /\ c.op \in {"save", "updateById"} => c.body \in Bodies
         /\ c.op = "update" => c.value \in Values \cup {Absent}
         /\ c.op \in {"get", "deleteById"} => c.ids \subseteq Ids
BY DEF Calls, Ops, WritingOps

LEMMA EffectsType ==
  ASSUME DistributedTypeOK, NEW r \in Clients, NEW n \in Nodes, job[r] \in Jobs,
         job[r].call.op \in WritingOps \cup {"deleteById"}, NEW t \in Effects(r, n)
  PROVE  t \in Table
<1> DEFINE c == job[r].call
           R == tables[n]
<1>1. c \in Calls /\ R \in Table
  BY DEF DistributedTypeOK, Jobs
<1> HIDE DEF R
<1>2. CASE c.op \in {"save", "updateById"}
  <2>1. t = Saved(R, c.body)
    BY <1>2 DEF Effects, R
  <2> QED
    BY <2>1, <1>1, <1>2, CallFields, SavedType
<1>3. CASE c.op = "update"
  <2>1. t = Updated(R, Matching(R, c.where), c.value)
    BY <1>3 DEF Effects, R
  <2> QED
    BY <2>1, <1>1, <1>3, CallFields, UpdatedType
<1>4. CASE c.op = "deleteByQuery"
  <2>1. t = Removed(R, Matching(R, c.where))
    BY <1>4 DEF Effects, R
  <2> QED
    BY <2>1, <1>1, RemovedType
<1>5. CASE c.op = "deleteById"
  <2>1. \E I : t = Removed(R, I)
    BY <1>5 DEF Effects, R
  <2> QED
    BY <2>1, <1>1, RemovedType
<1> QED
  BY <1>2, <1>3, <1>4, <1>5 DEF WritingOps

LEMMA FoundType ==
  ASSUME DistributedTypeOK, NEW n \in Nodes, NEW c \in Calls
  PROVE  FoundAt(n, c) \subseteq Row
<1> DEFINE I == IF c.op = "query" THEN Matching(tables[n], c.where) ELSE Present(tables[n]) \cap c.ids
<1>1. \A i \in I : i \in Ids /\ tables[n][i] \in Values
  BY DEF Matching, Present, DistributedTypeOK, Table
<1> QED
  BY <1>1 DEF FoundAt, Row

-----------------------------------------------------------------------------
(* The type invariant, and where a request is: one that has not been made  *)
(* has heard nothing; nobody answers who was not asked; after the reply    *)
(* only writes are on their way; a deletion hears only of ids that it is to*)
(* delete.                                                                 *)

InOrder(r) ==
  /\ stage[r] = "idle" => answered[r] = {} /\ heard[r] = {} /\ listed[r] = {}
  /\ stage[r] # "idle" => answered[r] \subseteq job[r].nodes
  /\ stage[r] = "over" /\ mail[r] # {} => job[r].call.op \in WritingOps \cup {"deleteById"}
  /\ stage[r] # "idle" /\ job[r].call.op = "deleteById" => \A x \in heard[r] : x.id \in job[r].call.ids

JobTypes == job \in [Clients -> Jobs \cup {NoCall}]

DistributedInv == DistributedTypeOK /\ JobTypes /\ \A r \in Clients : InOrder(r)

LEMMA JobOf ==
  ASSUME DistributedInv, NEW r \in Clients, stage[r] # "idle"
  PROVE  job[r] \in Jobs /\ job[r].call \in Calls /\ job[r].nodes \subseteq Nodes /\ job[r] # NoCall
BY DEF DistributedInv, DistributedTypeOK, Jobs

LEMMA ToldTypes ==
  ASSUME NEW r \in Clients
  PROVE  /\ \A k \in {"refused", "failed"} : [to |-> r, kind |-> k] \in Told
         /\ \A X \in SUBSET Row : [to |-> r, kind |-> "rows", rows |-> X] \in Told
         /\ \A N \in SUBSET Nodes : [to |-> r, kind |-> "done", from |-> N] \in Told
BY DEF Told

LEMMA OverStep ==
  ASSUME DistributedInv, NEW r \in Clients, stage[r] \in {"asking", "removing"}, NEW a \in Told, Over(r, a)
  PROVE  DistributedInv'
<1>1. job[r] \in Jobs /\ job' = job /\ tables' = tables
  BY JobOf DEF Over
<1>2. stage' = [stage EXCEPT ![r] = "over"] /\ stage'[r] = "over"
  BY DEF Over, DistributedInv, DistributedTypeOK
<1>3. mail'[r] \subseteq mail[r] /\ heard'[r] \subseteq heard[r] /\ answered'[r] = {} /\ listed'[r] = {}
  BY DEF Over, DistributedInv, DistributedTypeOK
<1>4. mail'[r] # {} => job[r].call.op \in WritingOps \cup {"deleteById"}
  <2>1. stage[r] = "removing" => job[r].call.op = "deleteById"
    BY DEF DistributedInv, DistributedTypeOK
  <2>2. mail'[r] # {} => Writing(r)
    BY DEF Over, DistributedInv, DistributedTypeOK
  <2> QED
    BY <2>1, <2>2 DEF Writing, WritingOps
<1>5. InOrder(r)'
  BY <1>1, <1>2, <1>3, <1>4 DEF InOrder, DistributedInv
<1>6. \A q \in Clients \ {r} : /\ stage'[q] = stage[q] /\ mail'[q] = mail[q] /\ heard'[q] = heard[q]
                               /\ answered'[q] = answered[q] /\ listed'[q] = listed[q]
  BY DEF Over, DistributedInv, DistributedTypeOK
<1>7. \A q \in Clients \ {r} : InOrder(q)'
  BY <1>1, <1>6 DEF InOrder, DistributedInv
<1>8. DistributedTypeOK'
  BY <1>1, <1>2, <1>3, <1>6 DEF Over, DistributedInv, DistributedTypeOK
<1> QED
  BY <1>1, <1>5, <1>7, <1>8 DEF DistributedInv, JobTypes

LEMMA RequestStep ==
  ASSUME DistributedInv, NEW r \in Clients, NEW c \in Calls, NEW n \in Nodes, NEW T \in SUBSET Nodes,
         Request(r, c, n, T)
  PROVE  DistributedInv'
<1>1. TargetIds(c, n, T) \subseteq Nodes /\ TargetIds(c, n, T) # {}
  BY DEF TargetIds
<1> DEFINE j == [call |-> c, nodes |-> TargetIds(c, n, T)]
<1>2. j \in Jobs /\ j.call = c /\ j.nodes = TargetIds(c, n, T)
  BY <1>1 DEF Jobs
<1> HIDE DEF j
<1>3. /\ stage[r] = "idle" /\ stage' = [stage EXCEPT ![r] = "asking"] /\ job' = [job EXCEPT ![r] = j]
      /\ mail' = [mail EXCEPT ![r] = j.nodes]
      /\ UNCHANGED <<tables, answered, listed, heard, told>>
  BY <1>2 DEF Request, j
<1>4. answered[r] = {} /\ heard[r] = {} /\ listed[r] = {}
  BY <1>3 DEF DistributedInv, InOrder
<1>5. /\ stage'[r] = "asking" /\ job'[r] = j /\ mail'[r] = j.nodes
      /\ \A q \in Clients \ {r} : stage'[q] = stage[q] /\ job'[q] = job[q] /\ mail'[q] = mail[q]
  BY <1>3 DEF DistributedInv, DistributedTypeOK, JobTypes
<1>6. \A q \in Clients : InOrder(q)'
  BY <1>3, <1>4, <1>5 DEF DistributedInv, InOrder
<1>7. DistributedTypeOK'
  BY <1>1, <1>2, <1>3, <1>4, <1>5 DEF DistributedInv, DistributedTypeOK
<1>8. JobTypes'
  BY <1>2, <1>3 DEF DistributedInv, JobTypes
<1> QED
  BY <1>6, <1>7, <1>8 DEF DistributedInv

LEMMA LooksUpStep ==
  ASSUME DistributedInv, NEW r \in Clients, NEW n \in Nodes, LooksUp(r, n)
  PROVE  DistributedInv'
<1>1. /\ n \in mail[r] /\ ~Writing(r) /\ mail' = [mail EXCEPT ![r] = @ \ {n}]
      /\ answered' = [answered EXCEPT ![r] = @ \cup {n}]
      /\ heard' = [heard EXCEPT ![r] = @ \cup FoundAt(n, job[r].call)]
      /\ UNCHANGED <<tables, stage, job, listed, told>>
  BY DEF LooksUp
<1>2. stage[r] = "asking" /\ job[r] \in Jobs /\ job[r].call \in Calls /\ n \in job[r].nodes
  BY <1>1, JobOf DEF DistributedInv, DistributedTypeOK, Writing
<1>3. FoundAt(n, job[r].call) \subseteq Row
  BY <1>2, FoundType DEF DistributedInv
<1>4. job[r].call.op = "deleteById" => \A x \in FoundAt(n, job[r].call) : x.id \in job[r].call.ids
  BY DEF FoundAt
<1>5. /\ mail'[r] = mail[r] \ {n} /\ answered'[r] = answered[r] \cup {n}
      /\ heard'[r] = heard[r] \cup FoundAt(n, job[r].call)
      /\ \A q \in Clients \ {r} : mail'[q] = mail[q] /\ answered'[q] = answered[q] /\ heard'[q] = heard[q]
  BY <1>1 DEF DistributedInv, DistributedTypeOK
<1>6. \A q \in Clients : InOrder(q)'
  BY <1>1, <1>2, <1>4, <1>5 DEF DistributedInv, InOrder
<1>7. DistributedTypeOK'
  BY <1>1, <1>2, <1>3, <1>5 DEF DistributedInv, DistributedTypeOK
<1> QED
  BY <1>1, <1>6, <1>7 DEF DistributedInv, JobTypes

LEMMA WritingOp ==
  ASSUME DistributedInv, NEW r \in Clients, NEW n \in Nodes, n \in mail[r], Writing(r)
  PROVE  /\ stage[r] \in {"asking", "removing", "over"} /\ n \in job[r].nodes
         /\ job[r].call.op \in WritingOps \cup {"deleteById"}
         /\ stage[r] = "asking" => job[r].call.op \in WritingOps
         /\ stage[r] = "removing" => job[r].call.op = "deleteById"
BY DEF DistributedInv, DistributedTypeOK, InOrder, Writing, WritingOps

LEMMA WritesAtStep ==
  ASSUME DistributedInv, NEW r \in Clients, NEW n \in Nodes, WritesAt(r, n)
  PROVE  DistributedInv'
<1>1. /\ n \in mail[r] /\ Writing(r) /\ mail' = [mail EXCEPT ![r] = @ \ {n}]
      /\ UNCHANGED <<stage, job, listed, heard, told>>
  BY DEF WritesAt
<1>2. stage[r] # "idle" /\ job[r] \in Jobs /\ n \in job[r].nodes /\ job[r].call.op \in WritingOps \cup {"deleteById"}
  BY <1>1, JobOf, WritingOp
<1>3. PICK t \in Effects(r, n) : tables' = [tables EXCEPT ![n] = t]
  BY DEF WritesAt
<1>4. t \in Table
  BY <1>2, EffectsType DEF DistributedInv
<1>5. /\ mail'[r] = mail[r] \ {n} /\ answered'[r] \in {answered[r], answered[r] \cup {n}}
      /\ answered' \in [Clients -> SUBSET Nodes]
      /\ \A q \in Clients \ {r} : mail'[q] = mail[q] /\ answered'[q] = answered[q]
  BY <1>1 DEF WritesAt, DistributedInv, DistributedTypeOK
<1>6. \A q \in Clients : InOrder(q)'
  BY <1>1, <1>2, <1>5 DEF DistributedInv, InOrder
<1>7. tables' \in [Nodes -> Table]
  BY <1>3, <1>4 DEF DistributedInv, DistributedTypeOK
<1>8. DistributedTypeOK'
  BY <1>1, <1>2, <1>5, <1>7 DEF DistributedInv, DistributedTypeOK
<1> QED
  BY <1>1, <1>6, <1>8 DEF DistributedInv, JobTypes

LEMMA FindsSomeStep ==
  ASSUME DistributedInv, NEW r \in Clients, FindsSome(r)
  PROVE  DistributedInv'
<1>1. /\ stage[r] = "asking" /\ job[r].call.op = "deleteById" /\ heard[r] # {}
      /\ stage' = [stage EXCEPT ![r] = "removing"] /\ mail' = [mail EXCEPT ![r] = job[r].nodes]
      /\ listed' = [listed EXCEPT ![r] = answered[r]] /\ answered' = [answered EXCEPT ![r] = {}]
      /\ UNCHANGED <<tables, job, heard, told>>
  BY DEF FindsSome, Gathers
<1>2. job[r] \in Jobs /\ job[r].nodes \subseteq Nodes
  BY <1>1, JobOf
<1>3. /\ stage'[r] = "removing" /\ mail'[r] = job[r].nodes /\ listed'[r] = answered[r] /\ answered'[r] = {}
      /\ \A q \in Clients \ {r} : /\ stage'[q] = stage[q] /\ mail'[q] = mail[q]
                                  /\ listed'[q] = listed[q] /\ answered'[q] = answered[q]
  BY <1>1 DEF DistributedInv, DistributedTypeOK
<1>4. \A q \in Clients : InOrder(q)'
  BY <1>1, <1>2, <1>3 DEF DistributedInv, InOrder
<1>5. DistributedTypeOK'
  BY <1>1, <1>2, <1>3 DEF DistributedInv, DistributedTypeOK
<1> QED
  BY <1>1, <1>4, <1>5 DEF DistributedInv, JobTypes

(* What a handler answers once it has what there is.                       *)
LEMMA Replies ==
  ASSUME DistributedInv, NEW r \in Clients,
         \/ distributedQuery(r) \/ distributedGet(r) \/ writeResults(r)
         \/ FindsNothing(r) \/ Removes(r) \/ CallRejects(r)
  PROVE  stage[r] \in {"asking", "removing"} /\ \E a \in Told : Over(r, a)
<1>1. heard[r] \subseteq Row /\ answered[r] \subseteq Nodes /\ listed[r] \subseteq Nodes
  BY DEF DistributedInv, DistributedTypeOK
<1>2. CASE distributedQuery(r)
  BY <1>1, <1>2, ToldTypes DEF distributedQuery, Gathers, AllRows
<1>3. CASE distributedGet(r)
  <2>1. OneRow(r) \subseteq SUBSET Row /\ AllRows(r) \subseteq SUBSET Row
    BY <1>1 DEF OneRow, AllRows
  <2> QED
    BY <1>3, <2>1, ToldTypes DEF distributedGet, Gathers
<1>4. CASE writeResults(r)
  BY <1>1, <1>4, ToldTypes DEF writeResults, Gathers
<1>5. CASE FindsNothing(r)
  BY <1>1, <1>5, ToldTypes DEF FindsNothing, Gathers
<1>6. CASE Removes(r)
  BY <1>1, <1>6, ToldTypes DEF Removes
<1>7. CASE CallRejects(r)
  BY <1>7, ToldTypes DEF CallRejects
<1> QED
  BY <1>2, <1>3, <1>4, <1>5, <1>6, <1>7

LEMMA DistributedInvCorrect == DistributedSpec => []DistributedInv
<1>1. DistributedInit => DistributedInv
  BY DEF DistributedInit, DistributedInv, DistributedTypeOK, JobTypes, InOrder
<1>2. DistributedInv /\ [DistributedNext]_distributedVars => DistributedInv'
  <2> SUFFICES ASSUME DistributedInv, [DistributedNext]_distributedVars PROVE DistributedInv'
    OBVIOUS
  <2>1. CASE UNCHANGED distributedVars
    BY <2>1 DEF distributedVars, DistributedInv, DistributedTypeOK, JobTypes, InOrder
  <2>2. ASSUME NEW n \in Nodes, NEW i \in Ids, NEW v \in Values \cup {Absent}, Changes(n, i, v)
        PROVE  DistributedInv'
    <3>1. UNCHANGED <<stage, job, mail, answered, listed, heard, told>>
      BY <2>2 DEF Changes
    <3>2. tables' \in [Nodes -> Table]
      <4>1. [tables[n] EXCEPT ![i] = v] \in Table
        BY DEF DistributedInv, DistributedTypeOK, Table
      <4>2. tables' = [tables EXCEPT ![n] = [tables[n] EXCEPT ![i] = v]]
        BY <2>2 DEF Changes
      <4> QED
        BY <4>1, <4>2 DEF DistributedInv, DistributedTypeOK
    <3> QED
      BY <3>1, <3>2 DEF DistributedInv, DistributedTypeOK, JobTypes, InOrder
  <2>3. ASSUME NEW r \in Clients, TurnDown(r) PROVE DistributedInv'
    <3>1. UNCHANGED <<tables, stage, job, mail, answered, listed, heard>> /\ told' \in Told
      BY <2>3, ToldTypes DEF TurnDown
    <3> QED
      BY <3>1 DEF DistributedInv, DistributedTypeOK, JobTypes, InOrder
  <2>4. ASSUME NEW r \in Clients, NEW n \in Nodes, Loses(r, n) PROVE DistributedInv'
    <3>1. UNCHANGED <<tables, stage, job, answered, listed, heard, told>> /\ mail' = [mail EXCEPT ![r] = @ \ {n}]
      BY <2>4 DEF Loses
    <3>2. mail' \in [Clients -> SUBSET Nodes] /\ \A q \in Clients : mail'[q] \subseteq mail[q]
      BY <3>1 DEF DistributedInv, DistributedTypeOK
    <3>3. DistributedTypeOK'
      BY <3>1, <3>2 DEF DistributedInv, DistributedTypeOK
    <3>4. \A q \in Clients : InOrder(q)'
      BY <3>1, <3>2 DEF DistributedInv, InOrder
    <3> QED
      BY <3>1, <3>3, <3>4 DEF DistributedInv, JobTypes
  <2>5. ASSUME NEW r \in Clients,
               \/ distributedQuery(r) \/ distributedGet(r) \/ writeResults(r)
               \/ FindsNothing(r) \/ Removes(r) \/ CallRejects(r)
        PROVE  DistributedInv'
    BY <2>5, Replies, OverStep
  <2>6. CASE AllOver
    BY <2>1, <2>6 DEF AllOver
  <2> QED
    BY <2>1, <2>2, <2>3, <2>4, <2>5, <2>6, RequestStep, LooksUpStep, WritesAtStep, FindsSomeStep
    DEF DistributedNext
<1> QED
  BY <1>1, <1>2, PTL DEF DistributedSpec

(* Tables, requests and answers keep their types; nobody answers who was   *)
(* not asked or whose message is still on its way, whatever is lost or     *)
(* late (DistributedStorageAPIController.ts:163-509).                      *)
THEOREM DistributedTypeCorrect == DistributedSpec => []DistributedTypeOK
BY DistributedInvCorrect, PTL DEF DistributedInv

-----------------------------------------------------------------------------
(* DistributedStorage implements DistributedStore.  What the abstract store*)
(* sees of a request: whether it is open, the nodes that may still act, and*)
(* what has been seen, done and found to be gone, and who was silent first.*)

Phase == [r \in Clients |-> IF stage[r] \in {"asking", "removing"} THEN "open" ELSE stage[r]]
May   == [r \in Clients |-> IF Waiting(r, {"deleteById"}) THEN job[r].nodes ELSE mail[r]]
Seen  == [r \in Clients |-> IF Waiting(r, {"query", "get"}) THEN heard[r] ELSE {}]
Did   == [r \in Clients |-> IF Waiting(r, {"save", "updateById", "update", "deleteByQuery", "deleteById"})
                            THEN answered[r] ELSE {}]
Unheard == [r \in Clients |-> IF stage[r] = "removing" THEN job[r].nodes \ listed[r] ELSE {}]
AbsentSeen == [r \in Clients |-> IF Waiting(r, {"deleteById"}) THEN SeenAbsent(r) ELSE {}]

(* A step changes the view of the one request that takes it.               *)
LEMMA ViewOfOthers ==
  ASSUME DistributedInv, NEW r \in Clients,
         \A q \in Clients \ {r} : /\ stage'[q] = stage[q] /\ job'[q] = job[q] /\ mail'[q] = mail[q]
                                  /\ answered'[q] = answered[q] /\ listed'[q] = listed[q] /\ heard'[q] = heard[q]
  PROVE  /\ Phase' = [Phase EXCEPT ![r] = Phase'[r]]
         /\ May' = [May EXCEPT ![r] = May'[r]]
         /\ Seen' = [Seen EXCEPT ![r] = Seen'[r]]
         /\ Did' = [Did EXCEPT ![r] = Did'[r]]
         /\ Unheard' = [Unheard EXCEPT ![r] = Unheard'[r]]
         /\ AbsentSeen' = [AbsentSeen EXCEPT ![r] = AbsentSeen'[r]]
<1>1. Phase' = [Phase EXCEPT ![r] = Phase'[r]]
  BY DEF Phase
<1>2. May' = [May EXCEPT ![r] = May'[r]]
  BY DEF May, Waiting
<1>3. Seen' = [Seen EXCEPT ![r] = Seen'[r]]
  BY DEF Seen, Waiting
<1>4. Did' = [Did EXCEPT ![r] = Did'[r]]
  BY DEF Did, Waiting
<1>5. AbsentSeen' = [AbsentSeen EXCEPT ![r] = AbsentSeen'[r]]
  <2>1. \A q \in Clients \ {r} : SeenAbsent(q)' = SeenAbsent(q) /\ Waiting(q, {"deleteById"})' = Waiting(q, {"deleteById"})
    BY DEF SeenAbsent, Waiting
  <2> QED
    BY <2>1 DEF AbsentSeen
<1>6. Unheard' = [Unheard EXCEPT ![r] = Unheard'[r]]
  BY DEF Unheard
<1> QED
  BY <1>1, <1>2, <1>3, <1>4, <1>5, <1>6

LEMMA OverMaps ==
  ASSUME DistributedInv, NEW r \in Clients, stage[r] \in {"asking", "removing"}, NEW a, Over(r, a)
  PROVE  /\ Phase[r] = "open" /\ told' = a /\ UNCHANGED <<tables, job>>
         /\ Phase' = [Phase EXCEPT ![r] = "over"]
         /\ \E N \in SUBSET May[r] : May' = [May EXCEPT ![r] = N]
         /\ Seen' = [Seen EXCEPT ![r] = {}]
         /\ Did' = [Did EXCEPT ![r] = {}]
         /\ Unheard' = [Unheard EXCEPT ![r] = {}]
         /\ AbsentSeen' = [AbsentSeen EXCEPT ![r] = {}]
<1>1. /\ stage' = [stage EXCEPT ![r] = "over"] /\ told' = a /\ UNCHANGED <<tables, job>>
  BY DEF Over
<1>2. stage'[r] = "over" /\ mail'[r] \subseteq mail[r]
  BY DEF Over, DistributedInv, DistributedTypeOK
<1>3. \A q \in Clients \ {r} : /\ stage'[q] = stage[q] /\ job'[q] = job[q] /\ mail'[q] = mail[q]
                               /\ answered'[q] = answered[q] /\ listed'[q] = listed[q] /\ heard'[q] = heard[q]
  BY DEF Over, DistributedInv, DistributedTypeOK
<1>4. Phase[r] = "open" /\ Phase'[r] = "over"
  BY <1>2 DEF Phase
<1>5. May'[r] \subseteq May[r]
  <2>1. mail[r] \subseteq job[r].nodes
    BY DEF DistributedInv, DistributedTypeOK
  <2> QED
    BY <1>2, <2>1 DEF May, Waiting
<1>6. Seen'[r] = {} /\ Did'[r] = {} /\ Unheard'[r] = {} /\ AbsentSeen'[r] = {}
  BY <1>2 DEF Seen, Did, Unheard, AbsentSeen, Waiting
<1> QED
  BY <1>1, <1>3, <1>4, <1>5, <1>6, ViewOfOthers

LEMMA AnswerOfAllMaps ==
  ASSUME DistributedInv, NEW r \in Clients, stage[r] \in {"asking", "removing"}, NEW a, Over(r, a),
         \/ /\ job[r].call.op \in {"query", "get"}
            /\ \E X \in Promised!Shown(r) : a = [to |-> r, kind |-> "rows", rows |-> X]
         \/ /\ job[r].call.op \notin {"query", "get"}
            /\ \E N \in SUBSET Promised!SpeaksFor(r) : a = [to |-> r, kind |-> "done", from |-> N]
         \/ a = [to |-> r, kind |-> "failed"]
  PROVE  Promised!Next
<1>1. /\ Phase[r] = "open" /\ told' = a /\ UNCHANGED <<tables, job>>
      /\ Phase' = [Phase EXCEPT ![r] = "over"]
      /\ \E N \in SUBSET May[r] : May' = [May EXCEPT ![r] = N]
      /\ Seen' = [Seen EXCEPT ![r] = {}]
      /\ Did' = [Did EXCEPT ![r] = {}]
      /\ Unheard' = [Unheard EXCEPT ![r] = {}]
      /\ AbsentSeen' = [AbsentSeen EXCEPT ![r] = {}]
  BY OverMaps
<1>2. Promised!Op(r) = job[r].call.op
  BY DEF Promised!Op
<1>3. Promised!Answer(r)
  BY <1>1, <1>2 DEF Promised!Answer, Phase, May, Seen, Did, Unheard, AbsentSeen
<1> QED
  BY <1>3 DEF Promised!Next

(* A reply shows what has been seen, or speaks for nodes that have done    *)
(* what was asked.                                                         *)
LEMMA RepliesMap ==
  ASSUME DistributedInv, NEW r \in Clients,
         \/ distributedQuery(r) \/ distributedGet(r) \/ writeResults(r)
         \/ FindsNothing(r) \/ Removes(r) \/ CallRejects(r)
  PROVE  Promised!Next
<1>1. CASE distributedQuery(r)
  <2>1. stage[r] = "asking" /\ job[r].call.op = "query" /\ Over(r, [to |-> r, kind |-> "rows", rows |-> heard[r]])
    BY <1>1 DEF distributedQuery, Gathers, AllRows
  <2>2. Promised!Shown(r) = {heard[r]}
    BY <2>1 DEF Promised!Shown, Waiting
  <2>3. PICK a : a = [to |-> r, kind |-> "rows", rows |-> heard[r]]
    OBVIOUS
  <2>4. Over(r, a)
    BY <2>1, <2>3 DEF Over
  <2> QED
    BY <2>1, <2>2, <2>3, <2>4, AnswerOfAllMaps
<1>2. CASE distributedGet(r)
  <2>1. stage[r] = "asking" /\ job[r].call.op = "get"
    BY <1>2 DEF distributedGet, Gathers
  <2>2. PICK X \in IF IsOne(job[r].call.ids) THEN OneRow(r) ELSE AllRows(r) :
          Over(r, [to |-> r, kind |-> "rows", rows |-> X])
    BY <1>2 DEF distributedGet
  <2>3. X \in Promised!Shown(r)
    BY <2>1, <2>2 DEF Promised!Shown, Waiting, OneRow, AllRows, IsOne
  <2> QED
    BY <2>1, <2>2, <2>3, AnswerOfAllMaps
<1>3. CASE writeResults(r)
  <2>1. /\ stage[r] = "asking" /\ job[r].call.op \in WritingOps
        /\ Over(r, [to |-> r, kind |-> "done", from |-> answered[r]])
    BY <1>3 DEF writeResults, Gathers, WritingOps
  <2>2. Promised!SpeaksFor(r) = answered[r]
    BY <2>1 DEF Promised!SpeaksFor, Promised!Op, Waiting, WritingOps
  <2>3. PICK a : a = [to |-> r, kind |-> "done", from |-> answered[r]]
    OBVIOUS
  <2>4. Over(r, a)
    BY <2>1, <2>3 DEF Over
  <2> QED
    BY <2>1, <2>2, <2>3, <2>4, AnswerOfAllMaps DEF WritingOps
<1>4. CASE FindsNothing(r)
  <2>1. /\ stage[r] = "asking" /\ job[r].call.op = "deleteById" /\ heard[r] = {}
        /\ Over(r, [to |-> r, kind |-> "done", from |-> answered[r]])
    BY <1>4 DEF FindsNothing, Gathers
  <2>2. SeenAbsent(r) = answered[r] \X job[r].call.ids
    BY <2>1 DEF SeenAbsent
  <2>3. answered[r] \subseteq job[r].nodes
    BY <2>1 DEF DistributedInv, InOrder
  <2>4. answered[r] \subseteq Promised!SpeaksFor(r)
    BY <2>1, <2>2, <2>3 DEF Promised!SpeaksFor, Promised!Op, Waiting
  <2>5. PICK a : a = [to |-> r, kind |-> "done", from |-> answered[r]]
    OBVIOUS
  <2>6. Over(r, a)
    BY <2>1, <2>5 DEF Over
  <2> QED
    BY <2>1, <2>4, <2>5, <2>6, AnswerOfAllMaps
<1>5. CASE Removes(r)
  <2>1. stage[r] = "removing" /\ Over(r, [to |-> r, kind |-> "done", from |-> answered[r]])
    BY <1>5 DEF Removes
  <2>2. job[r].call.op = "deleteById"
    BY <2>1 DEF DistributedInv, DistributedTypeOK
  <2>3. (answered[r] \cap listed[r]) \X job[r].call.ids \subseteq SeenAbsent(r)
    BY <2>1 DEF SeenAbsent
  <2>4. answered[r] \subseteq job[r].nodes
    BY <2>1 DEF DistributedInv, InOrder
  <2>5. answered[r] \subseteq Promised!SpeaksFor(r)
    BY <2>1, <2>2, <2>3, <2>4 DEF Promised!SpeaksFor, Promised!Op, Waiting
  <2>6. PICK a : a = [to |-> r, kind |-> "done", from |-> answered[r]]
    OBVIOUS
  <2>7. Over(r, a)
    BY <2>1, <2>6 DEF Over
  <2> QED
    BY <2>1, <2>2, <2>5, <2>6, <2>7, AnswerOfAllMaps
<1>6. CASE CallRejects(r)
  BY <1>6, AnswerOfAllMaps DEF CallRejects
<1> QED
  BY <1>1, <1>2, <1>3, <1>4, <1>5, <1>6

LEMMA RequestMaps ==
  ASSUME DistributedInv, NEW r \in Clients, NEW c \in Calls, NEW n \in Nodes, NEW T \in SUBSET Nodes,
         Request(r, c, n, T)
  PROVE  Promised!Next
<1>1. TargetIds(c, n, T) \subseteq Nodes /\ TargetIds(c, n, T) # {} /\ TargetIds(c, n, T) = Promised!Named(c, n, T)
  BY DEF TargetIds, Promised!Named
<1>2. PICK j : j = [call |-> c, nodes |-> TargetIds(c, n, T)]
  OBVIOUS
<1>3. /\ stage[r] = "idle" /\ stage' = [stage EXCEPT ![r] = "asking"] /\ job' = [job EXCEPT ![r] = j]
      /\ mail' = [mail EXCEPT ![r] = TargetIds(c, n, T)] /\ Accepts(c)
      /\ UNCHANGED <<tables, answered, listed, heard, told>>
  BY <1>2 DEF Request
<1>4. j \in Jobs /\ j # NoCall
  BY <1>1, <1>2 DEF Jobs
<1>5. answered[r] = {} /\ heard[r] = {}
  BY <1>3 DEF DistributedInv, InOrder
<1>6. /\ stage'[r] = "asking" /\ job'[r] = j /\ mail'[r] = j.nodes
      /\ \A q \in Clients \ {r} : stage'[q] = stage[q] /\ job'[q] = job[q] /\ mail'[q] = mail[q]
  BY <1>2, <1>3 DEF DistributedInv, DistributedTypeOK, JobTypes
<1>7. /\ Phase[r] = "idle" /\ Phase'[r] = "open" /\ May'[r] = j.nodes
      /\ Seen[r] = {} /\ Seen'[r] = {} /\ Did[r] = {} /\ Did'[r] = {}
      /\ Unheard[r] = {} /\ Unheard'[r] = {} /\ AbsentSeen[r] = {} /\ AbsentSeen'[r] = {}
  BY <1>3, <1>5, <1>6 DEF Phase, May, Seen, Did, Unheard, AbsentSeen, Waiting, SeenAbsent
<1>8. /\ Phase' = [Phase EXCEPT ![r] = "open"] /\ May' = [May EXCEPT ![r] = j.nodes]
      /\ Seen' = Seen /\ Did' = Did /\ Unheard' = Unheard /\ AbsentSeen' = AbsentSeen
  <2>1. /\ Phase' = [Phase EXCEPT ![r] = Phase'[r]] /\ May' = [May EXCEPT ![r] = May'[r]]
        /\ Seen' = [Seen EXCEPT ![r] = Seen'[r]] /\ Did' = [Did EXCEPT ![r] = Did'[r]]
        /\ Unheard' = [Unheard EXCEPT ![r] = Unheard'[r]]
        /\ AbsentSeen' = [AbsentSeen EXCEPT ![r] = AbsentSeen'[r]]
    BY <1>3, <1>6, ViewOfOthers
  <2>2. /\ Seen = [Seen EXCEPT ![r] = Seen[r]] /\ Did = [Did EXCEPT ![r] = Did[r]]
        /\ Unheard = [Unheard EXCEPT ![r] = Unheard[r]]
        /\ AbsentSeen = [AbsentSeen EXCEPT ![r] = AbsentSeen[r]]
    BY DEF Seen, Did, Unheard, AbsentSeen
  <2> QED
    BY <1>7, <2>1, <2>2
<1>9. Calls = Promised!Calls
  BY DEF Calls, Promised!Calls, EntityNames, Promised!EntityNames, Roles, Promised!Roles,
         Conditions, Promised!Conditions, Bodies, Promised!Bodies
<1>10. j \in [call : Promised!Calls, nodes : {Promised!Named(j.call, n, T)}]
  BY <1>1, <1>2, <1>9
<1>11. j.call.op = "deleteByQuery" => j.call.where # NoConditions
  BY <1>2, <1>3 DEF Accepts, Selective
<1>12. Promised!Begin(r, n, T)
  BY <1>3, <1>4, <1>6, <1>7, <1>8, <1>10, <1>11 DEF Promised!Begin, Phase, May, Seen, Did, Unheard, AbsentSeen
<1> QED
  BY <1>12 DEF Promised!Next

LEMMA LooksUpMaps ==
  ASSUME DistributedInv, NEW r \in Clients, NEW n \in Nodes, LooksUp(r, n)
  PROVE  Promised!Next
<1> DEFINE c == job[r].call
           F == FoundAt(n, job[r].call)
<1>1. /\ n \in mail[r] /\ ~Writing(r) /\ mail' = [mail EXCEPT ![r] = @ \ {n}]
      /\ answered' = [answered EXCEPT ![r] = @ \cup {n}] /\ heard' = [heard EXCEPT ![r] = @ \cup F]
      /\ UNCHANGED <<tables, stage, job, listed, told>>
  BY DEF LooksUp
<1>2. stage[r] = "asking" /\ n \in job[r].nodes /\ c \in Calls /\ c.op \in {"query", "get", "deleteById"}
  <2>1. stage[r] = "asking" /\ n \in job[r].nodes
    BY <1>1 DEF DistributedInv, DistributedTypeOK, Writing
  <2>2. c \in Calls
    BY <2>1, JobOf
  <2>3. c.op \notin WritingOps
    BY <1>1, <2>1 DEF Writing, WritingOps
  <2> QED
    BY <2>1, <2>2, <2>3, CallFields DEF Ops
<1>3. /\ mail'[r] = mail[r] \ {n} /\ answered'[r] = answered[r] \cup {n} /\ heard'[r] = heard[r] \cup F
      /\ \A q \in Clients \ {r} : mail'[q] = mail[q] /\ answered'[q] = answered[q] /\ heard'[q] = heard[q]
  BY <1>1 DEF DistributedInv, DistributedTypeOK
<1> HIDE DEF F
<1>4. /\ Phase' = Phase /\ May' = [May EXCEPT ![r] = May'[r]] /\ Seen' = [Seen EXCEPT ![r] = Seen'[r]]
      /\ Did' = [Did EXCEPT ![r] = Did'[r]] /\ AbsentSeen' = [AbsentSeen EXCEPT ![r] = AbsentSeen'[r]]
  <2>1. Phase' = Phase
    BY <1>1 DEF Phase
  <2> QED
    BY <1>1, <1>3, <2>1, ViewOfOthers
<1>5. Unheard' = Unheard
  BY <1>1 DEF Unheard
<1>6. CASE c.op \in {"query", "get"}
  <2>1. May[r] = mail[r] /\ May'[r] = mail[r] \ {n} /\ Seen[r] = heard[r] /\ Seen'[r] = heard[r] \cup F
    BY <1>1, <1>2, <1>3, <1>6 DEF May, Seen, Waiting
  <2>2. AbsentSeen' = AbsentSeen
    <3>1. AbsentSeen[r] = {} /\ AbsentSeen'[r] = {}
      BY <1>1, <1>6 DEF AbsentSeen, Waiting
    <3> QED
      BY <1>4, <3>1 DEF AbsentSeen
  <2>a. Did' = Did
    <3>1. Did[r] = {} /\ Did'[r] = {}
      BY <1>1, <1>6 DEF Did, Waiting
    <3> QED
      BY <1>4, <3>1 DEF Did
  <2>3. F = Promised!NamedRows(n, c)
    BY <1>6 DEF F, FoundAt, Promised!NamedRows, Promised!Matching, Matching, Promised!Present, Present
  <2>4. Promised!Op(r) \in {"query", "get"} /\ Phase[r] = "open"
    BY <1>2, <1>6 DEF Promised!Op, Phase
  <2>5. May' = [May EXCEPT ![r] = May[r] \ {n}] /\ Seen' = [Seen EXCEPT ![r] = Seen[r] \cup Promised!NamedRows(n, c)]
    BY <1>4, <2>1, <2>3
  <2>6. Promised!Look(r, n)
    BY <1>1, <1>4, <1>5, <2>1, <2>a, <2>2, <2>4, <2>5 DEF Promised!Look, Phase, May, Seen, Did, Unheard, AbsentSeen
  <2> QED
    BY <2>6 DEF Promised!Next
<1>7. CASE c.op = "deleteById"
  <2>1. May[r] = job[r].nodes /\ May'[r] = job[r].nodes /\ Seen[r] = {} /\ Seen'[r] = {}
    BY <1>1, <1>2, <1>7 DEF May, Seen, Waiting
  <2>2. May' = [May EXCEPT ![r] = job[r].nodes] /\ Seen' = Seen
    <3>1. Seen = [Seen EXCEPT ![r] = Seen[r]]
      BY DEF Seen
    <3> QED
      BY <1>4, <2>1, <3>1
  <2>a. Did' = [Did EXCEPT ![r] = Did[r] \cup {n}]
    <3>1. Did[r] = answered[r] /\ Did'[r] = answered[r] \cup {n}
      BY <1>1, <1>2, <1>3, <1>7 DEF Did, Waiting
    <3> QED
      BY <1>4, <3>1
  <2> DEFINE J == {i \in c.ids : <<n, i>> \notin {<<y.node, y.id>> : y \in heard[r] \cup F}}
  <2>3. J \subseteq c.ids \ Present(tables[n])
    <3>1. \A i \in Present(tables[n]) \cap c.ids : \E y \in F : y.node = n /\ y.id = i
      <4> DEFINE I == IF c.op = "query" THEN Matching(tables[n], c.where) ELSE Present(tables[n]) \cap c.ids
      <4>1. F = {[node |-> n, id |-> i, value |-> tables[n][i]] : i \in I}
        BY DEF F, FoundAt
      <4>2. I = Present(tables[n]) \cap c.ids
        BY <1>7
      <4> HIDE DEF I
      <4>3. \A i \in I : [node |-> n, id |-> i, value |-> tables[n][i]] \in F
        BY <4>1
      <4>4. TAKE i \in Present(tables[n]) \cap c.ids
      <4>5. PICK y : y = [node |-> n, id |-> i, value |-> tables[n][i]]
        OBVIOUS
      <4>6. y \in F
        BY <4>2, <4>3, <4>5
      <4> QED
        BY <4>5, <4>6
    <3>2. \A i \in Present(tables[n]) \cap c.ids : <<n, i>> \in {<<y.node, y.id>> : y \in heard[r] \cup F}
      BY <3>1
    <3> QED
      BY <3>2
  <2>4. AbsentSeen[r] = SeenAbsent(r) /\ AbsentSeen'[r] = SeenAbsent(r)'
    BY <1>1, <1>2, <1>7 DEF AbsentSeen, Waiting
  <2>5. SeenAbsent(r) = {x \in answered[r] \X c.ids : x \notin {<<y.node, y.id>> : y \in heard[r]}}
    BY <1>2 DEF SeenAbsent
  <2>6. SeenAbsent(r)' = {x \in (answered[r] \cup {n}) \X c.ids : x \notin {<<y.node, y.id>> : y \in heard[r] \cup F}}
    BY <1>1, <1>2, <1>3 DEF SeenAbsent
  <2>7. \A y \in F : y.node = n
    BY DEF F, FoundAt
  <2>8. n \notin answered[r]
    BY <1>1 DEF DistributedInv, DistributedTypeOK
  <2>9. SeenAbsent(r)' = SeenAbsent(r) \cup ({n} \X J)
    <3>1. \A m \in Nodes \ {n}, i \in c.ids :
            <<m, i>> \in {<<y.node, y.id>> : y \in heard[r] \cup F} <=> <<m, i>> \in {<<y.node, y.id>> : y \in heard[r]}
      BY <2>7
    <3>2. answered[r] \subseteq Nodes \ {n}
      BY <2>8 DEF DistributedInv, DistributedTypeOK
    <3> QED
      BY <2>5, <2>6, <3>1, <3>2
  <2> HIDE DEF J
  <2>10. AbsentSeen' = [AbsentSeen EXCEPT ![r] = AbsentSeen[r] \cup ({n} \X J)]
    BY <1>4, <2>4, <2>9
  <2>11. tables[n] = Promised!Removed(tables[n], {}) /\ tables' = [tables EXCEPT ![n] = Promised!Removed(tables[n], {})]
    <3>1. tables[n] \in Table /\ tables \in [Nodes -> Table]
      BY DEF DistributedInv, DistributedTypeOK
    <3>2. Promised!Removed(tables[n], {}) = tables[n]
      BY <3>1 DEF Promised!Removed, Table
    <3> QED
      BY <1>1, <3>1, <3>2
  <2>12. Present(tables[n]) = Promised!Present(Promised!Removed(tables[n], {}))
    BY <2>11 DEF Present, Promised!Present
  <2>13. Promised!Op(r) = "deleteById" /\ Phase[r] = "open"
    BY <1>2, <1>7 DEF Promised!Op, Phase
  <2>14. Promised!Delete(r, n)
    <3>1. n \in May[r] /\ May' = [May EXCEPT ![r] = May[r]] /\ May[r] \in SUBSET May[r]
      BY <1>2, <2>1, <2>2
    <3>2. J \in SUBSET (c.ids \ Promised!Present(Promised!Removed(tables[n], {}))) /\ {} \in SUBSET c.ids
      BY <2>3, <2>12
    <3> QED
      BY <1>1, <1>4, <1>5, <2>2, <2>a, <2>10, <2>11, <2>13, <3>1, <3>2 DEF Promised!Delete, Phase, May, Seen, Did, Unheard, AbsentSeen
  <2> QED
    BY <2>14 DEF Promised!Next
<1> QED
  BY <1>2, <1>6, <1>7

(* What a step of a node leaves as it is.                                  *)
LEMMA WritesAtFrame ==
  ASSUME DistributedInv, NEW r \in Clients, NEW n \in Nodes, WritesAt(r, n)
  PROVE  /\ n \in mail[r] /\ Writing(r) /\ n \in job[r].nodes /\ job[r] \in Jobs /\ job[r] # NoCall
         /\ mail'[r] = mail[r] \ {n} /\ UNCHANGED <<stage, job, listed, heard, told>>
         /\ \/ stage[r] # "over" /\ answered'[r] = answered[r] \cup {n}
            \/ answered' = answered
         /\ Phase' = Phase /\ Seen' = Seen /\ May' = [May EXCEPT ![r] = May'[r]]
         /\ Did' = [Did EXCEPT ![r] = Did'[r]] /\ AbsentSeen' = [AbsentSeen EXCEPT ![r] = AbsentSeen'[r]]
         /\ Unheard' = Unheard
<1>1. n \in mail[r] /\ Writing(r) /\ UNCHANGED <<stage, job, listed, heard, told>>
  BY DEF WritesAt
<1>2. n \in job[r].nodes /\ job[r] \in Jobs /\ job[r] # NoCall
  BY <1>1, WritingOp, JobOf
<1>3. /\ mail'[r] = mail[r] \ {n}
      /\ \/ stage[r] # "over" /\ answered'[r] = answered[r] \cup {n}
         \/ answered' = answered
      /\ \A q \in Clients \ {r} : mail'[q] = mail[q] /\ answered'[q] = answered[q]
  BY DEF WritesAt, DistributedInv, DistributedTypeOK
<1>4. Phase' = Phase /\ Seen' = Seen /\ Unheard' = Unheard
  BY <1>1 DEF Phase, Seen, Unheard, Waiting
<1> QED
  BY <1>1, <1>2, <1>3, <1>4, ViewOfOthers

(* A write of the rows that a call names is one of the abstract store, when*)
(* it is heard of and when it is not.                                      *)
LEMMA NodeWriteMaps ==
  ASSUME DistributedInv, NEW r \in Clients, NEW n \in Nodes, WritesAt(r, n), job[r].call.op \in WritingOps
  PROVE  Promised!Next
<1> DEFINE c == job[r].call
           R == tables[n]
<1>1. /\ n \in mail[r] /\ Writing(r) /\ job[r] \in Jobs /\ job[r] # NoCall
      /\ mail'[r] = mail[r] \ {n} /\ UNCHANGED <<stage, job, listed, heard, told>>
      /\ \/ stage[r] # "over" /\ answered'[r] = answered[r] \cup {n}
         \/ answered' = answered
      /\ Phase' = Phase /\ Seen' = Seen /\ May' = [May EXCEPT ![r] = May'[r]]
      /\ Did' = [Did EXCEPT ![r] = Did'[r]] /\ AbsentSeen' = [AbsentSeen EXCEPT ![r] = AbsentSeen'[r]]
      /\ Unheard' = Unheard
  BY WritesAtFrame
<1>2. stage[r] \in {"asking", "over"}
  BY <1>1, WritingOp DEF WritingOps
<1>3. May[r] = mail[r] /\ May'[r] = mail[r] \ {n} /\ AbsentSeen[r] = {} /\ AbsentSeen'[r] = {}
  BY <1>1, <1>2 DEF May, AbsentSeen, Waiting, WritingOps
<1>4. AbsentSeen' = AbsentSeen
  <2>1. AbsentSeen = [AbsentSeen EXCEPT ![r] = AbsentSeen[r]]
    BY DEF AbsentSeen
  <2> QED
    BY <1>1, <1>3, <2>1
<1>5. \/ Phase[r] = "open" /\ Did' = [Did EXCEPT ![r] = Did[r] \cup {n}]
      \/ Did' = Did
  <2>1. CASE stage[r] = "asking" /\ answered'[r] = answered[r] \cup {n}
    <3>1. Phase[r] = "open" /\ Did[r] = answered[r] /\ Did'[r] = answered[r] \cup {n}
      BY <1>1, <2>1 DEF Phase, Did, Waiting, WritingOps
    <3> QED
      BY <1>1, <3>1
  <2>2. CASE answered' = answered
    BY <1>1, <2>2 DEF Did, Waiting
  <2> QED
    BY <1>1, <1>2, <2>1, <2>2
<1>6. tables' = [tables EXCEPT ![n] = Promised!Written(R, c)]
  <2>1. PICK t \in Effects(r, n) : tables' = [tables EXCEPT ![n] = t]
    BY DEF WritesAt
  <2>2. CASE c.op \in {"save", "updateById"}
    BY <2>1, <2>2 DEF Effects, Promised!Written, Promised!Saved, Saved
  <2>3. CASE c.op = "update"
    BY <2>1, <2>3 DEF Effects, Promised!Written, Promised!Updated, Updated, Promised!Matching, Matching,
                      Promised!Present, Present
  <2>4. CASE c.op = "deleteByQuery"
    BY <2>1, <2>4 DEF Effects, Promised!Written, Promised!Removed, Removed, Promised!Matching, Matching,
                      Promised!Present, Present
  <2> QED
    BY <2>2, <2>3, <2>4 DEF WritingOps
<1>7. Promised!Op(r) = c.op
  BY <1>2 DEF Promised!Op
<1>8. May' = [May EXCEPT ![r] = May[r] \ {n}]
  BY <1>1, <1>3
<1>9. Promised!Write(r, n)
  BY <1>1, <1>3, <1>4, <1>5, <1>6, <1>7, <1>8
  DEF Promised!Write, Promised!Writes, WritingOps, Phase, May, Seen, Did, Unheard, AbsentSeen
<1> QED
  BY <1>9 DEF Promised!Next

(* A removal takes at least what was found at the node, so that each id of *)
(* the call has then been seen absent at a node that answers both calls.   *)
LEMMA RemovalMaps ==
  ASSUME DistributedInv, NEW r \in Clients, NEW n \in Nodes, WritesAt(r, n), job[r].call.op = "deleteById"
  PROVE  Promised!Next
<1> DEFINE c == job[r].call
           R == tables[n]
<1>1. /\ n \in mail[r] /\ Writing(r) /\ n \in job[r].nodes /\ job[r] \in Jobs /\ job[r] # NoCall
      /\ mail'[r] = mail[r] \ {n} /\ UNCHANGED <<stage, job, listed, heard, told>>
      /\ \/ stage[r] # "over" /\ answered'[r] = answered[r] \cup {n}
         \/ answered' = answered
      /\ Phase' = Phase /\ Seen' = Seen /\ May' = [May EXCEPT ![r] = May'[r]]
      /\ Did' = [Did EXCEPT ![r] = Did'[r]] /\ AbsentSeen' = [AbsentSeen EXCEPT ![r] = AbsentSeen'[r]]
      /\ Unheard' = Unheard
  BY WritesAtFrame
<1>2. stage[r] \in {"removing", "over"}
  BY <1>1, WritingOp DEF WritingOps
<1>3. n \in May[r] /\ May'[r] \subseteq May[r]
  BY <1>1 DEF May, Waiting
<1>4. \/ Phase[r] = "open" /\ Did' = [Did EXCEPT ![r] = Did[r] \cup {n}]
      \/ Did' = Did
  <2>1. CASE stage[r] = "removing" /\ answered'[r] = answered[r] \cup {n}
    <3>1. Phase[r] = "open" /\ Did[r] = answered[r] /\ Did'[r] = answered[r] \cup {n}
      BY <1>1, <2>1 DEF Phase, Did, Waiting
    <3> QED
      BY <1>1, <3>1
  <2>2. CASE answered' = answered
    BY <1>1, <2>2 DEF Did, Waiting
  <2> QED
    BY <1>1, <1>2, <2>1, <2>2
<1>5. PICK I \in Removals(r, n) : tables' = [tables EXCEPT ![n] = Removed(R, I)]
  <2>1. PICK t \in Effects(r, n) : tables' = [tables EXCEPT ![n] = t]
    BY DEF WritesAt
  <2>2. Effects(r, n) = {Removed(R, I) : I \in Removals(r, n)}
    BY DEF Effects
  <2> QED
    BY <2>1, <2>2
<1> DEFINE there == {x \in heard[r] : x.node = n}
<1>6. I \subseteq c.ids /\ \A x \in there : x.id \in I
  <2>1. \A x \in heard[r] : x.id \in c.ids
    BY <1>2 DEF DistributedInv, InOrder
  <2>2. I = {x.id : x \in {y \in heard[r] : y.node = n}} \/ I = {x.id : x \in heard[r]}
    BY DEF Removals
  <2> QED
    BY <2>1, <2>2
<1> DEFINE J == IF stage[r] = "removing" /\ n \in listed[r] /\ answered'[r] = answered[r] \cup {n}
                THEN {x.id : x \in there} ELSE {}
<1>7. J \subseteq c.ids \ Promised!Present(Promised!Removed(R, I))
  BY <1>6 DEF Promised!Present, Promised!Removed
<1>8. AbsentSeen'[r] = AbsentSeen[r] \cup ({n} \X J)
  <2>1. CASE stage[r] = "over"
    BY <1>1, <2>1 DEF AbsentSeen, Waiting
  <2>2. CASE stage[r] = "removing"
    <3>1. AbsentSeen[r] = SeenAbsent(r) /\ AbsentSeen'[r] = SeenAbsent(r)'
      BY <1>1, <2>2 DEF AbsentSeen, Waiting
    <3> DEFINE pairs == {<<y.node, y.id>> : y \in heard[r]}
    <3>2. SeenAbsent(r) = {x \in listed[r] \X c.ids : x \notin pairs \/ x[1] \in answered[r]}
      BY <2>2 DEF SeenAbsent
    <3>3. SeenAbsent(r)' = {x \in listed[r] \X c.ids : x \notin pairs \/ x[1] \in answered'[r]}
      BY <1>1, <2>2 DEF SeenAbsent
    <3>4. CASE answered' = answered /\ answered'[r] # answered[r] \cup {n}
      BY <3>1, <3>2, <3>3, <3>4
    <3>5. CASE answered'[r] = answered[r] \cup {n} /\ n \notin listed[r]
      BY <3>1, <3>2, <3>3, <3>5
    <3>6. CASE answered'[r] = answered[r] \cup {n} /\ n \in listed[r]
      <4>1. J = {x.id : x \in there}
        BY <2>2, <3>6
      <4>2. \A i \in c.ids : <<n, i>> \in pairs <=> i \in J
        BY <4>1
      <4>3. J \subseteq c.ids
        BY <1>7
      <4> HIDE DEF pairs, J
      <4> QED
        BY <3>1, <3>2, <3>3, <3>6, <4>2, <4>3
    <3> QED
      BY <1>1, <3>4, <3>5, <3>6
  <2> QED
    BY <1>2, <2>1, <2>2
<1>9. Phase[r] = "over" => AbsentSeen' = AbsentSeen
  <2>1. SUFFICES ASSUME Phase[r] = "over" PROVE AbsentSeen' = AbsentSeen
    OBVIOUS
  <2>2. AbsentSeen[r] = {} /\ AbsentSeen'[r] = {}
    BY <1>1, <2>1 DEF Phase, AbsentSeen, Waiting
  <2>3. AbsentSeen = [AbsentSeen EXCEPT ![r] = AbsentSeen[r]]
    BY DEF AbsentSeen
  <2> QED
    BY <1>1, <2>2, <2>3
<1>10. Promised!Op(r) = "deleteById"
  BY <1>2 DEF Promised!Op
<1>11. Removed(R, I) = Promised!Removed(R, I)
  BY DEF Removed, Promised!Removed
<1> HIDE DEF J
<1>12. Promised!Delete(r, n)
  <2>1. \E N \in SUBSET May[r] : May' = [May EXCEPT ![r] = N]
    BY <1>1, <1>3
  <2>2. \E K \in SUBSET c.ids :
          /\ tables' = [tables EXCEPT ![n] = Promised!Removed(R, K)]
          /\ \E L \in SUBSET (c.ids \ Promised!Present(Promised!Removed(R, K))) :
               AbsentSeen' = [AbsentSeen EXCEPT ![r] = AbsentSeen[r] \cup ({n} \X L)]
    BY <1>1, <1>5, <1>6, <1>7, <1>8, <1>11
  <2> QED
    BY <1>1, <1>3, <1>4, <1>9, <1>10, <2>1, <2>2 DEF Promised!Delete, Phase, May, Seen, Did, Unheard, AbsentSeen
<1> QED
  BY <1>12 DEF Promised!Next

LEMMA LosesMaps ==
  ASSUME DistributedInv, NEW r \in Clients, NEW n \in Nodes, Loses(r, n)
  PROVE  Promised!Next \/ UNCHANGED <<tables, Phase, job, May, Seen, Did, Unheard, AbsentSeen, told>>
<1>1. /\ n \in mail[r] /\ mail' = [mail EXCEPT ![r] = mail[r] \ {n}]
      /\ UNCHANGED <<tables, stage, job, answered, listed, heard, told>>
  BY DEF Loses
<1>2. mail'[r] = mail[r] \ {n} /\ \A q \in Clients \ {r} : mail'[q] = mail[q]
  BY <1>1 DEF DistributedInv, DistributedTypeOK
<1>3. Phase' = Phase /\ Seen' = Seen /\ Did' = Did /\ Unheard' = Unheard
  BY <1>1 DEF Phase, Seen, Did, Unheard, Waiting
<1>4. AbsentSeen' = AbsentSeen
  <2>1. \A q \in Clients : SeenAbsent(q)' = SeenAbsent(q) /\ Waiting(q, {"deleteById"})' = Waiting(q, {"deleteById"})
    BY <1>1 DEF SeenAbsent, Waiting
  <2> QED
    BY <2>1 DEF AbsentSeen
<1>5. CASE Waiting(r, {"deleteById"})
  <2>1. May' = May
    BY <1>1, <1>2, <1>5 DEF May, Waiting
  <2> QED
    BY <1>1, <1>3, <1>4, <2>1
<1>6. CASE ~Waiting(r, {"deleteById"})
  <2>1. May[r] = mail[r] /\ May'[r] = mail[r] \ {n} /\ \A q \in Clients \ {r} : May'[q] = May[q]
    BY <1>1, <1>2, <1>6 DEF May, Waiting
  <2>2. May' = [May EXCEPT ![r] = May[r] \ {n}]
    BY <2>1 DEF May
  <2>3. Promised!Lose(r, n)
    BY <1>1, <1>3, <1>4, <2>1, <2>2 DEF Promised!Lose, Phase, May, Seen, Did, Unheard, AbsentSeen
  <2> QED
    BY <2>3 DEF Promised!Next
<1> QED
  BY <1>5, <1>6

(* To the abstract store a deletion that has found something asks again.   *)
LEMMA FindsSomeMaps ==
  ASSUME DistributedInv, NEW r \in Clients, FindsSome(r)
  PROVE  Promised!Next
<1>1. /\ stage[r] = "asking" /\ job[r].call.op = "deleteById"
      /\ stage' = [stage EXCEPT ![r] = "removing"] /\ mail' = [mail EXCEPT ![r] = job[r].nodes]
      /\ listed' = [listed EXCEPT ![r] = answered[r]] /\ answered' = [answered EXCEPT ![r] = {}]
      /\ UNCHANGED <<tables, job, heard, told>>
  BY DEF FindsSome, Gathers
<1>2. /\ stage'[r] = "removing" /\ listed'[r] = answered[r] /\ answered'[r] = {}
      /\ \A q \in Clients \ {r} : /\ stage'[q] = stage[q] /\ job'[q] = job[q] /\ mail'[q] = mail[q]
                                  /\ answered'[q] = answered[q] /\ listed'[q] = listed[q] /\ heard'[q] = heard[q]
  BY <1>1 DEF DistributedInv, DistributedTypeOK
<1>3. /\ Phase[r] = "open" /\ Phase'[r] = Phase[r] /\ May'[r] = May[r] /\ Seen'[r] = Seen[r]
      /\ Did[r] = answered[r] /\ Did'[r] = {} /\ Unheard[r] = {} /\ Unheard'[r] = job[r].nodes \ answered[r]
  BY <1>1, <1>2 DEF Phase, May, Seen, Did, Unheard, Waiting
<1>4. AbsentSeen'[r] = AbsentSeen[r]
  <2>1. SeenAbsent(r)' = SeenAbsent(r)
    <3>1. SeenAbsent(r) = {x \in answered[r] \X job[r].call.ids : x \notin {<<y.node, y.id>> : y \in heard[r]}}
      BY <1>1 DEF SeenAbsent
    <3>2. SeenAbsent(r)' = {x \in answered[r] \X job[r].call.ids : x \notin {<<y.node, y.id>> : y \in heard[r]}}
      BY <1>1, <1>2 DEF SeenAbsent
    <3> QED
      BY <3>1, <3>2
  <2>2. AbsentSeen[r] = SeenAbsent(r) /\ AbsentSeen'[r] = SeenAbsent(r)'
    BY <1>1, <1>2 DEF AbsentSeen, Waiting
  <2> QED
    BY <2>1, <2>2
<1>5. /\ Phase' = [Phase EXCEPT ![r] = Phase'[r]] /\ May' = [May EXCEPT ![r] = May'[r]]
      /\ Seen' = [Seen EXCEPT ![r] = Seen'[r]] /\ Did' = [Did EXCEPT ![r] = Did'[r]]
      /\ Unheard' = [Unheard EXCEPT ![r] = Unheard'[r]]
      /\ AbsentSeen' = [AbsentSeen EXCEPT ![r] = AbsentSeen'[r]]
  BY <1>2, ViewOfOthers
<1>6. /\ Phase = [Phase EXCEPT ![r] = Phase[r]] /\ May = [May EXCEPT ![r] = May[r]]
      /\ Seen = [Seen EXCEPT ![r] = Seen[r]] /\ AbsentSeen = [AbsentSeen EXCEPT ![r] = AbsentSeen[r]]
  BY DEF Phase, May, Seen, AbsentSeen
<1>7. UNCHANGED <<tables, Phase, job, May, Seen, AbsentSeen, told>>
  BY <1>1, <1>3, <1>4, <1>5, <1>6
<1>8. Did' = [Did EXCEPT ![r] = {}] /\ Unheard' = [Unheard EXCEPT ![r] = job[r].nodes \ Did[r]]
  BY <1>3, <1>5
<1>9. Promised!Op(r) = "deleteById"
  BY <1>1 DEF Promised!Op
<1>10. Promised!AskAgain(r)
  BY <1>3, <1>7, <1>8, <1>9 DEF Promised!AskAgain, Phase, May, Seen, Did, Unheard, AbsentSeen
<1> QED
  BY <1>10 DEF Promised!Next

LEMMA StillMaps ==
  ASSUME UNCHANGED <<stage, job, mail, answered, listed, heard>>
  PROVE  UNCHANGED <<Phase, May, Seen, Did, Unheard, AbsentSeen>>
<1>1. UNCHANGED <<Phase, May, Seen, Did, Unheard>>
  BY DEF Phase, May, Seen, Did, Unheard, Waiting
<1>2. \A q \in Clients : SeenAbsent(q)' = SeenAbsent(q) /\ Waiting(q, {"deleteById"})' = Waiting(q, {"deleteById"})
  BY DEF SeenAbsent, Waiting
<1>3. AbsentSeen' = AbsentSeen
  BY <1>2 DEF AbsentSeen
<1> QED
  BY <1>1, <1>3

(* The handlers over several nodes keep the promises of DistributedStore   *)
(* for any nodes, clients, rows and conditions                             *)
(* (DistributedStorageAPIController.ts:163-509).                           *)
THEOREM FulfilsDistributedStoreCorrect == DistributedSpec => FulfilsDistributedStore
<1>1. DistributedInit => Promised!Init
  BY DEF DistributedInit, Promised!Init, Waiting, Table, Promised!Table, Silent, Promised!Silent
<1>2. DistributedInv /\ [DistributedNext]_distributedVars => [Promised!Next]_(Promised!vars)
  <2> SUFFICES ASSUME DistributedInv, [DistributedNext]_distributedVars
               PROVE  Promised!Next \/ UNCHANGED <<tables, Phase, job, May, Seen, Did, Unheard, AbsentSeen, told>>
    BY DEF Promised!vars, Phase, May, Seen, Did, Unheard, AbsentSeen
  <2>1. CASE UNCHANGED distributedVars
    BY <2>1, StillMaps DEF distributedVars
  <2>2. ASSUME NEW n \in Nodes, NEW i \in Ids, NEW v \in Values \cup {Absent}, Changes(n, i, v)
        PROVE  Promised!Next
    <3>1. UNCHANGED <<Phase, May, Seen, Did, Unheard, AbsentSeen>>
      BY <2>2, StillMaps DEF Changes
    <3>2. Promised!Elsewhere(n)
      BY <2>2, <3>1 DEF Changes, Promised!Elsewhere, Phase, May, Seen, Did, Unheard, AbsentSeen
    <3> QED
      BY <3>2 DEF Promised!Next
  <2>3. ASSUME NEW r \in Clients, TurnDown(r) PROVE Promised!Next
    <3>1. UNCHANGED <<Phase, May, Seen, Did, Unheard, AbsentSeen>>
      BY <2>3, StillMaps DEF TurnDown
    <3>2. Phase[r] = "idle"
      BY <2>3 DEF TurnDown, Phase
    <3>3. Promised!Refuse(r)
      BY <2>3, <3>1, <3>2 DEF TurnDown, Promised!Refuse, Phase, May, Seen, Did, Unheard, AbsentSeen
    <3> QED
      BY <3>3 DEF Promised!Next
  <2>4. ASSUME NEW r \in Clients, NEW n \in Nodes, WritesAt(r, n) PROVE Promised!Next
    <3>1. job[r].call.op \in WritingOps \/ job[r].call.op = "deleteById"
      BY <2>4, WritesAtFrame, WritingOp
    <3> QED
      BY <2>4, <3>1, NodeWriteMaps, RemovalMaps
  <2>5. CASE AllOver
    BY <2>1, <2>5 DEF AllOver
  <2> QED
    BY <2>1, <2>2, <2>3, <2>4, <2>5, RequestMaps, LooksUpMaps, LosesMaps, RepliesMap, FindsSomeMaps
    DEF DistributedNext
<1> QED
  BY <1>1, <1>2, DistributedInvCorrect, PTL DEF DistributedSpec, FulfilsDistributedStore, Promised!Spec

-----------------------------------------------------------------------------
(* The storage API of a node and of several.                               *)

LEMMA ControllerPart == ApiSpec => Spec
<1>1. ApiInit => Init
  BY DEF ApiInit
<1>2. [ApiNext]_apiVars => [Next]_vars
  BY DEF ApiNext, apiVars
<1> QED
  BY <1>1, <1>2, PTL DEF ApiSpec, Spec

LEMMA DistributedPart == ApiSpec => DistributedSpec
<1>1. ApiInit => DistributedInit
  BY DEF ApiInit
<1>2. [ApiNext]_apiVars => [DistributedNext]_distributedVars
  BY DEF ApiNext, apiVars
<1> QED
  BY <1>1, <1>2, PTL DEF ApiSpec, DistributedSpec

(* The storage API as a whole, for any number of rows, nodes and requests: *)
(* entities are served as the abstract stores promise and metadata are of  *)
(* the storage that was asked for, unless its name differs from another's  *)
(* by the suffix of the key alone, and as new as a refresh                 *)
(* (StorageAPIController.ts:217-792,                                       *)
(* DistributedStorageAPIController.ts:113-554).                            *)
THEOREM StorageApisCorrect ==
  ApiSpec => /\ [](TypeOK /\ OwnSchema /\ RefreshReadsThrough /\ DistributedTypeOK)
             /\ FulfilsStore /\ FulfilsDistributedStore
BY ControllerPart, DistributedPart, ControllerServesEntities, ControllerServesMetadata, TypeCorrect, OwnSchemaCorrect,
   RefreshReadsThroughCorrect, DistributedTypeCorrect, FulfilsStoreCorrect, FulfilsDistributedStoreCorrect, PTL
=============================================================================
