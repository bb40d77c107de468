---------------------------- MODULE DistributedStore ----------------------------
(***************************************************************************)
(* What the handlers of the distributed storage promise.  A request touches*)
(* only the nodes that it names and there only what it names, each node at *)
(* moments of its own.  Rows in an answer were there, on the node that the *)
(* answer says, at a moment since the request came.  Nodes that an answer  *)
(* to a write speaks for have written; the others may have, or may do so   *)
(* later.  A deletion may ask its nodes twice, and speaks for those that   *)
(* have answered the last time: those among them that were heard the first *)
(* time too have had none of the ids at some moment for each.  One that was*)
(* silent then may still have ids that no other node had.                  *)
(***************************************************************************)
EXTENDS EntityCalls

CONSTANTS Nodes, Clients

VARIABLES
  tables,  \* the rows of every node
  phase,   \* of a request: idle, open or over
  job,     \* what it asks for, and of which nodes
  may,     \* the nodes that may still act for it
  seen,    \* the rows that it has seen
  did,     \* the nodes that have done for it what was last asked of them
  unheard, \* the nodes that were silent when it asked the first time
  gone,    \* the ids that it has seen absent, by node
  told     \* the last answer, and to which request

vars == <<tables, phase, job, may, seen, did, unheard, gone, told>>

Silent == [kind |-> "none"]

Init ==
  /\ tables \in [Nodes -> Table]
  /\ phase = [r \in Clients |-> "idle"]
  /\ job = [r \in Clients |-> NoCall]
  /\ may = [r \in Clients |-> {}]
  /\ seen = [r \in Clients |-> {}]
  /\ did = [r \in Clients |-> {}]
  /\ unheard = [r \in Clients |-> {}]
  /\ gone = [r \in Clients |-> {}]
  /\ told = Silent

(* A node's rows also change without these requests.                       *)
Elsewhere(n) ==
  /\ \E i \in Ids, v \in Values \cup {Absent} : tables' = [tables EXCEPT ![n][i] = v]
  /\ UNCHANGED <<phase, job, may, seen, did, unheard, gone, told>>

(* The nodes of a request are those that it lists, else the one in its     *)
(* path; a query, which has none, is for all nodes.                        *)
Named(c, n, T) == IF T # {} THEN T ELSE IF c.op = "query" THEN Nodes ELSE {n}

Begin(r, n, T) ==
  /\ phase[r] = "idle" /\ job'[r] # NoCall
  /\ job'[r] \in [call : Calls, nodes : {Named(job'[r].call, n, T)}]
  /\ job' = [job EXCEPT ![r] = job'[r]]
  /\ job'[r].call.op = "deleteByQuery" => job'[r].call.where # NoConditions
  /\ phase' = [phase EXCEPT ![r] = "open"]
  /\ may' = [may EXCEPT ![r] = job'[r].nodes]
  /\ UNCHANGED <<tables, seen, did, unheard, gone, told>>

Refuse(r) ==
  /\ phase[r] = "idle"
  /\ told' = [to |-> r, kind |-> "refused"]
  /\ UNCHANGED <<tables, phase, job, may, seen, did, unheard, gone>>

Op(r) == IF phase[r] = "idle" THEN "none" ELSE job[r].call.op

NamedRows(n, c) ==
  LET R == tables[n]
      I == IF c.op = "get" THEN Present(R) \cap c.ids ELSE Matching(R, c.where)
  IN {[node |-> n, id |-> i, value |-> R[i]] : i \in I}

(* A node looks.                                                           *)
Look(r, n) ==
  /\ Op(r) \in {"query", "get"} /\ phase[r] = "open" /\ n \in may[r]
  /\ may' = [may EXCEPT ![r] = @ \ {n}]
  /\ seen' = [seen EXCEPT ![r] = @ \cup NamedRows(n, job[r].call)]
  /\ UNCHANGED <<tables, phase, job, did, unheard, gone, told>>

Written(R, c) ==
  CASE c.op \in {"save", "updateById"} -> Saved(R, c.body)
    [] c.op = "update"                 -> Updated(R, Matching(R, c.where), c.value)
    [] OTHER                           -> Removed(R, Matching(R, c.where))

Writes == {"save", "updateById", "update", "deleteByQuery"}

(* A node writes, once; whether it is heard of is another matter.          *)
Write(r, n) ==
  /\ Op(r) \in Writes /\ n \in may[r]
  /\ may' = [may EXCEPT ![r] = @ \ {n}]
  /\ tables' = [tables EXCEPT ![n] = Written(@, job[r].call)]
  /\ \/ phase[r] = "open" /\ did' = [did EXCEPT ![r] = @ \cup {n}]
     \/ UNCHANGED did
  /\ UNCHANGED <<phase, job, seen, unheard, gone, told>>

(* A node deletes some of the ids; some that are not there are taken note  *)
(* of.                                                                     *)
Delete(r, n) ==
  /\ Op(r) = "deleteById" /\ n \in may[r]
  /\ \E N \in SUBSET may[r] : may' = [may EXCEPT ![r] = N]
  /\ \E I \in SUBSET job[r].call.ids :
       LET R == Removed(tables[n], I) IN
       /\ tables' = [tables EXCEPT ![n] = R]
       /\ \E J \in SUBSET (job[r].call.ids \ Present(R)) :
            gone' = [gone EXCEPT ![r] = @ \cup ({n} \X J)]
  /\ phase[r] = "over" => UNCHANGED gone
  /\ \/ phase[r] = "open" /\ did' = [did EXCEPT ![r] = @ \cup {n}]
     \/ UNCHANGED did
  /\ UNCHANGED <<phase, job, seen, unheard, told>>

(* A deletion asks the same nodes again.                                   *)
AskAgain(r) ==
  /\ Op(r) = "deleteById" /\ phase[r] = "open" /\ unheard[r] = {}
  /\ unheard' = [unheard EXCEPT ![r] = job[r].nodes \ did[r]]
  /\ did' = [did EXCEPT ![r] = {}]
  /\ UNCHANGED <<tables, phase, job, may, seen, gone, told>>

(* A node is not reached, fails, or is not heard.                          *)
Lose(r, n) ==
  /\ n \in may[r]
  /\ may' = [may EXCEPT ![r] = @ \ {n}]
  /\ UNCHANGED <<tables, phase, job, seen, did, unheard, gone, told>>

(* A read of one id is answered with one row.                              *)
Shown(r) ==
  IF job[r].call.op = "get" /\ \E i \in job[r].call.ids : job[r].call.ids = {i}
  THEN IF seen[r] = {} THEN {{}} ELSE {{x} : x \in seen[r]}
  ELSE {seen[r]}

SpeaksFor(r) ==
  {n \in did[r] : Op(r) = "deleteById" /\ n \notin unheard[r] => {n} \X job[r].call.ids \subseteq gone[r]}

(* It is over for a read; a write may go on at nodes that it was sent to.  *)
Answer(r) ==
  /\ phase[r] = "open"
  /\ phase' = [phase EXCEPT ![r] = "over"]
  /\ \/ /\ Op(r) \in {"query", "get"}
        /\ \E X \in Shown(r) : told' = [to |-> r, kind |-> "rows", rows |-> X]
     \/ /\ Op(r) \notin {"query", "get"}
        /\ \E N \in SUBSET SpeaksFor(r) : told' = [to |-> r, kind |-> "done", from |-> N]
     \/ told' = [to |-> r, kind |-> "failed"]
  /\ \E N \in SUBSET may[r] : may' = [may EXCEPT ![r] = N]
  /\ seen' = [seen EXCEPT ![r] = {}]
  /\ did' = [did EXCEPT ![r] = {}]
  /\ unheard' = [unheard EXCEPT ![r] = {}]
  /\ gone' = [gone EXCEPT ![r] = {}]
  /\ UNCHANGED <<tables, job>>

Next ==
  \/ \E n \in Nodes : Elsewhere(n)
  \/ \E r \in Clients :
       \/ \E n \in Nodes, T \in SUBSET Nodes : Begin(r, n, T)
       \/ Refuse(r) \/ AskAgain(r) \/ Answer(r)
       \/ \E n \in Nodes : Look(r, n) \/ Write(r, n) \/ Delete(r, n) \/ Lose(r, n)

Spec == Init /\ [][Next]_vars
=============================================================================
