------------------------------ MODULE EntityStore ------------------------------
(***************************************************************************)
(* What the entity handlers promise to requests that run at the same time. *)
(* A request that reads is answered with rows that were there together at  *)
(* one moment, and of no class that the user may not read.  A request that *)
(* writes does so at one moment, or not at all and is then reported as     *)
(* failed.  A request to delete some ids has seen each of them absent when *)
(* it is answered; without conditions nothing is deleted.                  *)
(***************************************************************************)
EXTENDS EntityCalls

CONSTANTS Requests

VARIABLES
  rows,      \* the rows of the class
  pending,   \* the call that a request waits for, or NoCall
  gone,      \* of such a call, the ids that were seen absent
  reply      \* the last answer, and to which request

vars == <<rows, pending, gone, reply>>

Init ==
  /\ rows \in Table
  /\ pending = [r \in Requests |-> NoCall]
  /\ gone = [r \in Requests |-> {}]
  /\ reply = NoReply

Begin(r) ==
  /\ pending[r] = NoCall /\ pending'[r] \in Calls
  /\ pending' = [pending EXCEPT ![r] = pending'[r]]
  /\ UNCHANGED <<rows, gone, reply>>

Refuse(r) ==
  /\ pending[r] = NoCall
  /\ reply' = Plain(r, "refused")
  /\ UNCHANGED <<rows, pending, gone>>

Answer(r, a) ==
  /\ reply' = a
  /\ pending' = [pending EXCEPT ![r] = NoCall]
  /\ gone' = [gone EXCEPT ![r] = {}]

Shown(c) ==
  IF c.op = "get" THEN Only(rows, c.ids)
  ELSE IF c.roles = "this" THEN Only(rows, Matching(rows, c.where)) ELSE <<>>

Read(r) ==
  /\ pending[r] # NoCall /\ pending[r].op \in {"get", "query"}
  /\ Answer(r, [to |-> r, kind |-> "rows", rows |-> Shown(pending[r])])
  /\ UNCHANGED rows

Written(c) ==
  CASE c.op \in {"save", "updateById"} -> Saved(rows, c.body)
    [] c.op = "update"                 -> Updated(rows, Matching(rows, c.where), c.value)
    [] c.op = "deleteByQuery"          -> IF c.where = NoConditions THEN rows
                                          ELSE Removed(rows, Matching(rows, c.where))

(* The extension that looks at the results may fail when the rows are      *)
(* written already.                                                        *)
Write(r) ==
  /\ pending[r] # NoCall /\ pending[r].op \in {"save", "updateById", "update", "deleteByQuery"}
  /\ rows' = Written(pending[r])
  /\ \E k \in {"done", "failed"} : Answer(r, Plain(r, k))

(* Some of the ids are deleted, others are found absent; when all of them  *)
(* have been, the request can be answered.                                 *)
Delete(r) ==
  /\ pending[r] # NoCall /\ pending[r].op = "deleteById"
  /\ \E I \in SUBSET pending[r].ids :
       LET seen == gone[r] \cup (pending[r].ids \ Present(Removed(rows, I))) IN
       /\ rows' = Removed(rows, I)
       /\ \/ gone' = [gone EXCEPT ![r] = seen] /\ UNCHANGED <<pending, reply>>
          \/ seen = pending[r].ids /\ Answer(r, Plain(r, "done"))

Fail(r) == pending[r] # NoCall /\ Answer(r, Plain(r, "failed")) /\ UNCHANGED rows

Next == \E r \in Requests :
  \/ Begin(r)
  \/ Refuse(r) \/ Read(r) \/ Write(r) \/ Delete(r) \/ Fail(r)

Spec == Init /\ [][Next]_vars
=============================================================================
