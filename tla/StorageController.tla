--------------------------- MODULE StorageController ---------------------------
(***************************************************************************)
(* StorageAPIController: its entity handlers and its metadata handlers.    *)
(* The two touch no common state, so a behaviour is one of requests for    *)
(* entities or one of requests for metadata; mixed ones add nothing.       *)
(***************************************************************************)
EXTENDS EntityApi, StorageSchema

VARIABLE traffic  \* what the requests of this behaviour are for

vars == <<entityVars, schemaVars, traffic>>

Init ==
  /\ traffic \in {"entities", "metadata"}
  /\ EntityInit /\ SchemaInit
  /\ traffic = "metadata" => rows = [i \in Ids |-> Absent]

Next ==
  \/ traffic = "entities" /\ EntityNext /\ UNCHANGED <<schemaVars, traffic>>
  \/ traffic = "metadata" /\ SchemaNext /\ UNCHANGED <<entityVars, traffic>>

Spec == Init /\ [][Next]_vars

TypeOK == EntityTypeOK /\ SchemaTypeOK
=============================================================================
