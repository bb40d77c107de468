------------------------------ MODULE StorageApis ------------------------------
(***************************************************************************)
(* The storage API of a node (StorageController) and the one over several  *)
(* nodes (DistributedStorage).  The latter never calls the former: it goes *)
(* through @typexs/base to the storages of the nodes, so a behaviour is of *)
(* one of the two, and what the one does to rows that the other works on is*)
(* part of Changes.                                                        *)
(***************************************************************************)
EXTENDS StorageController, DistributedStorage

VARIABLE reach  \* what this behaviour is about

apiVars == <<vars, distributedVars, reach>>

Empty == [i \in Ids |-> Absent]

ApiInit ==
  \/ /\ reach = "here"
     /\ tables = [n \in Nodes |-> Empty] /\ DistributedInit
     /\ Init
  \/ /\ reach = "nodes"
     /\ rows = Empty /\ traffic = "entities" /\ Init
     /\ DistributedInit

ApiNext ==
  \/ reach = "here" /\ Next /\ UNCHANGED <<distributedVars, reach>>
  \/ reach = "nodes" /\ DistributedNext /\ UNCHANGED <<vars, reach>>

ApiSpec == ApiInit /\ [][ApiNext]_apiVars
=============================================================================
