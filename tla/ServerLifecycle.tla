---------------------------- MODULE ServerLifecycle ----------------------------
(***************************************************************************)
(* What an object of class Server promises to a caller who awaits every    *)
(* call and starts only a server that is stopped: it accepts clients only  *)
(* between a start that settled with true and the next stop, and a stop    *)
(* settles when the last client is gone and never before.                  *)
(***************************************************************************)
CONSTANT Conns

VARIABLES
  mode,     \* where the server is in its life cycle
  clients   \* the sockets that are connected to it

vars == <<mode, clients>>

Modes == {"stopped", "starting", "running", "failed", "stopping"}

TypeOK == mode \in Modes /\ clients \subseteq Conns

Init == mode = "stopped" /\ clients = {}

Start == mode = "stopped" /\ mode' = "starting" /\ UNCHANGED clients

StartSettled == mode = "starting" /\ mode' \in {"running", "failed"} /\ UNCHANGED clients

Accept(c) == mode = "running" /\ c \notin clients /\ clients' = clients \cup {c} /\ UNCHANGED mode

Leave ==
  /\ \E C \in SUBSET clients : C # {} /\ clients' = clients \ C
  /\ UNCHANGED mode

(* shutdown drops the clients whose answers it still owes in the same step. *)
Stop == mode \in {"running", "failed"} /\ mode' = "stopping" /\ clients' \in SUBSET clients

StopSettled == mode = "stopping" /\ clients = {} /\ mode' = "stopped" /\ UNCHANGED clients

Next == Start \/ StartSettled \/ Stop \/ StopSettled \/ Leave \/ \E c \in Conns : Accept(c)

Fairness ==
  /\ WF_vars(StartSettled)
  /\ WF_vars(StopSettled)
  /\ WF_vars(mode = "stopping" /\ Leave)

Spec     == Init /\ [][Next]_vars
FairSpec == Spec /\ Fairness

=============================================================================
