------------------------------ MODULE LogsAndTasks ------------------------------
(***************************************************************************)
(* The readers of log files (LogReader) and the tasks API (TasksApi), which*)
(* gets logs through an exchange of @typexs/base and not through these     *)
(* readers: a behaviour is of one of the two.                              *)
(***************************************************************************)
EXTENDS LogReader, TasksApi

VARIABLE side  \* what this behaviour is about

sideVars == <<vars, tasksVars, side>>

SideInit ==
  \/ /\ side = "logs"
     /\ tasks = [n \in Members |-> [t \in Runs |-> "new"]] /\ TasksInit
     /\ Init
  \/ /\ side = "tasks"
     /\ file = NoFile /\ Init
     /\ TasksInit

SideNext ==
  \/ side = "logs" /\ Next /\ UNCHANGED <<tasksVars, side>>
  \/ side = "tasks" /\ TasksNext /\ UNCHANGED <<vars, side>>

SideSpec == SideInit /\ [][SideNext]_sideVars
=============================================================================
