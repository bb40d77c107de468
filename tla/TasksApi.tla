-------------------------------- MODULE TasksApi --------------------------------
(***************************************************************************)
(* The handlers of TasksAPIController that ask other nodes: which tasks run*)
(* (getRunningTasks, getRunningTasksByNode, getRunners), the status of one,*)
(* its log, and executeTask.  A handler sets defaults, calls an exchange of*)
(* @typexs/base that asks the nodes and gathers what they answer until it  *)
(* gives up, and filters.  Handlers keep no state and meet only in the     *)
(* tasks of the nodes, which begin and end meanwhile: one request will do. *)
(***************************************************************************)
CONSTANTS Members, Runs, Unset, NoDemand, Fault

States == {"new", "running", "ended", "broken"}

(* options.targetIds, filterErrors and outputMode, where the request has   *)
(* them; outputMode is only_value (a list of what the nodes have answered, *)
(* the default) or one of those that keep the answers apart.               *)
Options ==
  [targetIds : {Unset} \cup ((SUBSET Members) \ {{}}), filterErrors : {Unset} \cup BOOLEAN,
   outputMode : {Unset, "map"}]

Listings == {"running", "runningByNode"}  \* getRunners is as getRunningTasks

Demands ==
  [op : {"running"}, options : Options]
    \cup [op : {"runningByNode"}, node : Members, options : Options]
    \cup [op : {"status"}, run : Runs, options : Options]
    \cup [op : {"log"}, node : Members, run : Runs, options : Options]
    \cup [op : {"exec"}, run : Runs, targetIds : SUBSET Members, wait : BOOLEAN, skipThrow : BOOLEAN]

VARIABLES
  tasks,     \* the state of every run on every node
  demand,    \* the request, when there is one
  asked,     \* the nodes that the exchange asks
  pending,   \* those that have not got the question yet
  executing, \* those that executeTask waits for
  answers,   \* what the others have answered, Fault for an error
  since,     \* the states of every run on every node since the request came
  response   \* what it was answered

exchange  == <<demand, asked>>
tasksVars == <<tasks, exchange, pending, executing, answers, since, response>>

Waiting == demand # NoDemand /\ response = Unset

(* An answer comes from who was asked and is done with it; the states that *)
(* are remembered include the present one.                                 *)
TasksTypeOK ==
  /\ tasks \in [Members -> [Runs -> States]]
  /\ demand \in {NoDemand} \cup Demands
  /\ asked \subseteq Members /\ pending \subseteq asked /\ executing \subseteq asked \ pending
  /\ DOMAIN answers \subseteq asked \ (pending \cup executing)
  /\ Waiting => \A n \in Members, t \in Runs : tasks[n][t] \in since[n][t]
  /\ response # Unset => demand # NoDemand

TasksInit ==
  /\ tasks \in [Members -> [Runs -> {"new", "running"}]]
  /\ demand = NoDemand /\ asked = {} /\ pending = {} /\ executing = {} /\ answers = <<>>
  /\ since = [n \in Members |-> [t \in Runs |-> {}]]
  /\ response = Unset

-----------------------------------------------------------------------------
(* The handlers up to the exchange.                                        *)

Default(v, d) == IF v = Unset THEN d ELSE v

(* Only the log shows errors unless it is told not to.                     *)
FilterErrors(d) == Default(d.options.filterErrors, d.op # "log")
OnlyValue(d)    == Default(d.options.outputMode, "only_value") = "only_value"

Addressed_All(d) ==
  CASE d.op # "exec" -> {Default(d.options.targetIds, Members)}
    [] d.op = "exec" -> IF d.targetIds # {} THEN {d.targetIds} ELSE {{n} : n \in Members}

(* A request for one node names it in its path; executeTask without        *)
(* targetIds is for any node that can do it.                               *)
Addressed(d) ==
  CASE d.op \in {"runningByNode", "log"}      -> {Default(d.options.targetIds, {d.node})}
    [] d.op \in {"running", "status"} -> {Default(d.options.targetIds, Members)}
    [] d.op = "exec" -> IF d.targetIds # {} THEN {d.targetIds} ELSE {{n} : n \in Members}

Demand(d) ==
  /\ demand = NoDemand
  /\ d.op = "exec" => \A n \in Members : tasks[n][d.run] = "new"
  /\ demand' = d
  /\ \E N \in Addressed(d) : asked' = N /\ pending' = N
  /\ since' = [n \in Members |-> [t \in Runs |-> {tasks[n][t]}]]
  /\ UNCHANGED <<tasks, executing, answers, response>>

-----------------------------------------------------------------------------
(* The nodes.                                                              *)

Becomes(n, t, s) ==
  /\ tasks' = [tasks EXCEPT ![n][t] = s]
  /\ since' = IF Waiting THEN [since EXCEPT ![n][t] = @ \cup {s}] ELSE since

(* The runs that the request is about.                                     *)
Concerns(t) == Waiting /\ (demand.op \notin Listings => t = demand.run)

Begins(n, t) ==
  /\ Concerns(t) /\ tasks[n][t] = "new" /\ demand.op # "exec"
  /\ Becomes(n, t, "running")
  /\ UNCHANGED <<exchange, pending, executing, answers, response>>

Heard(n, a) == answers' = [m \in DOMAIN answers \cup {n} |-> IF m = n THEN a ELSE answers[m]]

(* A run ends well or not, and with it a node's part in executeTask.       *)
EndsRun(n, t, s) ==
  /\ Concerns(t) /\ tasks[n][t] = "running"
  /\ s \in IF demand.op = "exec" THEN {"ended", "broken"} ELSE {"ended"}
  /\ Becomes(n, t, s)
  /\ IF n \in executing /\ t = demand.run THEN executing' = executing \ {n} /\ Heard(n, s)
     ELSE UNCHANGED <<executing, answers>>
  /\ UNCHANGED <<exchange, pending, response>>

Known(n) ==
  IF demand.op \in Listings THEN {t \in Runs : tasks[n][t] = "running"} ELSE tasks[n][demand.run]

Answers(n) ==
  /\ Waiting /\ demand.op # "exec" /\ n \in pending
  /\ pending' = pending \ {n} /\ Heard(n, Known(n))
  /\ UNCHANGED <<tasks, exchange, executing, since, response>>

(* An answer to executeTask comes when the run begins or, with             *)
(* waitForRemoteResults, when it is over.                                  *)
Executes(n) ==
  /\ Waiting /\ demand.op = "exec" /\ n \in pending
  /\ Becomes(n, demand.run, "running")
  /\ pending' = pending \ {n}
  /\ IF demand.wait THEN executing' = executing \cup {n} /\ UNCHANGED answers
     ELSE UNCHANGED executing /\ Heard(n, "running")
  /\ UNCHANGED <<exchange, response>>

(* A node answers with an error; the task does not begin there.            *)
Faults_Stay(n) ==
  /\ Waiting /\ n \in pending
  /\ Heard(n, Fault)
  /\ UNCHANGED <<tasks, exchange, pending, executing, since, response>>

Faults(n) ==
  /\ Waiting /\ n \in pending
  /\ pending' = pending \ {n} /\ Heard(n, Fault)
  /\ UNCHANGED <<tasks, exchange, executing, since, response>>

-----------------------------------------------------------------------------
(* From the answers on: all there are, when the exchange gives up.         *)

Faulty == {n \in DOMAIN answers : answers[n] = Fault}
Sound  == DOMAIN answers \ Faulty

(* Helper.convertError makes an entry of an error, in a list only.         *)
ShownFaults_Always == Faulty
ShownFaults        == IF FilterErrors(demand) THEN {} ELSE Faulty

Responds(x) ==
  /\ Waiting /\ response' = x
  /\ UNCHANGED <<tasks, exchange, pending, executing, answers, since>>

Apart(errors) == [kind |-> "map", of |-> answers, errors |-> errors]

(* Empty lists are left out, the others joined.                            *)
Joined_First == IF Sound = {} THEN {} ELSE answers[CHOOSE n \in Sound : TRUE]
Joined       == UNION {answers[n] : n \in Sound}

getRunningTasks ==
  /\ Waiting /\ demand.op \in Listings
  /\ Responds(IF OnlyValue(demand) THEN [kind |-> "list", entries |-> Joined, errors |-> ShownFaults]
              ELSE Apart(ShownFaults))

(* A node that does not know the run answers nothing, which is left out.   *)
Statuses_All == {answers[n] : n \in Sound}
Statuses     == {answers[n] : n \in Sound} \ {"new"}

getTaskStatus ==
  /\ Waiting /\ demand.op = "status"
  /\ Responds(IF OnlyValue(demand)
              THEN [kind |-> "list", entries |-> Statuses, errors |-> ShownFaults]
              ELSE Apart(ShownFaults))

getLogContent ==
  /\ Waiting /\ demand.op = "log"
  /\ Responds(IF OnlyValue(demand) THEN [kind |-> "list", entries |-> {answers[n] : n \in Sound}, errors |-> ShownFaults]
              ELSE Apart(ShownFaults))

(* Errors are looked for in the events, or in their results if these were  *)
(* waited for.                                                             *)
Errors_InEvents == {n \in DOMAIN answers : answers[n] = Fault}
Errors          == {n \in DOMAIN answers : answers[n] = IF demand.wait THEN "broken" ELSE Fault}

executeTask ==
  /\ Waiting /\ demand.op = "exec"
  /\ Responds(IF demand.skipThrow \/ Errors = {} THEN [kind |-> "events", of |-> answers] ELSE [kind |-> "failed"])

(* The exchange rejects: no worker, no such node, nothing but errors.      *)
ExchangeRejects == Responds([kind |-> "failed"])

(* The request is answered: nothing more is to be seen.                    *)
Answered == response # Unset /\ UNCHANGED tasksVars

TasksNext ==
  \/ \E d \in Demands : Demand(d)
  \/ \E n \in Members, t \in Runs : Begins(n, t) \/ \E s \in States : EndsRun(n, t, s)
  \/ \E n \in Members : Answers(n) \/ Executes(n) \/ Faults(n)
  \/ getRunningTasks \/ getTaskStatus \/ getLogContent \/ executeTask \/ ExchangeRejects
  \/ Answered

TasksSpec == TasksInit /\ [][TasksNext]_tasksVars

-----------------------------------------------------------------------------
(* Properties.                                                             *)

Listed(ops) == response # Unset /\ demand.op \in ops /\ response.kind = "list"

(* A list of running tasks has every task that has run all the time on a   *)
(* node that answered, and none that has run nowhere; by a request for one *)
(* node none that has run elsewhere only, unless it lists other nodes.     *)
(* Errors are in it if they were to be shown                               *)
(* (TasksAPIController.ts:298-362, Helper.ts:223-237).                     *)
ListsWhatRuns ==
  Listed(Listings) =>
    LET where == IF demand.op = "runningByNode" /\ demand.options.targetIds = Unset THEN {demand.node} ELSE Members IN
    /\ \A n \in Sound, t \in Runs : since[n][t] = {"running"} => t \in response.entries
    /\ \A t \in response.entries : \E n \in where : "running" \in since[n][t]
    /\ response.errors # {} => demand.options.filterErrors = FALSE

(* A status is one that the run has had on some node since it was asked    *)
(* for; a log is answered with the errors of the nodes unless they were to *)
(* be left out (TasksAPIController.ts:214-288).                            *)
StatusWasTrue ==
  /\ Listed({"status"}) =>
       \A s \in response.entries : s # "new" /\ \E n \in Members : s \in since[n][demand.run]
  /\ Listed({"log"}) => (Faulty \subseteq response.errors \/ demand.options.filterErrors = TRUE)

(* What executeTask does not throw has begun on every node that answered,  *)
(* and ended well where the end was waited for and there is a result       *)
(* (TasksAPIController.ts:144-191).                                        *)
ExecutedOrThrown ==
  response # Unset /\ demand.op = "exec" /\ response.kind = "events" /\ ~demand.skipThrow =>
    \A n \in DOMAIN response.of :
      LET states == since[n][demand.run] IN
      IF demand.wait THEN response.of[n] # Fault => "ended" \in states
      ELSE "running" \in states
=============================================================================
