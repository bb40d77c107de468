---------------------------- MODULE ServerCommand ----------------------------
(***************************************************************************)
(* `typexs server [name]' (commands/ServerCommand.ts) after the bootstrap  *)
(* (Startup.ts) has loaded the servers.  What start() of a server may do   *)
(* is taken from HttpServer for a web server: it settles with true, it     *)
(* rejects, or it never settles.  It may settle with false for a class of  *)
(* the program's own, of which IServer asks no more than a boolean.        *)
(***************************************************************************)
EXTENDS ServerRegistry

VARIABLES
  arg,      \* argv.name, or NoName
  cmd,      \* where the command is
  next,     \* its place in getInstanceNames()
  running,  \* server of class c: the name under which it was started
  started   \* the servers whose start() was called, in order

cvars == <<arg, cmd, next, running, started>>

CommandInit ==
  /\ Init
  /\ arg \in Names \cup {NoName}
  /\ cmd = "booting" /\ next = 1
  /\ running = [c \in Classes |-> NoName] /\ started = <<>>

(* Startup.bootstrap: load runs only if there is something to load; when   *)
(* it rejects, the program ends before the command is handled.             *)
Bootstrap ==
  /\ cmd = "booting" /\ status \notin {"loaded", "failed"}
  /\ Next
  /\ UNCHANGED cvars

Booted ==
  /\ cmd = "booting" /\ status \in {"loaded", "failed"}
  /\ cmd' = IF status = "loaded" THEN "handling" ELSE "rejected"
  /\ UNCHANGED <<vars, arg, next, running, started>>

(* The name that the command starts next: the one it was given, or one     *)
(* after the other of those that the registry has.                         *)
Queue   == IF arg # NoName THEN <<arg>> ELSE getInstanceNames
Target  == get(Queue[next])

(* handler up to service.start(): get answers undefined for an unknown     *)
(* name, and the call on it throws.                                        *)
Handle ==
  /\ cmd = "handling"
  /\ \/ next > Len(Queue) /\ cmd' = "done" /\ UNCHANGED started
     \/ next <= Len(Queue) /\ Target = NoClass /\ cmd' = "rejected" /\ UNCHANGED started
     \/ next <= Len(Queue) /\ Target # NoClass /\ cmd' = "starting" /\ started' = Append(started, Target)
  /\ UNCHANGED <<vars, arg, next, running>>

(* After a start that came true the command waits for the process to exit. *)
Started ==
  /\ cmd = "starting"
  /\ running' = [running EXCEPT ![Target] = Queue[next]]
  /\ cmd' = "serving"
  /\ UNCHANGED <<vars, arg, next, started>>

(* A start that came false is logged, and the loop goes on.                *)
AfterNotStarted_GivesUp == cmd' = "done" /\ UNCHANGED next
AfterNotStarted         == cmd' = "handling" /\ next' = next + 1

NotStarted == cmd = "starting" /\ AfterNotStarted /\ UNCHANGED <<vars, arg, running, started>>

StartRejected == cmd = "starting" /\ cmd' = "rejected" /\ UNCHANGED <<vars, arg, next, running, started>>
StartHangs    == cmd = "starting" /\ cmd' = "hanging"  /\ UNCHANGED <<vars, arg, next, running, started>>

CommandNext ==
  \/ Bootstrap \/ Booted \/ Handle
  \/ Started \/ NotStarted \/ StartRejected \/ StartHangs

AllVars == <<vars, cvars>>

(* The promises of load and start settle or never do (StartHangs); nothing *)
(* else is waited for.                                                     *)
CommandSpec == CommandInit /\ [][CommandNext]_AllVars
CommandFairSpec ==
  /\ CommandSpec
  /\ WF_AllVars(Bootstrap) /\ WF_AllVars(Booted) /\ WF_AllVars(Handle)
  /\ WF_AllVars(Started \/ NotStarted \/ StartRejected \/ StartHangs)

-----------------------------------------------------------------------------
(* Properties.                                                             *)

(* If the entries share nothing, start() is called once at most on each    *)
(* server; without a name, on the servers of the registry in their order,  *)
(* and on all of them before the command is done: one that does not start  *)
(* keeps no other from being tried (ServerCommand.ts:22-46).  Entries of   *)
(* one type are one server, which a second start() would be called on.     *)
StartsEachOnce ==
  Apart =>
    /\ IsInjective(started)
    /\ arg = NoName => IsPrefix(started, registry) /\ (cmd = "done" => started = registry)

(* If the entries share nothing, a server that runs under a name serves    *)
(* the routes configured for it (ServerCommand.ts:22-34).                  *)
RunsAsConfigured ==
  Apart => \A c \in Classes : running[c] # NoName => Mounted(c) = Wanted(running[c])

(* Without a name, the command calls start() on every server of the        *)
(* registry, unless a start rejects or hangs (docs/home.adoc:20-23).       *)
AllStarted ==
  cmd = "handling" /\ arg = NoName ~>
    \/ cmd \in {"hanging", "rejected"}
    \/ Range(registry) \subseteq Range(started)
=============================================================================
