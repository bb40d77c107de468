------------------------------ MODULE WebServers ------------------------------
(***************************************************************************)
(* The servers of a program (ServerCommand), what one of them makes of its *)
(* routes (RouteTable), and what it shows of the configuration (ConfigView)*)
(* that all this comes from.  ServerRegistry takes WebServer.prepare in one*)
(* step, of which RouteTable has the inside; they share no variable, and a *)
(* behaviour is of one of them.                                            *)
(***************************************************************************)
EXTENDS ServerCommand, RouteTable, ConfigView

ASSUME WebAssumption ==
  Programs # {} /\ RouteLists # {} /\ Configs # {} /\ ConfigKeys # {} /\ FilterLists # {} /\ RuleSets # {}

VARIABLE matter  \* what this behaviour is about

webVars == <<AllVars, routeVars, configVars, matter>>

NothingConfigured == config = [keys |-> <<>>, entry |-> [n \in Names |-> NoEntry]] /\ arg = NoName
NothingRouted     == program = (CHOOSE p \in Programs : TRUE) /\ entries = (CHOOSE l \in RouteLists : TRUE) /\ Unprepared
NothingViewed     ==
  /\ settings = [config |-> CHOOSE c \in Configs : TRUE, filterKeys |-> CHOOSE F \in FilterLists : TRUE,
                 permissions |-> CHOOSE R \in RuleSets : TRUE, anonymous |-> FALSE]
  /\ wanted = [key |-> CHOOSE k \in ConfigKeys : TRUE, user |-> Anonymous]
  /\ Unviewed

WebInit ==
  \/ /\ matter = "servers"
     /\ NothingRouted
     /\ CommandInit /\ NothingViewed
  \/ /\ matter = "routes"
     /\ NothingConfigured /\ CommandInit /\ RouteInit /\ NothingViewed
  \/ /\ matter = "config"
     /\ NothingConfigured /\ CommandInit /\ NothingRouted /\ ConfigInit

WebNext ==
  \/ matter = "servers" /\ CommandNext /\ UNCHANGED <<routeVars, configVars, matter>>
  \/ matter = "routes" /\ RouteNext /\ UNCHANGED <<AllVars, configVars, matter>>
  \/ matter = "config" /\ ConfigNext /\ UNCHANGED <<AllVars, routeVars, matter>>

WebSpec == WebInit /\ [][WebNext]_webVars
=============================================================================
