---------------------------- MODULE WebServersProofs ----------------------------
(***************************************************************************)
(* A behaviour of WebServers is one of the command, one of the routes and  *)
(* one of a request for the configuration: what is proved of each holds of *)
(* them side by side.                                                      *)
(***************************************************************************)
EXTENDS WebServers, ServerRegistryProofs, RouteTableProofs, ConfigViewProofs

LEMMA CommandPart == WebSpec => CommandSpec
<1>1. WebInit => CommandInit
  BY DEF WebInit
<1>2. [WebNext]_webVars => [CommandNext]_AllVars
  BY DEF WebNext, webVars
<1> QED
  BY <1>1, <1>2, PTL DEF WebSpec, CommandSpec

LEMMA RoutePart == WebSpec => RouteSpec
<1>1. WebInit => RouteInit
  <2>1. NothingRouted => RouteInit
    BY WebAssumption DEF NothingRouted, RouteInit
  <2> QED
    BY <2>1 DEF WebInit
<1>2. [WebNext]_webVars => [RouteNext]_routeVars
  BY DEF WebNext, webVars
<1> QED
  BY <1>1, <1>2, PTL DEF WebSpec, RouteSpec

LEMMA ConfigPart == WebSpec => ConfigSpec
<1>1. WebInit => ConfigInit
  <2>1. NothingViewed => ConfigInit
    BY WebAssumption DEF NothingViewed, ConfigInit, Settings, Asking
  <2> QED
    BY <2>1 DEF WebInit
<1>2. [WebNext]_webVars => [ConfigNext]_configVars
  BY DEF WebNext, webVars
<1> QED
  BY <1>1, <1>2, PTL DEF WebSpec, ConfigSpec

(* For any program and configuration: the cache of routes is not stale, an *)
(* entry mounts what its list lets in, a request is looked up under the    *)
(* permissions of the action that serves it, and of the configuration      *)
(* nothing is answered below the asked key that is withheld there          *)
(* (ServerRegistry.ts:50-91, WebServer.ts:51-152,                          *)
(* RoutePermissionsHelper.ts:10-59, Helper.ts:171-220).                    *)
THEOREM WebServersCorrect ==
  WebSpec => [](/\ TypeOK /\ CacheIsServed
                /\ RouteTypeOK /\ MountsWhatIsLetIn /\ PermissionsOfHandler
                /\ ConfigTypeOK /\ AllowedBelowKey)
<1>1. WebSpec => Spec
  BY CommandPart, CommandLoads, PTL
<1> QED
  BY <1>1, CommandPart, RoutePart, ConfigPart, TypeCorrect, CacheIsServedCorrect, RouteTypeCorrect,
     MountsWhatIsLetInCorrect, PermissionsOfHandlerCorrect, ConfigTypeCorrect, AllowedBelowKeyCorrect, PTL

(* If load is called once: what is registered has a framework and, for     *)
(* entries that share nothing, appears as in a directory and runs as it was*)
(* configured, and the command calls start of each server at most once,    *)
(* those after one that did not start included                             *)
(* (ServerRegistry.ts:50-91, ServerCommand.ts:16-50).                      *)
THEOREM WebServersOnceCorrect ==
  ASSUME MaxLoads = 1
  PROVE  WebSpec => /\ [](RegisteredHasFramework /\ ApartEntriesServed /\ RunsAsConfigured /\ StartsEachOnce)
                    /\ ImplementsDirectory
<1>1. WebSpec => Spec
  BY CommandPart, CommandLoads, PTL
<1>2. (Spec => []RegisteredHasFramework) /\ (Spec => []ApartEntriesServed) /\ (Spec => ImplementsDirectory)
  BY RegisteredHasFrameworkCorrect, ApartEntriesServedCorrect, ImplementsDirectoryCorrect
<1>3. (CommandSpec => []RunsAsConfigured) /\ (CommandSpec => []StartsEachOnce)
  BY RunsAsConfiguredCorrect, StartsEachOnceCorrect
<1> QED
  BY <1>1, <1>2, <1>3, CommandPart, PTL
=============================================================================
