---------------------------- MODULE ServerRegistry ----------------------------
(***************************************************************************)
(* ServerRegistry.load and create (libs/server/ServerRegistry.ts): from    *)
(* the entries under `server' in the configuration to prepared WebServers  *)
(* (libs/web/WebServer.ts).  The objects behind the entries are shared:    *)
(* Injector.get keeps one server per class and one ExpressSupport in all,  *)
(* and all servers publish their routes in one global K_ROUTE_CACHE.       *)
(*                                                                         *)
(* Startup.bootstrap awaits load and load awaits every create, so one      *)
(* create is one step, whatever it awaits inside; it may fail half-way.    *)
(***************************************************************************)
EXTENDS Naturals, Sequences, SequencesExt

CONSTANTS
  Names,      \* keys under `server'
  Classes,    \* server classes; a type that names none of them is NoClass
  MaxRoutes,  \* bound on the routes of an entry
  MaxLoads,   \* bound on calls of load()
  NoClass, NoName, Express

ASSUME RegistryAssumption ==
  /\ MaxRoutes \in Nat /\ MaxLoads \in Nat
  /\ NoClass \notin Classes /\ Express \notin Classes /\ NoName \notin Names

(* framework: 'express', a class of the program's own, or nothing (or a    *)
(* string without meaning).  A route of an unknown type stops prepare.     *)
Frameworks == {"express", "own", "none"}
Kinds      == {"known", "unknown"}
Entry      == [type : Classes \cup {NoClass}, framework : Frameworks, routes : BoundedSeq(Kinds, MaxRoutes)]
Route      == Names \X (1 .. MaxRoutes)

NoEntry == [type |-> NoClass, framework |-> "none", routes |-> <<>>]

VARIABLES
  config,     \* the section `server': its keys and, for every name, its entry
  status,     \* where load is
  pos,        \* the place of the next key that load looks at
  loads,      \* how often load was called
  name,       \* server of class c: its name
  options,    \* server of class c: whose entry is its _options
  prepared,   \* server of class c: __prepared
  framework,  \* server of class c: what its framework is
  app,        \* the routes mounted in the application of a framework
  injector,   \* Injector.get('server.' + name)
  registry,   \* registry: the servers, by class
  cache       \* MetaArgs.key(K_ROUTE_CACHE)

loading == <<status, pos, loads>>
objects == <<name, options, prepared, framework>>
vars    == <<config, loading, objects, app, injector, registry, cache>>

TypeOK ==
  /\ config.keys \in Seq(Names) /\ config.entry \in [Names -> Entry]
  /\ status \in {"idle", "loading", "loaded", "failed"}
  /\ pos \in 1 .. Len(config.keys) + 1 /\ (status = "loading" => pos <= Len(config.keys))
  /\ loads \in 0 .. MaxLoads
  /\ name \in [Classes -> Names \cup {NoName}]
  /\ options \in [Classes -> Names \cup {NoName}]
  /\ prepared \in [Classes -> BOOLEAN]
  /\ framework \in [Classes -> Frameworks]
  /\ app \in [Classes \cup {Express} -> Seq(Route)]
  /\ injector \in [Names -> Classes \cup {NoClass}]
  /\ registry \in Seq(Classes)
  /\ cache \in Seq(Route)

(* The keys come in the order of the file, each once.                      *)
KeysOf(N) == {k \in BoundedSeq(N, Cardinality(N)) : Range(k) = N /\ IsInjective(k)}

Init ==
  /\ \E N \in SUBSET Names : \E k \in KeysOf(N), e \in [N -> Entry] :
       config = [keys |-> k, entry |-> [n \in Names |-> IF n \in N THEN e[n] ELSE NoEntry]]
  /\ status = "idle" /\ pos = 1 /\ loads = 0
  /\ name = [c \in Classes |-> NoName]
  /\ options = [c \in Classes |-> NoName]
  /\ prepared = [c \in Classes |-> FALSE]
  /\ framework = [c \in Classes |-> "none"]
  /\ app = [f \in Classes \cup {Express} |-> <<>>]
  /\ injector = [n \in Names |-> NoClass]
  /\ registry = <<>>
  /\ cache = <<>>

-----------------------------------------------------------------------------
RoutesOf_FromZero(n, k) == [i \in 1 .. k |-> <<n, i - 1>>]
RoutesOf(n, k)          == [i \in 1 .. k |-> <<n, i>>]

(* The first k routes can be mounted: prepare throws at an unknown one.    *)
Mountable(e, k) == \A i \in 1 .. k : e.routes[i] = "known"

Key   == config.keys[pos]
Of(n) == config.entry[n]

(* load() begins, again if the program calls it again.                     *)
Load ==
  /\ status \in {"idle", "loaded", "failed"} /\ loads < MaxLoads
  /\ loads' = loads + 1
  /\ pos' = 1
  /\ status' = IF config.keys = <<>> THEN "loaded" ELSE "loading"
  /\ UNCHANGED <<config, objects, app, injector, registry, cache>>

(* create settles: load goes on with the next key, or rejects.             *)
Registered(c) ==
  /\ registry' = Append(registry, c)
  /\ pos' = pos + 1
  /\ status' = IF pos = Len(config.keys) THEN "loaded" ELSE "loading"
  /\ UNCHANGED loads

Rejected_GoesOn ==
  /\ pos' = pos + 1
  /\ status' = IF pos = Len(config.keys) THEN "loaded" ELSE "loading"
  /\ UNCHANGED <<registry, loads>>

Rejected_Pushed ==
  /\ status' = "failed"
  /\ registry' = registry \o (IF Of(Key).type = NoClass THEN <<>> ELSE <<Of(Key).type>>)
  /\ UNCHANGED <<pos, loads>>

Rejected ==
  /\ status' = "failed"
  /\ UNCHANGED <<registry, pos, loads>>

(* create up to prepare: the one server of the class takes the new name    *)
(* and the new options, whoever it was before.                             *)
Adopt(c, n) ==
  /\ name' = [name EXCEPT ![c] = n]
  /\ options' = [options EXCEPT ![c] = n]
  /\ injector' = [injector EXCEPT ![n] = c]

(* No type, or none that the factory knows.                                *)
CreateWithoutClass ==
  /\ status = "loading" /\ Of(Key).type = NoClass
  /\ Rejected
  /\ UNCHANGED <<config, objects, app, injector, cache>>

(* prepare returns at once for a server it was called for before.          *)
CreatePrepared(c) ==
  /\ status = "loading" /\ Of(Key).type = c /\ prepared[c]
  /\ Adopt(c, Key)
  /\ Registered(c)
  /\ UNCHANGED <<config, prepared, framework, app, cache>>

(* prepare without a framework: the mark and the cleared cache stay.       *)
CreateWithoutFramework(c) ==
  /\ status = "loading" /\ Of(Key).type = c /\ ~prepared[c]
  /\ Of(Key).framework = "none"
  /\ Adopt(c, Key)
  /\ Rejected
  /\ prepared' = [prepared EXCEPT ![c] = TRUE]
  /\ cache' = <<>>
  /\ UNCHANGED <<config, framework, app>>

(* The application a framework works on: ExpressSupport is one object, a   *)
(* class of the program's own is constructed for every server.             *)
AppOf_Shared(c, f) == Express
AppOf(c, f)        == IF f = "express" THEN Express ELSE c

ClearedCache_Kept == cache
ClearedCache      == <<>>

(* prepare with a framework: a fresh application replaces the one that the *)
(* framework had, middlewares and routes go in until one of them throws,   *)
(* and getRoutes() is published if none did.                               *)
CreateMounting(c) ==
  /\ status = "loading" /\ Of(Key).type = c /\ ~prepared[c]
  /\ Of(Key).framework # "none"
  /\ Adopt(c, Key)
  /\ prepared' = [prepared EXCEPT ![c] = TRUE]
  /\ framework' = [framework EXCEPT ![c] = Of(Key).framework]
  /\ LET f == AppOf(c, Of(Key).framework)
         all == Len(Of(Key).routes)
     IN \/ /\ Mountable(Of(Key), all)
           /\ app' = [app EXCEPT ![f] = RoutesOf(Key, all)]
           /\ cache' = ClearedCache \o RoutesOf(Key, all)
           /\ Registered(c)
        \/ \E k \in 0 .. all :
             /\ Mountable(Of(Key), k) /\ (k = all => all = 0)
             /\ app' = [app EXCEPT ![f] = RoutesOf(Key, k)]
             /\ cache' = ClearedCache
             /\ Rejected
  /\ UNCHANGED config

Next ==
  \/ Load \/ CreateWithoutClass
  \/ \E c \in Classes : CreatePrepared(c) \/ CreateWithoutFramework(c) \/ CreateMounting(c)

Spec == Init /\ [][Next]_vars

-----------------------------------------------------------------------------
(* Properties.                                                             *)

(* registry.get(n): the first server of that name.                         *)
Found(n) == {i \in DOMAIN registry : name[registry[i]] = n}
get(n)   == IF Found(n) = {} THEN NoClass
            ELSE registry[CHOOSE i \in Found(n) : \A j \in Found(n) : i <= j]

getInstanceNames == [i \in DOMAIN registry |-> name[registry[i]]]

Mounted(c) == app[AppOf(c, framework[c])]
Wanted(n)  == RoutesOf(n, Len(Of(n).routes))

(* After load, every key of the configuration leads to a server that has   *)
(* its options and serves its routes, through the registry and through the *)
(* Injector (ServerRegistry.ts:35-46, WebServer.ts:87-152).                *)
EntriesServed ==
  status = "loaded" =>
    \A n \in Range(config.keys) :
      LET c == get(n) IN c # NoClass /\ injector[n] = c /\ options[c] = n /\ Mounted(c) = Wanted(n)

(* Entries that share nothing: each has a class of its own and at most one *)
(* uses express.                                                           *)
Apart ==
  \A m, n \in Range(config.keys) : m # n =>
    /\ Of(m).type # Of(n).type \/ Of(m).type = NoClass
    /\ ~(Of(m).framework = "express" /\ Of(n).framework = "express")

(* EntriesServed is what entries that share nothing can rely on.           *)
ApartEntriesServed == Apart => EntriesServed

(* No server without a framework gets into the registry: create has thrown *)
(* (WebServer.ts:174-183).                                                 *)
RegisteredHasFramework == \A i \in DOMAIN registry : framework[registry[i]] # "none"

(* The permissions of a route are looked up in K_ROUTE_CACHE: it knows no  *)
(* route whose application has been replaced (WebServer.ts:92 and 149).    *)
CacheIsServed == \A i \in DOMAIN cache : \E f \in DOMAIN app : cache[i] \in Range(app[f])

(* For such entries, the registry is the directory of named instances that *)
(* it is meant to be (ServerRegistry.ts:23-58).                            *)
Directory ==
  INSTANCE ServerDirectory WITH
    Routes <- Route,
    wanted <- IF Apart THEN [n \in Range(config.keys) |-> Wanted(n)] ELSE <<>>,
    dir    <- IF Apart THEN [n \in Range(getInstanceNames) |-> Mounted(get(n))] ELSE <<>>,
    over   <- status \in {"loaded", "failed"}

ImplementsDirectory == Directory!Spec
=============================================================================
