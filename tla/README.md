# A TLA+ verification of @typexs/server

@typexs/server puts http(s) servers, routes and a REST API on top of @typexs/base: it reads the section `server` of a
configuration, creates a server per entry, mounts controllers in it and starts it from the command line. This project
keeps TLA+ modules of the parts whose behaviour depends on the order of events, TLC runs of them on small instances, and
TLAPS proofs for all values of the constants. `PROJECT.json` says for every definition which lines it models.

## 1. The system

`src/src` has about 5600 lines; some 1500 of them are declarations (interfaces, constants, exports). Node runs one
callback at a time, so what interleaves is whole callbacks and the parts of async methods between two awaits.

| component | code | state | operations |
|---|---|---|---|
| HTTP server life cycle | `libs/server/Server.ts` | `server`, `$connections`, `cache` of stall timers, `inc`, `_abort`; sockets and handles of node's `net.Server` | `start`, `stop`, `shutdown`, `response`, the listeners of the server and its sockets |
| server registry and factory | `libs/server/ServerRegistry.ts`, `ServerFactory.ts`, `ServerUtils.ts` | `registry`; one object per class in the injector | `load`, `create`, `get`, `getInstanceNames` |
| web server | `libs/web/WebServer.ts` | name, options, `__prepared`, framework; the global route cache | `initialize`, `prepare`, `loadFramework`, `access` |
| framework support | `libs/web/frameworks/**` | one `ExpressSupport`, the wrapper it made last, its routes | `create`, `useRouteController`, `getRoutes` |
| startup and command | `Startup.ts`, `commands/ServerCommand.ts` | none of its own | `bootstrap`, `handler`, `start` |
| storage API, entities | `controllers/StorageAPIController.ts:217-634` | the rows of the storage; a handler's locals over its awaits | `query`, `get`, `save`, `updateById`, `updateByCondition`, `deleteById`, `deleteByQuery` |
| storage API, metadata | `controllers/StorageAPIController.ts:84-213, 707-803` | the cache bin `storage-info` | `getMetadata`, `getMetadatas`, `getMetadataEntities`, `getStorageSchema` |
| distributed storage API | `controllers/DistributedStorageAPIController.ts` | as the storage API, on several nodes | the same seven |
| tasks API | `controllers/TasksAPIController.ts` | none | execute, log, status, running tasks, runners |
| log files | `libs/Helper.ts:40-167` | an open file and a position in it | `tail`, `less` |
| configuration walk | `libs/Helper.ts:171-220` | the object it walks | `walk` |
| status, node info, registry, files | the other controllers | none | read and filter |
| permissions | `libs/RoutePermissionsHelper.ts`, `decorators/*`, `Activator.ts` | metadata written when classes load | look up and parametrize |
| extension points | `api/*` | none | empty methods for extensions |

**How they interact.** `Startup.bootstrap` awaits `ServerRegistry.load`, which awaits `create` for every entry; `create`
takes an object from `ServerFactory`, which asks the injector, and awaits `WebServer.prepare`, which takes an application
from `FrameworkSupportFactory`, mounts routes and publishes them in the global route cache that `RoutePermissionsHelper`
reads. `ServerCommand` looks servers up by name and awaits `start`. Requests then come in through the framework to the
controllers, which await the storage, the cache, or exchanges with other nodes, all of @typexs/base.

**What is hard.** In `Server`, calls overlap with each other, with the listeners of the old and new `net.Server` and with
sockets that come and go; the callback of `close` works on whatever `this.server` is by then. In the registry, objects
are shared without saying so and a preparation that fails leaves marks. In the storage API, requests overlap at every
await and a computed description may be stored after a newer one. In the log reader, the file changes under the reader.

**What makes each part correct.**

* Server: no callback throws; `hasServer() = false` means that the port is free and nobody is connected; `stop` settles
  when the last client is gone, not before; `start` settles; `$connections` misses no connection.
* Registry: every entry leads to an object of its own that has its options and serves its routes; what cannot serve is
  not registered; the route cache holds no stale route.
* Command: every server is tried, and tried once, also those after one that does not start; what runs under a name is what
  that name configures.
* Entities: overlapping requests behave as requests on one table that act at one moment each.
* Metadata: an answer describes the storage asked for, whatever the names of the others; a refresh is not answered from
  before the refresh.
* Log files: an answer consists of lines that the file had at one moment.
* Distributed storage: what an answer shows was there, a node whose result it lists has done what it was last asked, and
  nothing is touched on nodes or at ids that the request does not name, whichever messages are lost or late.
* Routes: what is mounted is what the access list of its entry lets in; the permissions found for a request are those of
  the action that serves it.
* Configuration: an answer has nothing that is withheld, and all that the caller may see. The code keeps this below the key
  that is asked for, and not for that key itself.
* Tasks: a list or a status was true since it was asked for; what `execute` does not throw has been executed.

## 2. The modules

| module | what it is | composes |
|---|---|---|
| `ServerLifecycle` | abstract: stopped, starting, running, failed, stopping, and who is connected | |
| `HttpServer` | `Server` in detail | refines `ServerLifecycle` |
| `ServerDirectory` | abstract: named instances registered one at a time | |
| `ServerRegistry` | `load`/`create`/`prepare` with the shared objects | refines `ServerDirectory` for entries that share nothing |
| `ServerCommand` | bootstrap and `typexs server` | extends `ServerRegistry`; takes the outcomes of `start` from `HttpServer` |
| `RouteTable` | the inside of `prepare`: access, mounts, the table of routes, permissions | |
| `ConfigView` | `getConfig` of the status API and the walk it makes | |
| `WebServers` | the three above | extends `ServerCommand`, `RouteTable`, `ConfigView` |
| `EntityCalls` | the calls, and what the storage does to rows | |
| `EntityStore` | abstract: a table with requests that act at one moment | extends `EntityCalls` |
| `EntityApi` | the entity handlers, one action per stretch between awaits | refines `EntityStore` |
| `StorageSchema` | the metadata and their cache | |
| `StorageController` | both kinds of request | extends `EntityApi`, `StorageSchema` |
| `DistributedStore` | abstract: tables of several nodes and requests to them | extends `EntityCalls` |
| `DistributedStorage` | the entity handlers over several nodes, with the messages to the nodes | refines `DistributedStore` |
| `StorageApis` | the storage API of a node and of several | extends `StorageController`, `DistributedStorage` |
| `LogReader` | `tail` and `less` over a growing file | |
| `TasksApi` | the handlers of the tasks API that ask other nodes | |
| `LogsAndTasks` | both | extends `LogReader`, `TasksApi` |
| `MC*` | values for TLC: symmetry, keys, route lists, configurations | |
| `*Proofs` | theorems about the module they are named after; `ServerRegistryProofs` has those about `ServerCommand` too, `StorageControllerProofs` those about `EntityApi` and `StorageSchema`, `DistributedStorageProofs` those about `StorageApis`, `LogsAndTasksProofs` those about `LogReader` and `TasksApi` | |

### HttpServer

A start is numbered, and start *i* creates the `net.Server` *i*; `server` is the number that `this.server` holds.
`connections`, `cache`, `inc` and `shut` are `$connections`, `cache`, `inc` and `_abort`. `startRes` and `stopRes` are the
progress of a call and then the state of its promise (`unheard`: an error that start logs and does not pass on). `phase`,
`wired`, `startCbs`, `closeCbs`, `openTick`, `closeTick` and `sock` are node's: the handle, the listeners, the events that
wait to be emitted, the sockets. An action is one callback or one stretch of an async method: `Start`, `AfterBeforeStart`,
`Bind`, `Listening`, `ListenError` for start; `Stop`, `Shutdown`, `StopBody`, `CloseEvent`, `CloseCrash` for stop;
`Connect`, `Secure`, `Request`, `Answer`, `PeerEnds`, `SocketTimeout`, `SocketClosed` for clients. Promise continuations
and `nextTick` callbacks run before the next network event or timer (`Idle`); their order among themselves is left open.
Constants say how callers behave: `Await` (each call is awaited before the next), `Guarded` (start only without, stop only
with a server), and what the outside may do: `EagerReuse` (a client's port is used again before its `close` event),
`BindErrors`.

### ServerRegistry and ServerCommand

One `create` is one step, because `load` awaits each and the bootstrap awaits `load`; it may fail half-way, and each way
out is an action or a disjunct with what it leaves behind. Objects are named by their class, as the injector keeps one per
class; `app` has one application for express, because `ExpressSupport` is one object, and one per class otherwise. The
configuration is any set of names in any order with any type, framework and routes. `ServerCommand` adds the argument, the
place in the list of names, who runs, and whose `start` was called, in order (`started`). A `start` may come true, after
which the command waits for the process to exit; reject or never settle, as in `HttpServer`; or come false, which `IServer`
allows a program's own class: that is logged, and the loop goes on to the next name (`NotStarted`).

### EntityApi and EntityStore

The rows of one entity class are a function from ids to a value or `Absent`; an entity that is created without an id is
one with an id that no row has. A request is `idle`, `called` (it waits for the entity controller) or, in `deleteById`,
`removing`. What a handler does before its first await (`Resolves`, `WellFormed`) is part of `Receive` and `Refuse`. The
entity controller works at one moment between the await and its answer, or rejects (`Fails`); an extension that throws
after a write fails the request with the rows written (`PostProcessed`). `EntityStore` is what that should amount to.

### StorageSchema

What can be described has a version that grows; an entry of the cache is the storage and the versions it was computed
from. `Ask`, `LookHit`, `LookMiss`, `LookNowhere`, `Serialize`, `Collect`, `Keep`, `CacheFails` are the stretches of
`getStorageSchema`; `Expire` is the end of the 24 hours. Names are sequences of pieces, one of which is `Suffix`; the cache
key (`Key`) is the name, or the name followed by the suffix, as `StorageAPIController.ts:736` concatenates them, so that a
storage `a` with collections and a storage `a-with-collection` have one key. The prefix of all keys is left out.

`StorageController` has entity traffic or metadata traffic in a behaviour, chosen at the start: the two share no variable,
so mixing them adds interleavings and no behaviour of either.

### RouteTable and ConfigView

`RouteTable` has one server from the first entry under `routes` to the published table. An entry is mounted
(`MountControllers`, `MountStatic`), has nothing to mount (`SkipControllers`) or is of no known type (`UnknownType`);
`Publish` computes the table (`getRoutes`), of which `getPermissionsForAction` is an operator. `Judge` is one turn of the
loop of `access`, the only place where the order of a list could matter. Which names a pattern stands for (`Matches`) is
given. Metadata are in the order in which decorators leave them.

Paths and prefixes are sequences of letters, of which `/` matters: `Path` is what routing-controllers serves, which puts a
slash before a prefix without one, and `Published` is what `getRoutes` expects and puts into the table, with a slash before
every prefix. With a prefix that begins with a slash the two differ, `getRoutes` recognises no action, and the route gets a
row that has its path and no permissions (`BareRow`, `Express.ts:162-171`). Permissions are sequences of words, some of them
parameters; what is put in for a value is its conversion (`Put`): trimmed when there are several, then `paramNorm`, by
default `_.snakeCase` unless the value has a `*`.

`ConfigView` has one request for the configuration. `cfg` is the copy, from paths to the kind of the value there; `todo`
is what the recursive walk still has to visit, in its order, with the key and the location that it will pass on. `Visit` is
one callback, which deletes from the copy or puts a name into it, and the call of `walk` for what is then there.

In `WebServers` a behaviour is about the servers, the routes of one, or a request for the configuration (`matter`): they
share no variable, so mixing them adds interleavings and no behaviour. The same holds for `reach` in `StorageApis` and
`side` in `LogsAndTasks`.

### DistributedStorage and DistributedStore

A request goes to the nodes that it names (`targetIds`, or `:nodeId` of the path, or all for a query). `mail` is where its
message is on the way to, `answered` who has answered the present call, `listed` who answered the first of the two calls of
`deleteById`, `heard` the rows in the answers. A node looks (`LooksUp`) or writes (`WritesAt`) when the message arrives,
which for a write may be after the request was answered without it; the message or the answer may be lost (`Loses`). The
handler goes on whenever @typexs/base gives it what there is: the exchange has a time limit of its own. Rows change
elsewhere as long as a node has still to look at them or to write (`Changes`). A request is made once; requests meet only
in the rows, so what others do is among the changes. `from` in an answer are the nodes whose results it is made of: those
that answered the last call. For a deletion that found something this is `remove()`, whose results are passed on as they are
(`DistributedStorageAPIController.ts:464-466`), whether or not the node had answered `find()`.

`DistributedStore` promises that each node acts at most once for a request, on what it names, or for a deletion, which may
ask its nodes again (`AskAgain`), within its ids; rows in an answer were on their node at a moment since the request came;
a node in the answer to a write has written. A node in the answer to a deletion has done what it was last asked, and if it
was heard the first time too it has been seen without each of the ids. One that was silent to `find()` (`unheard`) may be
listed with a result and still hold ids that no other node had: the removal did not name them. That much the code does not
promise, and neither does the store.

### LogReader

A file is a sequence of bytes that a task appends to (`Grow`). A reader takes the size (`Stat`), opens the file (`Open`)
and reads one byte per step (`TailRead`, `LessRead`) until the loop's condition ends it (`TailEnds`, `LessEnds`); any step
may fail (`Fails`). `chars`, `lines`, `lineCount`, `selected` and `started` are the locals of the loops; `seen` remembers
what the file held when its size was taken, of which the code keeps the length. Every byte is decoded on its own, so a
character of several bytes is garbled (`Shown`). `DefaultLines` is what the limit 0 of `less` stands for, 10000 in the code
(`Helper.ts:133`).

### TasksApi

A request (`demand`) gets its defaults and asks nodes (`asked`); `pending` have not been reached, `executing` run the task
that `execute` waits for, `answers` is what the others said, `Fault` for an error. Tasks begin and end meanwhile, and
`since` has every state of every task since the request came. `getRunningTasks`, `getTaskStatus`, `getLogContent` and
`executeTask` are the handlers after the exchange, which gives them what there is. Handlers keep no state: one request.

## 3. The runs

| run | question | instance | states | result |
|---|---|---|---|---|
| `server_orderly` | What can a caller rely on who awaits each call and tests `hasServer()`? | 2 sockets, 2 ports, 2 starts, 2 stops, 1 request, http, a wrapper, ports reused early | 11 068 | holds |
| `server_any` | Does `$connections` survive any overlap? | the same over https, any order of calls, any listen error | 95 909 | holds |
| `server_start_fails` | Does `start` settle when listen fails? | 1 socket, 1 start, 1 stop, fair | 64 | `StartSettles` violated |
| `server_overlapping_stops` | Is `hasServer()` enough to decide on a stop? | 2 sockets, 1 start, 2 stops | 188 | `NoUncaught` violated |
| `servers` | Is the configuration what is registered, mounted, run and shown? | 2 names, 2 classes, 2 routes each, every configuration; lists of 1 entry with up to 2 access rules or of 2 entries, 3 controllers, 2 programs; one configuration with every kind of value, up to 2 filter keys and 2 permissions, 6 keys | 453 272 | holds |
| `registry_shared` | Does every entry get its own server? | 2 names, 2 classes, 1 route | 4 988 | `EntriesServed` violated |
| `registry_retry` | Is a server without a framework always refused? | the same, 2 loads | 7 023 | `RegisteredHasFramework` violated |
| `command_all` | Does the command start all servers? | 2 names, 2 classes, fair | 26 796 | `AllStarted` violated |
| `access_documented` | Does a deny in the list of controllers deny? | the lists of `servers` | 3 818 | `DeniedIsNotMounted` violated |
| `storage` | Do overlapping requests get what they are promised, here and on several nodes? | 2 ids, 2 values, 2 requests; storages `a` and `a-with-collection`, 1 unknown name, 2 requests, 1 change of `a`; 2 nodes, 1 request with 2 calls | 381 591 | holds |
| `storage_update_by_id` | Does an update by id touch that id only? | the entities of `storage` | 1 414 | `UpdatesItsId` violated |
| `logs` | Does a log answer show one moment of the file, and do the tasks' answers say what was so? | up to 4 bytes of 3 kinds, up to 3 lines, 1 reader; 2 nodes, 2 tasks | 599 935 | holds |

**What they show.**

* `server_orderly`: nothing throws (`NoUncaught`), a stopped server holds no port, no client and no open call
  (`StoppedIsReleased`), the server is given up only for its own close event (`OwnClose`), every stop and every start
  settles, and all of it is a behaviour of `ServerLifecycle`, its liveness included (`FulfilsLifecycle`). With
  `EagerReuse`, a socket can drop out of `$connections` (its key is taken and then deleted by the older socket's close
  handler, `Server.ts:227`); stop then does not destroy it, and settles because http sockets have a time limit.
* `server_any`: without early reuse, `TrackedConns` holds for any order of calls, though other promises do not.
* `servers`: the cache of routes is never stale, no server without a framework is registered in one load, and entries that
  share neither class nor express get what they configure (`ApartEntriesServed`, `RunsAsConfigured`, `ImplementsDirectory`)
  and are tried once each by the command, in the order of the registry, also when one before them came false
  (`StartsEachOnce`). Without that condition this fails: `registry_shared`. What is mounted is what the list of its entry
  lets in (`MountsWhatIsLetIn`): what the first rule that names a controller says, wherever it stands, else what its patterns
  say. The property says nothing of a controller whose patterns disagree; what the code makes of those is not what
  `docs/home.adoc:42-46` has, which is `access_documented`. The permissions found for a request are those of the action that
  express hands it to, with the converted values of its parameters in all combinations (`PermissionsOfHandler`), although
  table and router are made from different lists; and none are found for an action under a prefix that begins with a slash.
  This needs that mounted actions share their path and method with no other that is declared; the code does give the
  permissions of an action of another context otherwise. Below the key that is asked for, the configuration is shown without
  what is withheld and, where no rule names a path in a list, with exactly what is allowed (`AllowedBelowKey`). Of the key
  itself the property says nothing: `getConfig` looks it up and copies it (`ServerStatusAPIController.ts:98-103`), and the
  callback that checks keys is never called for the root of a walk, so a key that is withheld where it is met below another
  is answered when it is asked for, although the comments of the method have "if allowed" and "check if key allowed".
* `storage`: `FulfilsStore`; and `FulfilsDistributedStore` for several nodes. A request for metadata is answered with its
  own storage, with collections if and only if it asked for them, whoever filled the cache (`OwnSchema`); of the two storages
  of the run, `a-with-collection` has without collections the key of `a` with them, and a request for the one may get what a
  request for the other has put there, but nothing else. A refresh gets nothing older than itself (`RefreshReadsThrough`).
* `logs`: an answer is what its question selects of the file at the time of `stat` (`AnswersOneMoment`), whatever is
  appended between two reads. The definitions `LastLines` and `SomeLines` say what is selected, oddities included: `tail`
  of *n* gives *n - 1* lines of a file that ends in a line end, `less` drops the last byte and answers nothing by default.
  A list of running tasks misses none that ran all the time on a node that answered and has none that ran nowhere
  (`ListsWhatRuns`), a status was one (`StatusWasTrue`), and what `execute` does not throw has begun, or ended well where
  that was waited for (`ExecutedOrThrown`) - except on a node that failed before it had a result, which counts as success.

The seven violations and the quoted lines they contradict are under `findings` in `PROJECT.json`; in short: a failed listen
may hang `start` (`Server.ts:263`), the second of two overlapping stops throws (`Server.ts:304`), entries of one type are
one object (`ServerFactory.ts:87`), a create that failed succeeds the second time (`WebServer.ts:91`), the command never
gets to the second server (`ServerCommand.ts:27`), a deny after an allow denies nothing (`WebServer.ts:73`), and an
update by id ignores its id (`StorageAPIController.ts:475`).

**Bounds.** Two of everything that can collide: two starts and two stops are needed for one to overlap the other or to
find what the other left; two sockets and two ports for one to take the other's key; two entries to share a class or
express, two routes for a prepare to fail in between; two requests, two ids and two values to overlap on part of each
other's rows; two versions for one to be older. A third would repeat one of the two, and the theorems below have no such
bounds except where they say so. `MaxStarts`, `MaxStops`, `MaxRequests`, `MaxLoads`, `MaxRoutes`, `MaxVersion` bound the
counters; `MaxSize` and `MaxLines` the file and the questions, and four bytes make three lines with one left over;
`DefaultLines` is 2, so that a file may have more lines. One of the two storages of `storage` changes (`Changing`), once, in
its schema or in its collections: the other is there for its name, and what is older shows in one that changes. Two nodes
are one that answers and one that does not, or that answers only one of two calls; one request to several nodes suffices, as
the others are among the changes. Lists of access rules have up to two rules, as a rule acts on what the ones before it have
left, of which there are three kinds. `storage` is symmetric in ids, values and requests of both kinds, `logs` in nodes and
tasks, which are only compared.

**Deadlock** is checked in the runs `storage`, `storage_update_by_id` and `logs`. The others stop where the code does:
after the last call that the bound allows, when the process has crashed, when the command waits for the process to exit.

**Fairness.** `HttpServer`: weak fairness of every callback that is due, because the event loop runs them all, of
`beforeStart`, which settles, and of the idle time limit of http sockets (`Server.ts:119-128`). None on callers, clients
or `Secure`: nobody owes a call, a hang-up or the end of a handshake. `ServerCommand`: weak fairness of every step, with
*never settles* as one outcome of a start. Nothing else assumes fairness.

## 4. The proofs

| theorem | assumption | the invariant it rests on |
|---|---|---|
| `HttpServerProofs!TypeCorrect` | | itself |
| `TrackedConnsCorrect` | `~EagerReuse` | `KeysUnique` (two sockets that are not over have two keys) and `FreshServers` (the `net.Server` of a start to come has no sockets): so no registration or deletion by key hits another socket |
| `NoUncaughtCorrect`, `OwnCloseCorrect` | `Await` | `AwaitInv`: one call at a time (`OneCall`), so a server that still looks up or reports belongs to the start under way (`StartsOwn`) and a close callback to the stop under way (`StopsOwn`) |
| `StoppedIsReleasedCorrect` | `Await`, `Guarded` | `ReleaseInv` on top: what is bound or alive belongs to the server in use, and a close event comes when nothing of it is alive |
| `ImplementsLifecycleCorrect` | `Await`, `Guarded` | `RunningInv` on top of these: a bound `net.Server` whose start has nothing more to report has started, and a stop that waits is known to the `close` event of the server in use; then a step simulation |
| `ServerRegistryProofs!TypeCorrect` | | itself |
| `CacheIsServedCorrect` | | itself, with the cases of a mounting |
| `RegisteredHasFrameworkCorrect` | `MaxLoads = 1` | `FailureIsLast`: a server that is marked as prepared and has no framework means that load has failed, and nothing is created after that |
| `ApartEntriesServedCorrect` | `MaxLoads = 1` | `OneEach`: the first *pos - 1* entries are served, each by the object of its class, and no other object is prepared |
| `ImplementsDirectoryCorrect` | `MaxLoads = 1` | `ServedSoFar`: the directory has exactly the entries that load is done with; then a step simulation |
| `StartsEachOnceCorrect` | `MaxLoads = 1` | `CallsInv`: the calls made are those for the names before *next*, and the one under way; with `OneEach`, by which the names are of different objects |
| `RunsAsConfiguredCorrect` | `MaxLoads = 1` | `OneEach`: what is found under a name is the object of its class, with the routes of the name |
| `StorageControllerProofs!EntityTypeCorrect` | | `EntityInv`, with what the handler has checked of a call in progress (`Checked`) |
| `FulfilsStoreCorrect` | | `EntityInv` and a step simulation: a finished call is `Read`, `Write`, `Delete` or `Fail` of the store, `find()` of a deletion is a `Delete` of nothing that sees what is absent, the removal is a `Delete` of what was found |
| `SchemaTypeCorrect` | | itself |
| `OwnSchemaCorrect` | | `BinDescribes` (an entry describes something that its key stands for) and `Underway` (what a request is about to keep describes what it asked for); by `KeyTells`, a key that is not shared stands for one storage, with or without collections |
| `RefreshReadsThroughCorrect` | | `Fresh`: versions only grow, and what a refresh has read it has read since it was asked for |
| `TypeCorrect` (of `StorageController`) | | those of the two parts, which a step of the other leaves alone |
| `RouteTableProofs!RouteTypeCorrect`, `MountsWhatIsLetInCorrect` | | `RouteInv`: every mount is for an entry before `place`, in order and one each, with the classes selected for it (`MountedRightly`), and every entry before `place` has its mount unless nothing was selected (`Provided`); with `AccessLetsIn`: after *n* turns of the loop of `access` it knows whether an exact name, or any pattern that allows, is among the first *n* |
| `PermissionsOfHandlerCorrect` | | `RouteInv`, which gives the published table from the mounts; that a request which is unambiguous has one route, of one action, and one row, of that action or bare; and `ParametrizedInstances`: when the first *n* words of a permission have been gone through, there is exactly what gives those of them that are parameters one of their values each |
| `ConfigViewProofs!ConfigTypeCorrect`, `AllowedBelowKeyCorrect` | | `ConfigInv`: the callbacks to come are for separate parts of the copy, which are as they were in the configuration; everywhere else what is withheld is gone and what is not withheld is there (`Copied`); each callback has a location that is the path, or is in a list as the path is (`CallRight`, `Tells`) |
| `DistributedStorageProofs!DistributedTypeCorrect` | | `DistributedInv`: who has answered has been asked, after the reply only writes are on their way, and a deletion hears only of ids that it is to delete |
| `FulfilsDistributedStoreCorrect` | | `DistributedInv` and a step simulation: a node that looks is a `Look`, or a `Delete` of nothing by a deletion; the second call of a deletion is `AskAgain`; a removal deletes at least what was found |
| `LogsAndTasksProofs!TasksTypeCorrect` | | `TasksInv`, with the types of what the nodes have answered |
| `ListsWhatRunsCorrect`, `StatusWasTrueCorrect`, `ExecutedOrThrownCorrect` | | `TasksInv`: what a node has answered was so at a moment since the request came (`AnswerIsTrue`), and since then every state of its tasks is remembered |
| `TypeCorrect` (of `LogReader`), `AnswersOneMomentCorrect` | | `LogInv`: the file still begins with what it was (`StillThere`); `tail` has the last bytes and had not enough before the last of them (`TailSoFar`); `less` has exactly what is selected of the bytes it has read (`LessSoFar`) |
| `WebServersProofs!WebServersCorrect`, `WebServersOnceCorrect` | none; `MaxLoads = 1` | those of the parts: a behaviour of `WebSpec` is one of `CommandSpec`, of `RouteSpec` and of `ConfigSpec` |
| `StorageApisCorrect` | | in the same way, those of `StorageController` and `DistributedStorage` |
| `LogsAndTasksCorrect` | | in the same way, those of `LogReader` and `TasksApi` |

These assumptions are about the surroundings, not about the code, and each is needed: `MaxLoads = 1` is refuted by
`registry_retry`, `Await` by `server_overlapping_stops`. What the constants of a module must be is an `ASSUME` beside them.
One of these says something of the code: no value is the name of a parameter once it is converted (`ValueAssumption` of
`RouteTable`), because `_.snakeCase` leaves no colon (`RoutePermissionsHelper.ts:11,40,45`). The proof needs it, as the
parameters of a permission are replaced one after the other in the same string (`RoutePermissionsHelper.ts:36-48`), where a
value that is put in could be replaced again.

Other conditions are part of the properties: `AllowedBelowKey` says for which rules it promises the whole answer
(`RulesAboveLists`), `OwnSchema` for which requests it promises less (`SharesItsKey`), `PermissionsOfHandler` which programs
(`Unambiguous`), `MountsWhatIsLetIn` which lists (`Agreed`). What the code makes of the lists that are left out
is the subject of `access_documented`.

The loops of `access` and of the permissions are recursive functions, of which the proofs need what every turn leaves. The
library's induction theorems cannot be used for that (they take an operator), so `RouteTableProofs` argues by the first turn
that would be wrong: a set of natural numbers that is not empty has a least one (`LeastTurn`, `EveryTurn`). `Turns` proves
that a recursive function over `0 .. n` exists at all, which its definition by `CHOOSE` does not say.

**Only model-checked:** liveness (`StopSettles`, `StartSettles`, the fair part of `FulfilsLifecycle`), which is out of the
prover's reach. Every safety property of a run that holds has a theorem, for the component and for the module the run is of.

## 5. What is not modelled

* In modelled parts: reading certificates, debug output, the `connect` and `upgrade` listeners (no effect); what
  middlewares do; which express object serves a request; values, sorting, limits, labels, aggregation and the metadata
  fields of entities; what the filter keys remove from a storage's options; `getMetadataEntity`, which reads and
  serializes in one go; which lines a log request to a node selects; permissions that are not strings, and parameters
  whose name begins with the name of another; values that have both a `*`, which keeps them from being converted, and the
  name of a parameter, and the `$` patterns of the replacement; a `paramNorm` that a caller passes; values that a
  configuration holds twice.
* Of the tasks API the lists, schemas and value providers of the local tasks, of the status API `ping`, `status` and
  `listRoutes`: they read or filter in one go and keep no state.
* Not worth a model: the controllers that read and filter without state (node info, registry, files), activation, the
  empty extension classes, declarations.
* @typexs/base, routing-controllers, express and node are modelled as far as the code uses them, and marked external.

## 6. The plan

Done: every component with state or an order of events, each with its abstract specification where one is worth stating,
its runs and theorems for all their safety properties. To come:

1. What is still without a property among the hazards of `PROJECT.json`, where a model of it would say more than the line.
2. Abstract specifications of what a request for the configuration and a mounted application promise, of which the two
   components could be shown to be refinements.
