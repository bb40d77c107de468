------------------------------ MODULE RouteTable ------------------------------
(***************************************************************************)
(* What WebServer.prepare makes of the entries under `routes': which       *)
(* controllers it mounts for each (Helper.resolveGroups, access), which    *)
(* table of routes it publishes afterwards (Express.getRoutes), and which  *)
(* permissions are found in that table for a request                       *)
(* (RoutePermissionsHelper).  One server, whose prepare is awaited.        *)
(***************************************************************************)
EXTENDS Naturals, Sequences, SequencesExt, FiniteSetsExt

CONSTANTS
  Controllers, \* controller classes
  Default,     \* the context of classes without @ContextGroup, C_DEFAULT
  Programs,    \* what decorators and imports have left: groups and actions
  RouteLists,  \* values of `routes'
  Matches,     \* MatchUtils.miniMatch: the controllers a pattern stands for
  Values,      \* values of path parameters
  Trim,        \* a value without the blanks around it
  paramNorm,   \* what a value is in a permission: its _.snakeCase unless it has a *
  SnakeOf,     \* _.snakeCase of a parameter name
  NoAccess,    \* an entry without a list `access'
  Unpermitted  \* no @Access on an action

(* @ContextGroup leaves [target, ctxtGroup]; a method with @Get, @Post, ...*)
(* leaves an action: its class, its name, the http method, the path of the *)
(* class followed by its own, and what @Access says.  Decorators of a class*)
(* run together, so actions are in the order of their classes.             *)
(* A permission is a sequence of words, some of them path parameters.  A   *)
(* path is one of letters, of which "/" matters, and so is the prefix of   *)
(* an entry, empty for none.  Where `access' has a match that is           *)
(* false, the name is compared (exact); without a match the name is one,   *)
(* as the test at line 58 of WebServer accepts every name.                 *)
Sequential(s) == s \in Seq(ToSet(s))

ASSUME RouteAssumption ==
  /\ \A p \in Programs : Sequential(p.actions) /\ \A i \in DOMAIN p.actions :
       /\ p.actions[i].target \in Controllers
       /\ LET rights == p.actions[i].permissions IN
            rights # Unpermitted => Sequential(rights) /\ \A j \in DOMAIN rights : Sequential(rights[j])
  /\ \A p \in Programs : \A i \in DOMAIN p.groups : p.groups[i].target \in Controllers
  /\ \A l \in RouteLists : Sequential(l) /\ \A i \in DOMAIN l : l[i].access # NoAccess => Sequential(l[i].access)

(* No value is a parameter once it is converted: _.snakeCase leaves no `:';*)
(* values that have both a `*' and the name of a parameter are left out.   *)
ASSUME ValueAssumption ==
  /\ Trim \in [Values -> Values] /\ DOMAIN paramNorm = Values
  /\ \A v \in Values : paramNorm[v] \notin DOMAIN SnakeOf

VARIABLES
  program,   \* the decorators' metadata
  entries,   \* options.routes
  preparing, \* where prepare is
  place,     \* the entry that it comes to next
  mounts,    \* _mapOptions: the entry and the controllers of each mounted app
  table      \* K_ROUTE_CACHE

routeVars == <<program, entries, preparing, place, mounts, table>>

Actions == ToSet(program.actions)

RouteTypeOK ==
  /\ preparing \in {"going", "prepared", "failed"}
  /\ place \in 1 .. Len(entries) + 1
  /\ mounts \in Seq([entry : DOMAIN entries, controllers : SUBSET Controllers])
  /\ Len(mounts) < place
  /\ \A i \in DOMAIN table : table[i].controller \in Controllers \cup {"static", "none"}
  /\ table # <<>> => preparing = "prepared"

Unprepared == preparing = "going" /\ place = 1 /\ mounts = <<>> /\ table = <<>>

RouteInit == program \in Programs /\ entries \in RouteLists /\ Unprepared

-----------------------------------------------------------------------------
(* resolveGroups: the last @ContextGroup that was recorded for a class.    *)
GroupOf(c) ==
  LET I == {i \in DOMAIN program.groups : program.groups[i].target = c}
  IN IF I = {} THEN Default ELSE program.groups[Max(I)].ctxtGroup

(* One turn of the loop of access().                                       *)
Judge_GoesOn(acc, a, c) ==
  IF a.exact THEN IF a.name = c THEN [acc EXCEPT !.hit = TRUE, !.allow = a.access = "allow"] ELSE acc
  ELSE IF c \in Matches[a.name] THEN [acc EXCEPT !.hit = TRUE, !.allow = @ \/ a.access = "allow"] ELSE acc

Judge(acc, a, c) ==
  IF acc.over THEN acc
  ELSE IF a.exact THEN IF a.name = c THEN [over |-> TRUE, hit |-> TRUE, allow |-> a.access = "allow"] ELSE acc
  ELSE IF c \in Matches[a.name] THEN [acc EXCEPT !.hit = TRUE, !.allow = @ \/ a.access = "allow"] ELSE acc

Unjudged == [over |-> FALSE, hit |-> FALSE, allow |-> FALSE]

Judged(list, c) ==
  LET turn[n \in 0 .. Len(list)] == IF n = 0 THEN Unjudged ELSE Judge(turn[n - 1], list[n], c)
  IN turn[Len(list)]

access(list, c) ==
  \/ list = NoAccess
  \/ LET end == Judged(list, c) IN end.allow \/ ~end.hit

(* The classes of the context and those that the entry names itself, less  *)
(* those without access.                                                   *)
Selected(e) == {c \in Controllers : (GroupOf(c) = e.context \/ c \in e.controllers) /\ access(e.access, c)}

Mount_Stays(cs) ==
  /\ mounts' = Append(mounts, [entry |-> place, controllers |-> cs])
  /\ UNCHANGED <<program, entries, preparing, place, table>>

Mount(cs) ==
  /\ mounts' = Append(mounts, [entry |-> place, controllers |-> cs])
  /\ place' = place + 1
  /\ UNCHANGED <<program, entries, preparing, table>>

AtEntry(type) == preparing = "going" /\ place <= Len(entries) /\ entries[place].type = type

MountControllers ==
  /\ AtEntry("routing_controller") /\ Selected(entries[place]) # {}
  /\ Mount(Selected(entries[place]))

(* No controller is left: there is nothing to mount.                       *)
SkipControllers ==
  /\ AtEntry("routing_controller") /\ Selected(entries[place]) = {}
  /\ place' = place + 1
  /\ UNCHANGED <<program, entries, preparing, mounts, table>>

MountStatic == AtEntry("static_files") /\ Mount({})

(* TodoException.                                                          *)
UnknownType ==
  /\ AtEntry("other")
  /\ preparing' = "failed"
  /\ UNCHANGED <<program, entries, place, mounts, table>>

-----------------------------------------------------------------------------
(* The path that routing-controllers mounts a route at: it puts a slash    *)
(* before a prefix that has none.                                          *)
Path(m, route) ==
  LET prefix == entries[m.entry].prefix IN
  (IF prefix = <<>> \/ "/" \in ToSet(prefix) THEN <<>> ELSE <<"/">>) \o prefix \o route

(* The path that getRoutes expects and publishes for it: it puts a slash   *)
(* before every prefix.                                                    *)
Published(m, route) ==
  LET prefix == entries[m.entry].prefix IN
  (IF prefix = <<>> THEN <<>> ELSE <<"/">>) \o prefix \o route

(* Those of a sequence that are in a set, in their order.                  *)
Among(s, S) == FlattenSeq([i \in DOMAIN s |-> IF s[i] \in S THEN <<s[i]>> ELSE <<>>])

(* The routes in the stack of a mounted application.                       *)
Stack(m) == Among(program.actions, {a \in Actions : a.target \in m.controllers})

(* The actions that getRoutes recognises a route of the stack as: of all   *)
(* that are declared, mounted there or not, those of its path and method.  *)
Recognised_AnyMethod(m, a) == {b \in Actions : Published(m, b.route) = Path(m, a.route)}
Recognised(m, a) == {b \in Actions : Published(m, b.route) = Path(m, a.route) /\ b.type = a.type}

(* The row of the first of them, or one that has but the path.             *)
Resolved(m, a) == Head(Among(program.actions, Recognised(m, a)))

RowOf(m, b) ==
  [context |-> entries[m.entry].context, route |-> Published(m, b.route), method |-> b.type,
   controller |-> b.target, controllerMethod |-> b.name, permissions |-> b.permissions]

BareRow(m, route, type, controller) ==
  [context |-> entries[m.entry].context, route |-> route, method |-> type,
   controller |-> controller, controllerMethod |-> "none", permissions |-> Unpermitted]

Row(m, a) == IF Recognised(m, a) = {} THEN BareRow(m, Path(m, a.route), a.type, "none") ELSE RowOf(m, Resolved(m, a))

StaticRow(m) ==
  LET prefix == entries[m.entry].prefix IN
  BareRow(m, IF prefix # <<>> /\ Head(prefix) = "/" THEN prefix ELSE <<"/">> \o prefix, "get", "static")

RowsOf(m) ==
  IF entries[m.entry].type = "static_files" THEN <<StaticRow(m)>>
  ELSE [i \in DOMAIN Stack(m) |-> Row(m, Stack(m)[i])]

getRoutes == FlattenSeq([i \in DOMAIN mounts |-> RowsOf(mounts[i])])

(* After the last entry the routes are published in the cleared cache.     *)
Publish ==
  /\ preparing = "going" /\ place > Len(entries)
  /\ preparing' = "prepared" /\ table' = getRoutes
  /\ UNCHANGED <<program, entries, place, mounts>>

RouteNext == MountControllers \/ SkipControllers \/ MountStatic \/ UnknownType \/ Publish

RouteSpec == RouteInit /\ [][RouteNext]_routeVars

-----------------------------------------------------------------------------
(* Permissions of a request.                                               *)

(* Express tries the applications in the order they were mounted in, and   *)
(* the routes of each in theirs.                                           *)
Serving(method, path) ==
  LET all == FlattenSeq([i \in DOMAIN mounts |->
               Among(Stack(mounts[i]), {a \in Actions : a.type = method /\ Path(mounts[i], a.route) = path})])
  IN Head(all)

(* The parameters of a permission are replaced one after the other, at     *)
(* their first place, by each of the values that the request gives it.     *)
Given(params, w) == IF w \in DOMAIN params THEN w ELSE SnakeOf[w]

Replaced(right, w, v) ==
  [i \in DOMAIN right |-> IF right[i] = w /\ \A j \in 1 .. i - 1 : right[j] # w THEN v ELSE right[i]]

(* What is put in for one of the values vs: with several, separated by     *)
(* commas, each is trimmed, and all are converted.                         *)
Put(vs, v) == paramNorm[IF Len(vs) > 1 THEN Trim[v] ELSE v]

Multiplied(rights, w, params) ==
  IF Given(params, w) \notin DOMAIN params THEN rights
  ELSE LET vs == params[Given(params, w)] IN
       FlattenSeq([i \in DOMAIN vs |-> [j \in DOMAIN rights |-> Replaced(rights[j], w, Put(vs, vs[i]))]])

Parametrized(right, params) ==
  LET rights[n \in 0 .. Len(right)] ==
        IF n = 0 THEN <<right>>
        ELSE IF right[n] \in DOMAIN SnakeOf THEN Multiplied(rights[n - 1], right[n], params) ELSE rights[n - 1]
  IN rights[Len(right)]

(* The permissions in the table for a request: of rows that have some.     *)
Stated(method, path) ==
  LET found == Among(table, {x \in ToSet(table) : x.method = method /\ x.route = path /\ x.permissions # Unpermitted})
  IN FlattenSeq([i \in DOMAIN found |-> found[i].permissions])

getPermissionsForAction(method, path, params) ==
  LET all == Stated(method, path) IN FlattenSeq([i \in DOMAIN all |-> Parametrized(all[i], params)])

-----------------------------------------------------------------------------
(* Properties.                                                             *)

(* A permission with every parameter that the request has replaced by what *)
(* is put in for one of its values, in all combinations.                   *)
Instances(right, params) ==
  LET at(i) == IF right[i] \in DOMAIN SnakeOf /\ Given(params, right[i]) \in DOMAIN params
               THEN LET vs == params[Given(params, right[i])] IN {Put(vs, v) : v \in ToSet(vs)}
               ELSE {right[i]}
  IN {f \in [DOMAIN right -> UNION {at(i) : i \in DOMAIN right}] : \A i \in DOMAIN right : f[i] \in at(i)}

Requested == UNION {[D -> {<<v>> : v \in Values} \cup {<<v, w>> : v, w \in Values}] : D \in SUBSET DOMAIN SnakeOf}

(* An action that is mounted shares its path and method with no other, in  *)
(* whatever context that is, and no two mounts give a path twice.          *)
Unambiguous ==
  \A m \in ToSet(mounts) : \A a \in ToSet(Stack(m)) :
    /\ \A b \in Actions : b.type = a.type /\ Published(m, b.route) = Path(m, a.route) => b = a
    /\ \A n \in ToSet(mounts) : \A b \in ToSet(Stack(n)) :
         a.type = b.type /\ Path(m, a.route) = Path(n, b.route) => a = b

(* An action is known under a path: somewhere it is mounted at it, with a  *)
(* prefix that getRoutes and routing-controllers take for the same.        *)
Known(a, path) ==
  \E n \in ToSet(mounts) : a \in ToSet(Stack(n)) /\ Path(n, a.route) = path /\ Published(n, a.route) = path

(* The permissions that are found for a request are those of the action    *)
(* that serves it, with the values of the request, although the table that *)
(* they are looked up in is computed from other lists than the one that    *)
(* serves; there are none for an action that is not known under its path,  *)
(* as with a prefix that begins with a slash, which has a row without      *)
(* (Express.ts:120-191, RoutePermissionsHelper.ts:10-59).                  *)
PermissionsOfHandler ==
  preparing = "prepared" /\ Unambiguous =>
    \A m \in ToSet(mounts) : \A a \in ToSet(Stack(m)), params \in Requested :
      LET path == Path(m, a.route)
          h    == Serving(a.type, path)
      IN ToSet(getPermissionsForAction(a.type, path, params)) =
           IF h.permissions = Unpermitted \/ ~Known(h, path) THEN {}
           ELSE UNION {Instances(right, params) : right \in ToSet(h.permissions)}

(* The rules of a list that name a controller, and those whose pattern     *)
(* stands for it.                                                          *)
Naming(list, c)   == {i \in DOMAIN list : list[i].exact /\ list[i].name = c}
Covering(list, c) == {i \in DOMAIN list : ~list[i].exact /\ c \in Matches[list[i].name]}

(* Which controllers a list lets in, whatever the order of its patterns.   *)
LetsIn(list, c) ==
  \/ list = NoAccess
  \/ IF Naming(list, c) # {} THEN list[Min(Naming(list, c))].access = "allow"
     ELSE Covering(list, c) = {} \/ \E i \in Covering(list, c) : list[i].access = "allow"

(* The list does not contradict itself about a controller: a rule names it,*)
(* or the patterns that stand for it agree.                                *)
Agreed(list, c) ==
  \/ list = NoAccess
  \/ Naming(list, c) # {}
  \/ \A i, j \in Covering(list, c) : list[i].access = list[j].access

(* What is mounted for an entry is decided by its own context and list     *)
(* alone: by the first rule that names a controller, wherever it stands,   *)
(* else by the patterns for it, if they agree, and without either it is    *)
(* mounted (WebServer.ts:51-84, 104-141, Helper.ts:21-37).  What patterns  *)
(* that disagree come to is the subject of DeniedIsNotMounted.             *)
MountsWhatIsLetIn ==
  preparing = "prepared" =>
    \A i \in {j \in DOMAIN entries : entries[j].type = "routing_controller"}, c \in Controllers :
      LET mounted == \E m \in ToSet(mounts) : m.entry = i /\ c \in m.controllers
          meant   == GroupOf(c) = entries[i].context \/ c \in entries[i].controllers
      IN IF meant /\ Agreed(entries[i].access, c) THEN mounted <=> LetsIn(entries[i].access, c)
         ELSE mounted => meant

(* A controller that a pattern of the list denies is not mounted, unless a *)
(* later one allows it (docs/home.adoc:42-46).                             *)
DeniedIsNotMounted ==
  \A m \in ToSet(mounts) : \A c \in m.controllers :
    LET list == entries[m.entry].access IN
    list # NoAccess /\ (\A a \in ToSet(list) : ~a.exact) =>
      \A i \in DOMAIN list : list[i].access = "deny" /\ c \in Matches[list[i].name] =>
        \E j \in i + 1 .. Len(list) : list[j].access = "allow" /\ c \in Matches[list[j].name]
=============================================================================
