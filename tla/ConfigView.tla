------------------------------- MODULE ConfigView -------------------------------
(***************************************************************************)
(* ServerStatusAPIController.getConfig: the configuration, or the part of  *)
(* it under a key, is copied and walked (Helper.walk), and the callback of *)
(* the walk takes out what the caller is not to see and puts names in the  *)
(* place of classes.  The walk changes what it walks over.  A copy belongs *)
(* to its request: one request will do.                                    *)
(***************************************************************************)
EXTENDS Naturals, Sequences, FiniteSets, SequencesExt

CONSTANTS
  Configs,     \* configurations: the kind of the value at every path
  Keys,        \* keys of maps and indices of lists
  ConfigKeys,  \* keys that are asked for, as paths; <<>> for none
  FilterLists, \* values of getFilterKeys(), a key or a path each
  RuleSets,    \* K_CONFIG_PERMISSIONS: the permissions that a path needs
  Grants,      \* permissions that a user has by its roles
  Anonymous,   \* DEFAULT_ANONYMOUS, the user of a server without users
  NoKey,       \* null
  AnObject     \* an array or object where a key is expected

(* A path is a sequence of keys; what is below a path is in a map or list. *)
Shapes == {"map", "list", "leaf", "class", "name"}

ASSUME ConfigAssumption ==
  /\ \A c \in Configs : IsFiniteSet(DOMAIN c) /\ <<>> \in DOMAIN c
  /\ \A c \in Configs : \A p \in DOMAIN c :
       /\ p \in Seq(Keys) /\ c[p] \in Shapes \ {"name"}
       /\ \A n \in 0 .. Len(p) - 1 : SubSeq(p, 1, n) \in DOMAIN c /\ c[SubSeq(p, 1, n)] \in {"map", "list"}
  /\ ConfigKeys \subseteq Seq(Keys)
  /\ NoKey \notin Keys /\ AnObject \notin Keys

VARIABLES
  settings, \* Config: the configuration, filter keys, permissions, K_CONFIG_ANONYMOUS_ALLOW
  wanted,   \* the key that was asked for, and by whom
  walking,  \* where the request is
  cfg,      \* the copy
  todo      \* the callbacks to come, each with the call of walk that follows

configVars == <<settings, wanted, walking, cfg, todo>>

Settings == [config : Configs, filterKeys : FilterLists, permissions : RuleSets, anonymous : BOOLEAN]
Asking   == [key : ConfigKeys, user : {Anonymous} \cup Grants]

(* What is to be visited is in the copy and below nothing that is.         *)
ConfigTypeOK ==
  /\ settings \in Settings /\ wanted \in Asking
  /\ walking \in {"asked", "walking", "answered", "forbidden"}
  /\ \A p \in DOMAIN cfg : cfg[p] \in Shapes
  /\ \A i \in DOMAIN todo : todo[i].node \in DOMAIN cfg
  /\ \A i, j \in DOMAIN todo : i # j => ~IsPrefix(todo[i].node, todo[j].node)
  /\ todo # <<>> => walking = "walking"

Unviewed == walking = "asked" /\ cfg = <<>> /\ todo = <<>>

ConfigInit == settings \in Settings /\ wanted \in Asking /\ Unviewed

-----------------------------------------------------------------------------
(* Helper.walk.                                                            *)

(* The keys of a map, the indices of a list.                               *)
Below(c, p) == SetToSeq({q \in DOMAIN c : q # <<>> /\ Front(q) = p})

(* A call of walk for what is at p: the callbacks that it makes, one for   *)
(* every key or element.  The call below an element gets the element as its*)
(* key, and a location that has the key of the list a second time.         *)
WalkMap(c, p, location) ==
  LET at(q) == Append(location, Last(q))
  IN [i \in DOMAIN Below(c, p) |->
        LET q == Below(c, p)[i]
        IN [node |-> q, parent |-> "map", key |-> Last(q), location |-> at(q),
            below |-> [key |-> Last(q), location |-> at(q)]]]

WalkList(c, p, key, location) ==
  LET deeper == IF key = NoKey THEN location ELSE Append(location, key)
  IN [i \in DOMAIN Below(c, p) |->
        LET q == Below(c, p)[i]
        IN [node |-> q, parent |-> "list", key |-> key, location |-> Append(location, Last(q)),
            below |-> [key |-> AnObject, location |-> Append(deeper, Last(q))]]]

walk_MapsOnly(c, p, key, location) == IF p \in DOMAIN c /\ c[p] = "map" THEN WalkMap(c, p, location) ELSE <<>>

(* A leaf at the root has a callback too, which finds no key and, as a copy*)
(* of a class is no class, nothing to do.                                  *)
walk(c, p, key, location) ==
  IF p \notin DOMAIN c THEN <<>>
  ELSE CASE c[p] = "map"  -> WalkMap(c, p, location)
         [] c[p] = "list" -> WalkList(c, p, key, location)
         [] OTHER         -> <<>>

-----------------------------------------------------------------------------
(* getConfig.                                                              *)

(* Config.get(key) and its copy; a copied class at the root is a map.      *)
Part(c, key) ==
  LET P == {q \in DOMAIN c : IsPrefix(key, q)}
  IN [p \in {SubSeq(q, Len(key) + 1, Len(q)) : q \in P} |->
        IF p = <<>> /\ c[key] = "class" THEN "map" ELSE c[key \o p]]

ViewConfig ==
  /\ walking = "asked"
  /\ wanted.user = Anonymous => settings.anonymous
  /\ walking' = "walking"
  /\ cfg' = Part(settings.config, wanted.key)
  /\ todo' = walk(cfg', <<>>, NoKey, <<>>)
  /\ UNCHANGED <<settings, wanted>>

(* ForbiddenError.                                                         *)
Forbid ==
  /\ walking = "asked"
  /\ wanted.user = Anonymous /\ ~settings.anonymous
  /\ walking' = "forbidden"
  /\ UNCHANGED <<settings, wanted, cfg, todo>>

(* PermissionHelper: Anonymous has the permission `*'.                     *)
Permitted(path) ==
  \/ path \notin DOMAIN settings.permissions \/ settings.permissions[path] = {}
  \/ wanted.user = Anonymous \/ wanted.user \cap settings.permissions[path] # {}

Hidden(v) ==
  /\ v.key \notin {NoKey, AnObject}
  /\ LET path == wanted.key \o v.location IN
     <<v.key>> \in settings.filterKeys \/ path \in settings.filterKeys \/ ~Permitted(path)

(* delete x.parent[x.key]: a list has nothing under the key of the list.   *)
Taken(v) == IF v.parent = "list" THEN cfg ELSE [p \in {q \in DOMAIN cfg : ~IsPrefix(v.node, q)} |-> cfg[p]]

Named(v) == IF cfg[v.node] = "class" THEN [cfg EXCEPT ![v.node] = "name"] ELSE cfg

Visit_OldCopy ==
  /\ walking = "walking" /\ todo # <<>>
  /\ LET v == Head(todo) IN
       /\ cfg' = IF Hidden(v) THEN Taken(v) ELSE Named(v)
       /\ todo' = walk(cfg, v.node, v.below.key, v.below.location) \o Tail(todo)
  /\ UNCHANGED <<settings, wanted, walking>>

(* The callback, and then walk for what is there after it.                 *)
Visit ==
  /\ walking = "walking" /\ todo # <<>>
  /\ LET v == Head(todo) IN
       /\ cfg' = IF Hidden(v) THEN Taken(v) ELSE Named(v)
       /\ todo' = walk(cfg', v.node, v.below.key, v.below.location) \o Tail(todo)
  /\ UNCHANGED <<settings, wanted, walking>>

ShowConfig ==
  /\ walking = "walking" /\ todo = <<>>
  /\ walking' = "answered"
  /\ UNCHANGED <<settings, wanted, cfg, todo>>

ConfigNext == ViewConfig \/ Forbid \/ Visit \/ ShowConfig

ConfigSpec == ConfigInit /\ [][ConfigNext]_configVars

-----------------------------------------------------------------------------
(* Properties.                                                             *)

InList(p) ==
  \E n \in 0 .. Len(p) - 1 : SubSeq(p, 1, n) \in DOMAIN settings.config /\ settings.config[SubSeq(p, 1, n)] = "list"

RulesAboveLists == \A p \in settings.filterKeys \cup DOMAIN settings.permissions : ~InList(p)

KeyFiltered(p) == settings.config[Front(p)] = "map" /\ <<Last(p)>> \in settings.filterKeys

Withheld(p) == KeyFiltered(p) \/ p \in settings.filterKeys \/ ~Permitted(p)

(* Below the key that was asked for, an answer has nothing at a filtered   *)
(* key, however deep in maps and lists.  If no rule is for something in a  *)
(* list, whose location the walk gets wrong, it has there what the         *)
(* configuration has, less what is withheld and all that is below it, with *)
(* names for classes, although the copy changes while it is walked.  Of the*)
(* key itself nothing is said: it is answered without a check              *)
(* (Helper.ts:171-220, ServerStatusAPIController.ts:102-141).              *)
AllowedBelowKey ==
  walking = "answered" =>
    LET whole    == Part(settings.config, wanted.key)
        shown(p) == \A n \in 1 .. Len(p) : ~Withheld(wanted.key \o SubSeq(p, 1, n))
    IN /\ \A p \in DOMAIN cfg \ {<<>>} : ~KeyFiltered(wanted.key \o p)
       /\ RulesAboveLists =>
            cfg = [p \in {q \in DOMAIN whole : shown(q)} |-> IF whole[p] = "class" THEN "name" ELSE whole[p]]
=============================================================================
