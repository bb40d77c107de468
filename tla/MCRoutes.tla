------------------------------- MODULE MCRoutes -------------------------------
(***************************************************************************)
(* Values of RouteTable's constants for TLC.                               *)
(***************************************************************************)
EXTENDS Naturals, Sequences, SequencesExt

CONSTANTS None, Open

Three     == {"Data", "DataExtra", "Status"}
Patterns  == [x \in Three \cup {"*", "Data*"} |->
               IF x = "*" THEN Three ELSE IF x = "Data*" THEN {"Data", "DataExtra"} ELSE {x}]
Norm      == [x \in {"aName", " *", "*"} |-> IF x = "aName" THEN "a_name" ELSE x]
Trimmed   == [x \in {"aName", " *", "*"} |-> IF x = " *" THEN "*" ELSE x]
Snake     == [x \in {":nodeId", ":node_id"} |-> ":node_id"]

Action(c, n, t, r, p) == [target |-> c, name |-> n, type |-> t, route |-> r, permissions |-> p]
Group(c, g)           == [target |-> c, ctxtGroup |-> g]

(* One program in which every path has one action for a method, and one in *)
(* which two classes of different contexts have the same.                  *)
EachItsOwn ==
  [groups  |-> <<Group("Status", "api"), Group("DataExtra", "api"), Group("Status", "default")>>,
   actions |-> <<Action("Data", "query", "get", <<"/", "x">>, <<<<"may", ":nodeId", "or", ":nodeId">>, <<"may", "all">>>>),
                 Action("Data", "save", "post", <<"/", "x">>, <<<<"write", ":nodeId", ":node_id">>>>),
                 Action("DataExtra", "more", "get", <<"/", "more">>, Open),
                 Action("Status", "status", "get", <<"/", ":node_id">>, <<<<"see">>>>)>>]
SamePath ==
  [groups  |-> <<Group("DataExtra", "api")>>,
   actions |-> <<Action("Data", "query", "get", <<"/", "x">>, <<<<"may">>>>),
                 Action("DataExtra", "query", "get", <<"/", "x">>, Open),
                 Action("Status", "status", "get", <<"/", "y">>, <<<<"see">>>>)>>]
Two == {EachItsOwn, SamePath}

Items ==
  {[name |-> n, exact |-> x, access |-> a] :
     n \in {"*", "Data*", "Data"}, x \in BOOLEAN, a \in {"allow", "deny"}}
Lists == {None} \cup BoundedSeq(Items, 2)
Few   == {None, <<[name |-> "Data*", exact |-> FALSE, access |-> "deny"]>>}

Controlled(ctxts, prefixes, named, lists) ==
  [type : {"routing_controller"}, context : ctxts, prefix : prefixes, controllers : named, access : lists]
Other(types) ==
  [type : types, context : {"default"}, prefix : {<<>>, <<"p">>, <<"/", "p">>}, controllers : {{}}, access : {None}]

Alone  == Controlled({"default", "api", "empty"}, {<<"p">>}, {{}, {"Data"}}, Lists)
Beside == Controlled({"default", "api"}, {<<>>, <<"p">>, <<"/", "p">>}, {{}, {"DataExtra"}}, Few) \cup Other({"static_files", "other"})
Configured == {<<e>> : e \in Alone} \cup {<<e, f>> : e, f \in Beside}
=============================================================================
