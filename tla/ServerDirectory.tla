---------------------------- MODULE ServerDirectory ----------------------------
(***************************************************************************)
(* What the section `server' of the configuration promises: every key      *)
(* names a server instance of its own, with the routes listed under it.    *)
(* Loading registers the instances one at a time; it may give up, and what *)
(* is registered by then stays as it is.                                   *)
(***************************************************************************)
EXTENDS Sequences

CONSTANTS Names, Routes

VARIABLES
  wanted,   \* the instances that are configured: name -> routes
  dir,      \* the instances that are registered: name -> routes they serve
  over      \* loading is over

vars == <<wanted, dir, over>>

Init ==
  /\ DOMAIN wanted \subseteq Names
  /\ \A n \in DOMAIN wanted : wanted[n] \in Seq(Routes)
  /\ dir = <<>>
  /\ over = FALSE

Register(n) ==
  /\ ~over /\ n \in DOMAIN wanted \ DOMAIN dir
  /\ dir' = [m \in DOMAIN dir \cup {n} |-> IF m = n THEN wanted[n] ELSE dir[m]]
  /\ over' \in BOOLEAN
  /\ UNCHANGED wanted

GiveUp == ~over /\ over' = TRUE /\ UNCHANGED <<wanted, dir>>

Next == GiveUp \/ \E n \in DOMAIN wanted : Register(n)

Spec == Init /\ [][Next]_vars
=============================================================================
