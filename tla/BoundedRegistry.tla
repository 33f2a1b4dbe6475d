--------------------------- MODULE BoundedRegistry ---------------------------
(***************************************************************************)
(* What the client registry promises, whatever its array, its semaphores   *)
(* and its mutex do: clients join and leave one at a time, each joins at   *)
(* most once or not at all, and there are never more than MAX_CLIENTS.     *)
(***************************************************************************)
EXTENDS Naturals, FiniteSets

CONSTANTS Conns, MAX_CLIENTS

VARIABLES
  waiting,   (* the connections that may yet join                          *)
  members    (* the clients that are registered                            *)

vars == <<waiting, members>>

Init == waiting = Conns /\ members = {}

Join(t) ==
  /\ t \in waiting
  /\ Cardinality(members) < MAX_CLIENTS
  /\ waiting' = waiting \ {t}
  /\ members' = members \cup {t}

GiveUp(t) ==
  /\ t \in waiting
  /\ waiting' = waiting \ {t}
  /\ UNCHANGED members

Leave(t) ==
  /\ t \in members
  /\ members' = members \ {t}
  /\ UNCHANGED waiting

Next == \E t \in Conns : Join(t) \/ GiveUp(t) \/ Leave(t)

Spec == Init /\ [][Next]_vars
=============================================================================
