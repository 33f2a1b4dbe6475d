---------------------------- MODULE MatchRecord -----------------------------
(***************************************************************************)
(* What a game promises to the ratings, whatever its moves, resignations,  *)
(* packets and ends of connections do: its outcome is recorded at most     *)
(* once, as the game has it at that moment, and is final from then on.     *)
(* Until then the outcome of a game that is over may still change: an end  *)
(* that could not be announced does not keep the players from moving on.   *)
(***************************************************************************)
CONSTANT Outcomes

VARIABLES
  verdict,   (* {} while the game is in play, else the set of its outcome  *)
  record     (* the outcomes that have been recorded                       *)

vars == <<verdict, record>>

Init ==
  /\ verdict = {}
  /\ record = <<>>

Decide(outcome) ==
  /\ record = <<>>
  /\ verdict' = {outcome}
  /\ UNCHANGED record

Record(outcome) ==
  /\ record = <<>>
  /\ verdict = {outcome}
  /\ record' = <<outcome>>
  /\ UNCHANGED verdict

Next == \E outcome \in Outcomes : Decide(outcome) \/ Record(outcome)

Spec == Init /\ [][Next]_vars
=============================================================================
