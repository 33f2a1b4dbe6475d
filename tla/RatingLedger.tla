---------------------------- MODULE RatingLedger ----------------------------
(***************************************************************************)
(* What posting a result promises, whatever the semaphore and the mutexes  *)
(* do: each result is settled once and as a whole, with the ratings that   *)
(* its two players have at that moment.                                    *)
(***************************************************************************)
CONSTANTS
  Players,
  Posters,        (* who hands in results, one at a time each              *)
  Results,
  Initial,        (* the rating of a new player                            *)
  Rate(_, _, _)   (* the two new ratings, for two ratings and a result     *)

VARIABLES
  rating,    (* of each player                                             *)
  pending    (* of each poster: the result that is not settled, or {}      *)

vars == <<rating, pending>>

Games == [player1 : Players, player2 : Players, result : Results]

Init ==
  /\ rating = [p \in Players |-> Initial]
  /\ pending = [t \in Posters |-> {}]

Submit(t, g) ==
  /\ pending[t] = {}
  /\ pending' = [pending EXCEPT ![t] = {g}]
  /\ UNCHANGED rating

(* The ratings after game g; a game of a player with itself is not rated.  *)
Settled(g) ==
  LET n == Rate(rating[g.player1], rating[g.player2], g.result)
  IN  IF g.player1 = g.player2 THEN rating
      ELSE [rating EXCEPT ![g.player1] = n[1], ![g.player2] = n[2]]

Settle(t) ==
  /\ pending' = [pending EXCEPT ![t] = {}]
  /\ \E g \in pending[t] : rating' = Settled(g)

Next == \E t \in Posters : Settle(t) \/ \E g \in Games : Submit(t, g)

Spec == Init /\ [][Next]_vars
=============================================================================
