---------------------------- MODULE MCGameSession ---------------------------
(* GameSession for TLC.                                                    *)
EXTENDS GameSession

(* Every square, as a digit or with a mark, and strings that do not parse. *)
MCMoves ==
  [form : {"digit"}, n : 0..9, mark : {NULL_ROLE}]
    \cup [form : {"arrow"}, n : {5}, mark : Roles \cup {NULL_ROLE}]
    \cup [form : {"other"}, n : {0}, mark : {NULL_ROLE}]

(* Squares of its own for each role: either can win, in one way, and play  *)
(* can go on after that.                                                   *)
FewMoves ==
  [form : {"arrow"}, n : {4, 5, 6, 9}, mark : {FIRST_PLAYER_ROLE}]
    \cup [form : {"arrow"}, n : {1, 2, 3}, mark : {SECOND_PLAYER_ROLE}]
=============================================================================
