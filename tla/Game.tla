-------------------------------- MODULE Game --------------------------------
(***************************************************************************)
(* Tic-tac-toe as src/game.c plays it: the GAME structure as a record and  *)
(* the functions on it as operators.  A function that may fail returns     *)
(* whether it succeeded together with the game it leaves behind.           *)
(***************************************************************************)
EXTENDS Integers, FiniteSets

(* GAME_ROLE.  A square of the board holds the role that took it, or 0.    *)
NULL_ROLE          == 0
FIRST_PLAYER_ROLE  == 1
SECOND_PLAYER_ROLE == 2

Roles   == {FIRST_PLAYER_ROLE, SECOND_PLAYER_ROLE}
Squares == 0..8
Boards  == [Squares -> Roles \cup {NULL_ROLE}]

Games == [rows : Boards, is_over : BOOLEAN,
          current_player : Roles \cup {NULL_ROLE},
          winner : Roles \cup {NULL_ROLE}]

OtherRole(r) ==
  IF r = FIRST_PLAYER_ROLE THEN SECOND_PLAYER_ROLE ELSE FIRST_PLAYER_ROLE

game_create ==
  [rows           |-> [s \in Squares |-> NULL_ROLE],
   is_over        |-> FALSE,
   current_player |-> FIRST_PLAYER_ROLE,
   winner         |-> NULL_ROLE]

-----------------------------------------------------------------------------
(* The lines of the board in the order in which game_is_over looks at      *)
(* them: rows, columns, diagonals.                                         *)
Lines == <<<<0, 1, 2>>, <<3, 4, 5>>, <<6, 7, 8>>,
           <<0, 3, 6>>, <<1, 4, 7>>, <<2, 5, 8>>,
           <<0, 4, 8>>, <<2, 4, 6>>>>

Taken(board, k) ==
  /\ board[Lines[k][1]] = board[Lines[k][2]]
  /\ board[Lines[k][2]] = board[Lines[k][3]]
  /\ board[Lines[k][1]] # NULL_ROLE

(* The first of the taken lines decides; a full board without one is a     *)
(* draw; otherwise is_over and winner stay as they are.                    *)
Verdict(g, taken) ==
  IF taken # {}
    THEN LET first == CHOOSE k \in taken : \A j \in taken : k <= j
         IN  [g EXCEPT !.is_over = TRUE, !.winner = g.rows[Lines[first][1]]]
  ELSE IF \A s \in Squares : g.rows[s] # NULL_ROLE
    THEN [g EXCEPT !.is_over = TRUE, !.winner = NULL_ROLE]
  ELSE g

(* Mutant: the second diagonal is forgotten.                               *)
game_is_over_one_diagonal(g) == Verdict(g, {k \in 1..7 : Taken(g.rows, k)})

game_is_over(g) == Verdict(g, {k \in 1..8 : Taken(g.rows, k)})

(* Mutant: whose turn it is is not looked at.                              *)
LegalMoveAnyTurn(g, move) == g.rows[move.move] = NULL_ROLE

(* The role on the move takes an empty square.  Whether the game is over   *)
(* already is not looked at.                                               *)
LegalMove(g, move) ==
  /\ g.current_player = move.role
  /\ g.rows[move.move] = NULL_ROLE

(* Mutant: the next role is the next number.                               *)
game_apply_move_next(g, move) ==
  game_is_over([g EXCEPT !.rows[move.move] = move.role,
                         !.current_player = @ + 1])

game_apply_move(g, move) ==
  game_is_over([g EXCEPT !.rows[move.move] = move.role,
                         !.current_player = OtherRole(@)])

(* Refused when there is a winner.                                         *)
game_resign(g, role) ==
  IF g.winner # NULL_ROLE
    THEN g
    ELSE [g EXCEPT !.current_player = NULL_ROLE,
                   !.is_over = TRUE,
                   !.winner = OtherRole(role)]

-----------------------------------------------------------------------------
(* A move as the client writes it: one character ("5"), or a digit, an     *)
(* arrow and a mark ("5<-X").  n is what atoi makes of the first character *)
(* (0 if it is no digit), mark the role that the last character names (0   *)
(* if it is neither X nor O).  Any other string is not recognised.         *)
MoveStrings == [form : {"digit", "arrow", "other"}, n : 0..9,
                mark : Roles \cup {NULL_ROLE}]

Parses(g, str) ==
  /\ str.form \in {"digit", "arrow"}
  /\ str.form = "arrow" /\ str.mark # NULL_ROLE => g.current_player = str.mark
  /\ str.n - 1 \in Squares

game_parse_move(role, str) == [move |-> str.n - 1, role |-> role]

-----------------------------------------------------------------------------
(* What winning means, stated without the scan: on a magic square, three   *)
(* squares are in line exactly when their weights add up to 15.            *)
Weight == <<2, 7, 6, 9, 5, 1, 4, 3, 8>>

Owned(board, r) == {Weight[s + 1] : s \in {s \in Squares : board[s] = r}}

HasLine(board, r) ==
  \E a, b, c \in Owned(board, r) : a < b /\ b < c /\ a + b + c = 15

Full(board) == \A s \in Squares : board[s] # NULL_ROLE
=============================================================================
