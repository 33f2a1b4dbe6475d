-------------------------- MODULE GameSessionProofs --------------------------
(***************************************************************************)
(* A game from its start to its result, for every set of move strings that *)
(* the clients may send and every way in which their connections may fail. *)
(***************************************************************************)
EXTENDS GameSession, FiniteSetTheorems, SequenceTheorems, TLAPS

(* The lines that are taken, and by whom.                                  *)
TakenLines(board) == {k \in 1..8 : Taken(board, k)}

Owner(board, k) == board[Lines[k][1]]

(* What game_is_over leaves behind as long as nobody has resigned: the     *)
(* first of the taken lines has decided.                                   *)
Judged(g) ==
  /\ g.is_over <=> Full(g.rows) \/ TakenLines(g.rows) # {}
  /\ TakenLines(g.rows) = {} => g.winner = NULL_ROLE
  /\ TakenLines(g.rows) # {} =>
       \E k \in TakenLines(g.rows) :
         /\ \A j \in TakenLines(g.rows) : k <= j
         /\ g.winner = Owner(g.rows, k)

(* All lines that are taken belong to the winner.                          *)
SoleOwner(g) == \A k \in TakenLines(g.rows) : Owner(g.rows, k) = g.winner

Marks(board, r) == Cardinality({s \in Squares : board[s] = r})

Alternating(g) ==
  g.current_player # NULL_ROLE =>
    Marks(g.rows, FIRST_PLAYER_ROLE) = Marks(g.rows, SECOND_PLAYER_ROLE)
      + (IF g.current_player = FIRST_PLAYER_ROLE THEN 0 ELSE 1)

-----------------------------------------------------------------------------
(* The inductive invariant.                                                *)

(* Where a thread has CLIENT_INVITE_OP_SEM.                                *)
MoveOps   == {"send_moved", "send_ended", "send_own_ended", "finish_move"}
ResignOps == {"send_resigned", "finish_resign"}
Ops       == MoveOps \cup ResignOps

(* One operation is in progress at a time.                                 *)
OneOp == \A c \in Roles : pc[c] \in Ops <=> holder = c

(* The invitation is in both lists or in none, and in both of them while   *)
(* an operation is in progress; once the result is posted it is in none.   *)
ListsAgree ==
  /\ listed = Roles \/ listed = {}
  /\ \A c \in Roles : pc[c] \in Ops => listed = Roles
  /\ posted # <<>> => listed = {} /\ Len(posted) = 1

(* A client is leaving from the end of its connection on.                  *)
Leavers ==
  \A c \in Roles :
    /\ c \in leaving =>
         pc[c] \in ResignOps \cup {"logout", "revoke", "close", "gone"}
    /\ pc[c] \in {"close", "gone"} =>
         listed = {} \/ inv_state = "CLOSED" \/ c \in overtaken
    /\ pc[c] = "revoke" => c \in overtaken
    /\ link[c] = "closed" => pc[c] = "gone"

(* A connection over which nothing can be sent any more.                   *)
Broken == {"dead", "closed"}

(* What the operation in progress has done.                                *)
OpState ==
  \A c \in Roles :
    /\ pc[c] \in {"send_ended", "send_own_ended", "finish_move"} => game.is_over
    /\ pc[c] \in ResignOps => inv_state = "CLOSED" /\ game.is_over
    /\ alive /\ pc[c] = "send_resigned" =>
         game.winner = OtherRole(c) \/ link[OtherRole(c)] \in Broken
    /\ pc[c] = "finish_resign" => game.winner = OtherRole(c)

(* A game that c has won and that is still in the lists, although no       *)
(* operation of c is in progress, is one whose end could not be sent: the  *)
(* opponent's connection is broken, or closed, or that of c is broken and  *)
(* its next step is to send the NACK.                                      *)
UnsentEnd ==
  alive /\ inv_state = "ACCEPTED" /\ listed = Roles =>
    \A c \in Roles : game.winner = c /\ pc[c] \notin Ops =>
      \/ link[OtherRole(c)] \in Broken
      \/ link[c] = "dead" /\ pc[c] = "nack"

GameState ==
  /\ game.winner # NULL_ROLE => game.is_over
  /\ inv_state = "ACCEPTED" => Judged(game)
  /\ LinksUp /\ inv_state = "ACCEPTED" => SoleOwner(game)
  /\ Alternating(game)

PostedInTime == LinksUp /\ holder = NULL_ROLE /\ game.is_over => posted # <<>>

(* ResultIsWinner is not inductive by itself: client_resign_game posts the *)
(* opponent whatever game_resign has done, and that is right only because  *)
(* a winner that could still resign has found a connection broken          *)
(* (UnsentEnd), over which RESIGNED cannot be sent either (OpState).       *)
IInv ==
  /\ TypeOK
  /\ OneOp
  /\ ListsAgree
  /\ Leavers
  /\ OpState
  /\ UnsentEnd
  /\ GameState
  /\ PostedInTime
  /\ ResultIsWinner
-----------------------------------------------------------------------------
(* Roles, lines and boards.                                                *)

(* There are two roles.                                                    *)
LEMMA RoleFacts ==
  ASSUME NEW c \in Roles
  PROVE  /\ OtherRole(c) \in Roles /\ OtherRole(c) # c
         /\ OtherRole(OtherRole(c)) = c
         /\ c # NULL_ROLE /\ NULL_ROLE \notin Roles
         /\ Roles = {c, OtherRole(c)}
  BY DEF Roles, OtherRole, NULL_ROLE, FIRST_PLAYER_ROLE, SECOND_PLAYER_ROLE

(* The squares of each line.                                               *)
LEMMA LineSquares ==
  ASSUME NEW k \in 1..8
  PROVE  Lines[k][1] \in Squares /\ Lines[k][2] \in Squares /\ Lines[k][3] \in Squares
<1>1. k = 1 \/ k = 2 \/ k = 3 \/ k = 4 \/ k = 5 \/ k = 6 \/ k = 7 \/ k = 8
  OBVIOUS
<1> QED  BY <1>1 DEF Lines, Squares

(* Among some of the eight lines there is a first one.                     *)
LEMMA FirstLine ==
  ASSUME NEW S \in SUBSET (1..8), S # {}
  PROVE  \E k \in S : \A j \in S : k <= j
<1> SUFFICES ASSUME \A k \in S : \E j \in S : j < k  PROVE FALSE
  OBVIOUS
<1>1. 1 \notin S  OBVIOUS
<1>2. 2 \notin S  BY <1>1
<1>3. 3 \notin S  BY <1>1, <1>2
<1>4. 4 \notin S  BY <1>1, <1>2, <1>3
<1>5. 5 \notin S  BY <1>1, <1>2, <1>3, <1>4
<1>6. 6 \notin S  BY <1>1, <1>2, <1>3, <1>4, <1>5
<1>7. 7 \notin S  BY <1>1, <1>2, <1>3, <1>4, <1>5, <1>6
<1>8. 8 \notin S  BY <1>1, <1>2, <1>3, <1>4, <1>5, <1>6, <1>7
<1>9. PICK k \in S : TRUE
  OBVIOUS
<1>10. k = 1 \/ k = 2 \/ k = 3 \/ k = 4 \/ k = 5 \/ k = 6 \/ k = 7 \/ k = 8
  OBVIOUS
<1> QED  BY <1>1, <1>2, <1>3, <1>4, <1>5, <1>6, <1>7, <1>8, <1>9, <1>10

(* What game_is_over does to a game.                                       *)
LEMMA VerdictFacts ==
  ASSUME NEW g \in Games
  PROVE  LET g2 == game_is_over(g)
         IN  /\ g2 \in Games
             /\ g2.rows = g.rows /\ g2.current_player = g.current_player
             /\ g.is_over => g2.is_over
             /\ TakenLines(g.rows) # {} => g2.is_over /\
                  \E k \in TakenLines(g.rows) :
                    /\ \A j \in TakenLines(g.rows) : k <= j
                    /\ g2.winner = Owner(g.rows, k)
             /\ TakenLines(g.rows) = {} /\ Full(g.rows) =>
                  g2.is_over /\ g2.winner = NULL_ROLE
             /\ TakenLines(g.rows) = {} /\ ~Full(g.rows) => g2 = g
<1> DEFINE T  == TakenLines(g.rows)
           g2 == game_is_over(g)
<1>1. g2 = Verdict(g, T)
  BY DEF game_is_over, TakenLines
<1>2. /\ g.rows \in Boards /\ g.is_over \in BOOLEAN
      /\ g.current_player \in Roles \cup {NULL_ROLE}
      /\ g.winner \in Roles \cup {NULL_ROLE}
  BY DEF Games
<1>3. CASE T # {}
  <2> DEFINE first == CHOOSE k \in T : \A j \in T : k <= j
  <2>1. first \in T /\ \A j \in T : first <= j
    <3>1. T \in SUBSET (1..8)
      BY DEF TakenLines
    <3> HIDE DEF T
    <3> QED  BY <1>3, <3>1, FirstLine
  <2>2. g2 = [g EXCEPT !.is_over = TRUE, !.winner = g.rows[Lines[first][1]]]
    BY <1>1, <1>3 DEF Verdict
  <2>3. Lines[first][1] \in Squares
    BY <2>1, LineSquares DEF TakenLines
  <2> HIDE DEF first, T, g2
  <2>4. g.rows[Lines[first][1]] \in Roles \cup {NULL_ROLE}
    BY <1>2, <2>3 DEF Boards
  <2>5. /\ g2.is_over /\ g2.rows = g.rows /\ g2.current_player = g.current_player
        /\ g2.winner = Owner(g.rows, first) /\ g2 \in Games
    BY <1>2, <2>2, <2>4 DEF Games, Owner
  <2> QED  BY <1>3, <2>1, <2>5 DEF T, g2
<1>4. CASE T = {} /\ Full(g.rows)
  <2>1. g2 = [g EXCEPT !.is_over = TRUE, !.winner = NULL_ROLE]
    BY <1>1, <1>4 DEF Verdict, Full
  <2> HIDE DEF T, g2
  <2>2. /\ g2.is_over /\ g2.rows = g.rows /\ g2.current_player = g.current_player
        /\ g2.winner = NULL_ROLE /\ g2 \in Games
    BY <1>2, <2>1 DEF Games
  <2> QED  BY <1>4, <2>2 DEF T, g2
<1>5. CASE T = {} /\ ~Full(g.rows)
  <2>1. g2 = g
    BY <1>1, <1>5 DEF Verdict, Full
  <2> QED  BY <1>5, <2>1
<1> QED  BY <1>3, <1>4, <1>5

(* The magic square: having squares whose weights add up to 15 is having a *)
(* line.                                                                   *)
LEMMA MagicSquare ==
  ASSUME NEW b \in Boards, NEW r \in Roles
  PROVE  HasLine(b, r) <=> \E k \in TakenLines(b) : Owner(b, k) = r
<1> DEFINE Has(w) == w \in Owned(b, r)
<1>0. r # NULL_ROLE
  BY RoleFacts
<1>1. /\ (Has(2) <=> b[0] = r) /\ (Has(7) <=> b[1] = r) /\ (Has(6) <=> b[2] = r)
      /\ (Has(9) <=> b[3] = r) /\ (Has(5) <=> b[4] = r) /\ (Has(1) <=> b[5] = r)
      /\ (Has(4) <=> b[6] = r) /\ (Has(3) <=> b[7] = r) /\ (Has(8) <=> b[8] = r)
  <2>1. \A w : Has(w) <=> \E s \in Squares : b[s] = r /\ w = Weight[s + 1]
    BY DEF Owned
  <2>2. \A s \in Squares : s = 0 \/ s = 1 \/ s = 2 \/ s = 3 \/ s = 4 \/ s = 5 \/ s = 6
                            \/ s = 7 \/ s = 8
    BY DEF Squares
  <2>3. /\ Weight[0 + 1] = 2 /\ Weight[1 + 1] = 7 /\ Weight[2 + 1] = 6
        /\ Weight[3 + 1] = 9 /\ Weight[4 + 1] = 5 /\ Weight[5 + 1] = 1
        /\ Weight[6 + 1] = 4 /\ Weight[7 + 1] = 3 /\ Weight[8 + 1] = 8
    BY DEF Weight
  <2>4. /\ 0 \in Squares /\ 1 \in Squares /\ 2 \in Squares /\ 3 \in Squares
        /\ 4 \in Squares /\ 5 \in Squares /\ 6 \in Squares /\ 7 \in Squares
        /\ 8 \in Squares
    BY DEF Squares
  <2> HIDE DEF Has
  <2> QED  BY <2>1, <2>2, <2>3, <2>4
<1>2. \A w : Has(w) => w \in 1..9
  BY DEF Owned, Weight, Squares
<1>3. (\E k \in TakenLines(b) : Owner(b, k) = r) <=>
        \/ b[0] = r /\ b[1] = r /\ b[2] = r
        \/ b[3] = r /\ b[4] = r /\ b[5] = r
        \/ b[6] = r /\ b[7] = r /\ b[8] = r
        \/ b[0] = r /\ b[3] = r /\ b[6] = r
        \/ b[1] = r /\ b[4] = r /\ b[7] = r
        \/ b[2] = r /\ b[5] = r /\ b[8] = r
        \/ b[0] = r /\ b[4] = r /\ b[8] = r
        \/ b[2] = r /\ b[4] = r /\ b[6] = r
  <2> DEFINE In(k) == b[Lines[k][1]] = r /\ b[Lines[k][2]] = r /\ b[Lines[k][3]] = r
  <2>1. (\E k \in TakenLines(b) : Owner(b, k) = r) <=> \E k \in 1..8 : In(k)
    BY <1>0 DEF TakenLines, Taken, Owner
  <2>2. (\E k \in 1..8 : In(k)) <=>
          In(1) \/ In(2) \/ In(3) \/ In(4) \/ In(5) \/ In(6) \/ In(7) \/ In(8)
    <3> HIDE DEF In
    <3>1. \A k \in 1..8 : k = 1 \/ k = 2 \/ k = 3 \/ k = 4 \/ k = 5 \/ k = 6 \/ k = 7 \/ k = 8
      OBVIOUS
    <3> QED  BY <3>1
  <2>3. /\ In(1) <=> b[0] = r /\ b[1] = r /\ b[2] = r
        /\ In(2) <=> b[3] = r /\ b[4] = r /\ b[5] = r
        /\ In(3) <=> b[6] = r /\ b[7] = r /\ b[8] = r
        /\ In(4) <=> b[0] = r /\ b[3] = r /\ b[6] = r
    BY DEF Lines
  <2>4. /\ In(5) <=> b[1] = r /\ b[4] = r /\ b[7] = r
        /\ In(6) <=> b[2] = r /\ b[5] = r /\ b[8] = r
        /\ In(7) <=> b[0] = r /\ b[4] = r /\ b[8] = r
        /\ In(8) <=> b[2] = r /\ b[4] = r /\ b[6] = r
    BY DEF Lines
  <2> HIDE DEF In
  <2> QED  BY <2>1, <2>2, <2>3, <2>4
<1>4. HasLine(b, r) <=>
        \/ Has(2) /\ Has(7) /\ Has(6)
        \/ Has(9) /\ Has(5) /\ Has(1)
        \/ Has(4) /\ Has(3) /\ Has(8)
        \/ Has(2) /\ Has(9) /\ Has(4)
        \/ Has(7) /\ Has(5) /\ Has(3)
        \/ Has(6) /\ Has(1) /\ Has(8)
        \/ Has(2) /\ Has(5) /\ Has(8)
        \/ Has(6) /\ Has(5) /\ Has(4)
  <2>1. HasLine(b, r) <=> \E x, y, z :
          /\ Has(x) /\ Has(y) /\ Has(z)
          /\ x < y /\ y < z /\ x + y + z = 15
    BY DEF HasLine
  <2>2. \A x, y, z \in 1..9 : x < y /\ y < z /\ x + y + z = 15 =>
          \/ x = 1 /\ y = 5 /\ z = 9
          \/ x = 1 /\ y = 6 /\ z = 8
          \/ x = 2 /\ y = 4 /\ z = 9
          \/ x = 2 /\ y = 5 /\ z = 8
          \/ x = 2 /\ y = 6 /\ z = 7
          \/ x = 3 /\ y = 4 /\ z = 8
          \/ x = 3 /\ y = 5 /\ z = 7
          \/ x = 4 /\ y = 5 /\ z = 6
    OBVIOUS
  <2> HIDE DEF Has
  <2>3. ASSUME NEW x, NEW y, NEW z, Has(x), Has(y), Has(z),
               x < y, y < z, x + y + z = 15
        PROVE  \/ Has(2) /\ Has(7) /\ Has(6)
               \/ Has(9) /\ Has(5) /\ Has(1)
               \/ Has(4) /\ Has(3) /\ Has(8)
               \/ Has(2) /\ Has(9) /\ Has(4)
               \/ Has(7) /\ Has(5) /\ Has(3)
               \/ Has(6) /\ Has(1) /\ Has(8)
               \/ Has(2) /\ Has(5) /\ Has(8)
               \/ Has(6) /\ Has(5) /\ Has(4)
    <3>1. x \in 1..9 /\ y \in 1..9 /\ z \in 1..9
      BY <1>2, <2>3
    <3>2. \/ x = 1 /\ y = 5 /\ z = 9
          \/ x = 1 /\ y = 6 /\ z = 8
          \/ x = 2 /\ y = 4 /\ z = 9
          \/ x = 2 /\ y = 5 /\ z = 8
          \/ x = 2 /\ y = 6 /\ z = 7
          \/ x = 3 /\ y = 4 /\ z = 8
          \/ x = 3 /\ y = 5 /\ z = 7
          \/ x = 4 /\ y = 5 /\ z = 6
      BY <2>2, <2>3, <3>1
    <3> QED  BY <2>3, <3>2
  <2>4. /\ 2 < 6 /\ 6 < 7 /\ 2 + 6 + 7 = 15
        /\ 1 < 5 /\ 5 < 9 /\ 1 + 5 + 9 = 15
        /\ 3 < 4 /\ 4 < 8 /\ 3 + 4 + 8 = 15
        /\ 2 < 4 /\ 4 < 9 /\ 2 + 4 + 9 = 15
        /\ 3 < 5 /\ 5 < 7 /\ 3 + 5 + 7 = 15
        /\ 1 < 6 /\ 6 < 8 /\ 1 + 6 + 8 = 15
        /\ 2 < 5 /\ 5 < 8 /\ 2 + 5 + 8 = 15
        /\ 4 < 5 /\ 5 < 6 /\ 4 + 5 + 6 = 15
    OBVIOUS
  <2> QED  BY <2>1, <2>3, <2>4
<1> HIDE DEF Has
<1> QED  BY <1>1, <1>3, <1>4

(* A move: the game stays typed, its judgement right and the turns in      *)
(* order, and nobody but the role that moves becomes the winner.           *)
LEMMA MoveFacts ==
  ASSUME NEW g \in Games, NEW c \in Roles, NEW s \in Squares,
         g.current_player = c, g.rows[s] = NULL_ROLE
  PROVE  LET g2 == game_apply_move(g, [move |-> s, role |-> c])
         IN  /\ g2 \in Games
             /\ (g.winner # NULL_ROLE => g.is_over)
                  => (g2.winner # NULL_ROLE => g2.is_over)
             /\ Judged(g) => Judged(g2) /\ g2.winner \in {g.winner, c}
             /\ g.is_over => g2.is_over
             /\ Judged(g) /\ ~g.is_over => SoleOwner(g2)
             /\ Alternating(g) => Alternating(g2)
<1> DEFINE b1 == g.rows
           b2 == [b1 EXCEPT ![s] = c]
           h  == [g EXCEPT !.rows = b2, !.current_player = OtherRole(c)]
           g2 == game_apply_move(g, [move |-> s, role |-> c])
           T1 == TakenLines(b1)
           T2 == TakenLines(b2)
<1>1. g2 = game_is_over(h)
  BY DEF game_apply_move
<1>2. /\ c # NULL_ROLE /\ OtherRole(c) \in Roles /\ OtherRole(c) # NULL_ROLE
      /\ OtherRole(c) # c
  BY RoleFacts
<1>3. /\ b1 \in Boards /\ b2 \in Boards /\ g.is_over \in BOOLEAN
      /\ g.winner \in Roles \cup {NULL_ROLE}
  BY DEF Games, Boards
<1>4. /\ h \in Games /\ h.rows = b2 /\ h.is_over = g.is_over
      /\ h.winner = g.winner /\ h.current_player = OtherRole(c)
  BY <1>2, <1>3 DEF Games
<1>5. b2[s] = c /\ b1[s] = NULL_ROLE /\ \A x \in Squares \ {s} : b2[x] = b1[x]
  BY <1>3 DEF Boards
<1> HIDE DEF b2
<1>6. ASSUME NEW k \in 1..8
      PROVE  /\ k \in T1 => k \in T2 /\ Owner(b2, k) = Owner(b1, k)
             /\ k \in T2 /\ k \notin T1 => Owner(b2, k) = c
  <2> DEFINE x == Lines[k][1]
             y == Lines[k][2]
             z == Lines[k][3]
  <2>1. x \in Squares /\ y \in Squares /\ z \in Squares
    BY LineSquares
  <2>2. /\ k \in T1 <=> b1[x] = b1[y] /\ b1[y] = b1[z] /\ b1[x] # NULL_ROLE
        /\ k \in T2 <=> b2[x] = b2[y] /\ b2[y] = b2[z] /\ b2[x] # NULL_ROLE
        /\ Owner(b1, k) = b1[x] /\ Owner(b2, k) = b2[x]
    BY DEF TakenLines, Taken, Owner
  <2> HIDE DEF x, y, z, T1, T2, b1
  <2> QED  BY <1>2, <1>5, <2>1, <2>2
<1>7. T1 \in SUBSET (1..8) /\ T2 \in SUBSET (1..8)
  BY DEF TakenLines
<1> HIDE DEF h, g2
<1>8. /\ g2 \in Games /\ g2.rows = b2 /\ g2.current_player = OtherRole(c)
      /\ g.is_over => g2.is_over
  BY <1>1, <1>4, VerdictFacts
<1>9. T2 # {} => g2.is_over /\ \E k \in T2 :
                   (\A j \in T2 : k <= j) /\ g2.winner = Owner(b2, k)
  BY <1>1, <1>4, VerdictFacts
<1>10. /\ T2 = {} /\ Full(b2) => g2.is_over /\ g2.winner = NULL_ROLE
       /\ T2 = {} /\ ~Full(b2) => g2 = h
  BY <1>1, <1>4, VerdictFacts
<1> HIDE DEF T1, T2
<1>11. ASSUME g.winner # NULL_ROLE => g.is_over, g2.winner # NULL_ROLE
       PROVE  g2.is_over
  BY <1>4, <1>8, <1>9, <1>10, <1>11
<1>12. ~Full(b1)
  BY <1>5 DEF Full
<1>13. T2 = {} => T1 = {}
  BY <1>6, <1>7
<1>14. ASSUME Judged(g)  PROVE Judged(g2) /\ g2.winner \in {g.winner, c}
  <2>1. /\ g.is_over <=> T1 # {}
        /\ T1 = {} => g.winner = NULL_ROLE
        /\ T1 # {} => \E k \in T1 :
             (\A j \in T1 : k <= j) /\ g.winner = Owner(b1, k)
    BY <1>12, <1>14 DEF Judged, T1
  <2>2. CASE T2 = {}
    <3>1. T1 = {} /\ ~g.is_over /\ g.winner = NULL_ROLE
      BY <1>13, <2>1, <2>2
    <3>2. (g2.is_over <=> Full(b2)) /\ g2.winner = NULL_ROLE
      BY <1>4, <1>10, <2>2, <3>1
    <3> QED  BY <1>8, <2>2, <3>1, <3>2 DEF Judged, T2
  <2>3. CASE T2 # {}
    <3>1. PICK k \in T2 : (\A j \in T2 : k <= j) /\ g2.winner = Owner(b2, k)
      BY <1>9, <2>3
    <3>2. Judged(g2)
      BY <1>8, <1>9, <2>3 DEF Judged, T2
    <3>3. CASE k \in T1
      <4>1. PICK i \in T1 : (\A j \in T1 : i <= j) /\ g.winner = Owner(b1, i)
        BY <2>1, <3>3
      <4>2. i \in 1..8 /\ k \in 1..8 /\ i \in T2
        BY <1>6, <1>7
      <4>3. i = k
        BY <3>1, <3>3, <4>1, <4>2
      <4> QED  BY <1>6, <3>1, <3>2, <3>3, <4>1, <4>2, <4>3
    <3>4. CASE k \notin T1
      <4>1. k \in 1..8
        BY <1>7
      <4> QED  BY <1>6, <3>1, <3>2, <3>4, <4>1
    <3> QED  BY <3>3, <3>4
  <2> QED  BY <2>2, <2>3
<1>15. ASSUME Judged(g), ~g.is_over  PROVE SoleOwner(g2)
  <2>1. T1 = {}
    BY <1>15 DEF Judged, T1
  <2>2. \A k \in T2 : Owner(b2, k) = c
    BY <1>6, <1>7, <2>1
  <2>3. T2 # {} => g2.winner = c
    BY <1>9, <2>2
  <2> QED  BY <1>8, <2>2, <2>3 DEF SoleOwner, T2
<1>16. ASSUME Alternating(g)  PROVE Alternating(g2)
  <2> DEFINE A(b, r) == {x \in Squares : b[x] = r}
  <2>1. ASSUME NEW b, NEW r
        PROVE  IsFiniteSet(A(b, r)) /\ Cardinality(A(b, r)) \in Nat
    <3>1. IsFiniteSet(Squares)
      <4>1. 0 \in Int /\ 8 \in Int
        OBVIOUS
      <4> QED  BY <4>1, FS_Interval DEF Squares
    <3>2. A(b, r) \in SUBSET Squares
      OBVIOUS
    <3> QED  BY <3>1, <3>2, FS_Subset, FS_CardinalityType
  <2>2. A(b2, c) = A(b1, c) \cup {s} /\ s \notin A(b1, c)
    BY <1>2, <1>5
  <2>3. A(b2, OtherRole(c)) = A(b1, OtherRole(c))
    BY <1>2, <1>5
  <2> HIDE DEF A
  <2>4. /\ Cardinality(A(b2, c)) = Cardinality(A(b1, c)) + 1
        /\ Cardinality(A(b2, OtherRole(c))) = Cardinality(A(b1, OtherRole(c)))
    <3>1. IsFiniteSet(A(b1, c))
      BY <2>1
    <3>2. Cardinality(A(b1, c) \cup {s}) = Cardinality(A(b1, c)) + 1
      BY <2>2, <3>1, FS_AddElement
    <3> QED  BY <2>2, <2>3, <3>2
  <2>5. /\ Marks(b2, c) = Marks(b1, c) + 1 /\ Marks(b1, c) \in Nat
        /\ Marks(b2, OtherRole(c)) = Marks(b1, OtherRole(c))
        /\ Marks(b1, OtherRole(c)) \in Nat
    <3>1. \A b, r : Marks(b, r) = Cardinality(A(b, r))
      BY DEF Marks, A
    <3> QED  BY <2>1, <2>4, <3>1
  <2>6. Marks(b1, FIRST_PLAYER_ROLE) = Marks(b1, SECOND_PLAYER_ROLE)
          + (IF c = FIRST_PLAYER_ROLE THEN 0 ELSE 1)
    BY <1>2, <1>16 DEF Alternating
  <2>7. Marks(b2, FIRST_PLAYER_ROLE) = Marks(b2, SECOND_PLAYER_ROLE)
          + (IF OtherRole(c) = FIRST_PLAYER_ROLE THEN 0 ELSE 1)
    <3>1. CASE c = FIRST_PLAYER_ROLE
      BY <2>5, <2>6, <3>1 DEF OtherRole, FIRST_PLAYER_ROLE, SECOND_PLAYER_ROLE
    <3>2. CASE c = SECOND_PLAYER_ROLE
      BY <2>5, <2>6, <3>2 DEF OtherRole, FIRST_PLAYER_ROLE, SECOND_PLAYER_ROLE
    <3> QED  BY <3>1, <3>2 DEF Roles
  <2> QED  BY <1>8, <2>7 DEF Alternating
<1> QED  BY <1>8, <1>11, <1>14, <1>15, <1>16 DEF g2

(* A resignation: unless there is a winner, the opponent is the winner.    *)
LEMMA ResignFacts ==
  ASSUME NEW g \in Games, NEW c \in Roles, g.winner # NULL_ROLE => g.is_over
  PROVE  LET g2 == game_resign(g, c)
         IN  /\ g2 \in Games /\ g2.is_over
             /\ g2.winner = IF g.winner # NULL_ROLE THEN g.winner ELSE OtherRole(c)
             /\ g2.winner # NULL_ROLE
             /\ Alternating(g) => Alternating(g2)
<1>1. OtherRole(c) \in Roles /\ OtherRole(c) # NULL_ROLE
  BY RoleFacts
<1>2. CASE g.winner # NULL_ROLE
  BY <1>2 DEF game_resign
<1>3. CASE g.winner = NULL_ROLE
  <2> DEFINE g2 == game_resign(g, c)
  <2>1. g2 = [g EXCEPT !.current_player = NULL_ROLE, !.is_over = TRUE,
                       !.winner = OtherRole(c)]
    BY <1>3 DEF game_resign
  <2>2. /\ g2 \in Games /\ g2.is_over /\ g2.winner = OtherRole(c)
        /\ g2.current_player = NULL_ROLE
    BY <1>1, <2>1 DEF Games
  <2> HIDE DEF g2
  <2>3. Alternating(g2)
    BY <2>2 DEF Alternating
  <2> QED  BY <1>1, <1>3, <2>2, <2>3 DEF g2
<1> QED  BY <1>2, <1>3
-----------------------------------------------------------------------------
(* Steps.                                                                  *)

(* The first state satisfies the invariant.                                *)
LEMMA InitIInv == Init => IInv
<1> SUFFICES ASSUME Init  PROVE IInv
  OBVIOUS
<1> USE DEF Init
<1>0. Roles # {} /\ NULL_ROLE \notin Roles
  BY DEF Roles, NULL_ROLE, FIRST_PLAYER_ROLE, SECOND_PLAYER_ROLE
<1>1. /\ game \in Games /\ ~game.is_over /\ game.winner = NULL_ROLE
      /\ game.rows = [s \in Squares |-> NULL_ROLE]
      /\ game.current_player = FIRST_PLAYER_ROLE
  BY DEF game_create, Games, Boards, Roles
<1> DEFINE Start(s, at, reply, l) ==
             /\ at # "recv" => l # "up"
             /\ reply = "nack" => l = "dead"
             /\ pc = [c \in Roles |-> IF c = s THEN at ELSE reply]
             /\ leaving = (IF at = "recv" THEN {} ELSE {s})
             /\ overtaken = (IF at = "revoke" THEN {s} ELSE {})
             /\ link = [c \in Roles |-> IF c = s THEN l ELSE "up"]
<1>8. PICK s \in Roles, at \in {"recv", "logout", "revoke"},
           reply \in {"ack", "nack"}, l \in StartLinks : Start(s, at, reply, l)
  OBVIOUS
<1>9. l \in Links /\ l # "closed"
  BY DEF StartLinks, Links
<1>10. \A c \in Roles : /\ pc[c] \in {"recv", "logout", "revoke", "ack", "nack"}
                        /\ pc[c] = "revoke" => c \in overtaken
                        /\ c \in leaving => pc[c] \in {"logout", "revoke"}
                        /\ link[c] # "closed"
  BY <1>8, <1>9
<1>2. TypeOK
  BY <1>1, <1>8, <1>9, EmptySeq DEF TypeOK, PCs, Links
<1>3. OneOp /\ ListsAgree /\ Leavers /\ OpState
  BY <1>0, <1>10 DEF OneOp, ListsAgree, Leavers, OpState, Ops, MoveOps, ResignOps
<1>4. UnsentEnd /\ PostedInTime /\ ResultIsWinner
  BY <1>0, <1>1 DEF UnsentEnd, PostedInTime, ResultIsWinner
<1>5. TakenLines(game.rows) = {} /\ ~Full(game.rows)
  <2>1. \A k \in 1..8 : ~Taken(game.rows, k)
    BY <1>1, LineSquares DEF Taken
  <2>2. 0 \in Squares
    BY DEF Squares
  <2> QED  BY <1>1, <2>1, <2>2 DEF TakenLines, Full
<1>6. Judged(game) /\ SoleOwner(game)
  BY <1>1, <1>5 DEF Judged, SoleOwner
<1>7. Alternating(game)
  <2>1. ASSUME NEW r \in Roles  PROVE Marks(game.rows, r) = 0
    <3>1. {q \in Squares : game.rows[q] = r} = {}
      BY <1>0, <1>1
    <3> QED  BY <3>1, FS_EmptySet DEF Marks
  <2>2. FIRST_PLAYER_ROLE \in Roles /\ SECOND_PLAYER_ROLE \in Roles
    BY DEF Roles
  <2>3. /\ Marks(game.rows, FIRST_PLAYER_ROLE) = 0
        /\ Marks(game.rows, SECOND_PLAYER_ROLE) = 0
    BY <2>1, <2>2
  <2> QED  BY <1>1, <2>3 DEF Alternating
<1> QED  BY <1>1, <1>2, <1>3, <1>4, <1>6, <1>7 DEF IInv, GameState

(* A send, whether it succeeds or not, is not one over a broken            *)
(* connection, which would end the process.                                *)
LEMMA SendFacts ==
  ASSUME TypeOK, NEW d \in Roles, SendOk(d) \/ SendFails(d)
  PROVE  link' \in [Roles -> Links] /\ link[d] # "dead"
  BY DEF TypeOK, SendOk, SendFails, Links

(* No connection comes up again, is repaired or closed by a send.          *)
LEMMA OneLinkChanges ==
  ASSUME TypeOK, NEW d \in Roles, SendOk(d) \/ SendFails(d), NEW r \in Roles
  PROVE  /\ link'[r] = "up" => link[r] = "up"
         /\ link[r] = "dead" => link'[r] = "dead"
         /\ link'[r] = "closed" <=> link[r] = "closed"
  BY DEF TypeOK, SendOk, SendFails, Links

(* Steps outside the operations.                                           *)
LEMMA QuietStep ==
  ASSUME IInv, UNCHANGED opVars, TypeOK', Leavers', alive' => alive,
         \A r \in Roles : pc[r] \in Ops \/ pc'[r] \in Ops => pc'[r] = pc[r],
         \A r \in Roles : link[r] \in Broken => link'[r] \in Broken,
         \A r \in Roles : link[r] = "dead" /\ pc[r] = "nack" =>
           link'[r] = "dead" /\ pc'[r] = "nack",
         LinksUp' => LinksUp
  PROVE  IInv'
<1> USE DEF IInv
<1>1. UNCHANGED <<game, inv_state, listed, posted, holder>>
  BY DEF opVars
<1>2. OneOp' /\ ListsAgree'
  BY <1>1 DEF OneOp, ListsAgree
<1>3. ASSUME NEW r \in Roles
      PROVE  /\ pc'[r] \in {"send_ended", "send_own_ended", "finish_move"} =>
                  game'.is_over
             /\ pc'[r] \in ResignOps => inv_state' = "CLOSED" /\ game'.is_over
             /\ alive' /\ pc'[r] = "send_resigned" =>
                  game'.winner = OtherRole(r) \/ link'[OtherRole(r)] \in Broken
             /\ pc'[r] = "finish_resign" => game'.winner = OtherRole(r)
  <2> DEFINE o == OtherRole(r)
  <2>1. o \in Roles /\ OtherRole(o) = r
    BY RoleFacts
  <2> HIDE DEF o
  <2>2. pc'[r] \in Ops => pc'[r] = pc[r]
    OBVIOUS
  <2>3. pc'[r] \in {"send_ended", "send_own_ended", "finish_move"} => game'.is_over
    BY <1>1, <2>2 DEF OpState, Ops, MoveOps
  <2>4. pc'[r] \in ResignOps => pc[r] = pc'[r]
    BY <2>2 DEF Ops
  <2>7. pc'[r] \in ResignOps => inv_state' = "CLOSED" /\ game'.is_over
    BY <1>1, <2>4 DEF OpState
  <2>8. pc'[r] = "finish_resign" => game'.winner = o
    BY <1>1, <2>4 DEF OpState, ResignOps, o
  <2>9. alive' /\ pc'[r] = "send_resigned" =>
          game'.winner = o \/ link'[o] \in Broken
    BY <1>1, <2>1, <2>4 DEF OpState, ResignOps, o
  <2> QED  BY <2>3, <2>7, <2>8, <2>9 DEF o
<1>4. OpState'
  BY <1>3 DEF OpState
<1>5. UnsentEnd'
  <2> SUFFICES ASSUME alive', inv_state' = "ACCEPTED", listed' = Roles,
                      NEW r \in Roles, game'.winner = r, pc'[r] \notin Ops
               PROVE  \/ link'[OtherRole(r)] \in Broken
                      \/ link'[r] = "dead" /\ pc'[r] = "nack"
    BY DEF UnsentEnd
  <2>1. OtherRole(r) \in Roles /\ Roles # {}
    BY RoleFacts
  <2>2. pc[r] \notin Ops
    OBVIOUS
  <2>3. link[OtherRole(r)] \in Broken \/ (link[r] = "dead" /\ pc[r] = "nack")
    BY <1>1, <2>2 DEF UnsentEnd
  <2> QED  BY <2>1, <2>3
<1>6. GameState' /\ PostedInTime' /\ ResultIsWinner'
  BY <1>1 DEF GameState, PostedInTime, ResultIsWinner
<1> QED  BY <1>2, <1>4, <1>5, <1>6

(* The peers change connections only.                                      *)
LEMMA PeerStep ==
  ASSUME IInv, NEW c \in Roles, Peer(c)
  PROVE  IInv'
<1>1. PICK l \in {"fin", "rst"} :
        /\ link[c] \in {"up", "fin"} /\ link' = [link EXCEPT ![c] = l]
        /\ UNCHANGED <<opVars, pc, leaving, overtaken, alive>>
  BY DEF Peer, PeerCloses, PeerAborts
<1>2. UNCHANGED <<game, inv_state, listed, posted, holder>>
  BY <1>1 DEF opVars
<1>3. TypeOK'
  BY <1>1, <1>2 DEF IInv, TypeOK, Links
<1>4. \A r \in Roles : /\ link'[r] = "closed" => link[r] = "closed"
                       /\ link[r] \in Broken => link'[r] = link[r]
                       /\ link'[r] = "up" => link[r] = "up"
  BY <1>1 DEF IInv, TypeOK, Broken
<1>5. Leavers'
  BY <1>1, <1>2, <1>4 DEF IInv, Leavers
<1>6. LinksUp' => LinksUp
  BY <1>4 DEF LinksUp
<1> QED  BY <1>1, <1>3, <1>4, <1>5, <1>6, QuietStep DEF Broken

(* A MOVE or RESIGN that is refused, from a packet or in client_logout,    *)
(* and the revocation that comes too late.                                 *)
LEMMA RefuseStep ==
  ASSUME IInv, NEW c \in Roles, NEW from \in {"recv", "logout", "revoke"}, NEW str,
         \/ RefuseMove(c, str) /\ from = "recv"
         \/ RefuseResign(c, from)
         \/ RefuseRevoke(c) /\ from = "revoke"
  PROVE  IInv'
<1>1. PICK to \in {"nack", "close"} :
        /\ pc[c] = from /\ pc' = [pc EXCEPT ![c] = to]
        /\ holder = NULL_ROLE
        /\ UNCHANGED <<opVars, link, leaving, overtaken, alive>>
        /\ to = "close" => ~Resignable(c) \/ from = "revoke"
        /\ to = "nack" => c \notin leaving \/ from = "recv"
  BY DEF RefuseMove, RefuseResign, RefuseRevoke, Continue, After
<1>2. UNCHANGED <<game, inv_state, listed, posted, holder>>
  BY <1>1 DEF opVars
<1>3. pc'[c] = to /\ \A r \in Roles \ {c} : pc'[r] = pc[r]
  BY <1>1 DEF IInv, TypeOK
<1>4. TypeOK'
  BY <1>1, <1>2 DEF IInv, TypeOK, PCs
<1>5. \A r \in Roles : pc[r] \notin Ops
  BY <1>1, RoleFacts DEF IInv, OneOp
<1>6. Leavers'
  <2>1. to = "nack" => c \notin leaving
    BY <1>1 DEF IInv, Leavers, ResignOps
  <2>2. to = "close" => listed = {} \/ inv_state = "CLOSED" \/ c \in overtaken
    BY <1>1 DEF IInv, TypeOK, ListsAgree, Resignable, Leavers
  <2>3. link[c] # "closed"
    BY <1>1 DEF IInv, Leavers
  <2> QED  BY <1>1, <1>2, <1>3, <2>1, <2>2, <2>3 DEF IInv, Leavers
<1>7. \A r \in Roles : pc'[r] \notin Ops
  BY <1>3, <1>5 DEF Ops, MoveOps, ResignOps
<1>8. \A r \in Roles : pc[r] = "nack" => pc'[r] = "nack"
  BY <1>1, <1>3
<1>9. LinksUp' => LinksUp
  BY <1>1 DEF LinksUp
<1> QED  BY <1>1, <1>4, <1>5, <1>6, <1>7, <1>8, <1>9, QuietStep

(* The ACK or NACK at the end of an operation.                             *)
LEMMA ReplyStep ==
  ASSUME IInv, NEW c \in Roles, Reply(c)
  PROVE  IInv'
<1>1. /\ pc[c] \in {"ack", "nack"} /\ pc' = [pc EXCEPT ![c] = "recv"]
      /\ UNCHANGED <<opVars, leaving, overtaken, alive>>
      /\ SendOk(c) \/ SendFails(c)
  BY DEF Reply, Continue
<1>2. UNCHANGED <<game, inv_state, listed, posted, holder>>
  BY <1>1 DEF opVars
<1>0. link' \in [Roles -> Links] /\ link[c] # "dead"
  BY <1>1, SendFacts DEF IInv
<1>3. \A r \in Roles : /\ link'[r] = "up" => link[r] = "up"
                       /\ link[r] = "dead" => link'[r] = "dead"
                       /\ link'[r] = "closed" <=> link[r] = "closed"
  BY <1>1, OneLinkChanges DEF IInv
<1>4. pc'[c] = "recv" /\ \A r \in Roles \ {c} : pc'[r] = pc[r]
  BY <1>1 DEF IInv, TypeOK
<1>5. TypeOK'
  BY <1>0, <1>1, <1>2 DEF IInv, TypeOK, PCs
<1>6. Leavers'
  <2>1. c \notin leaving /\ link[c] # "closed"
    BY <1>1 DEF IInv, Leavers, ResignOps
  <2> QED  BY <1>1, <1>2, <1>3, <1>4, <2>1 DEF IInv, Leavers
<1>7. \A r \in Roles : pc[r] \in Ops \/ pc'[r] \in Ops => pc'[r] = pc[r]
  BY <1>1, <1>4 DEF Ops, MoveOps, ResignOps
<1>8. \A r \in Roles : link[r] = "dead" /\ pc[r] = "nack" => pc'[r] = "nack"
  BY <1>0, <1>4
<1>9. LinksUp' => LinksUp
  BY <1>3 DEF LinksUp
<1>10. \A r \in Roles : link[r] \in Broken => link'[r] \in Broken
  BY <1>3 DEF Broken
<1> QED  BY <1>1, <1>3, <1>5, <1>6, <1>7, <1>8, <1>9, <1>10, QuietStep

(* The connection of c has ended: client_logout begins, or there is        *)
(* nothing to resign.                                                      *)
LEMMA EofStep ==
  ASSUME IInv, NEW c \in Roles, ReceiveEof(c)
  PROVE  IInv'
<1>1. /\ pc[c] = "recv" /\ link[c] \in {"fin", "rst", "dead"}
      /\ link' = [link EXCEPT ![c] = IF @ = "rst" THEN "dead" ELSE @]
      /\ leaving' = leaving \cup {c}
      /\ pc' = [pc EXCEPT ![c] = IF c \in listed THEN "logout" ELSE "close"]
      /\ UNCHANGED <<opVars, overtaken, alive>>
  BY DEF ReceiveEof
<1>2. UNCHANGED <<game, inv_state, listed, posted, holder>>
  BY <1>1 DEF opVars
<1>3. /\ pc'[c] = IF c \in listed THEN "logout" ELSE "close"
      /\ \A r \in Roles \ {c} : pc'[r] = pc[r]
  BY <1>1 DEF IInv, TypeOK
<1>4. \A r \in Roles : /\ link'[r] = "up" => link[r] = "up"
                       /\ link[r] = "dead" => link'[r] = "dead"
                       /\ link'[r] = "closed" <=> link[r] = "closed"
  BY <1>1 DEF IInv, TypeOK
<1>5. TypeOK'
  BY <1>1, <1>2 DEF IInv, TypeOK, PCs, Links
<1>6. c \notin listed => listed = {}
  BY DEF IInv, ListsAgree
<1>7. Leavers'
  <2>1. link[c] # "closed"
    BY <1>1 DEF IInv, Leavers
  <2> QED  BY <1>1, <1>2, <1>3, <1>4, <1>6, <2>1 DEF IInv, Leavers
<1>8. \A r \in Roles : pc[r] \in Ops \/ pc'[r] \in Ops => pc'[r] = pc[r]
  BY <1>1, <1>3 DEF Ops, MoveOps, ResignOps
<1>9. \A r \in Roles : link[r] \in Broken => link'[r] \in Broken
  BY <1>4 DEF Broken
<1>10. \A r \in Roles : link[r] = "dead" /\ pc[r] = "nack" => pc'[r] = "nack"
  BY <1>1, <1>3
<1>11. LinksUp' => LinksUp
  BY <1>4 DEF LinksUp
<1> QED  BY <1>1, <1>4, <1>5, <1>7, <1>8, <1>9, <1>10, <1>11, QuietStep

(* The thread closes its descriptor and ends.                              *)
LEMMA CloseStep ==
  ASSUME IInv, NEW c \in Roles, Close(c)
  PROVE  IInv'
<1>1. /\ pc[c] = "close" /\ pc' = [pc EXCEPT ![c] = "gone"]
      /\ link' = [link EXCEPT ![c] = "closed"]
      /\ UNCHANGED <<opVars, leaving, overtaken, alive>>
  BY DEF Close, Continue
<1>2. UNCHANGED <<game, inv_state, listed, posted, holder>>
  BY <1>1 DEF opVars
<1>3. /\ pc'[c] = "gone" /\ link'[c] = "closed"
      /\ \A r \in Roles \ {c} : pc'[r] = pc[r] /\ link'[r] = link[r]
  BY <1>1 DEF IInv, TypeOK
<1>4. TypeOK'
  BY <1>1, <1>2 DEF IInv, TypeOK, PCs, Links
<1>5. Leavers'
  BY <1>1, <1>2, <1>3 DEF IInv, Leavers
<1>6. \A r \in Roles : pc[r] \in Ops \/ pc'[r] \in Ops => pc'[r] = pc[r]
  BY <1>1, <1>3 DEF Ops, MoveOps, ResignOps
<1>7. \A r \in Roles : link[r] \in Broken => link'[r] \in Broken
  BY <1>1, <1>3 DEF Broken
<1>8. \A r \in Roles : pc[r] = "nack" => pc'[r] = "nack" /\ link'[r] = link[r]
  BY <1>1, <1>3
<1>9. LinksUp' => LinksUp
  BY <1>3 DEF LinksUp
<1> QED  BY <1>1, <1>4, <1>5, <1>6, <1>7, <1>8, <1>9, QuietStep

(* The process is killed, or nothing happens.                              *)
LEMMA DeadStep ==
  ASSUME IInv, UNCHANGED <<opVars, pc, leaving, overtaken, link>>, alive' => alive,
         alive' \in BOOLEAN
  PROVE  IInv'
<1>1. UNCHANGED <<game, inv_state, listed, posted, holder, pc, leaving,
                overtaken, link>>
  BY DEF opVars
<1>2. TypeOK' /\ Leavers' /\ (LinksUp' => LinksUp)
  BY <1>1 DEF IInv, TypeOK, Leavers, LinksUp
<1> QED  BY <1>1, <1>2, QuietStep

(* A legal move is made.                                                   *)
LEMMA MakeMoveStep ==
  ASSUME IInv, NEW c \in Roles, NEW str \in Moves, MakeMove(c, str)
  PROVE  IInv'
<1> DEFINE o == OtherRole(c)
           s == str.n - 1
<1>1. /\ holder = NULL_ROLE /\ holder' = c /\ alive
      /\ pc[c] = "recv" /\ pc' = [pc EXCEPT ![c] = "send_moved"]
      /\ c \in listed
      /\ game' = game_apply_move(game, [move |-> s, role |-> c])
      /\ s \in Squares /\ game.current_player = c /\ game.rows[s] = NULL_ROLE
      /\ UNCHANGED <<inv_state, listed, posted, link, leaving, overtaken, alive>>
  BY DEF MakeMove, Acquire, Continue, Playable, Parses, LegalMove, game_parse_move
<1>2. o \in Roles /\ o # c /\ Roles = {c, o} /\ OtherRole(o) = c /\ c # NULL_ROLE
      /\ o # NULL_ROLE
  BY RoleFacts
<1> HIDE DEF s
<1>3. /\ game' \in Games
      /\ game'.winner # NULL_ROLE => game'.is_over
      /\ Judged(game) => Judged(game') /\ game'.winner \in {game.winner, c}
      /\ Judged(game) /\ ~game.is_over => SoleOwner(game')
      /\ Alternating(game')
  BY <1>1, MoveFacts DEF IInv, TypeOK, GameState
<1>4. listed = Roles /\ posted = <<>>
  BY <1>1 DEF IInv, ListsAgree
<1>5. pc'[c] = "send_moved" /\ pc'[o] = pc[o] /\ pc[o] \notin Ops
  BY <1>1, <1>2 DEF IInv, TypeOK, OneOp
<1> HIDE DEF o
<1>6. TypeOK'
  BY <1>1, <1>3 DEF IInv, TypeOK, PCs
<1>7. OneOp'
  BY <1>1, <1>2, <1>5 DEF OneOp, Ops, MoveOps
<1>8. ListsAgree'
  BY <1>1, <1>4 DEF ListsAgree
<1>9. Leavers'
  <2>1. c \notin leaving /\ link[c] # "closed"
    BY <1>1 DEF IInv, Leavers, ResignOps
  <2> QED  BY <1>1, <1>2, <1>5, <2>1 DEF IInv, Leavers
<1>10. OpState'
  <2>1. \A r \in Roles : pc'[r] \in Ops => r = c
    BY <1>2, <1>5
  <2>2. \A r \in Roles : pc'[r] \notin {"send_ended", "send_own_ended", "finish_move"}
                         /\ pc'[r] \notin ResignOps
    BY <1>5, <2>1 DEF Ops, MoveOps, ResignOps
  <2> QED  BY <2>2 DEF OpState, ResignOps
<1>11. UnsentEnd'
  <2> SUFFICES ASSUME inv_state = "ACCEPTED", NEW r \in Roles, game'.winner = r,
                      pc'[r] \notin Ops
               PROVE  \/ link[OtherRole(r)] \in Broken
                      \/ link[r] = "dead" /\ pc'[r] = "nack"
    BY <1>1 DEF UnsentEnd
  <2>1. r = o
    BY <1>2, <1>5 DEF Ops, MoveOps
  <2>2. game.winner = o
    BY <1>2, <1>3, <2>1 DEF IInv, GameState
  <2> QED  BY <1>1, <1>4, <1>5, <2>1, <2>2 DEF IInv, UnsentEnd
<1>12. GameState'
  <2>1. inv_state' = "ACCEPTED" => Judged(game')
    BY <1>1, <1>3 DEF IInv, GameState
  <2>2. ASSUME LinksUp', inv_state' = "ACCEPTED"  PROVE SoleOwner(game')
    <3>1. LinksUp /\ Judged(game)
      BY <1>1, <2>2 DEF LinksUp, IInv, GameState
    <3>2. ~game.is_over
      BY <1>1, <1>4, <3>1 DEF IInv, PostedInTime
    <3> QED  BY <1>3, <3>1, <3>2
  <2> QED  BY <1>3, <2>1, <2>2 DEF GameState
<1>13. PostedInTime' /\ ResultIsWinner'
  BY <1>1, <1>2, <1>4 DEF PostedInTime, ResultIsWinner
<1> QED  BY <1>6, <1>7, <1>8, <1>9, <1>10, <1>11, <1>12, <1>13 DEF IInv

(* A send to d inside an operation of c, which goes on at to, or returns   *)
(* because the game is not over or because the send has failed.            *)
OpSend(c, d, to) ==
  /\ alive /\ pc[c] \in Ops /\ pc' = [pc EXCEPT ![c] = to]
  /\ UNCHANGED <<game, inv_state, listed, posted, leaving, overtaken, alive>>
  /\ \/ SendOk(d) /\ to \in Ops /\ UNCHANGED holder
     \/ /\ SendOk(d) \/ SendFails(d)
        /\ to \in {"ack", "nack", "close"} /\ holder' = NULL_ROLE
  /\ c \in leaving => to \in {"finish_resign", "close"}
  /\ to = "close" => inv_state = "CLOSED"
  /\ to \in Ops => game.is_over
  /\ to \in ResignOps =>
       to = "finish_resign" /\ pc[c] = "send_resigned" /\ d = OtherRole(c)
  /\ to \notin Ops => \/ ~game.is_over
                      \/ inv_state = "CLOSED" /\ SendFails(d)
                      \/ SendFails(d) /\ d = OtherRole(c)
                      \/ SendFails(d) /\ d = c /\ to = "nack"

(* Such a send keeps the invariant.                                        *)
LEMMA OpSendStep ==
  ASSUME IInv, NEW c \in Roles, NEW d \in Roles, NEW to \in PCs, OpSend(c, d, to)
  PROVE  IInv'
<1> USE DEF OpSend
<1> DEFINE o == OtherRole(c)
<1>1. o \in Roles /\ o # c /\ Roles = {c, o} /\ OtherRole(o) = c /\ c # NULL_ROLE
      /\ o # NULL_ROLE
  BY RoleFacts
<1>0. link' \in [Roles -> Links] /\ link[d] # "dead"
  BY SendFacts DEF IInv
<1>2. \A r \in Roles : /\ link'[r] = "up" => link[r] = "up"
                       /\ link[r] = "dead" => link'[r] = "dead"
                       /\ link'[r] = "closed" <=> link[r] = "closed"
  BY OneLinkChanges DEF IInv
<1>3. /\ pc'[c] = to /\ pc'[o] = pc[o] /\ pc[o] \notin Ops /\ holder = c
  BY <1>1 DEF IInv, TypeOK, OneOp
<1>4. listed = Roles /\ posted = <<>>
  BY <1>1 DEF IInv, ListsAgree
<1>5. to \in Ops \/ to \in {"ack", "nack", "close"}
  OBVIOUS
<1>6. to \in {"ack", "nack", "close"} => to \notin Ops
  BY DEF Ops, MoveOps, ResignOps
<1> HIDE DEF o
<1>7. TypeOK'
  <2>1. holder' \in Roles \cup {NULL_ROLE}
    BY <1>3
  <2>2. pc' \in [Roles -> PCs]
    BY DEF IInv, TypeOK
  <2> QED  BY <1>0, <2>1, <2>2 DEF IInv, TypeOK
<1>8. OneOp'
  <2>1. to \in Ops => holder' = c
    BY <1>3, <1>6
  <2>2. to \notin Ops => holder' = NULL_ROLE
    BY <1>5
  <2> QED  BY <1>1, <1>3, <2>1, <2>2 DEF OneOp
<1>9. ListsAgree'
  BY <1>4 DEF ListsAgree
<1>10. Leavers'
  <2>1. link[c] # "closed"
    BY DEF IInv, Leavers, Ops, MoveOps, ResignOps
  <2>2. to # "gone" /\ to # "revoke"
    BY <1>5 DEF Ops, MoveOps, ResignOps
  <2> QED  BY <1>1, <1>2, <1>3, <2>1, <2>2 DEF IInv, Leavers, ResignOps
<1>11. OpState'
  <2>1. ASSUME to \in ResignOps
        PROVE  /\ inv_state = "CLOSED"
               /\ to = "finish_resign" /\ game.winner = o
    <3>1. /\ pc[c] = "send_resigned" /\ link[o] \notin Broken
          /\ to = "finish_resign"
      BY <1>0, <1>6, <2>1 DEF o, SendOk, Broken
    <3> QED  BY <3>1 DEF IInv, OpState, ResignOps, o
  <2>2. to \in {"send_ended", "send_own_ended", "finish_move"} => game.is_over
    BY DEF Ops, MoveOps
  <2>3. to = "finish_resign" => to \in ResignOps
    BY DEF ResignOps
  <2>4. to # "send_resigned"
    BY <2>1 DEF ResignOps
  <2>5. pc[o] \notin ResignOps
        /\ pc[o] \notin {"send_ended", "send_own_ended", "finish_move"}
    BY <1>3 DEF Ops, MoveOps
  <2>6. pc[o] \notin {"send_resigned", "finish_resign"}
    BY <2>5 DEF ResignOps
  <2>7. to \in ResignOps => game.is_over
    BY DEF Ops
  <2> QED  BY <1>1, <1>3, <2>1, <2>2, <2>3, <2>4, <2>5, <2>6, <2>7 DEF OpState, o
<1>12. UnsentEnd'
  <2> SUFFICES ASSUME inv_state = "ACCEPTED", NEW r \in Roles, game.winner = r,
                      pc'[r] \notin Ops
               PROVE  \/ link'[OtherRole(r)] \in Broken
                      \/ link'[r] = "dead" /\ pc'[r] = "nack"
    BY DEF UnsentEnd
  <2>1. CASE r = o
    <3>1. link[c] \in Broken \/ (link[o] = "dead" /\ pc[o] = "nack")
      BY <1>1, <1>3, <1>4, <2>1 DEF IInv, UnsentEnd
    <3> QED  BY <1>1, <1>2, <1>3, <2>1, <3>1 DEF Broken
  <2>2. CASE r = c
    <3>1. to \notin Ops /\ game.is_over
      BY <1>1, <1>3, <2>2 DEF IInv, GameState
    <3>2. /\ SendFails(d)
          /\ d = o \/ (d = c /\ to = "nack")
      BY <3>1 DEF o
    <3>3. link[c] # "closed"
      BY <1>3 DEF IInv, Leavers, Ops, MoveOps, ResignOps
    <3>4. link'[d] \in Broken /\ (d = c => link'[d] = "dead")
      BY <3>2, <3>3 DEF IInv, TypeOK, SendFails, Broken
    <3> QED  BY <1>3, <2>2, <3>2, <3>4 DEF o
  <2> QED  BY <1>1, <2>1, <2>2
<1>13. LinksUp' => LinksUp
  BY <1>2 DEF LinksUp
<1>14. GameState'
  BY <1>13 DEF IInv, GameState
<1>15. PostedInTime'
  <2> SUFFICES ASSUME LinksUp', holder' = NULL_ROLE, game.is_over  PROVE FALSE
    BY DEF PostedInTime
  <2>1. to \notin Ops
    BY <1>1, <1>3, <1>6
  <2>2. SendFails(d)
    BY <2>1
  <2>3. link'[d] # "up"
    BY <2>2 DEF IInv, TypeOK, SendFails
  <2> QED  BY <2>3 DEF LinksUp
<1>16. ResultIsWinner'
  BY <1>4 DEF ResultIsWinner
<1> QED  BY <1>7, <1>8, <1>9, <1>10, <1>11, <1>12, <1>14, <1>15, <1>16 DEF IInv

(* MOVED and the two ENDED packets of an operation of c.                   *)
LEMMA MoveSendStep ==
  ASSUME IInv, NEW c \in Roles, SendMoved(c) \/ SendEnded(c) \/ SendOwnEnded(c)
  PROVE  IInv'
<1>1. PICK o \in Roles : o = OtherRole(c)
  BY RoleFacts
<1>2. /\ alive /\ pc[c] \in {"send_moved", "send_ended", "send_own_ended"}
      /\ UNCHANGED <<game, inv_state, listed, posted, leaving, overtaken, alive>>
  BY DEF SendMoved, SendEnded, SendOwnEnded, Return, Continue
<1>3. pc[c] \in Ops /\ c \notin leaving
  BY <1>2 DEF IInv, Leavers, Ops, MoveOps, ResignOps
<1>4. \A reply : After(c, reply) = reply
  BY <1>3 DEF After
<1>5. pc[c] \in {"send_ended", "send_own_ended"} => game.is_over
  BY DEF IInv, OpState
<1>6. /\ {"send_ended", "send_own_ended", "finish_move"} \subseteq Ops
      /\ {"send_ended", "send_own_ended", "finish_move"} \cap ResignOps = {}
      /\ {"ack", "nack"} \cap Ops = {} /\ {"ack", "nack"} \cap ResignOps = {}
      /\ {"ack", "nack", "send_ended", "send_own_ended", "finish_move"} \subseteq PCs
  BY DEF Ops, MoveOps, ResignOps, PCs
<1>7. CASE SendMoved(c)
  <2>1. PICK to \in {"ack", "nack", "send_ended"} :
          /\ pc' = [pc EXCEPT ![c] = to]
          /\ \/ to = "ack" /\ SendOk(o) /\ ~game.is_over /\ holder' = NULL_ROLE
             \/ to = "send_ended" /\ SendOk(o) /\ game.is_over /\ UNCHANGED holder
             \/ to = "nack" /\ SendFails(o) /\ holder' = NULL_ROLE
    BY <1>1, <1>4, <1>7 DEF SendMoved, Return, Continue
  <2>2. to \in PCs /\ to # "close" /\ to \notin ResignOps
        /\ (to \in Ops <=> to = "send_ended")
    BY <1>6, <2>1
  <2>3. \/ SendOk(o) /\ to \in Ops /\ UNCHANGED holder
        \/ /\ SendOk(o) \/ SendFails(o)
           /\ to \in {"ack", "nack", "close"} /\ holder' = NULL_ROLE
    BY <2>1, <2>2
  <2>4. /\ to \in Ops => game.is_over
        /\ to \notin Ops => ~game.is_over \/ (SendFails(o) /\ o = OtherRole(c))
    BY <1>1, <2>1, <2>2
  <2>5. OpSend(c, o, to)
    BY <1>2, <1>3, <2>1, <2>2, <2>3, <2>4 DEF OpSend
  <2> QED  BY <1>1, <2>2, <2>5, OpSendStep
<1>8. CASE SendEnded(c)
  <2>1. PICK to \in {"nack", "send_own_ended"} :
          /\ pc' = [pc EXCEPT ![c] = to] /\ game.is_over
          /\ \/ to = "send_own_ended" /\ SendOk(o) /\ UNCHANGED holder
             \/ to = "nack" /\ SendFails(o) /\ holder' = NULL_ROLE
    BY <1>1, <1>4, <1>5, <1>8 DEF SendEnded, Return, Continue
  <2>2. to \in PCs /\ to # "close" /\ to \notin ResignOps
        /\ (to \in Ops <=> to = "send_own_ended")
    BY <1>6, <2>1
  <2>3. \/ SendOk(o) /\ to \in Ops /\ UNCHANGED holder
        \/ /\ SendOk(o) \/ SendFails(o)
           /\ to \in {"ack", "nack", "close"} /\ holder' = NULL_ROLE
    BY <2>1, <2>2
  <2>4. to \notin Ops => SendFails(o) /\ o = OtherRole(c)
    BY <1>1, <2>1, <2>2
  <2>5. OpSend(c, o, to)
    BY <1>2, <1>3, <2>1, <2>2, <2>3, <2>4 DEF OpSend
  <2> QED  BY <1>1, <2>2, <2>5, OpSendStep
<1>9. CASE SendOwnEnded(c)
  <2>1. PICK to \in {"nack", "finish_move"} :
          /\ pc' = [pc EXCEPT ![c] = to] /\ game.is_over
          /\ \/ to = "finish_move" /\ SendOk(c) /\ UNCHANGED holder
             \/ to = "nack" /\ SendFails(c) /\ holder' = NULL_ROLE
    BY <1>4, <1>5, <1>9 DEF SendOwnEnded, Return, Continue
  <2>2. to \in PCs /\ to # "close" /\ to \notin ResignOps
        /\ (to \in Ops <=> to = "finish_move")
    BY <1>6, <2>1
  <2>3. OpSend(c, c, to)
    BY <1>2, <1>3, <2>1, <2>2 DEF OpSend
  <2> QED  BY <2>2, <2>3, OpSendStep
<1> QED  BY <1>7, <1>8, <1>9

(* RESIGNED is sent to the opponent.                                       *)
LEMMA ResignSendStep ==
  ASSUME IInv, NEW c \in Roles, SendResigned(c)
  PROVE  IInv'
<1>1. PICK o \in Roles : o = OtherRole(c)
  BY RoleFacts
<1>2. /\ alive /\ pc[c] = "send_resigned"
      /\ UNCHANGED <<game, inv_state, listed, posted, leaving, overtaken, alive>>
  BY DEF SendResigned, Return, Continue
<1>3. pc[c] \in Ops /\ pc[c] \in ResignOps
  BY <1>2 DEF Ops, ResignOps
<1>4. inv_state = "CLOSED" /\ game.is_over
  BY <1>3 DEF IInv, OpState
<1>5. /\ "finish_resign" \in Ops /\ {"nack", "close"} \cap Ops = {}
      /\ {"nack", "close"} \cap ResignOps = {}
      /\ {"nack", "close", "finish_resign"} \subseteq PCs
  BY DEF Ops, MoveOps, ResignOps, PCs
<1>6. PICK to \in {"nack", "close", "finish_resign"} :
        /\ pc' = [pc EXCEPT ![c] = to]
        /\ c \in leaving => to # "nack"
        /\ \/ to = "finish_resign" /\ SendOk(o) /\ UNCHANGED holder
           \/ to \in {"nack", "close"} /\ SendFails(o) /\ holder' = NULL_ROLE
  BY <1>1 DEF SendResigned, Return, Continue, After
<1>7. to \in PCs /\ (to \in Ops <=> to = "finish_resign")
      /\ (to \in ResignOps => to = "finish_resign")
  BY <1>5, <1>6
<1>8. \/ SendOk(o) /\ to \in Ops /\ UNCHANGED holder
      \/ /\ SendOk(o) \/ SendFails(o)
         /\ to \in {"ack", "nack", "close"} /\ holder' = NULL_ROLE
  BY <1>6, <1>7
<1>9. /\ c \in leaving => to \in {"finish_resign", "close"}
      /\ to \in ResignOps =>
           to = "finish_resign" /\ pc[c] = "send_resigned" /\ o = OtherRole(c)
      /\ to \notin Ops => inv_state = "CLOSED" /\ SendFails(o)
  BY <1>1, <1>2, <1>4, <1>6, <1>7
<1>10. OpSend(c, o, to)
  BY <1>2, <1>3, <1>4, <1>6, <1>7, <1>8, <1>9 DEF OpSend
<1> QED  BY <1>1, <1>7, <1>10, OpSendStep

(* The result is posted, and the invitation leaves the lists.              *)
LEMMA FinishStep ==
  ASSUME IInv, NEW c \in Roles, FinishMove(c) \/ FinishResign(c)
  PROVE  IInv'
<1> DEFINE o == OtherRole(c)
<1>1. o \in Roles /\ o # c /\ Roles = {c, o} /\ OtherRole(o) = c
      /\ c # NULL_ROLE /\ o # NULL_ROLE
  BY RoleFacts
<1>2. PICK to \in {"ack", "close"} :
        /\ alive /\ pc[c] \in {"finish_move", "finish_resign"}
        /\ pc' = [pc EXCEPT ![c] = to] /\ holder' = NULL_ROLE
        /\ c \in leaving => to = "close"
        /\ listed' = listed \ {c, o}
        /\ UNCHANGED <<game, inv_state, link, leaving, overtaken, alive>>
  BY DEF FinishMove, FinishResign, Return, Continue, After
<1>3. pc[c] \in Ops
  BY <1>2 DEF Ops, MoveOps, ResignOps
<1>4. posted = <<>> /\ listed = Roles
  BY <1>3 DEF IInv, ListsAgree, TypeOK
<1>5. posted' = Append(posted, game.winner) /\ game.is_over
  <2>1. CASE FinishMove(c)
    <3>1. pc[c] = "finish_move" /\ posted' = Append(posted, game.winner)
      BY <2>1 DEF FinishMove, Return, Continue
    <3> QED  BY <3>1 DEF IInv, OpState
  <2>2. CASE FinishResign(c)
    <3>1. pc[c] = "finish_resign" /\ posted' = Append(posted, OtherRole(c))
      BY <2>2 DEF FinishResign, Return, Continue
    <3> QED  BY <3>1 DEF IInv, OpState, ResignOps
  <2> QED  BY <2>1, <2>2
<1> HIDE DEF o
<1>6. /\ posted' \in Seq(Roles \cup {NULL_ROLE}) /\ Len(posted') = 1
      /\ posted'[1] = game.winner /\ posted' # <<>>
  <2>1. game.winner \in Roles \cup {NULL_ROLE} /\ posted \in Seq(Roles \cup {NULL_ROLE})
    BY DEF IInv, TypeOK, Games
  <2>2. Len(posted) = 0
    BY <1>4
  <2> QED  BY <1>5, <2>1, <2>2, AppendProperties
<1>7. listed' = {}
  BY <1>1, <1>2, <1>4
<1>8. pc'[c] = to /\ pc'[o] = pc[o] /\ pc[o] \notin Ops /\ to \notin Ops
  <2>1. pc'[c] = to /\ pc'[o] = pc[o]
    BY <1>1, <1>2 DEF IInv, TypeOK
  <2>2. pc[o] \notin Ops
    BY <1>1, <1>3 DEF IInv, OneOp
  <2>3. to \notin Ops
    BY DEF Ops, MoveOps, ResignOps
  <2> QED  BY <2>1, <2>2, <2>3
<1>9. \A r \in Roles : pc'[r] \notin Ops
  BY <1>1, <1>8
<1>10. TypeOK'
  <2>1. pc' \in [Roles -> PCs]
    BY <1>2 DEF IInv, TypeOK, PCs
  <2> QED  BY <1>2, <1>6, <1>7, <2>1 DEF IInv, TypeOK
<1>11. OneOp' /\ ListsAgree'
  BY <1>2, <1>6, <1>7, <1>9, RoleFacts DEF OneOp, ListsAgree
<1>12. Leavers'
  <2>1. link[c] # "closed"
    BY <1>2 DEF IInv, Leavers
  <2> QED  BY <1>1, <1>2, <1>7, <1>8, <2>1 DEF IInv, Leavers
<1>13. OpState'
  <2>1. \A r \in Roles : /\ pc'[r] \notin {"send_ended", "send_own_ended", "finish_move"}
                         /\ pc'[r] \notin ResignOps
    BY <1>9 DEF Ops, MoveOps
  <2> QED  BY <2>1 DEF OpState, ResignOps
<1>14. UnsentEnd'
  BY <1>1, <1>7 DEF UnsentEnd
<1>15. GameState'
  BY <1>2 DEF IInv, GameState, LinksUp
<1>16. PostedInTime' /\ ResultIsWinner'
  BY <1>2, <1>5, <1>6 DEF PostedInTime, ResultIsWinner
<1> QED  BY <1>10, <1>11, <1>12, <1>13, <1>14, <1>15, <1>16 DEF IInv

(* client_resign_game, from a packet or from client_logout: inv_close and  *)
(* game_resign.                                                            *)
LEMMA ResignStep ==
  ASSUME IInv, NEW c \in Roles, NEW from \in {"recv", "logout"}, Resign(c, from)
  PROVE  IInv'
<1> DEFINE o == OtherRole(c)
<1>1. o \in Roles /\ o # c /\ Roles = {c, o} /\ OtherRole(o) = c
      /\ c # NULL_ROLE /\ o # NULL_ROLE
  BY RoleFacts
<1>2. /\ alive /\ holder = NULL_ROLE /\ holder' = c
      /\ pc[c] = from /\ pc' = [pc EXCEPT ![c] = "send_resigned"]
      /\ c \in listed /\ inv_state = "ACCEPTED" /\ inv_state' = "CLOSED"
      /\ game' = game_resign(game, c)
      /\ UNCHANGED <<listed, posted, link, leaving, overtaken, alive>>
  BY DEF Resign, Acquire, Continue, Resignable
<1>3. /\ game' \in Games /\ game'.is_over /\ game'.winner # NULL_ROLE
      /\ game'.winner = IF game.winner # NULL_ROLE THEN game.winner ELSE o
      /\ Alternating(game')
  BY <1>2, ResignFacts DEF IInv, TypeOK, GameState
<1> HIDE DEF o
<1>4. listed = Roles /\ posted = <<>> /\ listed # {}
  BY <1>2 DEF IInv, ListsAgree
<1>5. pc[o] \notin Ops /\ pc[c] \notin Ops
  BY <1>1, <1>2 DEF IInv, OneOp
<1>6. pc'[c] = "send_resigned" /\ pc'[o] = pc[o]
  BY <1>1, <1>2 DEF IInv, TypeOK
<1>8. game'.winner = o \/ link[o] \in Broken
  <2>1. CASE game.winner = c
    BY <1>2, <1>4, <1>5, <2>1 DEF IInv, UnsentEnd, o
  <2>2. CASE game.winner # c
    <3>1. game.winner \in Roles \cup {NULL_ROLE}
      BY DEF IInv, TypeOK, Games
    <3> QED  BY <1>1, <1>3, <2>2, <3>1
  <2> QED  BY <2>1, <2>2
<1>9. TypeOK'
  <2>1. pc' \in [Roles -> PCs]
    BY <1>2 DEF IInv, TypeOK, PCs
  <2> QED  BY <1>2, <1>3, <2>1 DEF IInv, TypeOK
<1>10. "send_resigned" \in Ops /\ "send_resigned" \in ResignOps
  BY DEF Ops, ResignOps
<1>11. OneOp' /\ ListsAgree'
  BY <1>1, <1>2, <1>4, <1>5, <1>6, <1>10 DEF OneOp, ListsAgree
<1>12. Leavers'
  <2>1. link[c] # "closed"
    BY <1>2 DEF IInv, Leavers
  <2> QED  BY <1>1, <1>2, <1>6, <1>10, <2>1 DEF IInv, Leavers
<1>13. OpState'
  <2>1. pc[o] \notin {"send_ended", "send_own_ended", "finish_move"}
        /\ pc[o] \notin ResignOps /\ pc[o] \notin {"send_resigned", "finish_resign"}
    BY <1>5 DEF Ops, MoveOps, ResignOps
  <2> QED  BY <1>1, <1>2, <1>3, <1>6, <1>8, <2>1 DEF OpState, o
<1>14. UnsentEnd' /\ GameState' /\ PostedInTime' /\ ResultIsWinner'
  BY <1>1, <1>2, <1>3, <1>4 DEF UnsentEnd, GameState, PostedInTime, ResultIsWinner
<1> QED  BY <1>9, <1>11, <1>12, <1>13, <1>14 DEF IInv

(* Every step preserves the invariant.                                     *)
LEMMA NextIInv == IInv /\ [Next]_vars => IInv'
<1> SUFFICES ASSUME IInv, [Next]_vars  PROVE IInv'
  OBVIOUS
<1>1. ASSUME NEW c \in Roles, Service(c)  PROVE IInv'
  <2>1. CASE SendMoved(c) \/ SendEnded(c) \/ SendOwnEnded(c)
    BY <2>1, MoveSendStep
  <2>2. CASE FinishMove(c) \/ FinishResign(c)
    BY <2>2, FinishStep
  <2>3. CASE SendResigned(c)
    BY <2>3, ResignSendStep
  <2>4. CASE Resign(c, "logout")
    BY <2>4, ResignStep
  <2>5. CASE RefuseResign(c, "logout") \/ RefuseRevoke(c)
    BY <2>5, RefuseStep
  <2>6. CASE Reply(c) \/ ReceiveEof(c) \/ Close(c)
    BY <2>6, ReplyStep, EofStep, CloseStep
  <2>7. CASE Sigpipe(c)
    BY <2>7, DeadStep DEF Sigpipe
  <2> QED  BY <1>1, <2>1, <2>2, <2>3, <2>4, <2>5, <2>6, <2>7 DEF Service
<1>2. ASSUME NEW c \in Roles, Packet(c)  PROVE IInv'
  <2>1. ASSUME NEW str \in Moves, MakeMove(c, str)  PROVE IInv'
    BY <2>1, MakeMoveStep
  <2>2. ASSUME NEW str \in Moves, RefuseMove(c, str)  PROVE IInv'
    BY <2>2, RefuseStep
  <2>3. CASE Resign(c, "recv")
    BY <2>3, ResignStep
  <2>4. CASE RefuseResign(c, "recv")
    BY <2>4, RefuseStep
  <2> QED  BY <1>2, <2>1, <2>2, <2>3, <2>4 DEF Packet
<1>3. ASSUME NEW c \in Roles, Peer(c)  PROVE IInv'
  BY <1>3, PeerStep
<1>4. CASE Ended \/ UNCHANGED vars
  <2>1. UNCHANGED <<opVars, pc, leaving, overtaken, link, alive>>
    BY <1>4 DEF Ended, vars
  <2>2. alive' \in BOOLEAN
    BY <2>1 DEF IInv, TypeOK
  <2> QED  BY <2>1, <2>2, DeadStep
<1> QED  BY <1>1, <1>2, <1>3, <1>4 DEF Next
-----------------------------------------------------------------------------
(* Theorems.                                                               *)

(* What holds in every state of a game.                                    *)
THEOREM SessionInvariant == Spec => []IInv
  BY InitIInv, NextIInv, PTL DEF Spec

(* The state of a game always has its type: no square is taken by anything *)
(* but a role, and nothing but a role or NULL_ROLE is posted.              *)
THEOREM SessionTypeCorrect == Spec => []TypeOK
<1>1. IInv => TypeOK
  BY DEF IInv
<1> QED  BY <1>1, SessionInvariant, PTL

(* player_post_result is called at most once for a game, whatever packets, *)
(* logouts and failing sends fall together.                                *)
THEOREM ResultPostedOnce == Spec => []OneResult
<1>1. ASSUME IInv  PROVE OneResult
  <2>1. posted = <<>> => Len(posted) = 0
    BY EmptySeq
  <2>2. posted # <<>> => Len(posted) = 1
    BY <1>1 DEF IInv, ListsAgree
  <2> QED  BY <2>1, <2>2 DEF OneResult
<1> QED  BY <1>1, SessionInvariant, PTL

(* The result that is posted is the game's own, although                   *)
(* client_resign_game posts the opponent without asking the game.          *)
THEOREM PostedResultIsWinner == Spec => []ResultIsWinner
<1>1. IInv => ResultIsWinner
  BY DEF IInv
<1> QED  BY <1>1, SessionInvariant, PTL

(* client_logout does not leave the opponent in a game, unless it has      *)
(* looked for the game before the acceptance made one: once the thread of  *)
(* a client is gone, the invitation is in no list or CLOSED.               *)
THEOREM LogoutEndsTheGame == Spec => []LogoutEndsGame
<1>1. IInv => LogoutEndsGame
  BY DEF IInv, Leavers, LogoutEndsGame
<1> QED  BY <1>1, SessionInvariant, PTL

(* game_is_over's scan of the lines gives the verdict that the rules give. *)
THEOREM VerdictIsCorrect == Spec => []VerdictCorrect
<1>1. IInv => VerdictCorrect
  <2> SUFFICES ASSUME IInv, LinksUp, inv_state = "ACCEPTED"
               PROVE  /\ game.is_over <=>
                           Full(game.rows) \/ \E r \in Roles : HasLine(game.rows, r)
                      /\ \A r \in Roles : game.winner = r <=> HasLine(game.rows, r)
    BY DEF VerdictCorrect
  <2> DEFINE b == game.rows
             T == TakenLines(b)
  <2>1. b \in Boards /\ Judged(game) /\ SoleOwner(game)
    BY DEF IInv, TypeOK, Games, GameState
  <2>2. ASSUME NEW k \in T  PROVE Owner(b, k) \in Roles
    <3>1. k \in 1..8 /\ Owner(b, k) # NULL_ROLE
      BY DEF TakenLines, Taken, Owner
    <3>2. Lines[k][1] \in Squares
      BY <3>1, LineSquares
    <3> QED  BY <2>1, <3>1, <3>2 DEF Boards, Owner
  <2>3. \A r \in Roles : HasLine(b, r) <=> \E k \in T : Owner(b, k) = r
    BY <2>1, MagicSquare
  <2>4. T # {} <=> \E r \in Roles : HasLine(b, r)
    <3> HIDE DEF b, T
    <3> QED  BY <2>2, <2>3
  <2>5. /\ game.is_over <=> Full(b) \/ T # {}
        /\ T = {} => game.winner = NULL_ROLE
        /\ \A k \in T : Owner(b, k) = game.winner
    BY <2>1 DEF Judged, SoleOwner
  <2>6. ASSUME NEW r \in Roles  PROVE game.winner = r <=> HasLine(b, r)
    <3>1. r # NULL_ROLE
      BY RoleFacts
    <3> HIDE DEF b, T
    <3> QED  BY <2>3, <2>5, <3>1
  <2> QED  BY <2>4, <2>5, <2>6
<1> QED  BY <1>1, SessionInvariant, PTL

(* The role on the move is the one that the number of marks says, whatever *)
(* is refused, lost or repeated.                                           *)
THEOREM TurnsDoAlternate == Spec => []TurnsAlternate
<1>1. IInv => TurnsAlternate
  BY DEF IInv, GameState, Alternating, Marks, TurnsAlternate
<1> QED  BY <1>1, SessionInvariant, PTL

(* While every send succeeds, a finished game is in no list, and its       *)
(* result posted, as soon as the operation that finished it returns.       *)
THEOREM FinishedGameIsCleared == Spec => []FinishedIsCleared
<1>1. IInv => FinishedIsCleared
  BY DEF IInv, PostedInTime, ListsAgree, FinishedIsCleared
<1> QED  BY <1>1, SessionInvariant, PTL

(* While every send succeeds, a game that is over does not change.         *)
THEOREM FinishedGameIsFinal == Spec => FinishedIsFinal
<1>1. ASSUME IInv, [Next]_vars, LinksUp, game.is_over  PROVE game' = game
  <2>1. ASSUME NEW c \in Roles, holder = NULL_ROLE, c \in listed  PROVE FALSE
    BY <1>1, <2>1 DEF IInv, PostedInTime, ListsAgree
  <2>2. ASSUME NEW c \in Roles, NEW str, MakeMove(c, str)  PROVE FALSE
    BY <2>1, <2>2 DEF MakeMove, Acquire, Playable
  <2>3. ASSUME NEW c \in Roles, NEW from, Resign(c, from)  PROVE FALSE
    BY <2>1, <2>3 DEF Resign, Acquire, Resignable
  <2>4. ASSUME NEW c \in Roles, Service(c)  PROVE game' = game
    BY <2>3, <2>4 DEF Service, SendMoved, SendEnded, SendOwnEnded, FinishMove,
         SendResigned, FinishResign, RefuseResign, RefuseRevoke, Reply, ReceiveEof,
         Close, Sigpipe, opVars
  <2>5. ASSUME NEW c \in Roles, Packet(c)  PROVE game' = game
    BY <2>2, <2>3, <2>5 DEF Packet, RefuseMove, RefuseResign, opVars
  <2>6. ASSUME NEW c \in Roles, Peer(c)  PROVE game' = game
    BY <2>6 DEF Peer, PeerCloses, PeerAborts, opVars
  <2>7. CASE Ended \/ UNCHANGED vars
    BY <2>7 DEF Ended, vars, opVars
  <2> QED  BY <1>1, <2>4, <2>5, <2>6, <2>7 DEF Next
<1>2. IInv /\ [Next]_vars => [LinksUp /\ game.is_over => game' = game]_vars
  BY <1>1
<1> QED  BY <1>2, SessionInvariant, PTL DEF Spec, FinishedIsFinal

-----------------------------------------------------------------------------
(* The refinement of MatchRecord.                                          *)

(* A move or a resignation decides, unless the game stays open.            *)
LEMMA MatchDecides ==
  ASSUME IInv, posted = <<>>, UNCHANGED posted, game' \in Games,
         game.is_over => game'.is_over
  PROVE  [Match!Next]_(Match!vars)
<1>1. CASE game'.is_over
  <2>1. game'.winner \in Roles \cup {NULL_ROLE}
    BY DEF Games
  <2>2. Match!Decide(game'.winner)
    BY <1>1 DEF Match!Decide
  <2> QED  BY <2>1, <2>2 DEF Match!Next
<1>2. CASE ~game'.is_over
  BY <1>2 DEF Match!vars
<1> QED  BY <1>1, <1>2

(* The post of the result records the verdict.                             *)
LEMMA MatchRecords ==
  ASSUME IInv, NEW c \in Roles, FinishMove(c) \/ FinishResign(c)
  PROVE  Match!Next
<1>1. /\ pc[c] \in {"finish_move", "finish_resign"} /\ UNCHANGED game
      /\ \/ pc[c] = "finish_move" /\ posted' = Append(posted, game.winner)
         \/ pc[c] = "finish_resign" /\ posted' = Append(posted, OtherRole(c))
  BY DEF FinishMove, FinishResign, Return, Continue
<1>2. game.is_over /\ (pc[c] = "finish_resign" => game.winner = OtherRole(c))
  BY <1>1 DEF IInv, OpState, ResignOps
<1>3. posted = <<>>
  <2>1. listed = Roles
    BY <1>1 DEF IInv, ListsAgree, Ops, MoveOps, ResignOps
  <2> QED  BY <2>1 DEF IInv, ListsAgree
<1>4. posted' = <<game.winner>>
  BY <1>1, <1>2, <1>3
<1>5. game.winner \in Roles \cup {NULL_ROLE}
  BY DEF IInv, TypeOK, Games
<1>6. Match!Record(game.winner)
  BY <1>1, <1>2, <1>3, <1>4 DEF Match!Record
<1> QED  BY <1>5, <1>6 DEF Match!Next

(* An operation that begins finds the invitation listed, so that nothing   *)
(* is posted yet, and does not reopen a game that is over.                 *)
LEMMA MatchBegins ==
  ASSUME IInv, NEW c \in Roles,
         \/ \E str \in Moves : MakeMove(c, str)
         \/ \E from \in PCs : Resign(c, from)
  PROVE  [Match!Next]_(Match!vars)
<1>1. game \in Games /\ (game.winner # NULL_ROLE => game.is_over)
  BY DEF IInv, TypeOK, GameState
<1>2. c \in listed /\ UNCHANGED posted
  BY DEF MakeMove, Playable, Resign, Resignable
<1>3. posted = <<>>
  BY <1>2 DEF IInv, ListsAgree
<1>4. game' \in Games /\ (game.is_over => game'.is_over)
  <2>1. ASSUME NEW str \in Moves, MakeMove(c, str)
        PROVE  game' \in Games /\ (game.is_over => game'.is_over)
    <3> DEFINE s == str.n - 1
    <3>1. /\ s \in Squares /\ game.current_player = c /\ game.rows[s] = NULL_ROLE
          /\ game' = game_apply_move(game, [move |-> s, role |-> c])
      BY <2>1 DEF MakeMove, Playable, Parses, LegalMove, game_parse_move
    <3> HIDE DEF s
    <3> QED  BY <1>1, <3>1, MoveFacts
  <2>2. ASSUME NEW from \in PCs, Resign(c, from)
        PROVE  game' \in Games /\ game'.is_over
    BY <1>1, <2>2, ResignFacts DEF Resign
  <2> QED  BY <2>1, <2>2
<1> QED  BY <1>2, <1>3, <1>4, MatchDecides

(* A game posts one outcome, the one it has, and keeps it from then on:    *)
(* moves that client_make_move applies to games that are over, and         *)
(* resignations that client_resign_game posts without asking the game, do  *)
(* not reach the ratings.                                                  *)
THEOREM SessionImplementsMatch == Spec => ImplementsMatch
<1>1. Init => Match!Init
  BY DEF Init, game_create, Match!Init
<1>2. ASSUME IInv, [Next]_vars  PROVE [Match!Next]_(Match!vars)
  <2>1. CASE UNCHANGED <<game, posted>>
    BY <2>1 DEF Match!vars
  <2>2. ASSUME NEW c \in Roles, Service(c)  PROVE [Match!Next]_(Match!vars)
    <3>1. CASE FinishMove(c) \/ FinishResign(c)
      BY <1>2, <3>1, MatchRecords
    <3>2. CASE Resign(c, "logout")
      BY <1>2, <3>2, MatchBegins DEF PCs
    <3>3. CASE ~(FinishMove(c) \/ FinishResign(c) \/ Resign(c, "logout"))
      <4>1. UNCHANGED <<game, posted>>
        BY <2>2, <3>3
        DEF Service, SendMoved, SendEnded, SendOwnEnded, SendResigned, RefuseResign,
            RefuseRevoke, Reply, ReceiveEof, Close, Sigpipe, opVars
      <4> QED  BY <2>1, <4>1
    <3> QED  BY <3>1, <3>2, <3>3
  <2>3. ASSUME NEW c \in Roles, Packet(c)  PROVE [Match!Next]_(Match!vars)
    <3>1. CASE \E str \in Moves : MakeMove(c, str)
      BY <1>2, <3>1, MatchBegins
    <3>2. CASE Resign(c, "recv")
      BY <1>2, <3>2, MatchBegins DEF PCs
    <3>3. CASE RefuseResign(c, "recv") \/ \E str \in Moves : RefuseMove(c, str)
      BY <2>1, <3>3 DEF RefuseResign, RefuseMove, opVars
    <3> QED  BY <2>3, <3>1, <3>2, <3>3 DEF Packet
  <2>4. ASSUME NEW c \in Roles, Peer(c)  PROVE [Match!Next]_(Match!vars)
    BY <2>1, <2>4 DEF Peer, PeerCloses, PeerAborts, opVars
  <2>5. CASE Ended \/ UNCHANGED vars
    BY <2>1, <2>5 DEF Ended, vars, opVars
  <2> QED  BY <1>2, <2>2, <2>3, <2>4, <2>5 DEF Next
<1>3. IInv /\ [Next]_vars => [Match!Next]_(Match!vars)
  BY <1>2
<1> QED  BY <1>1, <1>3, SessionInvariant, PTL DEF Spec, ImplementsMatch, Match!Spec
=============================================================================
