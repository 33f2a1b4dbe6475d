----------------------------- MODULE GameSession ----------------------------
(***************************************************************************)
(* One game from the moment its invitation is accepted: the two service    *)
(* threads that carry out MOVE and RESIGN packets and, at the end of a     *)
(* connection, log the client out (src/client.c, client_make_move,         *)
(* client_resign_game and client_logout; src/server.c, process_move and    *)
(* process_resign).                                                        *)
(*                                                                         *)
(* A client is named by the role it plays.  Each operation runs under      *)
(* CLIENT_INVITE_OP_SEM, but sends packets while it does: a step ends at   *)
(* every send, because the connection may have changed by the next one.    *)
(* CLIENT_INVITE_OP_SEM is taken to be a semaphore that works; that        *)
(* client_create initialises it again for every client is not modelled     *)
(* here.                                                                   *)
(*                                                                         *)
(* The target accepts while the source's thread serves it, or while it is  *)
(* in client_logout: that function looks whether there is a game before it *)
(* waits for the semaphore, so the acceptance may overtake it.             *)
(***************************************************************************)
EXTENDS Game, Sequences

CONSTANTS
  Moves,        (* the move strings that clients send                      *)
  PeerFaults    (* how peers may end their connections                     *)

ASSUME MovesAssumption == Moves \subseteq MoveStrings
ASSUME FaultsAssumption == PeerFaults \subseteq {"fin", "rst"}

VARIABLES
  game,         (* inv->game                                               *)
  inv_state,    (* inv->state: "ACCEPTED" or "CLOSED"                      *)
  listed,       (* the clients in whose list the invitation is             *)
  posted,       (* the winners given to player_post_result, in order       *)
  holder,       (* who holds CLIENT_INVITE_OP_SEM, or NULL_ROLE            *)
  pc,           (* where each service thread is                            *)
  leaving,      (* the clients whose thread is in client_logout            *)
  overtaken,    (* those that looked there before there was a game         *)
  link,         (* the state of each connection                            *)
  alive         (* FALSE once a signal has killed the process              *)

opVars == <<game, inv_state, listed, posted, holder>>
vars   == <<opVars, pc, leaving, overtaken, link, alive>>

(* A connection: up; the peer has sent FIN; the peer has sent RST; broken, *)
(* with the error reported; its descriptor closed by the server.           *)
Links == {"up", "fin", "rst", "dead", "closed"}

PCs == {"recv", "send_moved", "send_ended", "send_own_ended", "finish_move",
        "send_resigned", "finish_resign", "ack", "nack", "logout", "revoke",
        "close", "gone"}

TypeOK ==
  /\ game \in Games
  /\ inv_state \in {"ACCEPTED", "CLOSED"}
  /\ listed \in SUBSET Roles
  /\ posted \in Seq(Roles \cup {NULL_ROLE})
  /\ holder \in Roles \cup {NULL_ROLE}
  /\ pc \in [Roles -> PCs]
  /\ leaving \in SUBSET Roles
  /\ overtaken \in SUBSET Roles
  /\ link \in [Roles -> Links]
  /\ alive \in BOOLEAN

(* The states that a connection may be in after a send.                    *)
StartLinks ==
  {"up"} \cup (IF "fin" \in PeerFaults THEN {"fin", "dead"} ELSE {})
         \cup (IF "rst" \in PeerFaults THEN {"rst", "dead"} ELSE {})

(* The end of client_accept_invitation: inv_accept has created the game,   *)
(* both clients have the invitation, ACCEPTED has been sent to the source  *)
(* s, or has failed, and the target is about to be answered.  The source   *)
(* is served, or its connection has ended and it is in client_logout,      *)
(* where it resigns the game or, if it has been overtaken, revokes.        *)
Init ==
  /\ game = game_create
  /\ inv_state = "ACCEPTED"
  /\ listed = Roles
  /\ posted = <<>>
  /\ holder = NULL_ROLE
  /\ alive = TRUE
  /\ \E s \in Roles, at \in {"recv", "logout", "revoke"},
        reply \in {"ack", "nack"}, l \in StartLinks :
       /\ at # "recv" => l # "up"
       /\ reply = "nack" => l = "dead"
       /\ pc = [c \in Roles |-> IF c = s THEN at ELSE reply]
       /\ leaving = (IF at = "recv" THEN {} ELSE {s})
       /\ overtaken = (IF at = "revoke" THEN {s} ELSE {})
       /\ link = [c \in Roles |-> IF c = s THEN l ELSE "up"]

-----------------------------------------------------------------------------
(* The peers.                                                              *)

(* The peer closes its socket, or its sending half of it.                  *)
PeerCloses(c) ==
  /\ alive
  /\ "fin" \in PeerFaults
  /\ link[c] = "up"
  /\ link' = [link EXCEPT ![c] = "fin"]
  /\ UNCHANGED <<opVars, pc, leaving, overtaken, alive>>

(* The peer resets the connection.                                         *)
PeerAborts(c) ==
  /\ alive
  /\ "rst" \in PeerFaults
  /\ link[c] \in {"up", "fin"}
  /\ link' = [link EXCEPT ![c] = "rst"]
  /\ UNCHANGED <<opVars, pc, leaving, overtaken, alive>>

-----------------------------------------------------------------------------
(* Sending: what proto_send_packet's write(2) does on each kind of         *)
(* connection.  Data for a peer that has closed its socket is taken, and   *)
(* answered by a reset.                                                    *)
SendOk(c) ==
  \/ link[c] = "up" /\ UNCHANGED link
  \/ link[c] = "fin" /\ \E l \in {"fin", "dead"} : link' = [link EXCEPT ![c] = l]

(* ECONNRESET the first time, EBADF on a closed descriptor.                *)
SendFails(c) ==
  \/ link[c] = "rst" /\ link' = [link EXCEPT ![c] = "dead"]
  \/ link[c] = "closed" /\ UNCHANGED link

(* EPIPE comes with SIGPIPE, which the server neither handles nor ignores. *)
SendKills(c) == link[c] = "dead"

(* Where a thread goes when its operation returns.                         *)
After(c, reply) == IF c \in leaving THEN "close" ELSE reply

(* A step of c from one place to another inside its operation.             *)
Continue(c, from, to) ==
  /\ alive
  /\ pc[c] = from
  /\ pc' = [pc EXCEPT ![c] = to]
  /\ UNCHANGED <<leaving, overtaken, alive>>

(* The operation of c returns: sem_post, then the reply.                   *)
Return(c, from, reply) ==
  /\ Continue(c, from, After(c, reply))
  /\ holder' = NULL_ROLE

(* Taking CLIENT_INVITE_OP_SEM.                                            *)
Acquire(c) ==
  /\ holder = NULL_ROLE
  /\ holder' = c

-----------------------------------------------------------------------------
(* MOVE.                                                                   *)

(* The move is made if the client still has the invitation and the string  *)
(* is a legal move; otherwise nothing happens and the client gets a NACK.  *)
Playable(c, str) ==
  /\ c \in listed
  /\ Parses(game, str)
  /\ LegalMove(game, game_parse_move(c, str))

(* Mutant: a move does not wait for the operation in progress.             *)
MakeMoveUnlocked(c, str) ==
  /\ Continue(c, "recv", "send_moved")
  /\ Playable(c, str)
  /\ game' = game_apply_move(game, game_parse_move(c, str))
  /\ holder' = c
  /\ UNCHANGED <<inv_state, listed, posted, link>>

MakeMove(c, str) ==
  /\ Acquire(c)
  /\ Continue(c, "recv", "send_moved")
  /\ Playable(c, str)
  /\ game' = game_apply_move(game, game_parse_move(c, str))
  /\ UNCHANGED <<inv_state, listed, posted, link>>

RefuseMove(c, str) ==
  /\ holder = NULL_ROLE
  /\ Continue(c, "recv", "nack")
  /\ ~Playable(c, str)
  /\ UNCHANGED <<opVars, link>>

(* MOVED to the opponent; if the game is not over that is all.             *)
SendMoved(c) ==
  /\ \/ /\ SendOk(OtherRole(c))
        /\ ~game.is_over
        /\ Return(c, "send_moved", "ack")
     \/ /\ SendOk(OtherRole(c))
        /\ game.is_over
        /\ Continue(c, "send_moved", "send_ended")
        /\ UNCHANGED holder
     \/ /\ SendFails(OtherRole(c))
        /\ Return(c, "send_moved", "nack")
  /\ UNCHANGED <<game, inv_state, listed, posted>>

(* ENDED to the opponent, then to the client itself.                       *)
SendEnded(c) ==
  /\ \/ /\ SendOk(OtherRole(c))
        /\ Continue(c, "send_ended", "send_own_ended")
        /\ UNCHANGED holder
     \/ /\ SendFails(OtherRole(c))
        /\ Return(c, "send_ended", "nack")
  /\ UNCHANGED <<game, inv_state, listed, posted>>

SendOwnEnded(c) ==
  /\ \/ /\ SendOk(c)
        /\ Continue(c, "send_own_ended", "finish_move")
        /\ UNCHANGED holder
     \/ /\ SendFails(c)
        /\ Return(c, "send_own_ended", "nack")
  /\ UNCHANGED <<game, inv_state, listed, posted>>

(* Mutant: the invitation stays in the opponent's list.                    *)
FinishMoveOwnList(c) ==
  /\ Return(c, "finish_move", "ack")
  /\ posted' = Append(posted, game.winner)
  /\ listed' = listed \ {c}
  /\ UNCHANGED <<game, inv_state, link>>

(* The result is posted and the invitation leaves both lists.              *)
FinishMove(c) ==
  /\ Return(c, "finish_move", "ack")
  /\ posted' = Append(posted, game.winner)
  /\ listed' = listed \ {c, OtherRole(c)}
  /\ UNCHANGED <<game, inv_state, link>>

-----------------------------------------------------------------------------
(* RESIGN, from a packet or from client_logout.                            *)

(* inv_close succeeds in the ACCEPTED state only; what game_resign returns *)
(* is not looked at.                                                       *)
Resignable(c) == c \in listed /\ inv_state = "ACCEPTED"

Resign(c, from) ==
  /\ Acquire(c)
  /\ Continue(c, from, "send_resigned")
  /\ Resignable(c)
  /\ game' = game_resign(game, c)
  /\ inv_state' = "CLOSED"
  /\ UNCHANGED <<listed, posted, link>>

RefuseResign(c, from) ==
  /\ holder = NULL_ROLE
  /\ Continue(c, from, After(c, "nack"))
  /\ ~Resignable(c)
  /\ UNCHANGED <<opVars, link>>

(* Mutant: the error return keeps CLIENT_INVITE_OP_SEM.                    *)
SendResignedKeepsSem(c) ==
  /\ \/ /\ SendOk(OtherRole(c))
        /\ Continue(c, "send_resigned", "finish_resign")
     \/ /\ SendFails(OtherRole(c))
        /\ Continue(c, "send_resigned", After(c, "nack"))
  /\ UNCHANGED opVars

SendResigned(c) ==
  /\ \/ /\ SendOk(OtherRole(c))
        /\ Continue(c, "send_resigned", "finish_resign")
        /\ UNCHANGED holder
     \/ /\ SendFails(OtherRole(c))
        /\ Return(c, "send_resigned", "nack")
  /\ UNCHANGED <<game, inv_state, listed, posted>>

(* Mutant: the role that resigns is posted as the winner.                  *)
FinishResignOwnRole(c) ==
  /\ Return(c, "finish_resign", "ack")
  /\ posted' = Append(posted, c)
  /\ listed' = listed \ {c, OtherRole(c)}
  /\ UNCHANGED <<game, inv_state, link>>

(* The opponent's role is posted as the winner.                            *)
FinishResign(c) ==
  /\ Return(c, "finish_resign", "ack")
  /\ posted' = Append(posted, OtherRole(c))
  /\ listed' = listed \ {c, OtherRole(c)}
  /\ UNCHANGED <<game, inv_state, link>>

-----------------------------------------------------------------------------
(* The rest of the service loop.                                           *)

(* The ACK or NACK; whether it could be sent is not looked at.             *)
Reply(c) ==
  /\ \/ Continue(c, "ack", "recv")
     \/ Continue(c, "nack", "recv")
  /\ SendOk(c) \/ SendFails(c)
  /\ UNCHANGED opVars

(* Mutant: the thread ends without logging the client out.                 *)
ReceiveEofNoLogout(c) ==
  /\ alive
  /\ pc[c] = "recv"
  /\ link[c] \in {"fin", "rst", "dead"}
  /\ leaving' = leaving \cup {c}
  /\ pc' = [pc EXCEPT ![c] = "close"]
  /\ UNCHANGED <<opVars, overtaken, link, alive>>

(* proto_recv_packet reports the end of the connection, and client_logout  *)
(* resigns the game if the invitation is still in the list.                *)
ReceiveEof(c) ==
  /\ alive
  /\ pc[c] = "recv"
  /\ link[c] \in {"fin", "rst", "dead"}
  /\ link' = [link EXCEPT ![c] = IF @ = "rst" THEN "dead" ELSE @]
  /\ leaving' = leaving \cup {c}
  /\ pc' = [pc EXCEPT ![c] = IF c \in listed THEN "logout" ELSE "close"]
  /\ UNCHANGED <<opVars, overtaken, alive>>

(* client_logout has seen no game: client_revoke_invitation, which fails   *)
(* on an invitation that is ACCEPTED, or CLOSED, or not in the list.       *)
RefuseRevoke(c) ==
  /\ holder = NULL_ROLE
  /\ Continue(c, "revoke", "close")
  /\ UNCHANGED <<opVars, link>>

Close(c) ==
  /\ Continue(c, "close", "gone")
  /\ link' = [link EXCEPT ![c] = "closed"]
  /\ UNCHANGED opVars

(* The connection that the next step of c writes to.                       *)
SendsTo(c) ==
  CASE pc[c] \in {"send_moved", "send_ended", "send_resigned"} -> {OtherRole(c)}
    [] pc[c] \in {"send_own_ended", "ack", "nack"} -> {c}
    [] OTHER -> {}

(* SIGPIPE ends the process.  The payload of MOVED is a write of its own,  *)
(* and the answer to the header may have broken the connection by then.    *)
Sigpipe(c) ==
  /\ alive
  /\ \E d \in SendsTo(c) :
       SendKills(d) \/ (link[d] = "fin" /\ pc[c] = "send_moved")
  /\ alive' = FALSE
  /\ UNCHANGED <<opVars, pc, leaving, overtaken, link>>

-----------------------------------------------------------------------------
(* What a service thread does by itself, once it has a packet or EOF.      *)
Service(c) ==
  \/ SendMoved(c)
  \/ SendEnded(c)
  \/ SendOwnEnded(c)
  \/ FinishMove(c)
  \/ SendResigned(c)
  \/ FinishResign(c)
  \/ Resign(c, "logout")
  \/ RefuseResign(c, "logout")
  \/ RefuseRevoke(c)
  \/ Reply(c)
  \/ ReceiveEof(c)
  \/ Close(c)
  \/ Sigpipe(c)

(* The packets of a client.                                                *)
Packet(c) ==
  \/ \E str \in Moves : MakeMove(c, str) \/ RefuseMove(c, str)
  \/ Resign(c, "recv")
  \/ RefuseResign(c, "recv")

Peer(c) == PeerCloses(c) \/ PeerAborts(c)

(* Both threads have ended, or the process has.                            *)
Ended ==
  /\ ~alive \/ \A c \in Roles : pc[c] = "gone"
  /\ UNCHANGED vars

Next ==
  \/ \E c \in Roles : Service(c) \/ Packet(c) \/ Peer(c)
  \/ Ended

Spec == Init /\ [][Next]_vars

(* Threads that can run do run.  Clients need not send anything, and one   *)
(* that has closed its connection has sent finitely many packets before:   *)
(* its thread does not read packets for ever and never see the end.        *)
FairSpec ==
  /\ Spec
  /\ \A c \in Roles : WF_vars(Service(c)) /\ SF_vars(ReceiveEof(c))

-----------------------------------------------------------------------------
(* Properties.                                                             *)

(* No send has failed so far: a connection does not come up again.         *)
LinksUp == \A c \in Roles : link[c] = "up"

(* The result of a game is posted to the players' ratings at most once,    *)
(* however a last move, resignations and logouts of the two clients fall   *)
(* together and whichever sends fail.                                      *)
OneResult == Len(posted) <= 1

Match == INSTANCE MatchRecord WITH
  Outcomes <- Roles \cup {NULL_ROLE},
  verdict  <- IF game.is_over THEN {game.winner} ELSE {},
  record   <- posted

(* A game has one outcome for the ratings, its own, and from then on its   *)
(* verdict does not change, although moves are taken without a look at     *)
(* whether the game is over, and failing sends leave games half ended.     *)
ImplementsMatch == Match!Spec

(* The posted result is the game's: client_resign_game posts the opponent  *)
(* as the winner without asking the game, so this must also hold when a    *)
(* client resigns, or is logged out of, a game that already has a winner.  *)
ResultIsWinner ==
  posted # <<>> => game.is_over /\ posted[1] = game.winner

(* game_is_over agrees with the rules: a game that nobody resigned has     *)
(* ended exactly when a role has three squares in line or the board is     *)
(* full, and its winner is the role that has them.                         *)
VerdictCorrect ==
  LinksUp /\ inv_state = "ACCEPTED" =>
    /\ game.is_over <=> Full(game.rows) \/ \E r \in Roles : HasLine(game.rows, r)
    /\ \A r \in Roles : game.winner = r <=> HasLine(game.rows, r)

(* The roles alternate, whatever is refused, lost or repeated: the role on *)
(* the move is the one the number of marks says.                           *)
TurnsAlternate ==
  LET marks(r) == Cardinality({s \in Squares : game.rows[s] = r})
  IN  game.current_player # NULL_ROLE =>
        marks(FIRST_PLAYER_ROLE) = marks(SECOND_PLAYER_ROLE)
          + (IF game.current_player = FIRST_PLAYER_ROLE THEN 0 ELSE 1)

(* Between operations a finished game is in nobody's list and its result   *)
(* has been posted, as long as every send succeeded.                       *)
FinishedIsCleared ==
  LinksUp /\ holder = NULL_ROLE /\ game.is_over =>
    listed = {} /\ Len(posted) = 1

(* A game that is over does not change any more, as long as every send     *)
(* succeeded.                                                              *)
FinishedIsFinal == [][LinksUp /\ game.is_over => game' = game]_vars

(* A client whose connection has ended does not keep its opponent in the   *)
(* game, unless the acceptance has overtaken its client_logout: once its   *)
(* thread is gone, the invitation is in nobody's list, or it is CLOSED and *)
(* no further move ends in a result.  A game that an overtaken client has  *)
(* left behind ends so when its opponent goes.                             *)
LogoutEndsGame ==
  \A c \in Roles \ overtaken :
    alive /\ pc[c] = "gone" => listed = {} \/ inv_state = "CLOSED"

(* Every client that has left gets its thread to the end, unless a signal  *)
(* ends the process.                                                       *)
LeaversGo ==
  \A c \in Roles : link[c] \in {"fin", "rst"} ~> pc[c] = "gone" \/ ~alive

(* proto_send_packet: "0 in case of successful transmission, -1            *)
(* otherwise": a packet that cannot be sent does not end the server.       *)
SendReturns == alive
=============================================================================
