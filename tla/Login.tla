-------------------------------- MODULE Login --------------------------------
(***************************************************************************)
(* Logging in: process_login, process_users and the dispatch of packets in *)
(* src/server.c, client_login and the end of client_logout in src/client.c,*)
(* creg_all_players in src/client_registry.c, src/player_registry.c and    *)
(* the reference counts of src/player.c.                                   *)
(*                                                                         *)
(* client_login holds CLIENT_LOGIN_SEM from its look at all registered     *)
(* clients to the assignment of client->player.  But client_create         *)
(* initialises all operation semaphores to 1 for every new client, since   *)
(* is_sem_init is never set: a thread that waits for the semaphore then    *)
(* gets it while another one holds it, and a post that follows raises it   *)
(* above 1.  That this has happened while the semaphore was in use is      *)
(* remembered in clobbered.  POSIX leaves undefined what becomes of the    *)
(* threads that wait at that moment, so that nothing is said about their   *)
(* progress afterwards.                                                    *)
(*                                                                         *)
(* A name stands for the PLAYER object registered under it: there is one   *)
(* at most, and it lives as long as the registry.  terminate frees both    *)
(* registries after creg_wait_for_empty, which may return early            *)
(* (ClientRegistry), and then exits: threads that still run meanwhile find *)
(* freed registries.                                                       *)
(***************************************************************************)
EXTENDS Integers, FiniteSets

CONSTANTS
  Clients,     (* CLIENT objects, each created once                        *)
  Names,       (* the user names of nonempty LOGIN payloads                *)
  NULL,
  MaxLogins    (* bound: LOGIN packets with a name, per client             *)

ASSUME LoginClients == IsFiniteSet(Clients) /\ Clients # {}
ASSUME LoginNames == IsFiniteSet(Names) /\ NULL \notin Names
ASSUME LoginBound == MaxLogins \in Nat

VARIABLES
  preg,        (* the names in the player registry                         *)
  ref_count,   (* of each PLAYER                                           *)
  player,      (* client->player                                           *)
  logged_in,   (* client->logged_in                                        *)
  gate,        (* process_login_packet, local to each service thread       *)
  pc,          (* where each service thread is                             *)
  new_player,  (* process_login's new_player, while it owns a reference    *)
  players,     (* the array from creg_all_players, while a thread has one  *)
  login_sem,   (* the value of CLIENT_LOGIN_SEM                            *)
  clobbered,   (* it was initialised again while in use                    *)
  logins,      (* how often each client has sent LOGIN with a name         *)
  finished,    (* terminate has freed the two registries                   *)
  crashed      (* a null or a freed pointer has been dereferenced          *)

playerVars == <<preg, ref_count>>
clientVars == <<player, logged_in, gate>>
threadVars == <<pc, new_player, players, logins>>
semVars    == <<login_sem, clobbered>>
endVars    == <<finished, crashed>>
vars       == <<playerVars, clientVars, threadVars, semVars, endVars>>

PCs == {"connected", "serving", "wait_login", "scan", "login", "answer",
        "users", "logout", "unregister", "gone"}

(* The clients in the registry.                                            *)
Registered == {c \in Clients : pc[c] \notin {"connected", "gone"}}

(* The threads between sem_wait and sem_post of CLIENT_LOGIN_SEM.          *)
Inside == {c \in Clients : pc[c] \in {"scan", "login"}}

Waiting == {c \in Clients : pc[c] = "wait_login"}

TypeOK ==
  /\ preg \in SUBSET Names
  /\ ref_count \in [Names -> Nat]
  /\ player \in [Clients -> Names \cup {NULL}]
  /\ logged_in \in [Clients -> BOOLEAN]
  /\ gate \in [Clients -> -1..1]
  /\ pc \in [Clients -> PCs]
  /\ new_player \in [Clients -> Names \cup {NULL}]
  /\ players \in [Clients -> [Clients -> Names \cup {NULL}]]
  /\ login_sem \in 0..Cardinality(Clients)
  /\ clobbered \in BOOLEAN
  /\ logins \in [Clients -> 0..MaxLogins]
  /\ {finished, crashed} \subseteq BOOLEAN

NoPlayers == [c \in Clients |-> NULL]

(* preg_init; no client is connected yet, so that the first client_create  *)
(* initialises the semaphore.                                              *)
Init ==
  /\ preg = {}
  /\ ref_count = [n \in Names |-> 0]
  /\ player = [c \in Clients |-> NULL]
  /\ logged_in = [c \in Clients |-> FALSE]
  /\ gate = [c \in Clients |-> 0]
  /\ pc = [c \in Clients |-> "connected"]
  /\ new_player = [c \in Clients |-> NULL]
  /\ players = [c \in Clients |-> NoPlayers]
  /\ login_sem = 1
  /\ clobbered = FALSE
  /\ logins = [c \in Clients |-> 0]
  /\ finished = FALSE
  /\ crashed = FALSE

-----------------------------------------------------------------------------
Goto(c, from, to) ==
  /\ ~crashed
  /\ pc[c] = from
  /\ pc' = [pc EXCEPT ![c] = to]

(* The reference counts after these calls for n.                           *)
player_ref(counts, n) == [counts EXCEPT ![n] = @ + 1]
player_unref(counts, n) == [counts EXCEPT ![n] = @ - 1]
player_create(counts, n) == player_ref([counts EXCEPT ![n] = 0], n)

(* How many of the entries of the array of c are n.                        *)
Entries(c, n) == Cardinality({d \in Clients : players[c][d] = n})

(* Mutant: the array's references are kept.                                *)
UnrefNone(c) == ref_count

(* player_unref of every entry of the array of c.                          *)
UnrefAll(c) == [n \in Names |-> ref_count[n] - Entries(c, n)]

(* creg_register: client_create initialises the semaphore, again.          *)
client_create(c) ==
  /\ Goto(c, "connected", "serving")
  /\ ~finished
  /\ login_sem' = 1
  /\ clobbered' = (clobbered \/ Inside \cup Waiting # {})
  /\ UNCHANGED <<playerVars, clientVars, new_player, players, logins, endVars>>

-----------------------------------------------------------------------------
(* A LOGIN packet.                                                         *)

(* It is refused to a client that has a player, and when the payload is    *)
(* missing or empty.                                                       *)
RefuseLogin(c) ==
  /\ Goto(c, "serving", "serving")
  /\ gate' = [gate EXCEPT ![c] = -1]
  /\ UNCHANGED <<playerVars, player, logged_in, new_player, players, logins,
                 semVars, endVars>>

(* A player that is new has one reference for the registry and one for the *)
(* caller.                                                                 *)
preg_register(n) ==
  /\ preg' = preg \cup {n}
  /\ ref_count' = IF n \in preg
                    THEN player_ref(ref_count, n)
                    ELSE player_ref(player_create(ref_count, n), n)

process_login(c, n) ==
  /\ Goto(c, "serving", "wait_login")
  /\ ~finished
  /\ logins[c] < MaxLogins
  /\ logins' = [logins EXCEPT ![c] = @ + 1]
  /\ player[c] = NULL
  /\ preg_register(n)
  /\ new_player' = [new_player EXCEPT ![c] = n]
  /\ UNCHANGED <<clientVars, players, semVars, endVars>>

(* Mutant: client_login does not wait for the semaphore.                   *)
WaitLoginSemNot(c) ==
  /\ Goto(c, "wait_login", "scan")
  /\ UNCHANGED <<playerVars, clientVars, new_player, players, logins, semVars,
                 endVars>>

(* client_login.                                                           *)
WaitLoginSem(c) ==
  /\ Goto(c, "wait_login", "scan")
  /\ login_sem > 0
  /\ login_sem' = login_sem - 1
  /\ UNCHANGED <<playerVars, clientVars, new_player, players, logins, clobbered,
                 endVars>>

(* The players of all registered clients, with a reference to each.        *)
(* client_logout does not clear client->player: the player of a client     *)
(* that has logged out and is not yet unregistered is among them.          *)
creg_all_players(c) ==
  LET found == [d \in Clients |-> IF d \in Registered THEN player[d] ELSE NULL]
  IN  /\ players' = [players EXCEPT ![c] = found]
      /\ ref_count' = [n \in Names |->
           ref_count[n] + Cardinality({d \in Clients : found[d] = n})]

ScanPlayers(c) ==
  /\ Goto(c, "scan", "login")
  /\ ~finished
  /\ creg_all_players(c)
  /\ UNCHANGED <<preg, clientVars, new_player, logins, semVars, endVars>>

(* Mutant: a refused login returns without the post.                       *)
client_login_keeps_sem(c) ==
  LET n == new_player[c]
  IN  /\ Goto(c, "login", "answer")
      /\ players' = [players EXCEPT ![c] = NoPlayers]
      /\ IF Entries(c, n) > 0
           THEN /\ ref_count' = UnrefAll(c)
                /\ UNCHANGED <<clientVars, login_sem>>
           ELSE /\ ref_count' = player_ref(UnrefAll(c), n)
                /\ player' = [player EXCEPT ![c] = n]
                /\ logged_in' = [logged_in EXCEPT ![c] = TRUE]
                /\ login_sem' = login_sem + 1
                /\ UNCHANGED gate
      /\ UNCHANGED <<preg, new_player, logins, clobbered, endVars>>

(* Mutant: a refused login posts the semaphore twice.                      *)
client_login_posts_twice(c) ==
  LET n == new_player[c]
  IN  /\ Goto(c, "login", "answer")
      /\ players' = [players EXCEPT ![c] = NoPlayers]
      /\ IF Entries(c, n) > 0
           THEN /\ ref_count' = UnrefAll(c)
                /\ login_sem' = login_sem + 2
                /\ UNCHANGED clientVars
           ELSE /\ ref_count' = player_ref(UnrefAll(c), n)
                /\ player' = [player EXCEPT ![c] = n]
                /\ logged_in' = [logged_in EXCEPT ![c] = TRUE]
                /\ login_sem' = login_sem + 1
                /\ UNCHANGED gate
      /\ UNCHANGED <<preg, new_player, logins, clobbered, endVars>>

(* The name is taken if it is in the array; otherwise c is logged in.      *)
client_login(c) ==
  LET n == new_player[c]
  IN  /\ Goto(c, "login", "answer")
      /\ players' = [players EXCEPT ![c] = NoPlayers]
      /\ login_sem' = login_sem + 1
      /\ IF Entries(c, n) > 0
           THEN /\ ref_count' = UnrefAll(c)
                /\ UNCHANGED clientVars
           ELSE /\ ref_count' = player_ref(UnrefAll(c), n)
                /\ player' = [player EXCEPT ![c] = n]
                /\ logged_in' = [logged_in EXCEPT ![c] = TRUE]
                /\ UNCHANGED gate
      /\ UNCHANGED <<preg, new_player, logins, clobbered, endVars>>

(* process_login gives its reference back and returns 1, whether           *)
(* client_login succeeded (ACK) or not (NACK, and an ACK after it).        *)
AnswerLogin(c) ==
  /\ Goto(c, "answer", "serving")
  /\ ref_count' = player_unref(ref_count, new_player[c])
  /\ new_player' = [new_player EXCEPT ![c] = NULL]
  /\ gate' = [gate EXCEPT ![c] = 1]
  /\ UNCHANGED <<preg, player, logged_in, players, logins, semVars, endVars>>

-----------------------------------------------------------------------------
(* Other packets, which are answered with NACK while gate is 0.            *)

process_users(c) ==
  /\ Goto(c, "serving", "users")
  /\ ~finished
  /\ gate[c] # 0
  /\ creg_all_players(c)
  /\ UNCHANGED <<preg, clientVars, new_player, logins, semVars, endVars>>

SendUsers(c) ==
  /\ Goto(c, "users", "serving")
  /\ ref_count' = UnrefAll(c)
  /\ players' = [players EXCEPT ![c] = NoPlayers]
  /\ UNCHANGED <<preg, clientVars, new_player, logins, semVars, endVars>>

(* An INVITE for another client that has a player: client_make_invitation  *)
(* reads the name of the source's player.  (What else it does, and what    *)
(* the other packets do, is in Invitations.)                               *)
InviteWithoutPlayer(c) ==
  /\ Goto(c, "serving", "serving")
  /\ ~finished
  /\ gate[c] # 0
  /\ player[c] = NULL
  /\ \E d \in Registered \ {c} : player[d] # NULL
  /\ crashed' = TRUE
  /\ UNCHANGED <<playerVars, clientVars, new_player, players, logins, semVars,
                 finished>>

-----------------------------------------------------------------------------
(* The end of the connection.                                              *)

ReceiveEof(c) ==
  /\ Goto(c, "serving", IF logged_in[c] THEN "logout" ELSE "unregister")
  /\ UNCHANGED <<playerVars, clientVars, new_player, players, logins, semVars,
                 endVars>>

(* The reference to the player goes, the pointer stays.                    *)
client_logout(c) ==
  /\ Goto(c, "logout", "unregister")
  /\ ref_count' = player_unref(ref_count, player[c])
  /\ logged_in' = [logged_in EXCEPT ![c] = FALSE]
  /\ UNCHANGED <<preg, player, gate, new_player, players, logins, semVars,
                 endVars>>

(* The client leaves the registry, and with it goes all that it and its    *)
(* thread have kept.                                                       *)
creg_unregister(c) ==
  /\ Goto(c, "unregister", "gone")
  /\ ~finished
  /\ player' = [player EXCEPT ![c] = NULL]
  /\ gate' = [gate EXCEPT ![c] = 0]
  /\ logins' = [logins EXCEPT ![c] = 0]
  /\ UNCHANGED <<playerVars, logged_in, new_player, players, semVars, endVars>>

-----------------------------------------------------------------------------
(* What a thread does of itself, once a packet or EOF is there.            *)
Proceed(c) ==
  \/ WaitLoginSem(c)
  \/ ScanPlayers(c)
  \/ client_login(c)
  \/ AnswerLogin(c)
  \/ SendUsers(c)
  \/ client_logout(c)
  \/ creg_unregister(c)

(* What the peers make it do.                                              *)
Incoming(c) ==
  \/ client_create(c)
  \/ RefuseLogin(c)
  \/ \E n \in Names : process_login(c, n)
  \/ process_users(c)
  \/ InviteWithoutPlayer(c)
  \/ ReceiveEof(c)

(* terminate, when creg_wait_for_empty has returned, which may be before   *)
(* all clients are gone: creg_fini, and preg_fini, which gives back the    *)
(* references of the player registry.                                      *)
preg_fini ==
  /\ ~crashed
  /\ ~finished
  /\ finished' = TRUE
  /\ preg' = {}
  /\ ref_count' = [n \in Names |->
                     IF n \in preg THEN ref_count[n] - 1 ELSE ref_count[n]]
  /\ UNCHANGED <<clientVars, threadVars, semVars, crashed>>

(* A thread that terminate has not waited for uses one of the registries,  *)
(* to register, to log in, to list the players, or to unregister.          *)
UseFreedRegistry(c) ==
  /\ finished
  /\ ~crashed
  /\ pc[c] \in {"connected", "serving", "scan", "unregister"}
  /\ crashed' = TRUE
  /\ UNCHANGED <<playerVars, clientVars, threadVars, semVars, finished>>

Ended ==
  /\ crashed \/ finished \/ \A c \in Clients : pc[c] = "gone"
  /\ UNCHANGED vars

Next ==
  \/ \E c \in Clients : Incoming(c) \/ Proceed(c) \/ UseFreedRegistry(c)
  \/ preg_fini
  \/ Ended

Spec == Init /\ [][Next]_vars

(* A thread that can run does.  The semaphore is given to each waiter in   *)
(* the end, as each thread takes it a bounded number of times; after a     *)
(* second initialisation a waiter may sleep for ever, and when terminate   *)
(* has freed the registries the process exits.                             *)
Fairness ==
  \A c \in Clients :
    WF_vars(/\ Proceed(c)
            /\ ~finished
            /\ pc[c] = "wait_login" => ~clobbered)

FairSpec == Spec /\ Fairness

-----------------------------------------------------------------------------
(* Properties.                                                             *)

(* The references to a player are those of the registry, of the clients    *)
(* logged in as it, of the logins under way, and of the arrays that        *)
(* creg_all_players has filled and that have not been released, also when  *)
(* preg_fini comes while threads still run.  So a PLAYER lives as long as  *)
(* one of these points to it; the pointer that client_logout leaves in     *)
(* client->player is not among them.                                       *)
PlayerRefs ==
  \A n \in Names :
    ref_count[n] =
      (IF n \in preg THEN 1 ELSE 0)
      + Cardinality({c \in Clients : logged_in[c] /\ player[c] = n})
      + Cardinality({c \in Clients : new_player[c] = n})
      + Cardinality({e \in Clients \X Clients : players[e[1]][e[2]] = n})

(* No two registered clients are logged in as the same player.             *)
UniqueLogin ==
  \A c, d \in Registered :
    c # d /\ player[c] = player[d] => player[c] = NULL

(* This is so as long as CLIENT_LOGIN_SEM has not been initialised again   *)
(* while it was in use: client_login looks at all clients and assigns      *)
(* client->player with no other login in between.                          *)
UniqueLoginUnlessReinit == ~clobbered => UniqueLogin

(* Every login is answered: the thread comes back to its service loop, as  *)
(* long as the semaphore is not initialised again under the waiters and    *)
(* the process does not end.                                               *)
LoginAnswered ==
  \A c \in Clients :
    pc[c] = "wait_login" ~>
      pc[c] = "serving" \/ clobbered \/ finished \/ crashed

(* "Until the client has logged in, only LOGIN packets will be honored"    *)
(* (server.c): USERS is carried out for logged-in clients only.            *)
LoginGate == \A c \in Clients : pc[c] = "users" => logged_in[c]
=============================================================================
