---------------------------- MODULE Invitations -----------------------------
(***************************************************************************)
(* Invitations: the lists that clients keep of them, their states, and the *)
(* reference counts of INVITATION and CLIENT objects (src/client.c,        *)
(* src/invitation.c, the packet handlers of src/server.c and the part of   *)
(* creg_lookup and creg_unregister that counts references).                *)
(*                                                                         *)
(* client_make_invitation, _revoke_, _decline_, _accept_, _resign_game and *)
(* _make_move run under CLIENT_INVITE_OP_SEM from end to end, so each of   *)
(* them is one step, except that client_unref for the sides of an          *)
(* invitation that has gone takes steps of its own: threads that do not    *)
(* hold the semaphore count references to the same clients.  (That         *)
(* client_create initialises this semaphore again for every client is not  *)
(* modelled here.) client_logout holds no such semaphore while it walks    *)
(* the list: it reads a node, calls one of these functions, and goes on to *)
(* the node it has remembered.  process_invite looks a client up, gives    *)
(* the reference back, and then invites it.  creg_lookup remembers the     *)
(* slot in which it found the client and reads it again after unlocking    *)
(* the registry; client_unref tests ref_count after unlocking the client.  *)
(*                                                                         *)
(* Of a game only this is kept: whether there is one, and whether it is in *)
(* play, over, or stopped by a resignation, after which no role is on the  *)
(* move.  The rules of the game are in Game and GameSession.               *)
(***************************************************************************)
EXTENDS Integers, Sequences, FiniteSets, SequencesExt

CONSTANTS
  Clients,     (* CLIENT objects, each registered and logged in once       *)
  Invs,        (* INVITATION objects, each allocated once                  *)
  None,        (* a null pointer                                           *)
  Unreliable   (* whether a packet may fail to reach an open connection    *)

ASSUME ClientsAssumption == IsFiniteSet(Clients) /\ None \notin Clients
ASSUME InvsAssumption == IsFiniteSet(Invs) /\ None \notin Invs
ASSUME UnreliableAssumption == Unreliable \in BOOLEAN

VARIABLES
  inv,      (* the INVITATION objects                                      *)
  list,     (* each client's list of nodes [id, inv], head first           *)
  used,     (* each client's ids that are not in available_ids             *)
  ref,      (* each client's ref_count                                     *)
  freed,    (* the clients that have been freed                            *)
  slots,    (* cr->clients; slots from length on keep what was there       *)
  length,   (* cr->length                                                  *)
  misled,   (* history: creg_lookup has returned another client, or none   *)
  pc,       (* where each client's service thread is                       *)
  arg,      (* what that thread has remembered: a client, a slot or a node *)
  release,  (* an operation's client_unrefs for an invitation that is gone *)
  logout,   (* who holds CLIENT_LOGOUT_SEM, or None                        *)
  ub        (* what freed object has been used: "none", "client", "node"   *)

invVars == <<inv, list, used>>
regVars == <<slots, length, misled>>
vars    == <<invVars, ref, freed, regVars, pc, arg, release, logout, ub>>

(* At most all invitations are in one list at a time.                      *)
Ids == 0..(Cardinality(Invs) - 1)

States == {"OPEN", "ACCEPTED", "CLOSED"}

PCs == {"serving", "lookup", "unref_invitee", "invite", "logout", "walk",
        "logout_op", "unregister", "shift", "unref_self", "gone"}

Slots == 1..Cardinality(Clients)

(* The slots in which creg_lookup finds c.  client_logout does not clear   *)
(* client->player, so it is found until it is unregistered.                *)
Found(c) == {k \in 1..length : slots[k] = c}

NoInv == [state |-> "none", source |-> None, target |-> None,
          game |-> "none", refs |-> 0]

(* What creg_lookup remembers.                                             *)
Lookups == [client : Clients, slot : Slots]

(* What a walking thread has remembered of its list: the function it will  *)
(* call, the id it will pass, and the node it will go to afterwards.       *)
Visits == [op : {"resign", "revoke", "decline"}, id : Ids,
           next : Invs \cup {None}]

(* Where a thread is in inv_unref, after which client_remove_invitation    *)
(* uses the clients in "users" once more.                                  *)
Releases == [step : {"none", "test_source", "unref_target", "test_target",
                     "purge"},
             by : Clients \cup {None}, source : Clients \cup {None},
             target : Clients \cup {None}, users : SUBSET Clients]

NoRelease == [step |-> "none", by |-> None, source |-> None, target |-> None,
              users |-> {}]

TypeOK ==
  /\ inv \in [Invs -> [state : States \cup {"none", "freed"},
                       source : Clients \cup {None},
                       target : Clients \cup {None},
                       game : {"none", "playing", "over", "resigned"},
                       refs : 0..2]]
  /\ list \in [Clients -> Seq([id : Ids, inv : Invs])]
  /\ used \in [Clients -> SUBSET Ids]
  /\ ref \in [Clients -> Int]
  /\ freed \in SUBSET Clients
  /\ slots \in [Slots -> Clients \cup {None}]
  /\ length \in 0..Cardinality(Clients)
  /\ misled \in BOOLEAN
  /\ pc \in [Clients -> PCs]
  /\ arg \in [Clients -> Clients \cup Invs \cup {None} \cup [slot : Slots]
                       \cup Lookups \cup Visits]
  /\ release \in Releases
  /\ logout \in Clients \cup {None}
  /\ ub \in {"none", "client", "node"}

(* creg_register, in any order, and client_login are done.                 *)
Init ==
  /\ inv = [i \in Invs |-> NoInv]
  /\ list = [c \in Clients |-> <<>>]
  /\ used = [c \in Clients |-> {}]
  /\ ref = [c \in Clients |-> 1]
  /\ freed = {}
  /\ slots \in {f \in [Slots -> Clients] : IsInjective(f)}
  /\ length = Cardinality(Clients)
  /\ misled = FALSE
  /\ pc = [c \in Clients |-> "serving"]
  /\ arg = [c \in Clients |-> None]
  /\ release = NoRelease
  /\ logout = None
  /\ ub = "none"

-----------------------------------------------------------------------------
(* Helpers.                                                                *)

(* After the use of a freed object nothing is said any more: there are no  *)
(* further steps.                                                          *)
Defined == ub = "none"

(* A thread in the middle of an operation finishes it first.               *)
At(c, place) ==
  /\ Defined
  /\ pc[c] = place
  /\ c \notin freed
  /\ release.by # c

(* CLIENT_INVITE_OP_SEM: no operation is in progress.                      *)
OpSemFree == release.step = "none"

Sides(i) == {inv[i].source, inv[i].target}

Listed(c) == {n.inv : n \in ToSet(list[c])}

(* Where the node of i is in the list of c.                                *)
Position(c, i) == CHOOSE k \in 1..Len(list[c]) : list[c][k].inv = i

(* client_get_invitation.                                                  *)
client_get_invitation(c, id) ==
  IF \E n \in ToSet(list[c]) : n.id = id
    THEN (CHOOSE n \in ToSet(list[c]) : n.id = id).inv
    ELSE None

(* Mutant: the number of ids in use is taken for the lowest free one.      *)
get_available_id_count(c) == Cardinality(used[c])

(* The lowest id that is free.                                             *)
get_available_id(c) ==
  CHOOSE id \in Ids \ used[c] : \A j \in Ids \ used[c] : id <= j

(* proto_send_packet.  The descriptor of a client that is gone is closed,  *)
(* or stands for a newer connection, which then gets the packet.           *)
SendResults(c) == IF Unreliable \/ pc[c] = "gone" THEN BOOLEAN ELSE {TRUE}

(* Mutant: whether there is a game in progress is not looked at.           *)
ClosableAny(i, state) == i # None /\ inv[i].state \in {"OPEN", "ACCEPTED"}

(* inv_close: an OPEN invitation can be revoked, declined or accepted, an  *)
(* ACCEPTED one resigned.                                                  *)
Closable(i, state) == i # None /\ inv[i].state = state

(* The ids in use by c without the one of i.                               *)
purge_id(c, i) == used[c] \ {list[c][Position(c, i)].id}

(* Mutant: removal from two lists gives back one reference.                *)
inv_unref_once(i, holders) == inv[i].refs - 1

(* The references to i that are left after removal from the holders' lists.*)
inv_unref(i, holders) == inv[i].refs - Cardinality(holders)

(* client_remove_invitation of i for the clients in S by thread "by", the  *)
(* caller first.  When the last reference to i goes, i gives back its      *)
(* references: client_unref decrements the count of the source, and the    *)
(* rest is in the steps of UnrefSides.  (The ids are given back then, but  *)
(* nobody looks at them before the operation ends.)                        *)
Unlist(by, i, S, state, game) ==
  LET holders == {c \in S : i \in Listed(c)}
      left    == inv_unref(i, holders)
      gone    == left = 0
  IN  /\ list' = [c \in Clients |->
                    IF c \in holders THEN RemoveAt(list[c], Position(c, i))
                                     ELSE list[c]]
      /\ used' = [c \in Clients |->
                    IF c \in holders THEN purge_id(c, i) ELSE used[c]]
      /\ inv' = [inv EXCEPT ![i] =
                   [@ EXCEPT !.state = IF gone THEN "freed" ELSE state,
                             !.game = game, !.refs = left]]
      /\ ref' = IF gone THEN [ref EXCEPT ![inv[i].source] = @ - 1] ELSE ref
      /\ release' = IF gone THEN [step |-> "test_source", by |-> by,
                                  source |-> inv[i].source,
                                  target |-> inv[i].target, users |-> S]
                            ELSE release
      /\ ub' = IF (S \cup Sides(i)) \cap freed # {} THEN "client" ELSE ub
      /\ UNCHANGED freed

Set(i, state, game) ==
  /\ inv' = [inv EXCEPT ![i].state = state, ![i].game = game]
  /\ ub' = IF Sides(i) \cap freed # {} THEN "client" ELSE ub
  /\ UNCHANGED <<list, used, ref, freed, release>>

Nothing == UNCHANGED <<invVars, ref, freed, release, ub>>

(* Mutant: the target is taken for the opponent, whoever asks.             *)
OpponentTarget(c, i) == inv[i].target

Opponent(c, i) ==
  IF c = inv[i].source THEN inv[i].target ELSE inv[i].source

-----------------------------------------------------------------------------
(* The operations on the invitation with a given id of client c.  What     *)
(* they return decides between ACK and NACK, which is left out.            *)

(* It is not asked whether c is the source: a target that revokes sends    *)
(* REVOKED to itself and takes the invitation out of its own list only.    *)
client_revoke_invitation(c, id) ==
  LET i == client_get_invitation(c, id)
  IN  IF ~Closable(i, "OPEN") THEN Nothing
      ELSE \E sent \in SendResults(inv[i].target) :
             IF sent THEN Unlist(c, i, {c, inv[i].target}, "CLOSED", inv[i].game)
                     ELSE Set(i, "CLOSED", inv[i].game)

(* Likewise for a source that declines; that the packet could not be sent  *)
(* makes no difference.                                                    *)
client_decline_invitation(c, id) ==
  LET i == client_get_invitation(c, id)
  IN  IF ~Closable(i, "OPEN") THEN Nothing
      ELSE Unlist(c, i, {c, inv[i].source}, "CLOSED", inv[i].game)

(* Mutant: the source may accept, and again.                               *)
client_accept_any(c, id) ==
  LET i == client_get_invitation(c, id)
  IN  IF i = None THEN Nothing ELSE Set(i, "ACCEPTED", "playing")

(* The game is created before the ACCEPTED packet is sent, and stays if it *)
(* cannot be sent.                                                         *)
client_accept_invitation(c, id) ==
  LET i == client_get_invitation(c, id)
  IN  IF Closable(i, "OPEN") /\ inv[i].target = c
        THEN Set(i, "ACCEPTED", "playing")
        ELSE Nothing

(* game_resign leaves a game alone that has a winner.                      *)
client_resign_game(c, id) ==
  LET i == client_get_invitation(c, id)
  IN  IF ~Closable(i, "ACCEPTED") THEN Nothing
      ELSE \E sent \in SendResults(Opponent(c, i)),
              game \in {"resigned"} \cup ({inv[i].game} \cap {"over"}) :
             IF sent THEN Unlist(c, i, {c, Opponent(c, i)}, "CLOSED", game)
                     ELSE Set(i, "CLOSED", game)

(* A legal move: the game goes on or ends.  MOVED goes to the opponent and *)
(* ENDED to both; the invitation leaves both lists, in the state that it   *)
(* has, if the game is over and all of them could be sent.  (An illegal    *)
(* move changes nothing.)                                                  *)
client_make_move(c, id) ==
  LET i == client_get_invitation(c, id)
  IN  IF i = None \/ inv[i].game \in {"none", "resigned"} THEN Nothing
      ELSE \E over \in (IF inv[i].game = "over" THEN {TRUE} ELSE BOOLEAN),
              sent \in SendResults(Opponent(c, i)),
              ended \in SendResults(c) :
             IF over /\ sent /\ ended
               THEN Unlist(c, i, {c, Opponent(c, i)}, inv[i].state, "over")
               ELSE Set(i, inv[i].state, IF over THEN "over" ELSE "playing")

-----------------------------------------------------------------------------
(* inv_unref goes on, after the count of the source was decremented.       *)

(* client_unref after unlocking: it reads ref_count once more, and frees   *)
(* the client if that is 0 now.  (It would log out a client that is logged *)
(* in first; but a logged-in client has the registry's reference, which is *)
(* given back too early only after creg_lookup has misled its caller.)     *)
FreeIfUnreferenced(d) ==
  /\ freed' = IF ref[d] = 0 THEN freed \cup {d} ELSE freed
  /\ ub' = IF d \in freed THEN "client" ELSE ub

TestSource ==
  /\ release.step = "test_source"
  /\ FreeIfUnreferenced(release.source)
  /\ release' = [release EXCEPT !.step = "unref_target"]
  /\ UNCHANGED ref

UnrefTarget ==
  /\ release.step = "unref_target"
  /\ ref' = [ref EXCEPT ![release.target] = @ - 1]
  /\ release' = [release EXCEPT !.step = "test_target"]
  /\ ub' = IF release.target \in freed THEN "client" ELSE ub
  /\ UNCHANGED freed

TestTarget ==
  /\ release.step = "test_target"
  /\ FreeIfUnreferenced(release.target)
  /\ release' = [release EXCEPT !.step = "purge"]
  /\ UNCHANGED ref

(* client_remove_invitation goes on with a client that may be freed by     *)
(* now: purge_id, or the search in the list of the other side.  The        *)
(* operation ends.                                                         *)
PurgeId ==
  /\ release.step = "purge"
  /\ ub' = IF release.users \cap freed # {} THEN "client" ELSE ub
  /\ release' = NoRelease
  /\ UNCHANGED <<ref, freed>>

UnrefSides(c) ==
  /\ Defined /\ release.by = c /\ c \notin freed
  /\ TestSource \/ UnrefTarget \/ TestTarget \/ PurgeId
  /\ UNCHANGED <<invVars, regVars, pc, arg, logout>>

-----------------------------------------------------------------------------
(* A service thread handles packets.                                       *)

Packet(c) ==
  /\ At(c, "serving")
  /\ OpSemFree
  /\ \E id \in Ids :
       \/ client_revoke_invitation(c, id)
       \/ client_decline_invitation(c, id)
       \/ client_accept_invitation(c, id)
       \/ client_resign_game(c, id)
       \/ client_make_move(c, id)
  /\ UNCHANGED <<regVars, pc, arg, logout>>

(* cr->mutex: creg_unregister holds it until its reference is given back.  *)
RegistryUnlocked == \A c \in Clients : pc[c] \notin {"shift", "unref_self"}

(* Mutant: no reference is taken.                                          *)
creg_lookup_no_ref(c, d) ==
  /\ At(c, "serving")
  /\ RegistryUnlocked
  /\ \E k \in Found(d) : arg' = [arg EXCEPT ![c] = [client |-> d, slot |-> k]]
  /\ pc' = [pc EXCEPT ![c] = "lookup"]
  /\ UNCHANGED <<invVars, ref, freed, regVars, release, logout, ub>>

(* process_invite: creg_lookup finds the invitee, takes a reference to it  *)
(* and unlocks the registry ...                                            *)
creg_lookup(c, d) ==
  /\ At(c, "serving")
  /\ RegistryUnlocked
  /\ \E k \in Found(d) : arg' = [arg EXCEPT ![c] = [client |-> d, slot |-> k]]
  /\ ref' = [ref EXCEPT ![d] = @ + 1]
  /\ pc' = [pc EXCEPT ![c] = "lookup"]
  /\ UNCHANGED <<invVars, freed, regVars, release, logout, ub>>

(* ... and returns what is in the slot now.  process_invite gives the      *)
(* reference to that client back at once: client_unref decrements ...      *)
UnrefInvitee(c) ==
  LET found == slots[arg[c].slot]
  IN  /\ At(c, "lookup")
      /\ misled' = (misled \/ found # arg[c].client)
      /\ IF found = None
           THEN /\ pc' = [pc EXCEPT ![c] = "serving"]
                /\ UNCHANGED <<ref, ub>>
           ELSE /\ pc' = [pc EXCEPT ![c] = "unref_invitee"]
                /\ ref' = [ref EXCEPT ![found] = @ - 1]
                /\ ub' = IF found \in freed THEN "client" ELSE ub
      /\ arg' = [arg EXCEPT ![c] = found]
      /\ UNCHANGED <<invVars, freed, slots, length, release, logout>>

(* ... and tests.  Inviting oneself is refused.                            *)
TestInvitee(c) ==
  /\ At(c, "unref_invitee")
  /\ FreeIfUnreferenced(arg[c])
  /\ pc' = [pc EXCEPT ![c] = IF arg[c] = c THEN "serving" ELSE "invite"]
  /\ arg' = IF arg[c] = c THEN [arg EXCEPT ![c] = None] ELSE arg
  /\ UNCHANGED <<invVars, ref, regVars, release, logout>>

(* Mutant: the reference of the function that made it is kept.             *)
inv_create_kept(c, d) ==
  [state |-> "OPEN", source |-> c, target |-> d, game |-> "none", refs |-> 3]

(* A new invitation, with the references of the two lists: the first one,  *)
(* which inv_create returned, has been given back.                         *)
inv_create(c, d) ==
  [state |-> "OPEN", source |-> c, target |-> d, game |-> "none", refs |-> 2]

(* client_make_invitation, through the pointer that is still at hand.      *)
(* When all of Invs are in use inv_create fails.                           *)
client_make_invitation(c) ==
  LET d == arg[c]
  IN  /\ At(c, "invite")
      /\ OpSemFree
      /\ IF \A i \in Invs : inv[i].state # "none" THEN Nothing
         ELSE IF d \in freed
           THEN ub' = "client" /\ UNCHANGED <<invVars, ref, freed, release>>
           ELSE \E i \in Invs :
                  /\ inv[i].state = "none"
                  /\ inv' = [inv EXCEPT ![i] = inv_create(c, d)]
                  /\ list' = [list EXCEPT
                       ![c] = <<[id |-> get_available_id(c), inv |-> i]>> \o @,
                       ![d] = <<[id |-> get_available_id(d), inv |-> i]>> \o @]
                  /\ used' = [used EXCEPT
                       ![c] = @ \cup {get_available_id(c)},
                       ![d] = @ \cup {get_available_id(d)}]
                  /\ ref' = [ref EXCEPT ![c] = @ + 1, ![d] = @ + 1]
                  /\ UNCHANGED <<freed, release, ub>>
      /\ pc' = [pc EXCEPT ![c] = "serving"]
      /\ arg' = [arg EXCEPT ![c] = None]
      /\ UNCHANGED <<regVars, logout>>

-----------------------------------------------------------------------------
(* A service thread sees the end of its connection.                        *)

ReceiveEof(c) ==
  /\ At(c, "serving")
  /\ pc' = [pc EXCEPT ![c] = "logout"]
  /\ UNCHANGED <<invVars, ref, freed, regVars, arg, release, logout, ub>>

(* client_logout: it takes the semaphore and looks at the head of the      *)
(* list.                                                                   *)
BeginLogout(c) ==
  /\ At(c, "logout")
  /\ logout = None
  /\ logout' = c
  /\ pc' = [pc EXCEPT ![c] = "walk"]
  /\ arg' = [arg EXCEPT ![c] = IF list[c] = <<>> THEN None ELSE Head(list[c]).inv]
  /\ UNCHANGED <<invVars, ref, freed, regVars, release, ub>>

(* It reads a node of the list, and the invitation of the node.  Between   *)
(* the last visit and this one another thread may have freed the node, at  *)
(* the end of its operation.  (A visit after the node was unlinked and     *)
(* before it is freed reads what a visit before the operation reads.)      *)
VisitNode(c) ==
  /\ At(c, "walk")
  /\ arg[c] # None
  /\ IF arg[c] \notin Listed(c)
       THEN OpSemFree /\ ub' = "node" /\ UNCHANGED <<pc, arg>>
       ELSE LET k == Position(c, arg[c])
            IN  /\ arg' = [arg EXCEPT ![c] =
                     [op   |-> IF inv[@].game # "none" THEN "resign"
                               ELSE IF inv[@].source = c THEN "revoke"
                               ELSE "decline",
                      id   |-> list[c][k].id,
                      next |-> IF k < Len(list[c]) THEN list[c][k + 1].inv
                                                   ELSE None]]
                /\ pc' = [pc EXCEPT ![c] = "logout_op"]
                /\ UNCHANGED ub
  /\ UNCHANGED <<invVars, ref, freed, regVars, release, logout>>

(* The call it has decided on, by id.                                      *)
LogoutOp(c) ==
  /\ At(c, "logout_op")
  /\ OpSemFree
  /\ CASE arg[c].op = "resign"  -> client_resign_game(c, arg[c].id)
       [] arg[c].op = "revoke"  -> client_revoke_invitation(c, arg[c].id)
       [] arg[c].op = "decline" -> client_decline_invitation(c, arg[c].id)
  /\ pc' = [pc EXCEPT ![c] = "walk"]
  /\ arg' = [arg EXCEPT ![c] = arg[c].next]
  /\ UNCHANGED <<regVars, logout>>

(* Mutant: the semaphore is kept.                                          *)
EndLogoutKeepsSem(c) ==
  /\ At(c, "walk")
  /\ arg[c] = None
  /\ pc' = [pc EXCEPT ![c] = "unregister"]
  /\ UNCHANGED <<invVars, ref, freed, regVars, arg, release, logout, ub>>

EndLogout(c) ==
  /\ At(c, "walk")
  /\ arg[c] = None
  /\ logout' = None
  /\ pc' = [pc EXCEPT ![c] = "unregister"]
  /\ UNCHANGED <<invVars, ref, freed, regVars, arg, release, ub>>

(* creg_unregister clears the slot of the client, under the mutex ...      *)
creg_unregister(c) ==
  /\ At(c, "unregister")
  /\ RegistryUnlocked
  /\ \E k \in Found(c) :
       /\ slots' = [slots EXCEPT ![k] = None]
       /\ arg' = [arg EXCEPT ![c] = [slot |-> k]]
  /\ pc' = [pc EXCEPT ![c] = "shift"]
  /\ UNCHANGED <<invVars, ref, freed, length, misled, release, logout, ub>>

(* The clients behind slot k move up one, and length is decremented.  The  *)
(* last slot keeps what was in it.                                         *)
MoveUp(k) ==
  /\ slots' = [j \in Slots |->
                 IF k <= j /\ j < length THEN slots[j + 1] ELSE slots[j]]
  /\ length' = length - 1
  /\ UNCHANGED misled

(* Mutant: the registry's reference is not given back.                     *)
ShiftKeepsRef(c) ==
  /\ At(c, "shift")
  /\ MoveUp(arg[c].slot)
  /\ arg' = [arg EXCEPT ![c] = None]
  /\ pc' = [pc EXCEPT ![c] = "unref_self"]
  /\ UNCHANGED <<invVars, ref, freed, release, logout, ub>>

(* ... moves the others up, and gives the registry's reference back:       *)
(* client_unref decrements ...                                             *)
Shift(c) ==
  /\ At(c, "shift")
  /\ MoveUp(arg[c].slot)
  /\ arg' = [arg EXCEPT ![c] = None]
  /\ ref' = [ref EXCEPT ![c] = @ - 1]
  /\ pc' = [pc EXCEPT ![c] = "unref_self"]
  /\ UNCHANGED <<invVars, freed, release, logout, ub>>

(* ... and tests.  Then the thread closes the connection and ends.         *)
TestSelf(c) ==
  /\ At(c, "unref_self")
  /\ FreeIfUnreferenced(c)
  /\ pc' = [pc EXCEPT ![c] = "gone"]
  /\ UNCHANGED <<invVars, ref, regVars, arg, release, logout>>

(* The thread of a client that another thread has freed goes on using it.  *)
UseFreedSelf(c) ==
  /\ Defined
  /\ c \in freed
  /\ pc[c] # "gone"
  /\ ub' = "client"
  /\ UNCHANGED <<invVars, ref, freed, regVars, pc, arg, release, logout>>

-----------------------------------------------------------------------------
(* What the threads of clients that have left do, one step each.           *)
Leave(c) ==
  \/ BeginLogout(c)
  \/ VisitNode(c)
  \/ LogoutOp(c)
  \/ EndLogout(c)
  \/ creg_unregister(c)
  \/ Shift(c)
  \/ TestSelf(c)
  \/ UseFreedSelf(c)

Serve(c) ==
  \/ Packet(c)
  \/ \E d \in Clients : creg_lookup(c, d)
  \/ UnrefInvitee(c)
  \/ TestInvitee(c)
  \/ client_make_invitation(c)
  \/ ReceiveEof(c)

(* All threads have ended, or anything may happen.                         *)
Ended ==
  /\ ~Defined \/ \A c \in Clients : pc[c] = "gone"
  /\ UNCHANGED vars

Next ==
  \/ \E c \in Clients : Serve(c) \/ UnrefSides(c) \/ Leave(c)
  \/ Ended

Spec == Init /\ [][Next]_vars

(* Threads that can run do run; a thread waiting for CLIENT_LOGOUT_SEM is  *)
(* overtaken at most once by each other client, and one waiting for        *)
(* CLIENT_INVITE_OP_SEM finds it taken at most once for every invitation,  *)
(* so weak fairness is enough for them.                                    *)
FairSpec ==
  /\ Spec
  /\ \A c \in Clients : WF_vars(UnrefSides(c)) /\ WF_vars(Leave(c))

-----------------------------------------------------------------------------
(* Properties.                                                             *)

Live == {i \in Invs : inv[i].state \in States}

(* An invitation lives exactly as long as some client lists it, and counts *)
(* those lists: revocations, declinations, resignations, last moves and    *)
(* logouts of the two sides together give each reference back once.        *)
InvitationRefs ==
  Defined =>
    \A i \in Invs :
      LET holders == {c \in Clients : i \in Listed(c)}
      IN  /\ inv[i].refs = Cardinality(holders)
          /\ i \in Live <=> holders # {}

(* A client's count is the registry's reference, one for every invitation  *)
(* it is a side of or the target of in an unfinished inv_unref, and one    *)
(* for every thread that has just looked it up, and it is freed at 0 only; *)
(* as long as creg_lookup has returned the clients that it found.          *)
ClientRefs ==
  Defined /\ ~misled =>
    \A c \in Clients :
      /\ c \in freed => ref[c] = 0
      /\ ref[c] = (IF pc[c] \in {"unref_self", "gone"} THEN 0 ELSE 1)
        + Cardinality({i \in Live : inv[i].source = c})
        + Cardinality({i \in Live : inv[i].target = c})
        + Cardinality({d \in Clients : pc[d] = "lookup" /\ arg[d].client = c})
        + (IF release.step \in {"test_source", "unref_target"}
              /\ release.target = c THEN 1 ELSE 0)

(* Where thread c uses a client that is freed: in client_unref, which      *)
(* looks at the count after unlocking, when another thread has seen it at  *)
(* 0 too; in process_invite, after it has given back the reference that    *)
(* creg_lookup took for it; or at the end of client_remove_invitation,     *)
(* when the invitation was the last that kept the client.                  *)
StaleUse(c) ==
  \/ pc[c] \in {"unref_invitee", "invite"} /\ arg[c] \in freed
  \/ pc[c] = "unref_self" /\ c \in freed
  \/ /\ release.by = c
     /\ \/ release.step = "test_source" /\ release.source \in freed
        \/ release.step = "test_target" /\ release.target \in freed
        \/ release.step = "purge" /\ release.users \cap freed # {}

(* These are the only ways to a freed client, as long as creg_lookup has   *)
(* returned the clients that it found: the array, the lists, the           *)
(* invitations and a lookup under way never lead to one.                   *)
StaleUsesKnown ==
  [][Defined /\ ub' = "client" /\ ~misled' => \E c \in Clients : StaleUse(c)]_vars

(* An id names one invitation of a client at a time, and the ids in use    *)
(* are those in its list: an id comes back when its invitation goes.       *)
IdsUnique ==
  \A c \in Clients :
    /\ used[c] = {n.id : n \in ToSet(list[c])}
    /\ Cardinality(used[c]) = Len(list[c])

(* What client_logout relies on when it decides by the game pointer        *)
(* whether to resign: there is a game exactly from the acceptance on, and  *)
(* it is over when the invitation is CLOSED after having been ACCEPTED.    *)
GameGoesWithState ==
  \A i \in Live :
    /\ inv[i].state = "OPEN" => inv[i].game = "none"
    /\ inv[i].state = "ACCEPTED" => inv[i].game # "none"
    /\ inv[i].state = "CLOSED" => inv[i].game # "playing"

(* An invitation is only ever in the lists of its two sides, and as long   *)
(* as it is OPEN or in play it is in both.                                 *)
BothSides ==
  Defined =>
    \A i \in Live :
      LET holders == {c \in Clients : i \in Listed(c)}
      IN  /\ holders \subseteq Sides(i)
          /\ inv[i].state \in {"OPEN", "ACCEPTED"} => holders = Sides(i)

(* An invitation never goes back: OPEN, then perhaps ACCEPTED, then CLOSED *)
(* or freed; and its game, once over or resigned, is never in play again.  *)
Forward ==
  [][\A i \in Live :
       /\ inv[i].state = "ACCEPTED" => inv'[i].state # "OPEN"
       /\ inv[i].state = "CLOSED" => inv'[i].state \in {"CLOSED", "freed"}
       /\ inv[i].game = "over" => inv'[i].game \in {"over", "resigned"}
       /\ inv[i].game = "resigned" => inv'[i].game = "resigned"]_vars

(* A client that has left gets through client_logout and unregisters,      *)
(* whatever the others do to its list in the meantime.                     *)
LogoutEnds ==
  \A c \in Clients : pc[c] = "logout" ~> pc[c] = "gone" \/ ~Defined

(* "A CLIENT object will not be freed until its reference count reaches    *)
(* zero", so that it can be passed around "without fear of dangling        *)
(* references" (client.c): the client that process_invite passes to        *)
(* client_make_invitation is not freed.                                    *)
InviteeNotFreed ==
  \A c \in Clients : pc[c] = "invite" => arg[c] \notin freed
=============================================================================
