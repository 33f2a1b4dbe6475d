# A TLA+ development for the Jeux game server

Jeux is a multithreaded tic-tac-toe server: one thread accepts connections and
one service thread per connection carries out that client's packets. This
directory holds TLA+ models of the server's shared state and of the threads
that change it, the TLC configurations that check them on small instances, and
TLAPS proofs. Paths below are relative to the repository root (`src/client.c`
is `src/src/client.c` in `PROJECT.json`).

Check a run with `tlc -config Registry.cfg MCClientRegistry`, the proofs
of a module with `tlapm ClientRegistryProofs.tla` (and so on for each `*Proofs`
module and `SumTheorems`).

## Inventory

| Component | State | Operations | Uses |
|---|---|---|---|
| client registry (`client_registry.c`) | array of clients, `length`, `no`, mutex, semaphores `login_queue` and `sem` | init, fini, register, unregister, lookup, all_players, shutdown_all, wait_for_empty | clients |
| main thread (`main.c`) | `signal_received` | accept loop, SIGHUP handler, `terminate` | client registry, service threads |
| service thread (`server.c`) | the login flag, the packet at hand | one handler per packet type, logout at EOF | client registry, clients, protocol |
| client (`client.c`) | player, list of invitations with ids, reference count; the process-wide operation semaphores | login, logout, make/revoke/decline/accept invitation, move, resign, send | invitations, games, players, protocol |
| invitation (`invitation.c`) | source, target, state OPEN/ACCEPTED/CLOSED, game, reference count | create, ref/unref, accept, close | clients, games |
| game (`game.c`) | board, player on the move, over?, winner | create, parse and apply a move, resign, verdict | |
| player (`player.c`) | name, rating, reference count | post a result | |
| player registry (`player_registry.c`) | map from names to players | register or find | players |
| protocol (`protocol.c`, `includeme.c`) | | send and receive a packet | sockets |

Threads interact through the registry (mutex and two semaphores), through the
process-wide semaphores of `client.c` (`CLIENT_INVITE_OP_SEM` around each
operation on invitations, `CLIENT_LOGOUT_SEM` around a logout,
`CLIENT_LOGIN_SEM` around a login, `CLIENT_UPDATE_ELO` around a result), and
through
each other's connections: a thread writes to its opponent's socket while it
holds `CLIENT_INVITE_OP_SEM`.

What is hard here:

* unlocked reads (`length` and `no` in `creg_register`, `length` in
  `creg_wait_for_empty`, the list in `client_logout`);
* the end of the process: SIGHUP, a wait for the registry to become empty, and
  `free` while threads may still run;
* operations that send several packets and return at the first failure, with
  part of their work done;
* references that are given back before the last use, slots and counts that are
  read again after an unlock;
* operation semaphores that every new client initialises again;
* packets written and read in pieces, by several threads;
* peers that go away at any moment, and SIGPIPE.

What makes the components correct: the registry never overflows, loses no slot,
no client and no wakeup; a game is decided by the rules and its result is posted
once; an invitation is in both lists as long as it can be acted on, its
references and ids are given back once, and its state only goes forward; a name
is logged in once and a player lives as long as it is referred to; ratings lose
no result; packets arrive in order, and whole if the size field can tell their
length; every thread whose connection has
ended gets to its end. `PROJECT.json` lists the hazards with the properties that
would catch each.

## Modules

**`ClientRegistry`** models `client_registry.c` with the threads that use it.
`clients` is the part of the array below `length`; `pc` and `mpc` say where the
service threads and main are. A step is one access that another thread can
observe: the two unlocked tests of `creg_register` (`CheckLength`, `CheckNo`),
the wait for a slot (`ReserveSlot`), its critical section (`AddClient`). The
critical section of `creg_unregister` is four steps (`RemoveClient`,
`ReleaseSlot`, `PostIfEmpty`, `UnlockRegistry`), because main reads `length`
and waits on `sem` without the mutex. Main goes through `EnterAccept`,
`AcceptConn`, `CreateThread` or `BeginTerminate`, `creg_shutdown_all`,
`WaitForEmptyRead`, `WaitForEmptySem`, `creg_fini`, `Exit`. SIGHUP is taken to
be delivered to the main thread, which is what Linux does for a signal sent to
the process as long as that thread does not block it. Everything a registered
client does between `creg_register` and EOF is left to the other modules. A
thread that touches the freed registry is `crashed` and does nothing more.

**`BoundedRegistry`** says what the registry promises: connections join a set of
at most `MAX_CLIENTS` at most once, and leave it. `ClientRegistry` implements it
(`ImplementsBounded`, with the clients of the array as the members).

**`MCShutdownHistory`** adds a history variable to it: the clients that were
registered when main called `creg_wait_for_empty`.

**`Game`** is `game.c` as operators on a record: the verdict with its order of
scanning, legality, resignation, and what the parser makes of a move string
(its form, digit and mark; not its characters). It also states what winning
means independently of the scan, by a magic square.

**`GameSession`** extends `Game` with the two service threads of one accepted
invitation: `client_make_move` and `client_resign_game`, split at every send,
and the logout at the end of a connection. It begins where the target's
`client_accept_invitation` ends: the source's thread is served, or it is in
`client_logout`, where it has seen the game and resigns it, or has looked before
the acceptance and goes on to a revocation that is refused (`RefuseRevoke`).
`overtaken` names a client of the last kind. `link` is the state of each
connection, and decides what `write(2)` does: succeed, fail (`ECONNRESET`,
`EBADF`) or raise SIGPIPE. A packet is one write; only for MOVED, whose payload
follows its header in a second write, does the model let the second one find
the connection broken. Clients are named by their roles.

**`MatchRecord`** says what a game promises to the ratings: its outcome is
recorded at most once, as the game has it at that moment, and does not change
afterwards. `GameSession` implements it (`ImplementsMatch`); until the record the
outcome of a game that is over may change, because the code takes moves in a
game whose end could not be announced.

**`Invitations`** models the lists, ids, states and reference counts. Each
operation that holds `CLIENT_INVITE_OP_SEM` from end to end is one step, with
each send succeeding or failing, up to the moment at which the last reference to
its invitation goes: `inv_unref` then gives back the references to the two
clients, and each `client_unref` decrements a count under the client's lock and
looks at it again after the unlock. Threads that do not hold the semaphore
count references too (`creg_lookup`, `process_invite`, `creg_unregister`), so
these are steps of their own (`TestSource`, `UnrefTarget`, `TestTarget`), with
`PurgeId`, the rest of `client_remove_invitation`, as the last; `release` says
how far a thread is, and that the semaphore is taken. `client_logout` is a walk of many steps
(`BeginLogout`, `VisitNode`, `LogoutOp`, `EndLogout`). `process_invite` is
`creg_lookup`, which remembers the slot of the client it found and unlocks;
`UnrefInvitee`, which reads that slot and gives the reference back to whatever
client it holds now; `TestInvitee`, where `client_unref` reads the count again
after its unlock; and `client_make_invitation`. `creg_unregister` clears the
slot, moves the others up (`Shift`) and tests the count (`TestSelf`), all under
the registry's mutex but visible to a late `UnrefInvitee`. A freed object that
is used, or freed again, sets `ub`, after which nothing more is claimed
(`Defined`). `StaleUse` names the places where a client that has been freed
can be used. `misled` remembers that a lookup has returned another client than
it counted, after which no claim is made about the counts. Of a game it keeps
whether it is in play, over, or stopped by a resignation; that a move is legal
is a choice.

**`Login`** models `process_login`, `process_users` and the login gate of
`jeux_client_service`, `client_login`, the player's side of `client_logout`,
`creg_all_players`, the player registry and the reference counts of players.
The array that `creg_all_players` returns is a function from clients to players,
which keeps how often each player is in it. `client_create` sets the semaphore
to 1 at any time, as the code does because `is_sem_init` is never set.
`clobbered` remembers that this happened while the semaphore was held or waited
for. `preg_fini` stands for the end of `terminate`, where both registries are
freed. It may come at any time, since `creg_wait_for_empty` may return with
clients registered (`WaitStalePost`); a thread that uses a registry afterwards is
`UseFreedRegistry`.

**`Results`** models `post_player_results` and `player_post_result`: the
semaphore, the two mutexes in the order of the roles, the computation and the
update. The formula is computed in doubles and cut to `int`; the module computes
the same ints from a table of the 16 differences at which 32 * E1 passes an
integer. It was compared with the double arithmetic for differences of up to
some thousands; ratings in a bounded run stay far below that.

**`RatingLedger`** says what posting a result promises: a result that is handed in
is settled once, as a whole, with the ratings that its players have at that
moment. `Results` implements it (`ImplementsLedger`), with the results of the
threads between the end of a game and its update as the ones that are pending.

**`PacketChannel`** is a connection as its users see it: packets that arrive once
and in order, with the part of the payload that the size field can tell (`Cut`),
and are lost only when the connection is. **`Packets`** implements it
(`ImplementsChannel`): several senders under the client's lock, header and
payload written and read in pieces of any length, a socket that holds a few
bytes, and a size field that holds the length modulo `SizeMod`. A payload whose
length does not fit is cut to its first bytes, or dropped, and that is what the
receiver is given. A byte is the
pair of its packet and its position, so bytes of two packets cannot be taken for
one. Sender and receiver may be the server or a peer.

`MC*` modules give TLC its constants. The `*Proofs` modules (of `ClientRegistry`,
`GameSession`, `Invitations`, `Login`, `Results` and `Packets`) extend the module
they are about and hold its inductive invariant, the lemmas and the theorems;
`SumTheorems` has the facts about sums over finite sets that `ResultsProofs` needs.

`GameSession` and `Invitations` assume that `CLIENT_INVITE_OP_SEM` and
`CLIENT_LOGOUT_SEM` work, which in the code they do only as long as no client
connects while an operation is under way. What becomes of a semaphore that is initialised
again is shown in `Login` and `Results`.

## Runs

Passing:

| Run | Bounds | Shows |
|---|---|---|
| `Registry` | 3 connections, 2 slots | the refinement of `BoundedRegistry` (which contains its capacity), slot accounting, exactness of the array, no lost wakeup; main gets out of the wait for an empty registry; an ended connection leaves it; a SIGHUP that main has seen ends the process, unless a client registered behind `creg_shutdown_all` and stays |
| `GameRules` | all nine squares, marked and unparsable moves, connections stay up | verdict against the rules, alternation, finished games are posted, cleared and final |
| `GameFaults` | X on 4, 5, 6, 9 and O on 1, 2, 3; both kinds of connection end; the source served or logging out at the start | the refinement of `MatchRecord`: one result, the right one, and final; a client that is gone does not hold its opponent, unless it was overtaken by the acceptance; threads whose connection has ended finish |
| `InvitationSafety` | 2 clients, 3 invitations, sends fail only to clients that are gone, symmetry | ids, lists, the course of states |
| `InvitationFaults` | 2 clients, 2 invitations, any send may fail | reference counts of invitations and clients, and states, after operations left half done; where alone a freed client can be used; logout gets to its end |
| `Login` | 3 clients, 1 name, 1 login each | references to players, one login per name, every login answered |
| `Results` | 3 players, 2 threads, 3 games | the refinement of `RatingLedger`, the sum of the ratings and how far each can have moved, right direction, roles exchangeable, no circular wait, results get posted |
| `Packets` | 2 senders, 2 packets each; header 2 bytes, payloads of 2, 4, 5 bytes, size field modulo 4, socket of 3 bytes | the refinement of `PacketChannel`, delivery, senders get through |

Three connections for two slots are the least with which a thread waits for a
slot, the array is full, and a client leaves from the middle of a nonempty
array; the proofs cover every size. `GameRules` covers every game there is. Two
rows of squares let either role win, and play on, which is what the interplay
with failing sends needs. Two clients with three invitations give lists of
three nodes and ids that are freed out of order; invitations have two sides, and
with two clients each lookup can already be misled by the other's departure.
`INVITATION` objects are allocated
once each (`Invs` bounds how many there are in a behaviour); freed ones are not
reused, so that a use of a freed one is seen. Three clients with one name give a
login that is under way, one that waits and a `client_create` between them. Two
threads with two of three players each can have no, one or both players in
common. In `Packets` a payload of 2 bytes has its length in the header, and no
such packet fits into the socket, so it is written in pieces; one of 4 bytes has
a size of 0 there and is dropped, and one of 5 is cut to its first byte.

Disagreements between the code and what its comments or tests say, each shown
by a counterexample (`findings` in `PROJECT.json` quotes the lines):

| Run | The counterexample |
|---|---|
| `WaitStalePost` | `creg_wait_for_empty` takes a post from an earlier time at which the registry was empty, and returns with a client registered |
| `SendKillsServer` | SIGPIPE ends the server |
| `InviteFreedClient` | the invitee unregisters after `creg_lookup` has found it; `process_invite` gives its reference back, which frees the invitee, and passes the pointer on to `client_make_invitation` |
| `LoginGate` | a client whose LOGIN was refused gets the list of users |

The models also reproduce these, for which no run is kept:

* a second SIGHUP makes `sem_wait` in `creg_wait_for_empty` fail with EINTR, and
  it returns with clients registered (`SighupInterruptsWait`);
* a thread past the unlocked test of `no` registers its client after
  `creg_shutdown_all`; the counterexample of `WaitStalePost` contains it;
* threads that have not registered yet, or are between `PostIfEmpty` and
  `UnlockRegistry`, use the registry after `creg_fini` (`UseFreed`);
* a SIGHUP between the test of `signal_received` and `accept(2)` has no effect
  until a connection comes; `SighupEndsProcess` therefore begins where main sees
  the signal;
* a game whose MOVED or ENDED packet could not be sent stays listed, and a legal
  move is applied to it although it is over;
* an invitation accepted between `client_logout`'s look at it and its revocation
  stays in play after the logout (`LogoutEndsGame` excepts the clients that are
  `overtaken`, and no others);
* a thread that gives a reference back in `inv_unref`, `process_invite` or
  `creg_unregister` reads the count of a client that another thread, having seen
  it at 0 as well, has freed since the unlock, or frees it again;
* `terminate` frees the registries while threads that it has not waited for go
  on to use them (`UseFreedRegistry`);
* a payload of 2^16 bytes or more arrives cut, and one of exactly a multiple of
  2^16 not at all, with -1 for its sender although the header has been sent;
* `creg_lookup` returns another client, or none, when its slot has changed: the
  reference it took is lost, and one that it did not take is given back
  (`misled`);
* two clients are logged in as the same player, after a `client_create` during a
  login (`UniqueLogin` without its condition);
* two threads wait for each other's player for ever, after a `client_create`
  while results are posted;
* a login that fails is answered by NACK and then by ACK, and the INVITE of a
  client without a player dereferences a null pointer (`InviteWithoutPlayer`);
* a game between players with different ratings takes one point out of the sum
  of the ratings;
* a game that ends by a move leaves its invitation ACCEPTED, although
  `invitation.h` says it becomes CLOSED;
* resigning a drawn game that is still listed gives it a winner, because
  `game_resign` recognises a terminated game by its winner;
* a client that has logged out keeps its `player`, is found by `creg_lookup`
  until it has unregistered, and gets invitations that nobody removes;
* a target that revokes, or a source that declines, leaves the CLOSED
  invitation in the other side's list;
* `client_logout`'s walk goes on to a node that another thread has freed
  (`VisitNode` with `ub = "node"`).

`ResultIsWinner`, which `ImplementsMatch` contains, holds even though `client_resign_game` posts the opponent
without asking the game, and even though moves after the end are possible:
a game that has a winner is still listed only after a send to the mover or its
opponent has failed. That connection stays broken, and every later operation on
the game sends to it again before it posts: the send fails and nothing is
posted, or SIGPIPE ends the process.

## Fairness

In `ClientRegistry` the main thread and each service thread are weakly fair:
the kernel runs a thread that can run, and each takes the mutex and the
semaphores a bounded number of times. Peers and signals are not fair, so a
client may stay connected for ever. In `GameSession` each service thread is
weakly fair in what it does by itself, and strongly fair in noticing EOF: a peer
that has closed its connection has sent finitely many packets, so its thread
does not read packets for ever. In `Invitations` the threads that have seen EOF
are fair, and those that have an operation to finish (`UnrefSides`); packets need
not come. In `Login` and `Results` a thread is
weakly fair, except that nothing is assumed of one that waits for a semaphore
which has been initialised again (POSIX leaves that undefined), and in `Login` of
none once the registries are freed and the process exits. In `Packets` the
senders are fair. That the receiver keeps reading is a premise of `Delivered`,
and that the socket has room again and again one of `SendsReturn`, because a
peer may stop reading.

## Proofs

Every safety property of the passing runs is a theorem for all values of the
constants, and so are the four refinements. Each proof module
states an inductive invariant `IInv`, shows that `Init` implies it and that every
action keeps it (one step or lemma per action), and reads the properties off
it. The assumptions on constants are the `ASSUME`s of the models: sets of threads,
clients, players and invitations are finite, sizes and bounds are natural
numbers (the header, the size field, the socket and `MAX_CLIENTS` not 0), moves
are move strings, null pointers are no objects. The bounds that the models need
for TLC (`MaxLogins`, `MaxGames`, `MaxSends`) are any natural numbers in the
proofs.

**`ClientRegistryProofs`**: `TypeOK`, `Capacity` (of the array, which no run
checks by itself), `SlotAccounting`,
`RegistryExact`, `MutexHeld`, `WakeupPending`, and the refinement of
`BoundedRegistry`. None of the invariants is inductive by itself:

* `Capacity` follows from `SlotAccounting`, since all terms of the sum are
  natural numbers: the semaphore, not the unlocked test, bounds the array;
* `SlotAccounting` and `RegistryExact` need each other's view of where the
  threads are: a thread about to remove its client is in the array, so its
  removal takes exactly one slot from `length` to the releasing threads;
* `WakeupPending` needs `MutexHeld`: while a thread that has emptied the array
  is on its way to the post, no other client can be added or removed, so its
  test sees the empty array;
* `FreedAtEnd` (the registry is freed only when main is past its wait) and
  `PendingAccepted` (an accepted connection not handed on has no thread yet)
  close the induction.

For the refinement, `AddClient` is a join, `RemoveClient` a leave and every
other step a stutter; that a client joins only once, and only into free room,
is `IInv`.

**`GameSessionProofs`**: `TypeOK`, `OneResult`, `ResultIsWinner`,
`LogoutEndsGame`, `VerdictCorrect`, `TurnsAlternate`, `FinishedIsCleared`, the
action property `FinishedIsFinal` and the refinement of `MatchRecord`.
`LogoutEndsGame` holds for every client but one that the acceptance has
overtaken, whose thread goes without having ended the game; `Leavers` carries
that exception. `ResultIsWinner` is the hard one, because
`client_resign_game` posts the opponent without asking the game. It needs
`UnsentEnd` (a game that has a winner and is still listed has a broken
connection) and what `OpState` says of a resignation that is under way: the
opponent is the winner, or its connection is broken, so that RESIGNED cannot be
sent. `OneOp`, `ListsAgree` and `Leavers` say who may be in an operation and that
the two lists agree. `VerdictCorrect` rests on `Judged`, the first taken line in
the order of the scan decides, on `SoleOwner`, with connections that are up all
taken lines have one owner, and on a lemma that the scan and the magic square
know the same eight lines. For the refinement, a move or a resignation that ends
a game decides it, `FinishMove` and `FinishResign` record it, and everything else
stutters. It needs `IInv` where the code could go wrong: a result is posted only
when none has been, what is posted is the verdict that the game has, and a game
whose result is posted is in no list, so nothing can change it.

**`InvitationsProofs`**: `TypeOK`, `IdsUnique`, `InvitationRefs`, `ClientRefs`,
`GameGoesWithState`, `BothSides`, `FreedIsUnreachable` and the action properties
`Forward` and `StaleUsesKnown`, for any number of clients and invitations. All operations by packets and by
`client_logout` are first shown to be one of three things (`Changes`): nothing,
a legal change of state and game of one listed invitation (`Keeps`), or such a
change with its removal from one or both lists (`Removes`). `IInv` then has

* `Lists`: no list has an id or an invitation twice, and its ids are the ones in
  use. This is what makes removal take exactly one id, and what guarantees that
  `get_available_id` finds one;
* `Counted` and `TwoSides`: `InvitationRefs` and `BothSides`, also after the use
  of a freed object, with the two sides distinct clients;
* `ArgState` and `ArrayState`: what a thread has remembered goes with the place
  where it is, one thread at a time is in `creg_unregister`, and a client that
  is still found in the array has not been through it. `ClientRefs` needs the
  last: a lookup then adds to a count that includes the registry's reference;
* `ReleaseState`: whose references an unfinished `inv_unref` has in hand. The
  source's is given back when the invitation dies, the target's two steps later,
  and in between `ClientRefs` counts it as a reference of that operation. The
  steps of `UnrefSides` change counts and `freed` only, so one lemma (`Steady`)
  keeps everything else.

`FreedIsUnreachable` is what the exact counts are for: a client that is freed has
a count of 0, so by `ClientRefs` it is out of the array, no living invitation
names it, no list has a node of it, no lookup under way has found it and no
`inv_unref` has still to give it back. What
remains are the pointers that are not counted, and `StaleUsesKnown` says which
the code goes on to use: the invitee that `process_invite` gives back before it
uses it, the client whose count `client_unref` looks at again after its unlock,
whether `process_invite`, `creg_unregister` or `inv_unref` has called it, and the
clients whose last reference goes inside `client_remove_invitation`. The
proof goes through every action that can set `ub`, so there is no other. It
stops where `misled` begins: after that the counts are wrong.

**`LoginProofs`**: `TypeOK`, `PlayerRefs`, `UniqueLoginUnlessReinit` and
`NoDanglingPlayer`. Until a
`client_create` breaks it, the semaphore and the threads inside add up to 1
(`SemCounts`); hence the array a login looks at still shows every player that is
taken (`ScanCurrent`), and the player it finds free is free. `PlayerRefs` needs
`ThreadState` and `KnownPlayers`: which of the counted references a thread has
where it stands, and that until `preg_fini` none points to a player that is not
registered. It
holds also after the semaphore has been initialised again, and after a
`preg_fini` that came too early. `NoDanglingPlayer` follows: what is counted is
allocated whenever `preg_fini` comes, because the thread's own references keep
it. The pointer that `client_logout` leaves in the client after it has given the
reference back is not counted; the registry's reference keeps its player, until
`preg_fini`. After the end of all threads nothing is left allocated.

**`ResultsProofs`**: `TypeOK`, `NoCircularWaitUnlessReinit`, `RolesDoNotMatter`,
`TotalAccounted`, the action property `ResultMovesRating` and the refinement of
`RatingLedger`. The first two come from `SemCounts` and `Ownership` (which
mutexes a thread holds where). The others are about the truncated formula:
`NewRatings` is symmetric and moves the ratings in the right direction for all
integers, and what a thread writes was computed from the ratings as they are
(`ComputedIsCurrent`), because it holds both mutexes; so no update is lost even
when the semaphore fails.

In the refinement the end of a game submits its result, `Update` settles it (a
game of a player with itself is settled without a change), and the semaphore, the
mutexes and the computation stutter. `ComputedIsCurrent` is exactly what `Settle`
asks for.

`TotalAccounted` is not inductive: it counts a game from its end, and the ratings
change later, when its result is written. The invariant (`Accounted`) counts the
games that are settled, all games but those of the threads on their way, and
bounds the sum and each rating by that number; a step of `Update` moves one game
from one count to the other and the sum by 0 or one point. That the sum only
goes down needs a condition, which the proof showed and the runs do not reach:
once both ratings of a game are 0 or below, the conversion to `int` rounds
towards 0 and the sum can grow. A game moves a rating by at most 32 points, so
46 games cannot bring one from 1500 to 0, and 78 games leave every rating within
the four characters that `process_users` has for it.

**`SumTheorems`**: the sum over a finite set changes by the difference when the
function changes in one place, and that of a constant is the constant times the
size of the set. The sum is the community modules' fold, a recursive function
over the subsets; the induction over subsets takes the set of sizes at which the
claim fails and its least element, because the library's induction theorems have
an operator as a parameter, which the provers cannot instantiate.

**`PacketsProofs`**: `TypeOK`, that what was received are the first packets
sent, whole where their length fits the size field and cut where it does not,
and the refinement of `PacketChannel`. The invariant (`StreamInv`) says
that the bytes the receiver has at hand, followed by those in the socket, are
the frames of the packets that are sent and not received, followed by the first
bytes of the packet of the thread that holds the client's lock. Where each frame
begins is an existentially quantified function (`IsOffsets`), since a recursive
sum of lengths could not be reasoned about. It follows that `proto_recv_packet`,
which takes the size of what it reads from a header, takes exactly the bytes of
one packet however `read` and `write` divide them: `proto_send_packet` takes the
number of payload bytes from the same field, so a payload that does not fit it
is cut but does not put the receiver out of step.

Only model-checked:

* all liveness (`Delivered`, `SendsReturn`, `LeaversGo`, `LogoutEnds`,
  `LoginAnswered`, `ResultPosted`, and that of main and the registry in
  `Registry`), because fairness is outside the prover's reach;
* the four runs that show disagreements.

## Not modelled, and the plan

Not modelled: the bodies of `csapp.c` (wrappers around system calls), option
processing, the text of the board and of the USERS payload, debug output,
allocation failures (on which some functions return with a mutex locked), the
8-bit width of ids in packets, the order in which ACKs and notifications of
different threads reach a client, and the binaries in `demo` and `util`.

What could be added next: proofs that `Login` and `Results` keep what they
promise when the semaphores are initialised once (the conditions on `clobbered`
then fall away), and an invariant for how far `client_logout`'s walk can stray
from the list, as `StaleUsesKnown` has it for freed clients.
