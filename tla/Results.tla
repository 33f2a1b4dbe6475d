------------------------------- MODULE Results -------------------------------
(***************************************************************************)
(* The ratings of players and the posting of results: post_player_results  *)
(* in src/client.c and player_post_result in src/player.c.                 *)
(*                                                                         *)
(* A result is posted by the service thread that ended the game, under     *)
(* CLIENT_UPDATE_ELO and the mutexes of both players, locked in the order  *)
(* of the players' roles.  The callers of post_player_results hold         *)
(* CLIENT_INVITE_OP_SEM as well; it is left out, so the model has all the  *)
(* interleavings of the program and more.  client_create initialises both  *)
(* semaphores again for every new client (see Login), so the program can   *)
(* get past either of them.                                                *)
(*                                                                         *)
(* The ratings are computed in double and truncated to int.  Here they are *)
(* computed in integers, with the same results for all ratings that differ *)
(* by less than some thousands (where 32 * E1 vanishes in the rounding of  *)
(* a double).                                                              *)
(***************************************************************************)
EXTENDS Integers, FiniteSets, Functions

CONSTANTS
  Players,
  Threads,     (* the service threads that post results                    *)
  Nobody,
  MaxGames     (* bound: games that are posted                             *)

ASSUME ResultsPlayers == IsFiniteSet(Players)
ASSUME ResultsThreads == IsFiniteSet(Threads) /\ Nobody \notin Threads
ASSUME ResultsBound == MaxGames \in Nat

VARIABLES
  rating,      (* of each player                                           *)
  mutex,       (* of each player: the thread that holds it, or Nobody      *)
  elo_sem,     (* the value of CLIENT_UPDATE_ELO                           *)
  clobbered,   (* it was initialised again while in use                    *)
  pc,          (* where each thread is                                     *)
  post,        (* the arguments of each thread's player_post_result        *)
  new,         (* the two ratings that a thread has computed               *)
  games        (* how many games have been posted                          *)

vars == <<rating, mutex, elo_sem, clobbered, pc, post, new, games>>

PLAYER_INITIAL_RATING == 1500

(* 0 for a draw, else the role of the winner.                              *)
Results == 0..2

Posts == [player1 : Players, player2 : Players, result : Results]

PCs == {"playing", "wait_elo", "lock1", "lock2", "compute", "update", "done"}

TypeOK ==
  /\ rating \in [Players -> Int]
  /\ mutex \in [Players -> Threads \cup {Nobody}]
  /\ elo_sem \in 0..(Cardinality(Threads) + 1)
  /\ clobbered \in BOOLEAN
  /\ pc \in [Threads -> PCs]
  /\ post \in [Threads -> Posts \cup {Nobody}]
  /\ \A t \in Threads : pc[t] # "playing" => post[t] \in Posts
  /\ new \in [Threads -> (Int \X Int) \cup {Nobody}]
  /\ games \in 0..MaxGames

Init ==
  /\ rating = [p \in Players |-> PLAYER_INITIAL_RATING]
  /\ mutex = [p \in Players |-> Nobody]
  /\ elo_sem = 1
  /\ clobbered = FALSE
  /\ pc = [t \in Threads |-> "playing"]
  /\ post = [t \in Threads |-> Nobody]
  /\ new = [t \in Threads |-> Nobody]
  /\ games = 0

-----------------------------------------------------------------------------
(* The arithmetic.                                                         *)

(* 32 * E1 with E1 = 1/(1 + 10^(d/400)) is at least j if and only if d is  *)
(* at most 400 * log10(32/j - 1): Thresholds[j] is the floor of that.      *)
Thresholds == <<596, 470, 394, 338, 292, 254, 221, 190,
                162, 136, 112, 88, 65, 43, 21, 0>>

(* The floor of 32 * E1, for d = R2 - R1.  E1(-d) = 1 - E1(d), and 32 * E1 *)
(* is an integer for d = 0 only.                                           *)
Expected(d) ==
  LET AtLeast(e) == Cardinality({j \in DOMAIN Thresholds : e <= Thresholds[j]})
  IN  IF d >= 0 THEN AtLeast(d) ELSE 31 - AtLeast(-d)

(* 32 * S1.                                                                *)
Score(result) == CASE result = 0 -> 16 [] result = 1 -> 32 [] result = 2 -> 0

(* A double strictly between floor and floor + 1, or equal to floor, when  *)
(* it is assigned to an int.                                               *)
Truncate(floor, exact) == IF floor >= 0 \/ exact THEN floor ELSE floor + 1

(* Mutant: player2 gets what the int that player1 got leaves.              *)
NewRatingsRest(r1, r2, result) ==
  LET exact == r1 = r2
      up    == r1 + Score(result) - Expected(r2 - r1)
      down  == IF exact THEN up ELSE up - 1
  IN  <<Truncate(down, exact), r1 + r2 - Truncate(down, exact)>>

(* Mutant: the sign of the difference of the ratings is wrong.             *)
NewRatingsSwapped(r1, r2, result) ==
  LET exact == r1 = r2
      up    == r1 + Score(result) - Expected(r1 - r2)
      down  == IF exact THEN up ELSE up - 1
  IN  <<Truncate(down, exact), Truncate(r1 + r2 - up, exact)>>

(* player1->rating = RP1; player2->rating = R3 - RP1, where RP1 lies       *)
(* between down and up.                                                    *)
NewRatings(r1, r2, result) ==
  LET exact == r1 = r2
      up    == r1 + Score(result) - Expected(r2 - r1)
      down  == IF exact THEN up ELSE up - 1
  IN  <<Truncate(down, exact), Truncate(r1 + r2 - up, exact)>>

-----------------------------------------------------------------------------
Goto(t, from, to) ==
  /\ pc[t] = from
  /\ pc' = [pc EXCEPT ![t] = to]

(* client_create initialises the semaphore, again.                         *)
client_create ==
  /\ elo_sem' = 1
  /\ clobbered' = (clobbered \/ \E t \in Threads : pc[t] # "playing")
  /\ UNCHANGED <<rating, mutex, pc, post, new, games>>

(* A game ends.  player1 is the player with the first role; two clients    *)
(* may be logged in as the same player (see Login).                        *)
post_player_results(t, p) ==
  /\ Goto(t, "playing", "wait_elo")
  /\ games < MaxGames
  /\ games' = games + 1
  /\ post' = [post EXCEPT ![t] = p]
  /\ UNCHANGED <<rating, mutex, elo_sem, clobbered, new>>

(* Mutant: results are not posted one at a time.                           *)
WaitEloNot(t) ==
  /\ Goto(t, "wait_elo",
          IF post[t].player1 = post[t].player2 THEN "done" ELSE "lock1")
  /\ UNCHANGED <<rating, mutex, elo_sem, clobbered, post, new, games>>

(* player_post_result does nothing for a game of a player with itself.     *)
WaitElo(t) ==
  /\ Goto(t, "wait_elo",
          IF post[t].player1 = post[t].player2 THEN "done" ELSE "lock1")
  /\ elo_sem > 0
  /\ elo_sem' = elo_sem - 1
  /\ UNCHANGED <<rating, mutex, clobbered, post, new, games>>

Lock(t, player) ==
  /\ mutex[player] = Nobody
  /\ mutex' = [mutex EXCEPT ![player] = t]

Lock1(t) ==
  /\ Goto(t, "lock1", "lock2")
  /\ Lock(t, post[t].player1)
  /\ UNCHANGED <<rating, elo_sem, clobbered, post, new, games>>

(* Mutant: only the first player is locked.                                *)
Lock2Not(t) ==
  /\ Goto(t, "lock2", "compute")
  /\ UNCHANGED <<rating, mutex, elo_sem, clobbered, post, new, games>>

Lock2(t) ==
  /\ Goto(t, "lock2", "compute")
  /\ Lock(t, post[t].player2)
  /\ UNCHANGED <<rating, elo_sem, clobbered, post, new, games>>

Compute(t) ==
  /\ Goto(t, "compute", "update")
  /\ new' = [new EXCEPT ![t] = NewRatings(rating[post[t].player1],
                                          rating[post[t].player2],
                                          post[t].result)]
  /\ UNCHANGED <<rating, mutex, elo_sem, clobbered, post, games>>

(* Both ratings are assigned and both mutexes unlocked.                    *)
Update(t) ==
  LET both == {post[t].player1, post[t].player2}
  IN  /\ Goto(t, "update", "done")
      /\ rating' = [rating EXCEPT ![post[t].player1] = new[t][1],
                                  ![post[t].player2] = new[t][2]]
      /\ mutex' = [p \in Players |-> IF p \in both THEN Nobody ELSE mutex[p]]
      /\ new' = [new EXCEPT ![t] = Nobody]
      /\ UNCHANGED <<elo_sem, clobbered, post, games>>

(* Mutant: a game of a player with itself returns without the post.        *)
PostEloIfRated(t) ==
  /\ Goto(t, "done", "playing")
  /\ elo_sem' = IF post[t].player1 = post[t].player2 THEN elo_sem ELSE elo_sem + 1
  /\ post' = [post EXCEPT ![t] = Nobody]
  /\ UNCHANGED <<rating, mutex, clobbered, new, games>>

(* Mutant: the semaphore is posted by player_post_result too.              *)
PostEloTwice(t) ==
  /\ Goto(t, "done", "playing")
  /\ elo_sem' = elo_sem + 2
  /\ post' = [post EXCEPT ![t] = Nobody]
  /\ UNCHANGED <<rating, mutex, clobbered, new, games>>

PostElo(t) ==
  /\ Goto(t, "done", "playing")
  /\ elo_sem' = elo_sem + 1
  /\ post' = [post EXCEPT ![t] = Nobody]
  /\ UNCHANGED <<rating, mutex, clobbered, new, games>>

-----------------------------------------------------------------------------
Proceed(t) ==
  \/ WaitElo(t)
  \/ Lock1(t)
  \/ Lock2(t)
  \/ Compute(t)
  \/ Update(t)
  \/ PostElo(t)

Next ==
  \/ client_create
  \/ \E t \in Threads :
       \/ \E p \in Posts : post_player_results(t, p)
       \/ Proceed(t)

Spec == Init /\ [][Next]_vars

(* A thread that can run does; after a second initialisation a thread that *)
(* waits for the semaphore may sleep for ever.                             *)
Fairness ==
  \A t \in Threads :
    WF_vars(Proceed(t) /\ (pc[t] = "wait_elo" => ~clobbered))

FairSpec == Spec /\ Fairness

-----------------------------------------------------------------------------
(* Properties.                                                             *)

(* The results that are posted and not yet in the ratings.                 *)
Ledger == INSTANCE RatingLedger WITH
  Posters <- Threads,
  Initial <- PLAYER_INITIAL_RATING,
  Rate    <- NewRatings,
  pending <- [t \in Threads |->
                IF pc[t] \in {"playing", "done"} THEN {} ELSE {post[t]}]

(* Every result is settled once, and as if in one step: from the ratings   *)
(* that both players have when it is, also when the semaphore fails and    *)
(* games with a common player end at the same time.                        *)
ImplementsLedger == Ledger!Spec

(* What has been won has been lost: the truncation of the two new ratings  *)
(* moves the sum of all ratings by at most a point for each game, and only *)
(* downwards as long as no rating can have come down to 0.  So no points   *)
(* are made up or lost by the order in which games end.  A game moves a    *)
(* rating by at most 32 points: the four characters that process_users has *)
(* for a rating are enough for 78 games.                                   *)
TotalAccounted ==
  LET total == SumFunction(rating)
      start == Cardinality(Players) * PLAYER_INITIAL_RATING
  IN  /\ start - games <= total /\ total <= start + games
      /\ 32 * games < PLAYER_INITIAL_RATING => total <= start
      /\ \A p \in Players :
           /\ PLAYER_INITIAL_RATING - 32 * games <= rating[p]
           /\ rating[p] <= PLAYER_INITIAL_RATING + 32 * games

(* A result moves the ratings of its two players only, and in the right    *)
(* direction from where they are at that moment: a winner does not fall, a *)
(* loser does not rise, and a draw moves no player away from the other.    *)
ResultMovesRating ==
  [][\A t \in Threads : pc[t] = "update" /\ pc'[t] = "done" =>
       LET p == post[t]
           a == p.player1
           b == p.player2
       IN  /\ \A q \in Players \ {a, b} : rating'[q] = rating[q]
           /\ p.result = 1 => rating'[a] >= rating[a] /\ rating'[b] <= rating[b]
           /\ p.result = 2 => rating'[a] <= rating[a] /\ rating'[b] >= rating[b]
           /\ p.result = 0 =>
                /\ rating[a] <= rating[b] =>
                     rating'[a] >= rating[a] /\ rating'[b] <= rating[b]
                /\ rating[a] >= rating[b] =>
                     rating'[a] <= rating[a] /\ rating'[b] >= rating[b]]_vars

(* The formula is written for player1, and player2 gets the rest: still    *)
(* the same game gives the same ratings whoever of the two played first.   *)
RolesDoNotMatter ==
  \A p, q \in Players :
    p # q =>
      \A result \in Results :
        LET mirrored == CASE result = 0 -> 0 [] result = 1 -> 2 [] result = 2 -> 1
            asFirst  == NewRatings(rating[p], rating[q], result)
            asSecond == NewRatings(rating[q], rating[p], mirrored)
        IN  asFirst = <<asSecond[2], asSecond[1]>>

(* Two threads never wait for each other's player, although each locks its *)
(* players in the order of their roles: results are posted one at a time,  *)
(* as long as the semaphore has not been initialised again while in use.   *)
NoCircularWaitUnlessReinit ==
  ~clobbered =>
    ~ \E t, u \in Threads :
        /\ pc[t] = "lock2" /\ mutex[post[t].player2] = u
        /\ pc[u] = "lock2" /\ mutex[post[u].player2] = t

(* A result gets posted, on the same condition.                            *)
ResultPosted ==
  \A t \in Threads : pc[t] = "wait_elo" ~> pc[t] = "playing" \/ clobbered
=============================================================================
