---------------------------- MODULE ResultsProofs ----------------------------
(***************************************************************************)
(* Posting results, for every set of players and threads and any number of *)
(* games: what a result does to the ratings, and that the locks do what    *)
(* they are for.                                                           *)
(***************************************************************************)
EXTENDS Results, FiniteSetTheorems, SumTheorems, TLAPS

-----------------------------------------------------------------------------
(* The arithmetic.                                                         *)

(* How many thresholds e does not exceed: the local operator of Expected.  *)
AtLeast(e) == Cardinality({j \in DOMAIN Thresholds : e <= Thresholds[j]})

(* The thresholds are those of the points 1..16, and the last one is 0.    *)
LEMMA ThresholdsFacts ==
  /\ DOMAIN Thresholds = 1..16
  /\ \A j \in 1..16 : Thresholds[j] \in Nat
  /\ Thresholds[16] = 0
  BY DEF Thresholds

(* The first n numbers.                                                    *)
LEMMA FirstNumbers ==
  ASSUME NEW n \in Nat
  PROVE  IsFiniteSet(1..n) /\ Cardinality(1..n) = n
  BY FS_Interval

(* Expected counts them: 16 for d = 0, fewer for a stronger opponent.      *)
LEMMA AtLeastBounds ==
  ASSUME NEW e \in Nat
  PROVE  /\ AtLeast(e) \in 0..16
         /\ e = 0 => AtLeast(e) = 16
         /\ e > 0 => AtLeast(e) <= 15
  <1> DEFINE S == {j \in 1..16 : e <= Thresholds[j]}
  <1>1. AtLeast(e) = Cardinality(S)
    BY ThresholdsFacts DEF AtLeast
  <1>2. IsFiniteSet(1..16) /\ Cardinality(1..16) = 16
    BY FirstNumbers
  <1>3. Cardinality(S) \in Nat /\ Cardinality(S) <= 16
    <2>1. S \in SUBSET (1..16)
      OBVIOUS
    <2> QED
      BY <1>2, <2>1, FS_Subset, FS_CardinalityType
  <1>4. ASSUME e = 0 PROVE Cardinality(S) = 16
    <2>1. S = 1..16
      BY <1>4, ThresholdsFacts
    <2> QED
      BY <1>2, <2>1
  <1>5. ASSUME e > 0 PROVE Cardinality(S) <= 15
    <2>1. S \in SUBSET (1..15)
      <3>1. \A j \in S : j # 16
        BY <1>5, ThresholdsFacts
      <3> QED
        BY <3>1
    <2>2. IsFiniteSet(1..15) /\ Cardinality(1..15) = 15
      BY FirstNumbers
    <2> QED
      BY <2>1, <2>2, FS_Subset
  <1> QED
    BY <1>1, <1>3, <1>4, <1>5

(* Expected is the floor of 32 * E1: between 0 and 31, 16 for equals, at   *)
(* most 15 against a stronger opponent, and the rest goes to the opponent, *)
(* but for the one point that both floors miss.                            *)
LEMMA ExpectedFacts ==
  ASSUME NEW d \in Int
  PROVE  /\ Expected(d) \in 0..31
         /\ d = 0 => Expected(d) = 16
         /\ d > 0 => Expected(d) <= 15
         /\ d < 0 => Expected(d) >= 16
         /\ d # 0 => Expected(-d) = 31 - Expected(d)
  <1>1. Expected(d) = IF d >= 0 THEN AtLeast(d) ELSE 31 - AtLeast(-d)
    BY DEF Expected, AtLeast
  <1>2. Expected(-d) = IF -d >= 0 THEN AtLeast(-d) ELSE 31 - AtLeast(-(-d))
    BY DEF Expected, AtLeast
  <1>3. CASE d >= 0
    BY <1>1, <1>2, <1>3, AtLeastBounds
  <1>4. CASE d < 0
    <2>1. -d \in Nat /\ -d > 0
      BY <1>4
    <2>2. AtLeast(-d) \in 0..15
      BY <2>1, AtLeastBounds
    <2> QED
      BY <1>1, <1>2, <1>4, <2>1, <2>2
  <1> QED
    BY <1>3, <1>4

(* NewRatings with its local definitions and Truncate expanded.            *)
LEMMA NewRatingsForm ==
  ASSUME NEW r1 \in Int, NEW r2 \in Int, NEW result \in Results,
         NEW up \in Int, up = r1 + Score(result) - Expected(r2 - r1)
  PROVE  /\ r1 = r2 => NewRatings(r1, r2, result) = <<up, r1 + r2 - up>>
         /\ r1 # r2 =>
              NewRatings(r1, r2, result) =
                <<IF up - 1 >= 0 THEN up - 1 ELSE up,
                  IF r1 + r2 - up >= 0 THEN r1 + r2 - up ELSE r1 + r2 - up + 1>>
  <1>1. ASSUME r1 = r2 PROVE NewRatings(r1, r2, result) = <<up, r1 + r2 - up>>
    BY <1>1 DEF NewRatings, Truncate
  <1>2. ASSUME r1 # r2
        PROVE  NewRatings(r1, r2, result) =
                <<IF up - 1 >= 0 THEN up - 1 ELSE up - 1 + 1,
                  IF r1 + r2 - up >= 0 THEN r1 + r2 - up ELSE r1 + r2 - up + 1>>
    BY <1>2 DEF NewRatings, Truncate
  <1>3. up - 1 + 1 = up
    OBVIOUS
  <1> QED
    BY <1>1, <1>2, <1>3

(* What a result does to two ratings: a winner does not fall, a loser does *)
(* not rise, and a draw moves nobody away from the other; the two ratings  *)
(* remain integers, and their sum loses one point in truncation, or gets   *)
(* one back for each of the two that is truncated from below 0.            *)
LEMMA NewRatingsFacts ==
  ASSUME NEW r1 \in Int, NEW r2 \in Int, NEW result \in Results
  PROVE  LET n == NewRatings(r1, r2, result)
         IN  /\ n \in Int \X Int
             /\ result = 1 => n[1] >= r1 /\ n[2] <= r2
             /\ result = 2 => n[1] <= r1 /\ n[2] >= r2
             /\ result = 0 /\ r1 <= r2 => n[1] >= r1 /\ n[2] <= r2
             /\ result = 0 /\ r1 >= r2 => n[1] <= r1 /\ n[2] >= r2
             /\ n[1] + n[2] >= r1 + r2 - 1
             /\ n[1] + n[2] <= r1 + r2 + 1
             /\ n[1] >= r1 - 32 /\ n[2] >= r2 - 32
             /\ n[1] <= r1 + 32 /\ n[2] <= r2 + 32
             /\ n[1] > 0 \/ n[2] > 0 => n[1] + n[2] <= r1 + r2
  <1> DEFINE E == Expected(r2 - r1)
             S == Score(result)
  <1>1. /\ S \in {0, 16, 32}
        /\ result = 0 => S = 16
        /\ result = 1 => S = 32
        /\ result = 2 => S = 0
    BY DEF Score, Results
  <1>2. /\ E \in 0..31
        /\ r2 - r1 = 0 => E = 16
        /\ r2 - r1 > 0 => E <= 15
        /\ r2 - r1 < 0 => E >= 16
    BY ExpectedFacts
  <1>3. r1 + S - E \in Int
    BY <1>1, <1>2
  <1>4. result \in {0, 1, 2}
    BY DEF Results
  <1>5. CASE r1 = r2
    <2>1. NewRatings(r1, r2, result) = <<r1 + S - E, r1 + r2 - (r1 + S - E)>>
      BY <1>3, <1>5, NewRatingsForm
    <2> HIDE DEF E, S
    <2> QED
      BY <1>1, <1>2, <1>3, <1>4, <1>5, <2>1
  <1>6. CASE r1 # r2
    <2> DEFINE up == r1 + S - E
    <2>1. NewRatings(r1, r2, result) =
            <<IF up - 1 >= 0 THEN up - 1 ELSE up,
              IF r1 + r2 - up >= 0 THEN r1 + r2 - up ELSE r1 + r2 - up + 1>>
      BY <1>3, <1>6, NewRatingsForm
    <2> HIDE DEF E, S
    <2> QED
      BY <1>1, <1>2, <1>3, <1>4, <1>6, <2>1
  <1> QED
    BY <1>5, <1>6

(* player2 gets the rest of what player1 gets, and yet the formula is the  *)
(* same for both.                                                          *)
LEMMA NewRatingsMirror ==
  ASSUME NEW r1 \in Int, NEW r2 \in Int, NEW result \in Results,
         NEW mirrored \in Results, Score(mirrored) = 32 - Score(result)
  PROVE  NewRatings(r1, r2, result)
           = <<NewRatings(r2, r1, mirrored)[2], NewRatings(r2, r1, mirrored)[1]>>
  <1> DEFINE E == Expected(r2 - r1)
             F == Expected(r1 - r2)
             S == Score(result)
  <1>1. S \in Int
    BY DEF Score, Results
  <1>2. /\ E \in Int /\ F \in Int
        /\ r1 = r2 => E = 16 /\ F = 16
        /\ r1 # r2 => F = 31 - E
    <2>1. -(r2 - r1) = r1 - r2 /\ r2 - r1 \in Int /\ r1 - r2 \in Int
      OBVIOUS
    <2> QED
      BY <2>1, ExpectedFacts
  <1> DEFINE up   == r1 + S - E
             back == r2 + (32 - S) - F
  <1>3. up \in Int /\ back \in Int
    BY <1>1, <1>2
  <1>4. back = r2 + Score(mirrored) - Expected(r1 - r2)
    OBVIOUS
  <1>5. CASE r1 = r2
    <2>1. NewRatings(r1, r2, result) = <<up, r1 + r2 - up>>
      BY <1>3, <1>5, NewRatingsForm
    <2>2. NewRatings(r2, r1, mirrored) = <<back, r2 + r1 - back>>
      BY <1>3, <1>4, <1>5, NewRatingsForm
    <2> HIDE DEF E, F, S
    <2> QED
      BY <1>1, <1>2, <1>5, <2>1, <2>2
  <1>6. CASE r1 # r2
    <2>1. NewRatings(r1, r2, result) =
            <<IF up - 1 >= 0 THEN up - 1 ELSE up,
              IF r1 + r2 - up >= 0 THEN r1 + r2 - up ELSE r1 + r2 - up + 1>>
      BY <1>3, <1>6, NewRatingsForm
    <2>2. NewRatings(r2, r1, mirrored) =
            <<IF back - 1 >= 0 THEN back - 1 ELSE back,
              IF r2 + r1 - back >= 0 THEN r2 + r1 - back
                                     ELSE r2 + r1 - back + 1>>
      BY <1>3, <1>4, <1>6, NewRatingsForm
    <2> HIDE DEF E, F, S
    <2>3. back = r1 + r2 - (up - 1) /\ r2 + r1 - back = up - 1
      BY <1>1, <1>2, <1>6
    <2> HIDE DEF up, back
    <2> QED
      BY <1>3, <2>1, <2>2, <2>3
  <1> QED
    BY <1>5, <1>6
-----------------------------------------------------------------------------
(* The inductive invariant.                                                *)

(* The threads between sem_wait and sem_post of CLIENT_UPDATE_ELO.         *)
InsidePCs == {"lock1", "lock2", "compute", "update", "done"}
Inside == {t \in Threads : pc[t] \in InsidePCs}

(* The semaphore counts: one thread is inside at a time until the first    *)
(* second initialisation, and never do posts raise it by more than the     *)
(* threads that are inside.                                                *)
SemCounts ==
  /\ elo_sem + Cardinality(Inside) <= Cardinality(Threads) + 1
  /\ ~clobbered => elo_sem + Cardinality(Inside) = 1

(* Only games between two players get as far as the locks.                 *)
TwoPlayers ==
  \A t \in Threads :
    pc[t] \in {"lock1", "lock2", "compute", "update"} =>
      post[t].player1 # post[t].player2

(* The players that thread t has locked.                                   *)
Locked(t) ==
  IF pc[t] = "lock2" THEN {post[t].player1}
  ELSE IF pc[t] \in {"compute", "update"}
    THEN {post[t].player1, post[t].player2}
  ELSE {}

(* The mutexes belong to the threads that have locked them.                *)
Ownership ==
  \A p \in Players, t \in Threads : mutex[p] = t <=> p \in Locked(t)

(* What a thread is about to write is still what the formula gives for the *)
(* ratings of its players.                                                 *)
ComputedIsCurrent ==
  \A t \in Threads :
    pc[t] = "update" =>
      new[t] = NewRatings(rating[post[t].player1], rating[post[t].player2],
                          post[t].result)

(* Neither NoCircularWaitUnlessReinit nor ResultMovesRating is inductive:  *)
(* the first needs to know who is inside and owns what, the second that    *)
(* the ratings a thread has read do not change before it writes.           *)
IInv ==
  /\ TypeOK
  /\ SemCounts
  /\ TwoPlayers
  /\ Ownership
  /\ ComputedIsCurrent
-----------------------------------------------------------------------------
(* Who is inside is a finite set, and no larger than the set of threads.   *)
LEMMA InsideFinite ==
  /\ IsFiniteSet(Inside)
  /\ Cardinality(Inside) \in Nat
  /\ Cardinality(Threads) \in Nat
  /\ Cardinality(Inside) <= Cardinality(Threads)
  <1>1. Inside \in SUBSET Threads
    BY DEF Inside
  <1> QED
    BY <1>1, ResultsThreads, FS_Subset, FS_CardinalityType

(* A thread that gets inside adds one to their number.                     *)
LEMMA InsideEnter ==
  ASSUME NEW t \in Threads, NEW to \in InsidePCs, pc \in [Threads -> PCs],
         pc[t] \notin InsidePCs, pc' = [pc EXCEPT ![t] = to]
  PROVE  Cardinality(Inside') = Cardinality(Inside) + 1
  <1>1. Inside' = Inside \cup {t} /\ t \notin Inside
    BY DEF Inside
  <1> QED
    BY <1>1, InsideFinite, FS_AddElement

(* One that leaves takes one away.                                         *)
LEMMA InsideLeave ==
  ASSUME NEW t \in Threads, NEW to, to \notin InsidePCs,
         pc \in [Threads -> PCs],
         pc[t] \in InsidePCs, pc' = [pc EXCEPT ![t] = to]
  PROVE  /\ Cardinality(Inside') = Cardinality(Inside) - 1
         /\ Cardinality(Inside) > 0
  <1>1. Inside' = Inside \ {t} /\ t \in Inside
    BY DEF Inside
  <1>2. Cardinality(Inside) # 0
    BY <1>1, InsideFinite, FS_EmptySet
  <1>3. Cardinality(Inside \ {t}) = Cardinality(Inside) - 1
    BY <1>1, InsideFinite, FS_RemoveElement
  <1>4. Cardinality(Inside') = Cardinality(Inside) - 1
    BY <1>1, <1>3
  <1> QED
    BY <1>2, <1>4, InsideFinite

(* The arguments of player_post_result.                                    *)
LEMMA PostTypes ==
  ASSUME TypeOK, NEW t \in Threads, pc[t] # "playing"
  PROVE  /\ post[t] \in Posts
         /\ post[t].player1 \in Players /\ post[t].player2 \in Players
         /\ post[t].result \in Results
  BY DEF TypeOK, Posts

(* Nothing has been posted yet.                                            *)
LEMMA InitIInv == Init => IInv
  <1> SUFFICES ASSUME Init PROVE IInv
    OBVIOUS
  <1>1. Inside = {} /\ Cardinality({}) = 0
    BY FS_EmptySet DEF Init, Inside, InsidePCs
  <1>2. Cardinality(Threads) \in Nat
    BY InsideFinite
  <1>3. SemCounts
    BY <1>1, <1>2 DEF Init, SemCounts
  <1>4. TypeOK
    <2>1. rating \in [Players -> Int]
      BY DEF Init, PLAYER_INITIAL_RATING
    <2>2. elo_sem \in 0..(Cardinality(Threads) + 1) /\ games \in 0..MaxGames
      BY <1>2, ResultsBound DEF Init
    <2>3. pc \in [Threads -> PCs] /\ mutex \in [Players -> Threads \cup {Nobody}]
      BY DEF Init, PCs
    <2>4. /\ post \in [Threads -> Posts \cup {Nobody}]
          /\ new \in [Threads -> (Int \X Int) \cup {Nobody}]
      BY DEF Init
    <2>5. \A t \in Threads : pc[t] # "playing" => post[t] \in Posts
      BY DEF Init
    <2> QED
      BY <2>1, <2>2, <2>3, <2>4, <2>5 DEF Init, TypeOK
  <1>5. TwoPlayers /\ Ownership /\ ComputedIsCurrent
    BY ResultsThreads
    DEF Init, TwoPlayers, Ownership, Locked, ComputedIsCurrent
  <1> QED
    BY <1>3, <1>4, <1>5 DEF IInv

(* client_create, and the beginning and the end of posting a result.       *)
LEMMA SemStep ==
  ASSUME IInv,
         \/ client_create
         \/ \E t \in Threads :
              \/ \E p \in Posts : post_player_results(t, p)
              \/ WaitElo(t)
              \/ PostElo(t)
  PROVE  IInv'
  <1>0. TypeOK /\ SemCounts /\ TwoPlayers /\ Ownership /\ ComputedIsCurrent
    BY DEF IInv
  <1>f. /\ pc \in [Threads -> PCs] /\ elo_sem \in Nat
        /\ elo_sem \in 0..(Cardinality(Threads) + 1)
    BY <1>0, InsideFinite DEF TypeOK
  <1>1. CASE client_create
    <2> USE <1>1 DEF client_create
    <2>1. Inside' = Inside
      BY DEF Inside
    <2>2. SemCounts'
      <3>1. ASSUME ~clobbered' PROVE Cardinality(Inside) = 0
        <4>1. Inside = {}
          BY <3>1 DEF Inside, InsidePCs
        <4> QED
          BY <4>1, FS_EmptySet
      <3> QED
        BY <2>1, <3>1, InsideFinite DEF SemCounts
    <2>3. TypeOK'
      BY <1>0, InsideFinite DEF TypeOK
    <2>4. TwoPlayers' /\ Ownership' /\ ComputedIsCurrent'
      BY <1>0 DEF TwoPlayers, Ownership, Locked, ComputedIsCurrent
    <2> QED
      BY <2>2, <2>3, <2>4 DEF IInv
  <1>2. ASSUME NEW t \in Threads, NEW p \in Posts, post_player_results(t, p)
        PROVE  IInv'
    <2> USE <1>2 DEF post_player_results, Goto
    <2>1. Inside' = Inside
      BY <1>f DEF Inside, InsidePCs
    <2>2. SemCounts'
      BY <1>0, <2>1 DEF SemCounts
    <2>3. TypeOK'
      <3>1. games' \in 0..MaxGames
        BY <1>0, ResultsBound DEF TypeOK
      <3> QED
        BY <1>0, <3>1 DEF TypeOK, PCs
    <2>4. TwoPlayers'
      BY <1>0, <1>f DEF TwoPlayers, TypeOK
    <2>5. Ownership'
      <3>1. \A u \in Threads : Locked(u)' = Locked(u)
        BY <1>0, <1>f DEF Locked, TypeOK
      <3> QED
        BY <1>0, <3>1 DEF Ownership
    <2>6. ComputedIsCurrent'
      BY <1>0, <1>f DEF ComputedIsCurrent, TypeOK
    <2> QED
      BY <2>2, <2>3, <2>4, <2>5, <2>6 DEF IInv
  <1>3. ASSUME NEW t \in Threads, WaitElo(t) PROVE IInv'
    <2> USE <1>3 DEF WaitElo, Goto
    <2>1. PICK to \in {"done", "lock1"} :
            /\ pc' = [pc EXCEPT ![t] = to]
            /\ to = "lock1" => post[t].player1 # post[t].player2
      OBVIOUS
    <2>2. SemCounts'
      <3>1. Cardinality(Inside') = Cardinality(Inside) + 1
        BY <1>f, <2>1, InsideEnter DEF InsidePCs
      <3> QED
        BY <1>0, <1>f, <3>1, InsideFinite DEF SemCounts
    <2>3. TypeOK'
      <3>1. elo_sem' \in 0..(Cardinality(Threads) + 1)
        BY <1>f, InsideFinite
      <3> QED
        BY <1>0, <2>1, <3>1 DEF TypeOK, PCs
    <2>4. TwoPlayers'
      BY <1>0, <1>f, <2>1 DEF TwoPlayers
    <2>5. Ownership'
      <3>1. \A u \in Threads : Locked(u)' = Locked(u)
        BY <1>f, <2>1 DEF Locked
      <3> QED
        BY <1>0, <3>1 DEF Ownership
    <2>6. ComputedIsCurrent'
      BY <1>0, <1>f, <2>1 DEF ComputedIsCurrent
    <2> QED
      BY <2>2, <2>3, <2>4, <2>5, <2>6 DEF IInv
  <1>4. ASSUME NEW t \in Threads, PostElo(t) PROVE IInv'
    <2> USE <1>4 DEF PostElo, Goto
    <2>1. /\ Cardinality(Inside') = Cardinality(Inside) - 1
          /\ Cardinality(Inside) > 0
      <3>1. "playing" \notin InsidePCs /\ pc[t] \in InsidePCs
        BY DEF InsidePCs
      <3> QED
        BY <1>f, <3>1, InsideLeave
    <2>2. SemCounts'
      BY <1>0, <1>f, <2>1, InsideFinite DEF SemCounts
    <2>3. TypeOK'
      <3>1. elo_sem' \in 0..(Cardinality(Threads) + 1)
        BY <1>0, <1>f, <2>1, InsideFinite DEF SemCounts
      <3> QED
        BY <1>0, <3>1 DEF TypeOK, PCs
    <2>4. TwoPlayers'
      BY <1>0, <1>f DEF TwoPlayers, TypeOK
    <2>5. Ownership'
      <3>1. \A u \in Threads : Locked(u)' = Locked(u)
        BY <1>0, <1>f DEF Locked, TypeOK
      <3> QED
        BY <1>0, <3>1 DEF Ownership
    <2>6. ComputedIsCurrent'
      BY <1>0, <1>f DEF ComputedIsCurrent, TypeOK
    <2> QED
      BY <2>2, <2>3, <2>4, <2>5, <2>6 DEF IInv
  <1> QED
    BY <1>1, <1>2, <1>3, <1>4

(* player_post_result.                                                     *)
LEMMA PostResultStep ==
  ASSUME IInv, NEW t \in Threads,
         Lock1(t) \/ Lock2(t) \/ Compute(t) \/ Update(t)
  PROVE  IInv'
  <1>0. TypeOK /\ SemCounts /\ TwoPlayers /\ Ownership /\ ComputedIsCurrent
    BY DEF IInv
  <1>f. /\ pc \in [Threads -> PCs]
        /\ mutex \in [Players -> Threads \cup {Nobody}]
        /\ rating \in [Players -> Int]
    BY <1>0 DEF TypeOK
  <1>p. /\ post[t].player1 \in Players /\ post[t].player2 \in Players
        /\ post[t].result \in Results
        /\ post[t].player1 # post[t].player2
    BY <1>0, PostTypes
    DEF TwoPlayers, Lock1, Lock2, Compute, Update, Goto
  <1>1. PICK to \in {"lock2", "compute", "update", "done"} :
          pc' = [pc EXCEPT ![t] = to]
    BY DEF Lock1, Lock2, Compute, Update, Goto
  <1>2. SemCounts'
    <2>1. Inside' = Inside
      BY <1>f DEF Lock1, Lock2, Compute, Update, Goto, Inside, InsidePCs
    <2>2. UNCHANGED <<elo_sem, clobbered>>
      BY DEF Lock1, Lock2, Compute, Update
    <2> QED
      BY <1>0, <2>1, <2>2 DEF SemCounts
  <1>3. TwoPlayers'
    BY <1>0, <1>f, <1>1, <1>p
    DEF Lock1, Lock2, Compute, Update, TwoPlayers
  <1>4. CASE Lock1(t) \/ Lock2(t)
    <2> USE <1>4 DEF Lock1, Lock2, Lock, Goto
    <2>1. PICK p \in {post[t].player1, post[t].player2} :
            /\ mutex[p] = Nobody /\ mutex' = [mutex EXCEPT ![p] = t]
            /\ Locked(t)' = Locked(t) \cup {p}
      BY <1>f DEF Locked
    <2>2. TypeOK'
      BY <1>0, <1>p, <2>1 DEF TypeOK, PCs
    <2>3. \A u \in Threads \ {t} : Locked(u)' = Locked(u)
      BY <1>f DEF Locked
    <2>4. Ownership'
      BY <1>0, <1>f, <1>p, <2>1, <2>3, ResultsThreads DEF Ownership
    <2>5. ComputedIsCurrent'
      BY <1>0, <1>f DEF ComputedIsCurrent
    <2> QED
      BY <1>2, <1>3, <2>2, <2>4, <2>5 DEF IInv
  <1>5. CASE Compute(t)
    <2> USE <1>5 DEF Compute, Goto
    <2>1. NewRatings(rating[post[t].player1], rating[post[t].player2],
                     post[t].result) \in Int \X Int
      BY <1>f, <1>p, NewRatingsFacts
    <2>2. TypeOK'
      BY <1>0, <2>1 DEF TypeOK, PCs
    <2>3. Ownership'
      <3>1. \A u \in Threads : Locked(u)' = Locked(u)
        BY <1>f DEF Locked
      <3> QED
        BY <1>0, <3>1 DEF Ownership
    <2>4. ComputedIsCurrent'
      BY <1>0, <1>f DEF ComputedIsCurrent, TypeOK
    <2> QED
      BY <1>2, <1>3, <2>2, <2>3, <2>4 DEF IInv
  <1>6. CASE Update(t)
    <2> USE <1>6 DEF Update, Goto
    <2> DEFINE both == {post[t].player1, post[t].player2}
    <2>1. new[t] \in Int \X Int
      BY <1>0, <1>f, <1>p, NewRatingsFacts DEF ComputedIsCurrent
    <2>2. TypeOK'
      <3>1. rating' \in [Players -> Int]
        BY <1>f, <1>p, <2>1
      <3>2. mutex' \in [Players -> Threads \cup {Nobody}]
        BY <1>f
      <3> QED
        BY <1>0, <3>1, <3>2 DEF TypeOK, PCs
    <2>3. Locked(t) = both /\ Locked(t)' = {}
      BY <1>f DEF Locked
    <2>4. \A u \in Threads \ {t} : Locked(u)' = Locked(u) /\ Locked(u) \cap both = {}
      <3>1. \A u \in Threads \ {t} : Locked(u)' = Locked(u)
        BY <1>f DEF Locked
      <3>2. \A p \in both : mutex[p] = t
        BY <1>0, <1>p, <2>3 DEF Ownership
      <3> QED
        BY <1>0, <1>p, <3>1, <3>2 DEF Ownership
    <2>5. Ownership'
      BY <1>0, <1>p, <2>3, <2>4, ResultsThreads DEF Ownership
    <2>6. ComputedIsCurrent'
      <3> SUFFICES ASSUME NEW u \in Threads, pc'[u] = "update"
                   PROVE  new'[u] = NewRatings(rating'[post'[u].player1],
                                               rating'[post'[u].player2],
                                               post'[u].result)
        BY DEF ComputedIsCurrent
      <3>1. u # t /\ pc[u] = "update" /\ post'[u] = post[u] /\ new'[u] = new[u]
        BY <1>0, <1>f DEF TypeOK
      <3>2. post[u].player1 \in Players /\ post[u].player2 \in Players
        BY <1>0, <3>1, PostTypes
      <3>3. post[u].player1 \notin both /\ post[u].player2 \notin both
        BY <2>4, <3>1 DEF Locked
      <3>4. /\ rating'[post[u].player1] = rating[post[u].player1]
            /\ rating'[post[u].player2] = rating[post[u].player2]
        BY <1>f, <3>2, <3>3
      <3> QED
        BY <1>0, <3>1, <3>4 DEF ComputedIsCurrent
    <2> QED
      BY <1>2, <1>3, <2>2, <2>5, <2>6 DEF IInv
  <1> QED
    BY <1>4, <1>5, <1>6

(* Every step preserves the inductive invariant.                           *)
LEMMA NextIInv == IInv /\ [Next]_vars => IInv'
  <1> SUFFICES ASSUME IInv, [Next]_vars PROVE IInv'
    OBVIOUS
  <1>1. CASE Next
    BY <1>1, SemStep, PostResultStep DEF Next, Proceed
  <1>2. CASE UNCHANGED vars
    BY <1>2 DEF vars, IInv, TypeOK, SemCounts, Inside, TwoPlayers, Ownership,
                Locked, ComputedIsCurrent
  <1> QED
    BY <1>1, <1>2

(* The invariant holds while results are posted, in any interleaving.      *)
THEOREM ResultsInvariant == Spec => []IInv
  BY InitIInv, NextIInv, PTL DEF Spec

(* Types: in particular CLIENT_UPDATE_ELO never exceeds the number of      *)
(* threads by more than one, although client_create sets it again.         *)
THEOREM ResultsTypeCorrect == Spec => []TypeOK
  <1>1. IInv => TypeOK
    BY DEF IInv
  <1> QED
    BY <1>1, ResultsInvariant, PTL

(* No two threads wait for each other's player while CLIENT_UPDATE_ELO has *)
(* not been initialised again under a thread that uses it.                 *)
THEOREM NoCircularWait == Spec => []NoCircularWaitUnlessReinit
  <1>1. ASSUME IInv, ~clobbered, NEW t \in Threads, NEW u \in Threads,
               pc[t] = "lock2", mutex[post[t].player2] = u,
               pc[u] = "lock2", mutex[post[u].player2] = t
        PROVE  FALSE
    <2>1. t # u
      <3>1. post[t].player2 \in Players /\ post[t].player1 # post[t].player2
        BY <1>1, PostTypes DEF IInv, TwoPlayers
      <3>2. post[t].player2 \notin Locked(t)
        BY <1>1, <3>1 DEF Locked
      <3> QED
        BY <1>1, <3>1, <3>2 DEF IInv, Ownership
    <2>2. {t, u} \subseteq Inside
      BY <1>1 DEF Inside, InsidePCs
    <2>3. Cardinality({t, u}) = 2
      <3>1. Cardinality({t}) = 1 /\ IsFiniteSet({t})
        BY FS_Singleton
      <3>2. {t, u} = {t} \cup {u} /\ u \notin {t}
        BY <2>1
      <3> QED
        BY <3>1, <3>2, FS_AddElement
    <2>4. Cardinality({t, u}) <= Cardinality(Inside)
      BY <2>2, InsideFinite, FS_Subset
    <2>5. Cardinality(Inside) <= 1
      BY <1>1, InsideFinite DEF IInv, TypeOK, SemCounts
    <2> QED
      BY <2>3, <2>4, <2>5, InsideFinite
  <1>2. IInv => NoCircularWaitUnlessReinit
    BY <1>1 DEF NoCircularWaitUnlessReinit
  <1> QED
    BY <1>2, ResultsInvariant, PTL

(* The formula of player_post_result treats both players alike.            *)
THEOREM FormulaIsSymmetric == Spec => []RolesDoNotMatter
  <1>1. TypeOK => RolesDoNotMatter
    <2> SUFFICES ASSUME TypeOK, NEW p \in Players, NEW q \in Players,
                        NEW result \in Results
                 PROVE  LET mirrored == CASE result = 0 -> 0
                                          [] result = 1 -> 2
                                          [] result = 2 -> 1
                            asSecond == NewRatings(rating[q], rating[p], mirrored)
                        IN  NewRatings(rating[p], rating[q], result)
                              = <<asSecond[2], asSecond[1]>>
      BY Zenon DEF RolesDoNotMatter
    <2> DEFINE mirrored == CASE result = 0 -> 0
                             [] result = 1 -> 2
                             [] result = 2 -> 1
    <2>1. mirrored \in Results /\ Score(mirrored) = 32 - Score(result)
      BY DEF Results, Score
    <2>2. rating[p] \in Int /\ rating[q] \in Int
      BY DEF TypeOK
    <2> HIDE DEF mirrored
    <2>3. NewRatings(rating[p], rating[q], result)
            = <<NewRatings(rating[q], rating[p], mirrored)[2],
                NewRatings(rating[q], rating[p], mirrored)[1]>>
      BY <2>1, <2>2, NewRatingsMirror
    <2> QED
      BY <2>3 DEF mirrored
  <1> QED
    BY <1>1, ResultsTypeCorrect, PTL
-----------------------------------------------------------------------------
(* What one posted result does.                                            *)

(* The step in which thread t assigns the ratings of its two players: they *)
(* become what the formula makes of the ratings they have at that moment,  *)
(* and all other ratings stay.                                             *)
LEMMA UpdateIsFormula ==
  ASSUME IInv, [Next]_vars, NEW t \in Threads,
         pc[t] = "update", pc'[t] = "done"
  PROVE  /\ post[t].player1 \in Players /\ post[t].player2 \in Players
         /\ post[t].result \in Results
         /\ <<rating'[post[t].player1], rating'[post[t].player2]>>
              = NewRatings(rating[post[t].player1], rating[post[t].player2],
                           post[t].result)
         /\ \A q \in Players \ {post[t].player1, post[t].player2} :
              rating'[q] = rating[q]
  <1>0. /\ TypeOK /\ pc \in [Threads -> PCs] /\ rating \in [Players -> Int]
    BY DEF IInv, TypeOK
  <1>1. Update(t)
    BY <1>0
    DEF Next, Proceed, vars, client_create, post_player_results, WaitElo, Lock1,
        Lock2, Compute, Update, PostElo, Goto
  <1>2. /\ post[t].player1 \in Players /\ post[t].player2 \in Players
        /\ post[t].result \in Results
        /\ post[t].player1 # post[t].player2
    BY <1>0, PostTypes DEF IInv, TwoPlayers
  <1>3. new[t] = NewRatings(rating[post[t].player1], rating[post[t].player2],
                            post[t].result)
    BY DEF IInv, ComputedIsCurrent
  <1>4. new[t] \in Int \X Int
    <2>1. rating[post[t].player1] \in Int /\ rating[post[t].player2] \in Int
      BY <1>0, <1>2
    <2> QED
      BY <1>2, <1>3, <2>1, NewRatingsFacts
  <1>5. /\ rating'[post[t].player1] = new[t][1]
        /\ rating'[post[t].player2] = new[t][2]
        /\ \A q \in Players \ {post[t].player1, post[t].player2} :
              rating'[q] = rating[q]
    BY <1>0, <1>1, <1>2 DEF Update
  <1>6. <<rating'[post[t].player1], rating'[post[t].player2]>> = new[t]
    BY <1>4, <1>5
  <1> QED
    BY <1>2, <1>3, <1>5, <1>6

(* A result moves the ratings of its players in the right direction from   *)
(* where they are, also when client_create has broken the semaphore and    *)
(* two games with a common player end together: the mutexes alone do it.   *)
THEOREM ResultsMoveRatings == Spec => ResultMovesRating
  <1> DEFINE Moves(t) ==
        pc[t] = "update" /\ pc'[t] = "done" =>
          LET p == post[t]
              a == p.player1
              b == p.player2
          IN  /\ \A q \in Players \ {a, b} : rating'[q] = rating[q]
              /\ p.result = 1 =>
                   rating'[a] >= rating[a] /\ rating'[b] <= rating[b]
              /\ p.result = 2 =>
                   rating'[a] <= rating[a] /\ rating'[b] >= rating[b]
              /\ p.result = 0 =>
                   /\ rating[a] <= rating[b] =>
                        rating'[a] >= rating[a] /\ rating'[b] <= rating[b]
                   /\ rating[a] >= rating[b] =>
                        rating'[a] <= rating[a] /\ rating'[b] >= rating[b]
  <1>1. ASSUME IInv, [Next]_vars, NEW t \in Threads PROVE Moves(t)
    <2> SUFFICES ASSUME pc[t] = "update", pc'[t] = "done" PROVE Moves(t)
      OBVIOUS
    <2> DEFINE a == post[t].player1
               b == post[t].player2
    <2>1. /\ a \in Players /\ b \in Players /\ post[t].result \in Results
          /\ <<rating'[a], rating'[b]>>
               = NewRatings(rating[a], rating[b], post[t].result)
          /\ \A q \in Players \ {a, b} : rating'[q] = rating[q]
      BY <1>1, UpdateIsFormula
    <2>2. rating[a] \in Int /\ rating[b] \in Int
      BY <1>1, <2>1 DEF IInv, TypeOK
    <2> HIDE DEF a, b
    <2>3. /\ post[t].result = 1 =>
               rating'[a] >= rating[a] /\ rating'[b] <= rating[b]
          /\ post[t].result = 2 =>
               rating'[a] <= rating[a] /\ rating'[b] >= rating[b]
          /\ post[t].result = 0 /\ rating[a] <= rating[b] =>
               rating'[a] >= rating[a] /\ rating'[b] <= rating[b]
          /\ post[t].result = 0 /\ rating[a] >= rating[b] =>
               rating'[a] <= rating[a] /\ rating'[b] >= rating[b]
      <3> DEFINE n == NewRatings(rating[a], rating[b], post[t].result)
      <3>1. n[1] = rating'[a] /\ n[2] = rating'[b]
        BY <2>1
      <3>2. /\ post[t].result = 1 => n[1] >= rating[a] /\ n[2] <= rating[b]
            /\ post[t].result = 2 => n[1] <= rating[a] /\ n[2] >= rating[b]
            /\ post[t].result = 0 /\ rating[a] <= rating[b] =>
                 n[1] >= rating[a] /\ n[2] <= rating[b]
            /\ post[t].result = 0 /\ rating[a] >= rating[b] =>
                 n[1] <= rating[a] /\ n[2] >= rating[b]
        BY <2>1, <2>2, NewRatingsFacts
      <3> HIDE DEF n
      <3> QED
        BY <3>1, <3>2
    <2> QED
      BY <2>1, <2>3 DEF a, b
  <1>2. IInv /\ [Next]_vars => [\A t \in Threads : Moves(t)]_vars
    BY <1>1
  <1> QED
    BY <1>2, ResultsInvariant, PTL DEF Spec, ResultMovesRating

-----------------------------------------------------------------------------
(* The sum of the ratings.                                                 *)

(* The threads whose result is posted and not yet in the ratings, and how  *)
(* many games are in them.                                                 *)
InFlight == {t \in Threads : pc[t] \notin {"playing", "done"}}
SettledGames == games - Cardinality(InFlight)

(* TotalAccounted is not inductive: it counts games from when they are     *)
(* posted, and the sum changes when they are settled; and that the sum     *)
(* does not grow needs to know that no rating has come down to 0.          *)
Accounted(k, total, r) ==
  LET start == Cardinality(Players) * PLAYER_INITIAL_RATING
  IN  /\ k \in Nat
      /\ start - k <= total /\ total <= start + k
      /\ 32 * k < PLAYER_INITIAL_RATING => total <= start
      /\ \A p \in Players : /\ PLAYER_INITIAL_RATING - 32 * k <= r[p]
                            /\ r[p] <= PLAYER_INITIAL_RATING + 32 * k

SumInv == Accounted(SettledGames, SumFunction(rating), rating)

(* The number of threads in flight is a number.                            *)
LEMMA InFlightFinite ==
  /\ IsFiniteSet(InFlight) /\ Cardinality(InFlight) \in Nat
  /\ IsFiniteSet(InFlight') /\ Cardinality(InFlight') \in Nat
<1>1. InFlight \in SUBSET Threads /\ InFlight' \in SUBSET Threads
  BY DEF InFlight
<1> QED  BY <1>1, ResultsThreads, FS_Subset, FS_CardinalityType

(* The sum of the ratings is an integer, also when there is no player.     *)
LEMMA SumIsInt ==
  ASSUME NEW f \in [Players -> Int]
  PROVE  SumFunction(f) \in Int
<1>1. CASE Players = {}
  <2>1. f = [x \in Players |-> 0]
    BY <1>1
  <2>2. SumFunction([x \in Players |-> 0]) = Cardinality(Players) * 0
    <3>1. \A v \in Int : SumFunction([x \in Players |-> v]) = Cardinality(Players) * v
      BY ResultsPlayers, SumOfConstant
    <3>2. 0 \in Int
      OBVIOUS
    <3> QED  BY <3>1, <3>2, Zenon
  <2>3. Cardinality(Players) \in Nat
    BY ResultsPlayers, FS_CardinalityType
  <2> QED  BY <2>1, <2>2, <2>3
<1>2. CASE Players # {}
  <2>1. PICK a \in Players : TRUE
    BY <1>2
  <2> QED  BY ResultsPlayers, SumOfChanged
<1> QED  BY <1>1, <1>2

(* A result that moves the two ratings a and b moves the sum as much.      *)
LEMMA SumOfTwoChanged ==
  ASSUME NEW f \in [Players -> Int], NEW g \in [Players -> Int],
         NEW a \in Players, NEW b \in Players, a # b,
         \A q \in Players \ {a, b} : g[q] = f[q]
  PROVE  /\ SumFunction(f) \in Int
         /\ SumFunction(g) = SumFunction(f) + (g[a] + g[b]) - (f[a] + f[b])
<1> DEFINE h == [f EXCEPT ![a] = g[a]]
<1>1. h \in [Players -> Int] /\ h[a] = g[a] /\ h[b] = f[b]
      /\ \A q \in Players \ {a} : h[q] = f[q]
  OBVIOUS
<1>2. \A q \in Players \ {b} : g[q] = h[q]
  BY <1>1
<1> HIDE DEF h
<1>3. SumFunction(f) \in Int /\ SumFunction(h) = SumFunction(f) + (h[a] - f[a])
  BY <1>1, ResultsPlayers, SumOfChanged
<1>4. SumFunction(h) \in Int /\ SumFunction(g) = SumFunction(h) + (g[b] - h[b])
  BY <1>1, <1>2, ResultsPlayers, SumOfChanged
<1>5. f[a] \in Int /\ f[b] \in Int /\ g[a] \in Int /\ g[b] \in Int
  OBVIOUS
<1> QED  BY <1>1, <1>3, <1>4, <1>5

(* How a step changes the number of games in the ratings.                  *)
LEMMA SettledStep ==
  ASSUME IInv, [Next]_vars
  PROVE  \/ UNCHANGED rating /\ SettledGames' \in {SettledGames, SettledGames + 1}
         \/ \E t \in Threads : Update(t) /\ SettledGames' = SettledGames + 1
<1>0. pc \in [Threads -> PCs] /\ games \in Nat
  BY DEF IInv, TypeOK
<1> DEFINE n == Cardinality(InFlight)
<1>1. n \in Nat /\ IsFiniteSet(InFlight)
  BY InFlightFinite
<1>2. CASE client_create \/ UNCHANGED vars
  <2>1. InFlight' = InFlight /\ games' = games /\ rating' = rating
    BY <1>2 DEF client_create, vars, InFlight
  <2> QED  BY <2>1 DEF SettledGames
<1>3. ASSUME NEW t \in Threads, NEW p \in Posts, post_player_results(t, p)
      PROVE  UNCHANGED rating /\ SettledGames' = SettledGames
  <2>1. InFlight' = InFlight \cup {t} /\ t \notin InFlight
    BY <1>0, <1>3 DEF post_player_results, Goto, InFlight
  <2>2. Cardinality(InFlight') = n + 1
    BY <1>1, <2>1, FS_AddElement
  <2> QED  BY <1>0, <1>1, <1>3, <2>2 DEF post_player_results, SettledGames
<1>4. ASSUME NEW t \in Threads, Proceed(t), InFlight' = InFlight
      PROVE  UNCHANGED rating /\ SettledGames' = SettledGames
  <2>1. ~Update(t)
    BY <1>0, <1>4 DEF Update, Goto, InFlight
  <2> QED
    BY <1>4, <2>1 DEF Proceed, WaitElo, Lock1, Lock2, Compute, PostElo, SettledGames
<1>5. ASSUME NEW t \in Threads, Proceed(t), InFlight' # InFlight
      PROVE  /\ Update(t) \/ UNCHANGED rating
             /\ SettledGames' = SettledGames + 1
  <2>1. /\ InFlight' = InFlight \ {t} /\ t \in InFlight
        /\ games' = games /\ (Update(t) \/ UNCHANGED rating)
    BY <1>0, <1>5
    DEF Proceed, WaitElo, Lock1, Lock2, Compute, Update, PostElo, Goto, InFlight
  <2>2. Cardinality(InFlight') = n - 1
    BY <1>1, <2>1, FS_RemoveElement
  <2> QED  BY <1>0, <1>1, <2>1, <2>2 DEF SettledGames
<1> QED  BY <1>2, <1>3, <1>4, <1>5 DEF Next

(* One game is settled.                                                    *)
LEMMA UpdateSum ==
  ASSUME IInv, NEW t \in Threads, Update(t)
  PROVE  LET a     == post[t].player1
             b     == post[t].player2
             moved == (rating'[a] + rating'[b]) - (rating[a] + rating[b])
         IN  /\ SumFunction(rating) \in Int
             /\ SumFunction(rating') = SumFunction(rating) + moved
             /\ moved \in -1..1
             /\ rating'[a] > 0 => moved <= 0
             /\ a \in Players
             /\ \A q \in Players : /\ rating'[q] >= rating[q] - 32
                                   /\ rating'[q] <= rating[q] + 32
<1> DEFINE a == post[t].player1
           b == post[t].player2
           n == NewRatings(rating[a], rating[b], post[t].result)
           moved == (rating'[a] + rating'[b]) - (rating[a] + rating[b])
<1>1. /\ TypeOK /\ pc[t] = "update" /\ rating \in [Players -> Int]
      /\ rating' = [rating EXCEPT ![a] = new[t][1], ![b] = new[t][2]]
  BY DEF IInv, TypeOK, Update, Goto
<1>2. a \in Players /\ b \in Players /\ post[t].result \in Results /\ a # b
  BY <1>1, PostTypes DEF IInv, TwoPlayers
<1>3. new[t] = n
  BY <1>1 DEF IInv, ComputedIsCurrent
<1>4. /\ n \in Int \X Int
      /\ n[1] + n[2] >= rating[a] + rating[b] - 1
      /\ n[1] + n[2] <= rating[a] + rating[b] + 1
      /\ n[1] >= rating[a] - 32 /\ n[2] >= rating[b] - 32
      /\ n[1] <= rating[a] + 32 /\ n[2] <= rating[b] + 32
      /\ n[1] > 0 \/ n[2] > 0 => n[1] + n[2] <= rating[a] + rating[b]
  <2>1. rating[a] \in Int /\ rating[b] \in Int
    BY <1>1, <1>2
  <2> HIDE DEF a, b
  <2> QED  BY <1>2, <2>1, NewRatingsFacts
<1> HIDE DEF a, b, n
<1>5. /\ rating'[a] = n[1] /\ rating'[b] = n[2] /\ rating' \in [Players -> Int]
      /\ \A q \in Players \ {a, b} : rating'[q] = rating[q]
  BY <1>1, <1>2, <1>3, <1>4
<1>6. /\ SumFunction(rating) \in Int
      /\ SumFunction(rating') =
           SumFunction(rating) + (rating'[a] + rating'[b]) - (rating[a] + rating[b])
  <2>1. PICK f \in [Players -> Int], g \in [Players -> Int] : f = rating /\ g = rating'
    BY <1>1, <1>5
  <2>2. \A q \in Players \ {a, b} : g[q] = f[q]
    BY <1>5, <2>1
  <2>3. /\ SumFunction(f) \in Int
        /\ SumFunction(g) = SumFunction(f) + (g[a] + g[b]) - (f[a] + f[b])
    BY <1>2, <2>2, SumOfTwoChanged
  <2> QED  BY <2>1, <2>3
<1>7. /\ rating[a] \in Int /\ rating[b] \in Int /\ n[1] \in Int /\ n[2] \in Int
  BY <1>1, <1>2, <1>4
<1>8. moved \in -1..1 /\ (rating'[a] > 0 => moved <= 0)
  BY <1>4, <1>5, <1>7
<1>9. SumFunction(rating') = SumFunction(rating) + moved
  BY <1>5, <1>6, <1>7
<1>10. \A q \in Players : rating'[q] >= rating[q] - 32 /\ rating'[q] <= rating[q] + 32
  BY <1>1, <1>2, <1>4, <1>5
<1> QED  BY <1>2, <1>6, <1>8, <1>9, <1>10 DEF a, b

(* The account, when one more game is in the ratings.                      *)
LEMMA AccountedStep ==
  ASSUME NEW k, NEW total \in Int, NEW moved \in -1..1,
         NEW r \in [Players -> Int], NEW s \in [Players -> Int],
         NEW a \in Players, Accounted(k, total, r),
         \A q \in Players : s[q] >= r[q] - 32 /\ s[q] <= r[q] + 32,
         s[a] > 0 => moved <= 0
  PROVE  Accounted(k + 1, total + moved, s)
<1> DEFINE start == Cardinality(Players) * PLAYER_INITIAL_RATING
<1>1. start \in Int
  BY ResultsPlayers, FS_CardinalityType DEF PLAYER_INITIAL_RATING
<1>2. /\ k \in Nat /\ start - k <= total /\ total <= start + k
      /\ 32 * k < 1500 => total <= start
      /\ \A q \in Players : 1500 - 32 * k <= r[q] /\ r[q] <= 1500 + 32 * k
  BY DEF Accounted, PLAYER_INITIAL_RATING
<1>3. ASSUME NEW q \in Players
      PROVE  1500 - 32 * (k + 1) <= s[q] /\ s[q] <= 1500 + 32 * (k + 1)
  <2>1. /\ s[q] \in Int /\ r[q] \in Int /\ s[q] >= r[q] - 32 /\ s[q] <= r[q] + 32
        /\ 1500 - 32 * k <= r[q] /\ r[q] <= 1500 + 32 * k
    BY <1>2, <1>3
  <2> QED  BY <1>2, <2>1
<1> HIDE DEF start
<1>4. /\ start - (k + 1) <= total + moved /\ total + moved <= start + (k + 1)
  BY <1>1, <1>2
<1>5. ASSUME 32 * (k + 1) < 1500  PROVE total + moved <= start
  <2>1. s[a] \in Int /\ 1500 - 32 * (k + 1) <= s[a]
    BY <1>3
  <2>2. moved <= 0
    BY <1>2, <1>5, <2>1
  <2>3. total <= start
    BY <1>2, <1>5
  <2> QED  BY <1>1, <2>2, <2>3
<1> QED  BY <1>2, <1>3, <1>4, <1>5 DEF Accounted, start, PLAYER_INITIAL_RATING

(* The same when the game leaves every rating as it is.                    *)
LEMMA AccountedSame ==
  ASSUME NEW k, NEW total \in Int, NEW r \in [Players -> Int],
         Accounted(k, total, r)
  PROVE  Accounted(k + 1, total, r)
<1> DEFINE start == Cardinality(Players) * PLAYER_INITIAL_RATING
<1>1. start \in Int
  BY ResultsPlayers, FS_CardinalityType DEF PLAYER_INITIAL_RATING
<1>2. /\ k \in Nat /\ start - k <= total /\ total <= start + k
      /\ 32 * k < 1500 => total <= start
      /\ \A q \in Players : 1500 - 32 * k <= r[q] /\ r[q] <= 1500 + 32 * k
  BY DEF Accounted, PLAYER_INITIAL_RATING
<1>3. ASSUME NEW q \in Players
      PROVE  1500 - 32 * (k + 1) <= r[q] /\ r[q] <= 1500 + 32 * (k + 1)
  <2>1. r[q] \in Int /\ 1500 - 32 * k <= r[q] /\ r[q] <= 1500 + 32 * k
    BY <1>2, <1>3
  <2> QED  BY <1>2, <2>1
<1> HIDE DEF start
<1>4. /\ start - (k + 1) <= total /\ total <= start + (k + 1)
      /\ 32 * (k + 1) < 1500 => total <= start
  BY <1>1, <1>2
<1> QED  BY <1>2, <1>3, <1>4 DEF Accounted, start, PLAYER_INITIAL_RATING

(* The sum is accounted for by the games that are settled.                 *)
LEMMA SumInvariant == Spec => []SumInv
<1>1. Init => SumInv
  <2> SUFFICES ASSUME Init  PROVE SumInv
    OBVIOUS
  <2> DEFINE v == PLAYER_INITIAL_RATING
  <2>1. v \in Int /\ rating = [p \in Players |-> v]
    BY DEF Init, PLAYER_INITIAL_RATING
  <2>2. SumFunction(rating) = Cardinality(Players) * v
    <3> HIDE DEF v
    <3>1. SumFunction([p \in Players |-> v]) = Cardinality(Players) * v
      BY <2>1, ResultsPlayers, SumOfConstant
    <3> QED  BY <2>1, <3>1
  <2>3. SettledGames = 0
    <3>1. InFlight = {} /\ games = 0
      BY DEF Init, InFlight
    <3> QED  BY <3>1, FS_EmptySet DEF SettledGames
  <2>4. Cardinality(Players) * v \in Int
    BY <2>1, ResultsPlayers, FS_CardinalityType
  <2> HIDE DEF v
  <2>5. \A p \in Players : rating[p] >= v /\ rating[p] <= v
    BY <2>1
  <2> QED  BY <2>1, <2>2, <2>3, <2>4, <2>5 DEF SumInv, Accounted, v
<1>2. ASSUME IInv, SumInv, [Next]_vars  PROVE SumInv'
  <2>1. /\ rating \in [Players -> Int] /\ SumFunction(rating) \in Int
        /\ Accounted(SettledGames, SumFunction(rating), rating)
    BY <1>2, SumIsInt DEF IInv, TypeOK, SumInv
  <2>2. SUFFICES Accounted(SettledGames', SumFunction(rating'), rating')
    BY DEF SumInv
  <2>3. CASE UNCHANGED rating /\ SettledGames' \in {SettledGames, SettledGames + 1}
    BY <2>1, <2>3, AccountedSame
  <2>4. ASSUME NEW t \in Threads, Update(t), SettledGames' = SettledGames + 1
        PROVE  Accounted(SettledGames', SumFunction(rating'), rating')
    <3> DEFINE a == post[t].player1
               b == post[t].player2
               moved == (rating'[a] + rating'[b]) - (rating[a] + rating[b])
    <3>1. /\ SumFunction(rating') = SumFunction(rating) + moved
          /\ moved \in -1..1 /\ (rating'[a] > 0 => moved <= 0) /\ a \in Players
          /\ \A q \in Players : rating'[q] >= rating[q] - 32
                                 /\ rating'[q] <= rating[q] + 32
      BY <1>2, <2>4, UpdateSum
    <3>2. rating' \in [Players -> Int]
      BY <1>2, NextIInv DEF IInv, TypeOK
    <3> HIDE DEF moved, a
    <3>3. Accounted(SettledGames + 1, SumFunction(rating) + moved, rating')
      BY <2>1, <3>1, <3>2, AccountedStep
    <3> QED  BY <2>4, <3>1, <3>3
  <2> QED  BY <1>2, <2>3, <2>4, SettledStep
<1>3. IInv /\ SumInv /\ [Next]_vars => SumInv'
  BY <1>2
<1> QED  BY <1>1, <1>3, ResultsInvariant, PTL DEF Spec

(* However many games end in whatever order, the ratings have lost or      *)
(* gained at most a point for each, and have gained none before one can be *)
(* down to 0: player_post_result makes up no points and loses no update.   *)
(* No rating has moved by more than 32 points for each game.               *)
THEOREM TotalIsAccounted == Spec => []TotalAccounted
<1> DEFINE start == Cardinality(Players) * PLAYER_INITIAL_RATING
           total == SumFunction(rating)
<1>1. ASSUME IInv, SumInv  PROVE TotalAccounted
  <2>1. games \in Nat
    BY <1>1 DEF IInv, TypeOK
  <2>2. Cardinality(Players) \in Nat /\ start \in Int
    BY ResultsPlayers, FS_CardinalityType DEF PLAYER_INITIAL_RATING
  <2>3. SettledGames \in Nat /\ SettledGames <= games
    BY <1>1, <2>1, InFlightFinite DEF SumInv, Accounted, SettledGames
  <2>4. total \in Int
    BY <1>1, SumIsInt DEF IInv, TypeOK
  <2>5. /\ start - SettledGames <= total /\ total <= start + SettledGames
        /\ 32 * SettledGames < 1500 => total <= start
        /\ \A p \in Players : /\ 1500 - 32 * SettledGames <= rating[p]
                              /\ rating[p] <= 1500 + 32 * SettledGames
    BY <1>1 DEF SumInv, Accounted, PLAYER_INITIAL_RATING
  <2> HIDE DEF start, total
  <2>6. /\ start - games <= total /\ total <= start + games
        /\ 32 * games < 1500 => total <= start
    BY <2>1, <2>2, <2>3, <2>4, <2>5
  <2>7. ASSUME NEW p \in Players
        PROVE  1500 - 32 * games <= rating[p] /\ rating[p] <= 1500 + 32 * games
    <3>1. rating[p] \in Int
      BY <1>1 DEF IInv, TypeOK
    <3> QED  BY <2>1, <2>3, <2>5, <3>1
  <2> QED  BY <2>6, <2>7 DEF TotalAccounted, start, total, PLAYER_INITIAL_RATING
<1>2. IInv /\ SumInv => TotalAccounted
  BY <1>1
<1> QED  BY <1>2, ResultsInvariant, SumInvariant, PTL

-----------------------------------------------------------------------------
(* The refinement of RatingLedger.                                         *)

Pending == [t \in Threads |->
              IF pc[t] \in {"playing", "done"} THEN {} ELSE {post[t]}]

(* A step that neither changes a rating nor posts or settles a result.     *)
LEMMA LedgerStutters ==
  ASSUME IInv, UNCHANGED rating, post' \in [Threads -> Posts \cup {Nobody}],
         \A t \in Threads :
           /\ pc'[t] \in {"playing", "done"} <=> pc[t] \in {"playing", "done"}
           /\ pc[t] \notin {"playing", "done"} => post'[t] = post[t]
  PROVE  UNCHANGED Ledger!vars
<1>1. Pending' = Pending
  BY DEF Pending
<1> QED  BY <1>1 DEF Ledger!vars, Pending

(* The end of a game: its result is handed in.                             *)
LEMMA LedgerSubmits ==
  ASSUME IInv, NEW t \in Threads, NEW p \in Posts, post_player_results(t, p)
  PROVE  Ledger!Submit(t, p)
<1>1. /\ pc \in [Threads -> PCs] /\ post \in [Threads -> Posts \cup {Nobody}]
  BY DEF IInv, TypeOK
<1>2. /\ pc[t] = "playing" /\ pc' = [pc EXCEPT ![t] = "wait_elo"]
      /\ post' = [post EXCEPT ![t] = p] /\ UNCHANGED rating
  BY DEF post_player_results, Goto
<1>3. Pending[t] = {}
  BY <1>2 DEF Pending
<1>4. Pending' = [Pending EXCEPT ![t] = {p}]
  BY <1>1, <1>2 DEF Pending
<1> QED  BY <1>2, <1>3, <1>4 DEF Ledger!Submit, Pending

(* The result of t leaves the pending ones.                                *)
LEMMA LedgerClears ==
  ASSUME IInv, NEW t \in Threads, pc[t] \notin {"playing", "done"},
         pc' = [pc EXCEPT ![t] = "done"], UNCHANGED post
  PROVE  /\ Pending[t] = {post[t]}
         /\ Pending' = [Pending EXCEPT ![t] = {}]
<1>1. pc \in [Threads -> PCs]
  BY DEF IInv, TypeOK
<1> QED  BY <1>1 DEF Pending

(* Update settles a result, from the ratings of that moment.               *)
LEMMA LedgerSettles ==
  ASSUME IInv, NEW t \in Threads, Update(t)
  PROVE  Ledger!Settle(t)
<1>1. /\ TypeOK /\ pc[t] = "update" /\ pc' = [pc EXCEPT ![t] = "done"]
      /\ UNCHANGED post
      /\ rating' = [rating EXCEPT ![post[t].player1] = new[t][1],
                                  ![post[t].player2] = new[t][2]]
  BY DEF IInv, Update, Goto
<1>2. post[t].player1 # post[t].player2
  BY <1>1, PostTypes DEF IInv, TwoPlayers
<1>3. new[t] = NewRatings(rating[post[t].player1], rating[post[t].player2],
                          post[t].result)
  BY <1>1 DEF IInv, ComputedIsCurrent
<1>4. rating' = Ledger!Settled(post[t])
  BY <1>1, <1>2, <1>3 DEF Ledger!Settled
<1>5. Pending[t] = {post[t]} /\ Pending' = [Pending EXCEPT ![t] = {}]
  BY <1>1, LedgerClears
<1> QED  BY <1>4, <1>5 DEF Ledger!Settle, Pending

(* So does the early return for a game of a player with itself.            *)
LEMMA LedgerSettlesOwn ==
  ASSUME IInv, NEW t \in Threads, WaitElo(t), post[t].player1 = post[t].player2
  PROVE  Ledger!Settle(t)
<1>1. /\ pc[t] = "wait_elo" /\ pc' = [pc EXCEPT ![t] = "done"]
      /\ UNCHANGED <<post, rating>>
  BY DEF WaitElo, Goto
<1>2. rating' = Ledger!Settled(post[t])
  BY <1>1 DEF Ledger!Settled
<1>3. Pending[t] = {post[t]} /\ Pending' = [Pending EXCEPT ![t] = {}]
  BY <1>1, LedgerClears
<1> QED  BY <1>2, <1>3 DEF Ledger!Settle, Pending

(* player_post_result settles every result once and as if in one step:     *)
(* the mutexes of the two players suffice for that, even when the          *)
(* semaphore CLIENT_UPDATE_ELO has been initialised again while in use.    *)
THEOREM ResultsImplementLedger == Spec => ImplementsLedger
<1>1. Init => Ledger!Init
  <2> SUFFICES ASSUME Init  PROVE Ledger!Init
    OBVIOUS
  <2>1. Pending = [t \in Threads |-> {}]
    BY DEF Init, Pending
  <2> QED  BY <2>1 DEF Init, Ledger!Init, Pending
<1>2. ASSUME IInv, [Next]_vars  PROVE [Ledger!Next]_(Ledger!vars)
  <2>1. TypeOK /\ pc \in [Threads -> PCs] /\ post \in [Threads -> Posts \cup {Nobody}]
    BY <1>2 DEF IInv, TypeOK
  <2>2. CASE client_create \/ UNCHANGED vars
    BY <1>2, <2>1, <2>2, LedgerStutters DEF client_create, vars
  <2>3. ASSUME NEW t \in Threads, NEW p \in Posts, post_player_results(t, p)
        PROVE  Ledger!Next
    <3>1. p \in Ledger!Games
      BY DEF Posts, Ledger!Games
    <3> QED  BY <1>2, <2>3, <3>1, LedgerSubmits DEF Ledger!Next
  <2>4. ASSUME NEW t \in Threads,
               \/ WaitElo(t) /\ post[t].player1 # post[t].player2
               \/ Lock1(t) \/ Lock2(t) \/ Compute(t) \/ PostElo(t)
        PROVE  UNCHANGED Ledger!vars
    <3>1. UNCHANGED rating /\ post' \in [Threads -> Posts \cup {Nobody}]
      BY <2>1, <2>4 DEF WaitElo, Lock1, Lock2, Compute, PostElo
    <3>2. ASSUME NEW u \in Threads
          PROVE  /\ pc'[u] \in {"playing", "done"} <=> pc[u] \in {"playing", "done"}
                 /\ pc[u] \notin {"playing", "done"} => post'[u] = post[u]
      BY <2>1, <2>4 DEF WaitElo, Lock1, Lock2, Compute, PostElo, Goto
    <3> QED  BY <1>2, <3>1, <3>2, LedgerStutters
  <2>5. ASSUME NEW t \in Threads,
               Update(t) \/ (WaitElo(t) /\ post[t].player1 = post[t].player2)
        PROVE  Ledger!Next
    BY <1>2, <2>5, LedgerSettles, LedgerSettlesOwn DEF Ledger!Next
  <2>6. ASSUME NEW t \in Threads, Proceed(t)
        PROVE  Ledger!Next \/ UNCHANGED Ledger!vars
    <3>1. CASE WaitElo(t)
      <4>1. CASE post[t].player1 = post[t].player2
        BY <2>5, <3>1, <4>1
      <4>2. CASE post[t].player1 # post[t].player2
        BY <2>4, <3>1, <4>2
      <4> QED  BY <4>1, <4>2
    <3>2. CASE Lock1(t) \/ Lock2(t) \/ Compute(t) \/ PostElo(t)
      BY <2>4, <3>2
    <3>3. CASE Update(t)
      BY <2>5, <3>3
    <3> QED  BY <2>6, <3>1, <3>2, <3>3 DEF Proceed
  <2>7. Ledger!Next \/ UNCHANGED Ledger!vars
    BY <1>2, <2>2, <2>3, <2>6 DEF Next
  <2> QED  BY <2>7
<1>3. IInv /\ [Next]_vars => [Ledger!Next]_(Ledger!vars)
  BY <1>2
<1> QED  BY <1>1, <1>3, ResultsInvariant, PTL DEF Spec, ImplementsLedger, Ledger!Spec
=============================================================================
