----------------------------- MODULE LoginProofs -----------------------------
(***************************************************************************)
(* Logins, for every set of clients and of names: the reference counts of  *)
(* players are exact, and a name is logged in once as long as client_create*)
(* does not initialise CLIENT_LOGIN_SEM again under the threads that use   *)
(* it.                                                                     *)
(***************************************************************************)
EXTENDS Login, FiniteSetTheorems, TLAPS

(* The semaphore counts: until client_create breaks it, one thread is      *)
(* between sem_wait and sem_post at a time, and afterwards posts raise it  *)
(* by no more than the threads that were there.                            *)
SemCounts ==
  /\ login_sem + Cardinality(Inside) <= Cardinality(Clients)
  /\ ~clobbered => login_sem + Cardinality(Inside) = 1

(* What a service thread has at hand goes with the place where it is.      *)
ThreadState ==
  \A c \in Clients :
    /\ new_player[c] # NULL
         <=> pc[c] \in {"wait_login", "scan", "login", "answer"}
    /\ pc[c] \notin {"login", "users"} => players[c] = NoPlayers
    /\ logged_in[c] =>
         player[c] # NULL /\ pc[c] \notin {"connected", "unregister", "gone"}
    /\ player[c] # NULL => logged_in[c] \/ pc[c] = "unregister"
    /\ pc[c] \in {"wait_login", "scan", "login"} => player[c] = NULL
    /\ pc[c] = "logout" => logged_in[c]

(* Whatever points to a player points to one that is registered, until     *)
(* preg_fini.                                                              *)
KnownPlayers ==
  ~finished => \A c \in Clients :
    /\ player[c] \in preg \cup {NULL}
    /\ new_player[c] \in preg \cup {NULL}
    /\ \A d \in Clients : players[c][d] \in preg \cup {NULL}

(* The array that client_login looks at still shows all players that are   *)
(* taken: no other login has got in between.                               *)
ScanCurrent ==
  ~clobbered =>
    \A c \in Clients : pc[c] = "login" =>
      \A d \in Registered : player[d] # NULL => players[c][d] = player[d]

(* UniqueLoginUnlessReinit is not inductive without ScanCurrent, which     *)
(* needs SemCounts; PlayerRefs needs to know which of its terms are empty  *)
(* where a thread stands, and that a name that is new to the registry has  *)
(* no references.                                                          *)
IInv ==
  /\ TypeOK
  /\ SemCounts
  /\ ThreadState
  /\ KnownPlayers
  /\ ScanCurrent
  /\ UniqueLoginUnlessReinit
  /\ PlayerRefs
-----------------------------------------------------------------------------
(* Counting.                                                               *)

(* Sets of clients are finite.                                             *)
LEMMA ClientsFinite ==
  ASSUME NEW S \in SUBSET Clients
  PROVE  /\ IsFiniteSet(S)
         /\ Cardinality(S) \in Nat
         /\ Cardinality(Clients) \in Nat
         /\ Cardinality(S) <= Cardinality(Clients)
  BY LoginClients, FS_Subset, FS_CardinalityType

(* One client more.                                                        *)
LEMMA AddOne ==
  ASSUME NEW S \in SUBSET Clients, NEW c \in Clients, c \notin S
  PROVE  Cardinality(S \cup {c}) = Cardinality(S) + 1
  BY ClientsFinite, FS_AddElement

(* One client less.                                                        *)
LEMMA DropOne ==
  ASSUME NEW S \in SUBSET Clients, NEW c \in S
  PROVE  Cardinality(S \ {c}) = Cardinality(S) - 1
  BY ClientsFinite, FS_RemoveElement

(* Sets of entries of all arrays together.                                 *)
LEMMA CellsFinite ==
  ASSUME NEW R \in SUBSET (Clients \X Clients)
  PROVE  IsFiniteSet(R) /\ Cardinality(R) \in Nat
  <1>1. IsFiniteSet(Clients \X Clients)
    BY LoginClients, FS_Product
  <1> QED
    BY <1>1, FS_Subset, FS_CardinalityType

(* The entries of one array, added to those of the others.                 *)
LEMMA AddRow ==
  ASSUME NEW R \in SUBSET (Clients \X Clients), NEW c \in Clients,
         NEW D \in SUBSET Clients, \A e \in R : e[1] # c
  PROVE  Cardinality(R \cup ({c} \X D)) = Cardinality(R) + Cardinality(D)
  <1>1. IsFiniteSet(D) /\ Cardinality(D) \in Nat
    BY ClientsFinite
  <1>2. IsFiniteSet({c}) /\ Cardinality({c}) = 1
    BY FS_Singleton
  <1>3. /\ IsFiniteSet({c} \X D)
        /\ Cardinality({c} \X D) = 1 * Cardinality(D)
    BY <1>1, <1>2, FS_Product
  <1>4. IsFiniteSet(R) /\ Cardinality(R) \in Nat
    BY CellsFinite
  <1>5. R \cap ({c} \X D) = {}
    OBVIOUS
  <1>6. Cardinality({}) = 0
    BY FS_EmptySet
  <1>7. Cardinality(R \cup ({c} \X D))
          = Cardinality(R) + Cardinality({c} \X D) - Cardinality(R \cap ({c} \X D))
    BY <1>3, <1>4, FS_Union
  <1>8. Cardinality(R \cap ({c} \X D)) = 0
    BY <1>5, <1>6, Zenon
  <1>9. Cardinality({c} \X D) = Cardinality(D)
    BY <1>1, <1>3
  <1> DEFINE row == {c} \X D
  <1> HIDE DEF row
  <1>10. Cardinality(R \cup row) = Cardinality(R) + Cardinality(D)
    BY <1>1, <1>4, <1>7, <1>8, <1>9 DEF row
  <1> QED
    BY <1>10 DEF row

(* The terms of PlayerRefs.                                                *)
Reg(n)      == IF n \in preg THEN 1 ELSE 0
LoginsAs(n) == {c \in Clients : logged_in[c] /\ player[c] = n}
Owners(n)   == {c \in Clients : new_player[c] = n}
Cells(n)    == {e \in Clients \X Clients : players[e[1]][e[2]] = n}

(* They are natural numbers, before a step and after it.                   *)
LEMMA TermTypes ==
  ASSUME NEW n
  PROVE  /\ Reg(n) \in Nat /\ Reg(n)' \in Nat
         /\ Cardinality(LoginsAs(n)) \in Nat
         /\ Cardinality(LoginsAs(n)') \in Nat
         /\ Cardinality(Owners(n)) \in Nat /\ Cardinality(Owners(n)') \in Nat
         /\ Cardinality(Cells(n)) \in Nat /\ Cardinality(Cells(n)') \in Nat
  <1>1. Reg(n) \in Nat /\ Reg(n)' \in Nat
    BY DEF Reg
  <1>2. /\ LoginsAs(n) \in SUBSET Clients /\ LoginsAs(n)' \in SUBSET Clients
        /\ Owners(n) \in SUBSET Clients /\ Owners(n)' \in SUBSET Clients
    BY DEF LoginsAs, Owners
  <1>3. /\ Cells(n) \in SUBSET (Clients \X Clients)
        /\ Cells(n)' \in SUBSET (Clients \X Clients)
    BY DEF Cells
  <1> QED
    BY <1>1, <1>2, <1>3, ClientsFinite, CellsFinite

(* A step keeps the counts exact if it changes each by as much as it       *)
(* changes the references.                                                 *)
LEMMA RefsBalance ==
  ASSUME PlayerRefs, ref_count \in [Names -> Nat],
         ref_count' \in [Names -> Int],
         \A n \in Names :
           ref_count'[n] = ref_count[n] + (Reg(n)' - Reg(n))
             + (Cardinality(LoginsAs(n)') - Cardinality(LoginsAs(n)))
             + (Cardinality(Owners(n)') - Cardinality(Owners(n)))
             + (Cardinality(Cells(n)') - Cardinality(Cells(n)))
  PROVE  PlayerRefs' /\ ref_count' \in [Names -> Nat]
  <1>1. \A n \in Names :
          ref_count[n] = Reg(n) + Cardinality(LoginsAs(n))
                           + Cardinality(Owners(n)) + Cardinality(Cells(n))
    BY DEF PlayerRefs, Reg, LoginsAs, Owners, Cells
  <1>2. ASSUME NEW n \in Names
        PROVE  /\ ref_count'[n]
                    = Reg(n)' + Cardinality(LoginsAs(n)')
                        + Cardinality(Owners(n)') + Cardinality(Cells(n)')
               /\ ref_count'[n] \in Nat
    BY <1>1, TermTypes
  <1>3. PlayerRefs'
    BY <1>2 DEF PlayerRefs, Reg, LoginsAs, Owners, Cells
  <1> QED
    BY <1>2, <1>3
-----------------------------------------------------------------------------
(* The semaphore.                                                          *)

(* A thread gets inside.                                                   *)
LEMMA InsideEnter ==
  ASSUME NEW c \in Clients, pc \in [Clients -> PCs], pc[c] = "wait_login",
         pc' = [pc EXCEPT ![c] = "scan"]
  PROVE  Cardinality(Inside') = Cardinality(Inside) + 1
  <1>1. Inside' = Inside \cup {c} /\ c \notin Inside /\ Inside \in SUBSET Clients
    BY DEF Inside
  <1> QED
    BY <1>1, AddOne

(* A thread gets out.                                                      *)
LEMMA InsideLeave ==
  ASSUME NEW c \in Clients, pc \in [Clients -> PCs], pc[c] = "login",
         pc' = [pc EXCEPT ![c] = "answer"]
  PROVE  Cardinality(Inside') = Cardinality(Inside) - 1 /\ Cardinality(Inside) > 0
  <1>1. Inside' = Inside \ {c} /\ c \in Inside /\ Inside \in SUBSET Clients
    BY DEF Inside
  <1>2. Cardinality(Inside') = Cardinality(Inside) - 1
    BY <1>1, DropOne
  <1>3. Cardinality(Inside) # 0
    BY <1>1, ClientsFinite, FS_EmptySet
  <1> QED
    BY <1>1, <1>2, <1>3, ClientsFinite

(* Until client_create breaks the semaphore, one thread is inside.         *)
LEMMA OneInside ==
  ASSUME IInv, ~clobbered, NEW c \in Inside, NEW d \in Inside
  PROVE  c = d
  <1> SUFFICES ASSUME c # d PROVE FALSE
    OBVIOUS
  <1>1. Inside \in SUBSET Clients
    BY DEF Inside
  <1>2. c \in Inside \ {d} /\ Inside \ {d} \in SUBSET Clients
    BY <1>1
  <1>3. Cardinality(Inside \ {d}) # 0
    BY <1>2, ClientsFinite, FS_EmptySet
  <1>4. Cardinality(Inside \ {d}) = Cardinality(Inside) - 1
    BY <1>1, DropOne
  <1>5. Cardinality(Inside) <= 1
    BY <1>1, ClientsFinite DEF IInv, TypeOK, SemCounts
  <1>6. Cardinality(Inside \ {d}) \in Nat
    BY <1>2, ClientsFinite
  <1> QED
    BY <1>1, <1>3, <1>4, <1>5, <1>6, ClientsFinite

(* A step that leaves the semaphore alone and moves no thread in or out.   *)
LEMMA SemSame ==
  ASSUME IInv, UNCHANGED semVars, Inside' = Inside
  PROVE  SemCounts' /\ login_sem' \in 0..Cardinality(Clients)
  BY DEF IInv, TypeOK, SemCounts, semVars

(* A step that moves no registered client's player, takes nobody to        *)
(* "login" and nobody new into the registry.                               *)
LEMMA ScanSame ==
  ASSUME IInv, UNCHANGED clobbered,
         Registered' \subseteq Registered,
         \A d \in Registered' : player'[d] = player[d],
         \A c \in Clients : pc'[c] = "login" =>
           pc[c] = "login" /\ players'[c] = players[c]
  PROVE  ScanCurrent' /\ UniqueLoginUnlessReinit'
  BY DEF IInv, ScanCurrent, UniqueLoginUnlessReinit, UniqueLogin

-----------------------------------------------------------------------------
(* Initially there are no players and no clients.                          *)
LEMMA InitIInv == Init => IInv
  <1> SUFFICES ASSUME Init PROVE IInv
    OBVIOUS
  <1>1. Cardinality({}) = 0
    BY FS_EmptySet
  <1>2. Cardinality(Clients) \in Nat /\ Cardinality(Clients) >= 1
    <2>1. Cardinality(Clients) # 0 /\ Cardinality(Clients) \in Nat
      BY LoginClients, FS_EmptySet, FS_CardinalityType
    <2> QED
      BY <2>1
  <1>3. TypeOK
    <2>1. login_sem \in 0..Cardinality(Clients)
      BY <1>2 DEF Init
    <2>2. gate \in [Clients -> -1..1] /\ logins \in [Clients -> 0..MaxLogins]
      BY LoginBound DEF Init
    <2>3. pc \in [Clients -> PCs]
      BY DEF Init, PCs
    <2>4. players \in [Clients -> [Clients -> Names \cup {NULL}]]
      BY DEF Init, NoPlayers
    <2> QED
      BY <2>1, <2>2, <2>3, <2>4 DEF Init, TypeOK
  <1>4. SemCounts
    <2>1. Inside = {}
      BY DEF Init, Inside
    <2> QED
      BY <1>1, <1>2, <2>1 DEF Init, SemCounts
  <1>5. ThreadState /\ KnownPlayers
    BY DEF Init, ThreadState, KnownPlayers, NoPlayers
  <1>6. ScanCurrent /\ UniqueLoginUnlessReinit
    BY DEF Init, ScanCurrent, UniqueLoginUnlessReinit, UniqueLogin, Registered
  <1>7. PlayerRefs
    <2> SUFFICES ASSUME NEW n \in Names
                 PROVE  ref_count[n] = Reg(n) + Cardinality(LoginsAs(n))
                          + Cardinality(Owners(n)) + Cardinality(Cells(n))
      BY DEF PlayerRefs, Reg, LoginsAs, Owners, Cells
    <2>1. LoginsAs(n) = {} /\ Owners(n) = {} /\ Cells(n) = {}
      BY LoginNames DEF Init, LoginsAs, Owners, Cells, NoPlayers
    <2>2. ref_count[n] = 0 /\ Reg(n) = 0
      BY DEF Init, Reg
    <2> QED
      BY <1>1, <2>1, <2>2
  <1> QED
    BY <1>3, <1>4, <1>5, <1>6, <1>7 DEF IInv

(* Steps that touch neither players nor references.                        *)
LEMMA QuietStep ==
  ASSUME IInv, NEW c \in Clients,
         \/ client_create(c) \/ RefuseLogin(c) \/ WaitLoginSem(c)
         \/ InviteWithoutPlayer(c) \/ ReceiveEof(c)
  PROVE  IInv'
  <1>0. /\ TypeOK /\ SemCounts /\ ThreadState /\ KnownPlayers /\ PlayerRefs
        /\ ScanCurrent /\ UniqueLoginUnlessReinit
        /\ pc \in [Clients -> PCs]
    BY DEF IInv, TypeOK
  <1>1. /\ UNCHANGED <<preg, ref_count, player, logged_in, new_player, players, logins>>
        /\ UNCHANGED finished
    BY DEF client_create, RefuseLogin, WaitLoginSem, InviteWithoutPlayer,
           ReceiveEof, playerVars, clientVars, endVars
  <1>2. PlayerRefs' /\ KnownPlayers'
    BY <1>0, <1>1 DEF PlayerRefs, KnownPlayers
  <1>3. PICK to \in PCs : pc' = [pc EXCEPT ![c] = to]
    BY DEF client_create, RefuseLogin, WaitLoginSem, InviteWithoutPlayer,
           ReceiveEof, Goto, PCs
  <1>4. ThreadState'
    BY <1>0, <1>1 DEF ThreadState, client_create, RefuseLogin, WaitLoginSem,
                      InviteWithoutPlayer, ReceiveEof, Goto
  <1>5. /\ gate' \in [Clients -> -1..1] /\ crashed' \in BOOLEAN
        /\ finished' = finished
    <2>1. \/ UNCHANGED gate
          \/ gate' = [gate EXCEPT ![c] = -1]
      BY DEF client_create, RefuseLogin, WaitLoginSem, InviteWithoutPlayer,
             ReceiveEof, clientVars
    <2>2. -1 \in -1..1 /\ gate \in [Clients -> -1..1]
      BY <1>0 DEF TypeOK
    <2>3. gate' \in [Clients -> -1..1]
      BY <2>1, <2>2
    <2>4. crashed' = crashed \/ crashed' = TRUE
      BY DEF client_create, RefuseLogin, WaitLoginSem, InviteWithoutPlayer,
             ReceiveEof, endVars
    <2>5. finished' = finished
      BY DEF client_create, RefuseLogin, WaitLoginSem, InviteWithoutPlayer,
             ReceiveEof, endVars
    <2> QED
      BY <1>0, <2>3, <2>4, <2>5 DEF TypeOK
  <1>6. CASE client_create(c)
    <2> USE <1>6 DEF client_create, Goto
    <2>1. Inside' = Inside /\ Inside \in SUBSET (Clients \ {c})
      BY <1>0 DEF Inside
    <2>2. SemCounts' /\ login_sem' \in 0..Cardinality(Clients)
      <3>1. Cardinality(Clients \ {c}) = Cardinality(Clients) - 1
        BY DropOne
      <3>2. /\ Cardinality(Clients) \in Nat /\ Cardinality(Clients \ {c}) \in Nat
            /\ IsFiniteSet(Clients \ {c})
        BY ClientsFinite
      <3>3. Cardinality(Inside) \in Nat
            /\ Cardinality(Inside) <= Cardinality(Clients \ {c})
        BY <2>1, <3>2, FS_Subset, FS_CardinalityType
      <3>4. ~clobbered' => Cardinality(Inside) = 0
        BY FS_EmptySet
      <3> QED
        BY <2>1, <3>1, <3>2, <3>3, <3>4 DEF SemCounts
    <2>3. TypeOK'
      BY <1>0, <1>1, <1>3, <1>5, <2>2 DEF TypeOK
    <2>4. Registered' = Registered \cup {c} /\ player[c] = NULL
      BY <1>0 DEF Registered, ThreadState
    <2>5. ScanCurrent' /\ UniqueLoginUnlessReinit'
      BY <1>0, <1>1, <2>4
      DEF ScanCurrent, UniqueLoginUnlessReinit, UniqueLogin
    <2> QED
      BY <1>2, <1>4, <2>2, <2>3, <2>5 DEF IInv
  <1>7. CASE WaitLoginSem(c)
    <2> USE <1>7 DEF WaitLoginSem, Goto
    <2>1. Cardinality(Inside') = Cardinality(Inside) + 1
      BY <1>0, InsideEnter
    <2>2. Cardinality(Inside) \in Nat /\ Cardinality(Clients) \in Nat
      BY ClientsFinite DEF Inside
    <2>3. SemCounts' /\ login_sem' \in 0..Cardinality(Clients)
      <3>1. login_sem \in Nat /\ login_sem <= Cardinality(Clients)
        BY <1>0, <2>2 DEF TypeOK
      <3>2. login_sem' \in 0..Cardinality(Clients)
        BY <2>2, <3>1
      <3>3. login_sem' + Cardinality(Inside') = login_sem + Cardinality(Inside)
        BY <2>1, <2>2, <3>1
      <3> QED
        BY <1>0, <3>2, <3>3 DEF SemCounts
    <2>4. TypeOK'
      BY <1>0, <1>1, <1>3, <1>5, <2>3 DEF TypeOK
    <2>5. ScanCurrent' /\ UniqueLoginUnlessReinit'
      <3>1. Registered' = Registered
        BY <1>0 DEF Registered
      <3> QED
        BY <1>0, <1>1, <3>1, ScanSame
    <2> QED
      BY <1>2, <1>4, <2>3, <2>4, <2>5 DEF IInv
  <1>8. CASE RefuseLogin(c) \/ InviteWithoutPlayer(c) \/ ReceiveEof(c)
    <2> USE <1>8 DEF RefuseLogin, InviteWithoutPlayer, ReceiveEof, Goto
    <2>1. Inside' = Inside /\ UNCHANGED semVars
      BY <1>0 DEF Inside
    <2>2. SemCounts' /\ login_sem' \in 0..Cardinality(Clients)
      BY <2>1, SemSame
    <2>3. TypeOK'
      BY <1>0, <1>1, <1>3, <1>5, <2>1, <2>2 DEF TypeOK, semVars
    <2>4. ScanCurrent' /\ UniqueLoginUnlessReinit'
      <3>1. Registered' = Registered
        BY <1>0 DEF Registered
      <3>2. \A d \in Clients : pc'[d] = "login" => pc[d] = "login"
        BY <1>0
      <3> QED
        BY <1>1, <2>1, <3>1, <3>2, ScanSame DEF semVars
    <2> QED
      BY <1>2, <1>4, <2>2, <2>3, <2>4 DEF IInv
  <1> QED
    BY <1>6, <1>7, <1>8
-----------------------------------------------------------------------------
(* Steps that take or give back references.                                *)

(* A name that is not in the player registry has no references, until      *)
(* preg_fini.                                                              *)
LEMMA UnknownHasNone ==
  ASSUME IInv, ~finished, NEW n \in Names, n \notin preg
  PROVE  ref_count[n] = 0
  <1>1. LoginsAs(n) = {} /\ Owners(n) = {}
    BY LoginNames DEF IInv, KnownPlayers, LoginsAs, Owners
  <1>2. Cells(n) = {}
    BY LoginNames DEF IInv, KnownPlayers, Cells
  <1>3. Cardinality({}) = 0
    BY FS_EmptySet
  <1>4. ref_count[n] = Reg(n) + Cardinality(LoginsAs(n))
                         + Cardinality(Owners(n)) + Cardinality(Cells(n))
    BY DEF IInv, PlayerRefs, Reg, LoginsAs, Owners, Cells
  <1>5. Reg(n) = 0
    BY DEF Reg
  <1> QED
    BY <1>1, <1>2, <1>3, <1>4, <1>5

(* process_login: preg_register's reference is the one of new_player.      *)
LEMMA ProcessLoginStep ==
  ASSUME IInv, NEW c \in Clients, NEW m \in Names, process_login(c, m)
  PROVE  IInv'
  <1> USE DEF process_login, Goto
  <1>0. /\ TypeOK /\ SemCounts /\ ThreadState /\ KnownPlayers /\ PlayerRefs
        /\ pc \in [Clients -> PCs] /\ ref_count \in [Names -> Nat]
        /\ new_player \in [Clients -> Names \cup {NULL}]
    BY DEF IInv, TypeOK
  <1>1. UNCHANGED <<player, logged_in, gate, players, login_sem, clobbered, finished, crashed>>
    BY DEF clientVars, semVars, endVars
  <1>2. preg' = preg \cup {m}
    BY DEF preg_register
  <1>3. ref_count' \in [Names -> Int]
    BY <1>0 DEF preg_register, player_ref, player_create
  <1>4. ASSUME NEW n \in Names
        PROVE  ref_count'[n] = ref_count[n] + (Reg(n)' - Reg(n))
             + (Cardinality(LoginsAs(n)') - Cardinality(LoginsAs(n)))
             + (Cardinality(Owners(n)') - Cardinality(Owners(n)))
             + (Cardinality(Cells(n)') - Cardinality(Cells(n)))
    <2>1. LoginsAs(n)' = LoginsAs(n) /\ Cells(n)' = Cells(n)
      BY <1>1 DEF LoginsAs, Cells
    <2>2. new_player[c] = NULL
      BY <1>0 DEF ThreadState
    <2>3. CASE n = m
      <3>1. Owners(n)' = Owners(n) \cup {c} /\ c \notin Owners(n)
            /\ Owners(n) \in SUBSET Clients
        BY <1>0, <2>2, <2>3, LoginNames DEF Owners
      <3>2. Cardinality(Owners(n)') = Cardinality(Owners(n)) + 1
        BY <3>1, AddOne
      <3>3. ref_count'[n] = ref_count[n] + (Reg(n)' - Reg(n)) + 1
        <4>1. CASE m \in preg
          BY <1>0, <1>2, <2>3, <4>1 DEF preg_register, player_ref, Reg
        <4>2. CASE m \notin preg
          <5>1. ref_count[m] = 0
            BY <4>2, UnknownHasNone
          <5>2. ref_count'[m] = 2
            BY <1>0, <4>2 DEF preg_register, player_ref, player_create
          <5>3. Reg(m) = 0 /\ Reg(m)' = 1
            BY <1>2, <4>2 DEF Reg
          <5> QED
            BY <2>3, <5>1, <5>2, <5>3
        <4> QED
          BY <4>1, <4>2
      <3> QED
        BY <1>0, <2>1, <3>2, <3>3, TermTypes
    <2>4. CASE n # m
      <3>1. Owners(n)' = Owners(n)
        BY <1>0, <2>2, <2>4, LoginNames DEF Owners
      <3>2. Reg(n)' = Reg(n)
        BY <1>2, <2>4 DEF Reg
      <3>3. ref_count'[n] = ref_count[n]
        BY <1>0, <2>4 DEF preg_register, player_ref, player_create
      <3> QED
        BY <1>0, <2>1, <3>1, <3>2, <3>3, TermTypes
    <2> QED
      BY <2>3, <2>4
  <1>5. PlayerRefs' /\ ref_count' \in [Names -> Nat]
    BY <1>0, <1>3, <1>4, RefsBalance
  <1>6. ThreadState'
    BY <1>0, <1>1, LoginNames DEF ThreadState
  <1>7. KnownPlayers'
    BY <1>0, <1>1, <1>2 DEF KnownPlayers
  <1>8. SemCounts' /\ login_sem' \in 0..Cardinality(Clients)
    <2>1. Inside' = Inside
      BY <1>0 DEF Inside
    <2> QED
      BY <1>1, <2>1, SemSame DEF semVars
  <1>9. ScanCurrent' /\ UniqueLoginUnlessReinit'
    <2>1. Registered' = Registered
      BY <1>0 DEF Registered
    <2>2. \A d \in Clients : pc'[d] = "login" => pc[d] = "login"
      BY <1>0
    <2> QED
      BY <1>1, <2>1, <2>2, ScanSame
  <1>10. TypeOK'
    <2>1. logins' \in [Clients -> 0..MaxLogins]
      BY <1>0, LoginBound DEF TypeOK
    <2> QED
      BY <1>0, <1>1, <1>2, <1>5, <1>8, <2>1 DEF TypeOK, PCs
  <1> QED
    BY <1>5, <1>6, <1>7, <1>8, <1>9, <1>10 DEF IInv

(* creg_all_players takes one reference for each entry of the array.       *)
LEMMA AllPlayersRefs ==
  ASSUME IInv, NEW c \in Clients, creg_all_players(c),
         players[c] = NoPlayers,
         UNCHANGED <<preg, player, logged_in, new_player, finished>>
  PROVE  /\ PlayerRefs' /\ ref_count' \in [Names -> Nat]
         /\ players' \in [Clients -> [Clients -> Names \cup {NULL}]]
         /\ KnownPlayers'
         /\ \A d \in Registered : players'[c][d] = player[d]
         /\ \A d \in Clients \ {c} : players'[d] = players[d]
  <1> DEFINE found == [d \in Clients |-> IF d \in Registered THEN player[d] ELSE NULL]
  <1>0. /\ players \in [Clients -> [Clients -> Names \cup {NULL}]]
        /\ player \in [Clients -> Names \cup {NULL}]
        /\ ref_count \in [Names -> Nat] /\ PlayerRefs /\ KnownPlayers
    BY DEF IInv, TypeOK
  <1>1. /\ players' = [players EXCEPT ![c] = found]
        /\ ref_count' = [n \in Names |->
             ref_count[n] + Cardinality({d \in Clients : found[d] = n})]
    BY DEF creg_all_players
  <1>2. found \in [Clients -> Names \cup {NULL}]
    BY <1>0
  <1>3. ~finished => \A d \in Clients : found[d] \in preg \cup {NULL}
    BY <1>0 DEF KnownPlayers
  <1>4. \A d \in Registered : found[d] = player[d]
    BY DEF Registered
  <1> HIDE DEF found
  <1>5. ASSUME NEW n \in Names
        PROVE  /\ {d \in Clients : found[d] = n} \in SUBSET Clients
               /\ Cardinality({d \in Clients : found[d] = n}) \in Nat
               /\ Cardinality(Cells(n)')
                    = Cardinality(Cells(n))
                        + Cardinality({d \in Clients : found[d] = n})
    <2> DEFINE D == {d \in Clients : found[d] = n}
    <2>1. Cells(n) \in SUBSET (Clients \X Clients) /\ D \in SUBSET Clients
      BY DEF Cells
    <2>2. \A e \in Cells(n) : e[1] # c
      BY LoginNames DEF Cells, NoPlayers
    <2>3. Cells(n)' = Cells(n) \cup ({c} \X D)
      <3>1. \A e \in Clients \X Clients :
              players'[e[1]][e[2]] = n <=> e \in Cells(n) \cup ({c} \X D)
        <4> SUFFICES ASSUME NEW a \in Clients, NEW b \in Clients
                     PROVE  players'[a][b] = n
                              <=> <<a, b>> \in Cells(n) \cup ({c} \X D)
          OBVIOUS
        <4>1. CASE a = c
          <5>1. <<a, b>> \notin Cells(n)
            BY <2>2, <4>1
          <5> QED
            BY <1>0, <1>1, <4>1, <5>1
        <4>2. CASE a # c
          <5>1. players'[a] = players[a]
            BY <1>0, <1>1, <4>2
          <5> QED
            BY <4>2, <5>1 DEF Cells
        <4> QED
          BY <4>1, <4>2
      <3> QED
        BY <2>1, <3>1 DEF Cells
    <2> QED
      BY <2>1, <2>2, <2>3, AddRow, ClientsFinite
  <1>6. ref_count' \in [Names -> Int]
    <2>1. ASSUME NEW n \in Names
          PROVE  ref_count[n] + Cardinality({d \in Clients : found[d] = n}) \in Int
      <3>1. ref_count[n] \in Nat
        BY <1>0
      <3>2. Cardinality({d \in Clients : found[d] = n}) \in Nat
        BY <1>5
      <3> QED
        BY <3>1, <3>2
    <2> QED
      BY <1>1, <2>1, Zenon
  <1>7. ASSUME NEW n \in Names
        PROVE  ref_count'[n] = ref_count[n] + (Reg(n)' - Reg(n))
             + (Cardinality(LoginsAs(n)') - Cardinality(LoginsAs(n)))
             + (Cardinality(Owners(n)') - Cardinality(Owners(n)))
             + (Cardinality(Cells(n)') - Cardinality(Cells(n)))
    <2>1. LoginsAs(n)' = LoginsAs(n) /\ Owners(n)' = Owners(n) /\ Reg(n)' = Reg(n)
      BY DEF LoginsAs, Owners, Reg
    <2>2. ref_count'[n] = ref_count[n] + Cardinality({d \in Clients : found[d] = n})
      BY <1>1
    <2>3. ref_count[n] \in Nat
      BY <1>0
    <2> QED
      BY <1>5, <2>1, <2>2, <2>3, TermTypes
  <1>8. PlayerRefs' /\ ref_count' \in [Names -> Nat]
    BY <1>0, <1>6, <1>7, RefsBalance
  <1>9. KnownPlayers'
    BY <1>0, <1>1, <1>3 DEF KnownPlayers
  <1> QED
    BY <1>0, <1>1, <1>2, <1>4, <1>8, <1>9 DEF Registered

(* Giving the array back takes as many references as UnrefAll.             *)
LEMMA RowDropped ==
  ASSUME IInv, NEW c \in Clients, NEW n \in Names,
         players' = [players EXCEPT ![c] = NoPlayers]
  PROVE  /\ Entries(c, n) \in Nat
         /\ Cardinality(Cells(n)) = Cardinality(Cells(n)') + Entries(c, n)
         /\ UnrefAll(c)[n] = ref_count[n] - Entries(c, n)
  <1> DEFINE D == {d \in Clients : players[c][d] = n}
  <1>0. players \in [Clients -> [Clients -> Names \cup {NULL}]]
    BY DEF IInv, TypeOK
  <1>1. /\ Cells(n)' \in SUBSET (Clients \X Clients) /\ D \in SUBSET Clients
        /\ \A e \in Cells(n)' : e[1] # c
    BY <1>0, LoginNames DEF Cells, NoPlayers
  <1>2. Cells(n) = Cells(n)' \cup ({c} \X D)
    <2> SUFFICES ASSUME NEW a \in Clients, NEW b \in Clients
                 PROVE  players[a][b] = n
                          <=> <<a, b>> \in Cells(n)' \cup ({c} \X D)
      BY <1>1 DEF Cells
    <2>1. CASE a = c
      <3>1. <<a, b>> \notin Cells(n)'
        BY <1>1, <2>1
      <3> QED
        BY <2>1, <3>1
    <2>2. CASE a # c
      <3>1. players'[a] = players[a]
        BY <1>0, <2>2
      <3> QED
        BY <2>2, <3>1 DEF Cells
    <2> QED
      BY <2>1, <2>2
  <1>3. Cardinality(Cells(n)) = Cardinality(Cells(n)') + Cardinality(D)
    BY <1>1, <1>2, AddRow
  <1>4. Entries(c, n) = Cardinality(D) /\ Cardinality(D) \in Nat
    BY ClientsFinite DEF Entries
  <1> QED
    BY <1>3, <1>4 DEF UnrefAll

(* Taking or giving back one reference to a name.                          *)
LEMMA OneRef ==
  ASSUME NEW counts \in [Names -> Int], NEW m \in Names
  PROVE  /\ player_ref(counts, m) \in [Names -> Int]
         /\ player_unref(counts, m) \in [Names -> Int]
         /\ \A n \in Names :
              /\ player_ref(counts, m)[n] = counts[n] + (IF n = m THEN 1 ELSE 0)
              /\ player_unref(counts, m)[n] = counts[n] - (IF n = m THEN 1 ELSE 0)
  BY DEF player_ref, player_unref

(* UnrefAll gives integers.                                                *)
LEMMA UnrefAllType ==
  ASSUME IInv, NEW c \in Clients
  PROVE  UnrefAll(c) \in [Names -> Int]
  <1>1. \A n \in Names : Entries(c, n) \in Nat
    BY ClientsFinite DEF Entries
  <1>2. \A n \in Names : ref_count[n] - Entries(c, n) \in Int
    BY <1>1 DEF IInv, TypeOK
  <1> QED
    BY <1>2, Zenon DEF UnrefAll

(* creg_all_players, in client_login and in process_users, and the end of  *)
(* process_users.                                                          *)
LEMMA ArrayStep ==
  ASSUME IInv, NEW c \in Clients,
         ScanPlayers(c) \/ process_users(c) \/ SendUsers(c)
  PROVE  IInv'
  <1> USE DEF ScanPlayers, process_users, SendUsers, Goto
  <1>0. /\ TypeOK /\ SemCounts /\ ThreadState /\ KnownPlayers /\ PlayerRefs
        /\ ScanCurrent /\ UniqueLoginUnlessReinit
        /\ pc \in [Clients -> PCs] /\ ref_count \in [Names -> Nat]
        /\ players \in [Clients -> [Clients -> Names \cup {NULL}]]
    BY DEF IInv, TypeOK
  <1>1. UNCHANGED <<preg, player, logged_in, gate, new_player, logins, login_sem,
                    clobbered, finished, crashed>>
    BY DEF clientVars, semVars, endVars
  <1>2. Registered' = Registered /\ Inside' = Inside
    BY <1>0 DEF Registered, Inside
  <1>3. SemCounts' /\ login_sem' \in 0..Cardinality(Clients)
    BY <1>1, <1>2, SemSame DEF semVars
  <1>4. pc' \in [Clients -> PCs]
    BY <1>0 DEF PCs
  <1>5. CASE ScanPlayers(c) \/ process_users(c)
    <2>1. players[c] = NoPlayers /\ creg_all_players(c)
      BY <1>0, <1>5 DEF ThreadState
    <2>2. /\ PlayerRefs' /\ ref_count' \in [Names -> Nat]
          /\ players' \in [Clients -> [Clients -> Names \cup {NULL}]]
          /\ KnownPlayers'
          /\ \A d \in Registered : players'[c][d] = player[d]
          /\ \A d \in Clients \ {c} : players'[d] = players[d]
      BY <1>1, <2>1, AllPlayersRefs
    <2>3. TypeOK'
      BY <1>0, <1>1, <1>3, <1>4, <2>2 DEF TypeOK
    <2>4. ThreadState'
      BY <1>0, <1>1, <1>5, <2>2 DEF ThreadState
    <2>5. UniqueLoginUnlessReinit'
      BY <1>0, <1>1, <1>2 DEF UniqueLoginUnlessReinit, UniqueLogin
    <2>6. ScanCurrent'
      <3> SUFFICES ASSUME ~clobbered, NEW d \in Clients, pc'[d] = "login",
                          NEW e \in Registered, player[e] # NULL
                   PROVE  players'[d][e] = player[e]
        BY <1>1, <1>2 DEF ScanCurrent
      <3>1. CASE d = c
        BY <2>2, <3>1
      <3>2. CASE d # c
        BY <1>0, <2>2, <3>2 DEF ScanCurrent
      <3> QED
        BY <3>1, <3>2
    <2> QED
      BY <1>3, <2>2, <2>3, <2>4, <2>5, <2>6 DEF IInv
  <1>6. CASE SendUsers(c)
    <2>1. players' = [players EXCEPT ![c] = NoPlayers] /\ ref_count' = UnrefAll(c)
      BY <1>6
    <2>2. ref_count' \in [Names -> Int]
      BY <2>1, UnrefAllType
    <2>3. ASSUME NEW n \in Names
          PROVE  ref_count'[n] = ref_count[n] + (Reg(n)' - Reg(n))
               + (Cardinality(LoginsAs(n)') - Cardinality(LoginsAs(n)))
               + (Cardinality(Owners(n)') - Cardinality(Owners(n)))
               + (Cardinality(Cells(n)') - Cardinality(Cells(n)))
      <3>1. LoginsAs(n)' = LoginsAs(n) /\ Owners(n)' = Owners(n) /\ Reg(n)' = Reg(n)
        BY <1>1 DEF LoginsAs, Owners, Reg
      <3>2. /\ Entries(c, n) \in Nat /\ ref_count[n] \in Nat
            /\ Cardinality(Cells(n)) = Cardinality(Cells(n)') + Entries(c, n)
            /\ ref_count'[n] = ref_count[n] - Entries(c, n)
        BY <1>0, <2>1, RowDropped
      <3> QED
        BY <3>1, <3>2, TermTypes
    <2>4. PlayerRefs' /\ ref_count' \in [Names -> Nat]
      BY <1>0, <2>2, <2>3, RefsBalance
    <2>5. KnownPlayers' /\ players' \in [Clients -> [Clients -> Names \cup {NULL}]]
      BY <1>0, <1>1, <2>1 DEF KnownPlayers, NoPlayers
    <2>6. TypeOK'
      BY <1>0, <1>1, <1>3, <1>4, <2>4, <2>5 DEF TypeOK
    <2>7. ThreadState'
      BY <1>0, <1>1, <1>6, <2>1 DEF ThreadState
    <2>8. ScanCurrent' /\ UniqueLoginUnlessReinit'
      <3>1. \A d \in Clients : pc'[d] = "login" =>
              pc[d] = "login" /\ players'[d] = players[d]
        BY <1>0, <1>6, <2>1
      <3> QED
        BY <1>1, <1>2, <3>1, ScanSame
    <2> QED
      BY <1>3, <2>4, <2>5, <2>6, <2>7, <2>8 DEF IInv
  <1> QED
    BY <1>5, <1>6

(* The end of client_login: with the semaphore intact, a name that is not  *)
(* in the array is not taken.                                              *)
LEMMA ClientLoginStep ==
  ASSUME IInv, NEW c \in Clients, client_login(c)
  PROVE  IInv'
  <1> USE DEF client_login, Goto
  <1> DEFINE m == new_player[c]
  <1>0. /\ TypeOK /\ SemCounts /\ ThreadState /\ KnownPlayers /\ PlayerRefs
        /\ ScanCurrent /\ UniqueLoginUnlessReinit
        /\ pc \in [Clients -> PCs] /\ ref_count \in [Names -> Nat]
        /\ players \in [Clients -> [Clients -> Names \cup {NULL}]]
        /\ player \in [Clients -> Names \cup {NULL}]
        /\ logged_in \in [Clients -> BOOLEAN]
    BY DEF IInv, TypeOK
  <1>1. /\ UNCHANGED <<preg, gate, new_player, logins, clobbered, finished, crashed>>
        /\ players' = [players EXCEPT ![c] = NoPlayers]
        /\ login_sem' = login_sem + 1
        /\ pc[c] = "login" /\ pc' = [pc EXCEPT ![c] = "answer"]
    BY DEF clientVars, endVars
  <1>2. m \in Names /\ player[c] = NULL /\ ~logged_in[c] /\ c \in Registered
    BY <1>0, <1>1 DEF ThreadState, Registered, TypeOK
  <1>3. Registered' = Registered
    BY <1>0, <1>1 DEF Registered
  <1>4. SemCounts' /\ login_sem' \in 0..Cardinality(Clients)
    <2>1. Cardinality(Inside') = Cardinality(Inside) - 1 /\ Cardinality(Inside) > 0
      BY <1>0, <1>1, InsideLeave
    <2>2. Cardinality(Inside) \in Nat /\ Cardinality(Clients) \in Nat
      BY ClientsFinite DEF Inside
    <2>3. login_sem \in Nat /\ login_sem + Cardinality(Inside) <= Cardinality(Clients)
      BY <1>0, <2>2 DEF TypeOK, SemCounts
    <2>4. login_sem' + Cardinality(Inside') = login_sem + Cardinality(Inside)
      BY <1>1, <2>1, <2>2, <2>3
    <2>5. login_sem' \in 0..Cardinality(Clients)
      BY <1>1, <2>1, <2>2, <2>3
    <2> QED
      BY <1>0, <1>1, <2>4, <2>5 DEF SemCounts
  <1>5. players' \in [Clients -> [Clients -> Names \cup {NULL}]]
    BY <1>0, <1>1 DEF NoPlayers
  <1>6. ASSUME NEW n \in Names
        PROVE  /\ Entries(c, n) \in Nat /\ ref_count[n] \in Nat
               /\ Cardinality(Cells(n)) = Cardinality(Cells(n)') + Entries(c, n)
               /\ UnrefAll(c)[n] = ref_count[n] - Entries(c, n)
               /\ Owners(n)' = Owners(n) /\ Reg(n)' = Reg(n)
    BY <1>0, <1>1, RowDropped DEF Owners, Reg
  <1>7. CASE Entries(c, m) > 0
    <2>1. UNCHANGED <<player, logged_in>> /\ ref_count' = UnrefAll(c)
      BY <1>7 DEF clientVars
    <2>2. ref_count' \in [Names -> Int]
      BY <2>1, UnrefAllType
    <2>3. ASSUME NEW n \in Names
          PROVE  ref_count'[n] = ref_count[n] + (Reg(n)' - Reg(n))
               + (Cardinality(LoginsAs(n)') - Cardinality(LoginsAs(n)))
               + (Cardinality(Owners(n)') - Cardinality(Owners(n)))
               + (Cardinality(Cells(n)') - Cardinality(Cells(n)))
      <3>1. LoginsAs(n)' = LoginsAs(n)
        BY <2>1 DEF LoginsAs
      <3> QED
        BY <1>6, <2>1, <3>1, TermTypes
    <2>4. PlayerRefs' /\ ref_count' \in [Names -> Nat]
      BY <1>0, <2>2, <2>3, RefsBalance
    <2>5. KnownPlayers' /\ ThreadState'
      BY <1>0, <1>1, <2>1 DEF KnownPlayers, ThreadState, NoPlayers
    <2>6. TypeOK'
      BY <1>0, <1>1, <1>4, <1>5, <2>1, <2>4 DEF TypeOK, PCs
    <2>7. ScanCurrent' /\ UniqueLoginUnlessReinit'
      <3>1. \A d \in Clients : pc'[d] = "login" =>
              pc[d] = "login" /\ players'[d] = players[d]
        BY <1>0, <1>1
      <3> QED
        BY <1>1, <1>3, <2>1, <3>1, ScanSame
    <2> QED
      BY <1>4, <2>4, <2>5, <2>6, <2>7 DEF IInv
  <1>8. CASE ~(Entries(c, m) > 0)
    <2>1. /\ ref_count' = player_ref(UnrefAll(c), m)
          /\ player' = [player EXCEPT ![c] = m]
          /\ logged_in' = [logged_in EXCEPT ![c] = TRUE]
      BY <1>8
    <2>2. ref_count' \in [Names -> Int]
      BY <1>2, <2>1, UnrefAllType, OneRef
    <2>3. ASSUME NEW n \in Names
          PROVE  ref_count'[n] = ref_count[n] + (Reg(n)' - Reg(n))
               + (Cardinality(LoginsAs(n)') - Cardinality(LoginsAs(n)))
               + (Cardinality(Owners(n)') - Cardinality(Owners(n)))
               + (Cardinality(Cells(n)') - Cardinality(Cells(n)))
      <3>1. ref_count'[n] = UnrefAll(c)[n] + (IF n = m THEN 1 ELSE 0)
        BY <1>2, <2>1, UnrefAllType, OneRef
      <3>2. Cardinality(LoginsAs(n)')
              = Cardinality(LoginsAs(n)) + (IF n = m THEN 1 ELSE 0)
        <4>1. CASE n = m
          <5>1. /\ LoginsAs(n)' = LoginsAs(n) \cup {c} /\ c \notin LoginsAs(n)
                /\ LoginsAs(n) \in SUBSET Clients
            BY <1>0, <1>2, <2>1, <4>1 DEF LoginsAs
          <5> QED
            BY <4>1, <5>1, AddOne
        <4>2. CASE n # m
          <5>1. LoginsAs(n)' = LoginsAs(n)
            BY <1>0, <1>2, <2>1, <4>2 DEF LoginsAs
          <5> QED
            BY <4>2, <5>1, TermTypes
        <4> QED
          BY <4>1, <4>2
      <3> HIDE DEF m
      <3> QED
        BY <1>6, <3>1, <3>2, TermTypes
    <2>4. PlayerRefs' /\ ref_count' \in [Names -> Nat]
      BY <1>0, <2>2, <2>3, RefsBalance
    <2>5. KnownPlayers'
      BY <1>0, <1>1, <2>1 DEF KnownPlayers, NoPlayers
    <2>6. ThreadState'
      BY <1>0, <1>1, <1>2, <2>1, LoginNames DEF ThreadState, NoPlayers
    <2>7. TypeOK'
      BY <1>0, <1>1, <1>2, <1>4, <1>5, <2>1, <2>4 DEF TypeOK, PCs
    <2>8. ASSUME ~clobbered, NEW d \in Registered, d # c PROVE player[d] # m
      <3>1. {e \in Clients : players[c][e] = m} = {}
        <4>1. Entries(c, m) = 0
          BY <1>2, <1>6, <1>8
        <4>2. Cardinality({e \in Clients : players[c][e] = m}) = 0
          BY <4>1 DEF Entries
        <4> QED
          BY <4>2, ClientsFinite, FS_EmptySet
      <3>2. player[d] # NULL => players[c][d] = player[d]
        BY <1>0, <1>1, <2>8 DEF ScanCurrent
      <3> QED
        BY <1>2, <3>1, <3>2, LoginNames DEF Registered
    <2>9. UniqueLoginUnlessReinit'
      BY <1>0, <1>1, <1>2, <1>3, <2>1, <2>8
      DEF UniqueLoginUnlessReinit, UniqueLogin, Registered
    <2>10. ScanCurrent'
      <3> SUFFICES ASSUME ~clobbered, NEW d \in Clients, pc'[d] = "login"
                   PROVE  FALSE
        BY <1>1 DEF ScanCurrent
      <3>1. d # c /\ c \in Inside /\ d \in Inside
        BY <1>0, <1>1 DEF Inside
      <3> QED
        BY <3>1, OneInside
    <2> QED
      BY <1>4, <2>4, <2>5, <2>6, <2>7, <2>9, <2>10 DEF IInv
  <1> QED
    BY <1>7, <1>8

(* process_login gives back the reference it got from preg_register, and   *)
(* client_logout the one it took for client->player.                       *)
LEMMA UnrefStep ==
  ASSUME IInv, NEW c \in Clients, AnswerLogin(c) \/ client_logout(c)
  PROVE  IInv'
  <1> USE DEF AnswerLogin, client_logout, Goto
  <1>0. /\ TypeOK /\ SemCounts /\ ThreadState /\ KnownPlayers /\ PlayerRefs
        /\ ScanCurrent /\ UniqueLoginUnlessReinit
        /\ pc \in [Clients -> PCs] /\ ref_count \in [Names -> Nat]
        /\ new_player \in [Clients -> Names \cup {NULL}]
        /\ player \in [Clients -> Names \cup {NULL}]
        /\ logged_in \in [Clients -> BOOLEAN]
    BY DEF IInv, TypeOK
  <1>1. UNCHANGED <<preg, player, players, logins, login_sem, clobbered, finished, crashed>>
    BY DEF semVars, endVars
  <1>2. Registered' = Registered /\ Inside' = Inside
    BY <1>0 DEF Registered, Inside
  <1>3. SemCounts' /\ login_sem' \in 0..Cardinality(Clients)
    BY <1>1, <1>2, SemSame DEF semVars
  <1>4. ScanCurrent' /\ UniqueLoginUnlessReinit'
    <2>1. \A d \in Clients : pc'[d] = "login" => pc[d] = "login"
      BY <1>0
    <2> QED
      BY <1>1, <1>2, <2>1, ScanSame
  <1>5. PICK m \in Names :
          /\ ref_count' = player_unref(ref_count, m)
          /\ \/ /\ AnswerLogin(c) /\ m = new_player[c]
             \/ /\ client_logout(c) /\ m = player[c] /\ logged_in[c]
    BY <1>0 DEF ThreadState
  <1>6. ref_count \in [Names -> Int]
    BY <1>0
  <1>7. /\ ref_count' \in [Names -> Int]
        /\ \A n \in Names : ref_count'[n] = ref_count[n] - (IF n = m THEN 1 ELSE 0)
    BY <1>5, <1>6, OneRef
  <1>8. ASSUME NEW n \in Names
        PROVE  ref_count'[n] = ref_count[n] + (Reg(n)' - Reg(n))
             + (Cardinality(LoginsAs(n)') - Cardinality(LoginsAs(n)))
             + (Cardinality(Owners(n)') - Cardinality(Owners(n)))
             + (Cardinality(Cells(n)') - Cardinality(Cells(n)))
    <2>0. /\ Cells(n)' = Cells(n) /\ Reg(n)' = Reg(n) /\ ref_count[n] \in Nat
          /\ ref_count'[n] = ref_count[n] - (IF n = m THEN 1 ELSE 0)
      BY <1>0, <1>1, <1>7 DEF Cells, Reg
    <2>1. CASE AnswerLogin(c) /\ m = new_player[c]
      <3>1. LoginsAs(n)' = LoginsAs(n)
        BY <2>1 DEF LoginsAs
      <3>2. Cardinality(Owners(n)')
              = Cardinality(Owners(n)) - (IF n = m THEN 1 ELSE 0)
        <4>1. CASE n = m
          <5>1. /\ Owners(n)' = Owners(n) \ {c} /\ c \in Owners(n)
                /\ Owners(n) \in SUBSET Clients
            BY <1>0, <2>1, <4>1, LoginNames DEF Owners
          <5> QED
            BY <4>1, <5>1, DropOne
        <4>2. CASE n # m
          <5>1. Owners(n)' = Owners(n)
            BY <1>0, <2>1, <4>2, LoginNames DEF Owners
          <5> QED
            BY <4>2, <5>1, TermTypes
        <4> QED
          BY <4>1, <4>2
      <3> QED
        BY <2>0, <3>1, <3>2, TermTypes
    <2>2. CASE client_logout(c) /\ m = player[c] /\ logged_in[c]
      <3>1. Owners(n)' = Owners(n)
        BY <2>2 DEF Owners
      <3>2. Cardinality(LoginsAs(n)')
              = Cardinality(LoginsAs(n)) - (IF n = m THEN 1 ELSE 0)
        <4>1. CASE n = m
          <5>1. /\ LoginsAs(n)' = LoginsAs(n) \ {c} /\ c \in LoginsAs(n)
                /\ LoginsAs(n) \in SUBSET Clients
            BY <1>0, <2>2, <4>1 DEF LoginsAs
          <5> QED
            BY <4>1, <5>1, DropOne
        <4>2. CASE n # m
          <5>1. LoginsAs(n)' = LoginsAs(n)
            BY <1>0, <2>2, <4>2 DEF LoginsAs
          <5> QED
            BY <4>2, <5>1, TermTypes
        <4> QED
          BY <4>1, <4>2
      <3> QED
        BY <2>0, <3>1, <3>2, TermTypes
    <2> QED
      BY <1>5, <2>1, <2>2
  <1>9. PlayerRefs' /\ ref_count' \in [Names -> Nat]
    BY <1>0, <1>7, <1>8, RefsBalance
  <1>10. ThreadState'
    BY <1>0, <1>1 DEF ThreadState
  <1>11. KnownPlayers'
    BY <1>0, <1>1 DEF KnownPlayers
  <1>12. TypeOK'
    <2>1. gate' \in [Clients -> -1..1]
      <3>1. 1 \in -1..1
        OBVIOUS
      <3> QED
        BY <1>0, <3>1 DEF TypeOK
    <2>2. pc' \in [Clients -> PCs]
      BY <1>0 DEF PCs
    <2>3. new_player' \in [Clients -> Names \cup {NULL}]
      BY <1>0
    <2>4. logged_in' \in [Clients -> BOOLEAN]
      BY <1>0
    <2> QED
      BY <1>0, <1>1, <1>3, <1>9, <2>1, <2>2, <2>3, <2>4 DEF TypeOK
  <1> QED
    BY <1>3, <1>4, <1>9, <1>10, <1>11, <1>12 DEF IInv

(* creg_unregister: the client is logged out already.                      *)
LEMMA UnregisterStep ==
  ASSUME IInv, NEW c \in Clients, creg_unregister(c)
  PROVE  IInv'
  <1> USE DEF creg_unregister, Goto
  <1>0. /\ TypeOK /\ SemCounts /\ ThreadState /\ KnownPlayers /\ PlayerRefs
        /\ pc \in [Clients -> PCs]
        /\ player \in [Clients -> Names \cup {NULL}]
    BY DEF IInv, TypeOK
  <1>1. UNCHANGED <<preg, ref_count, logged_in, new_player, players, login_sem,
                    clobbered, finished, crashed>>
    BY DEF playerVars, semVars, endVars
  <1>2. Registered' = Registered \ {c} /\ Inside' = Inside
    BY <1>0 DEF Registered, Inside
  <1>3. SemCounts' /\ login_sem' \in 0..Cardinality(Clients)
    BY <1>1, <1>2, SemSame DEF semVars
  <1>4. ScanCurrent' /\ UniqueLoginUnlessReinit'
    <2>1. \A d \in Clients : pc'[d] = "login" => pc[d] = "login"
      BY <1>0
    <2>2. \A d \in Registered' : player'[d] = player[d]
      BY <1>0, <1>2 DEF Registered
    <2> QED
      BY <1>1, <1>2, <2>1, <2>2, ScanSame
  <1>5. PlayerRefs'
    <2>1. ~logged_in[c]
      BY <1>0 DEF ThreadState
    <2>2. \A n : LoginsAs(n)' = LoginsAs(n)
      BY <1>0, <1>1, <2>1 DEF LoginsAs
    <2>3. \A n : Owners(n)' = Owners(n) /\ Cells(n)' = Cells(n) /\ Reg(n)' = Reg(n)
      BY <1>1 DEF Owners, Cells, Reg
    <2>4. \A n \in Names :
            ref_count'[n] = Reg(n)' + Cardinality(LoginsAs(n)')
                              + Cardinality(Owners(n)') + Cardinality(Cells(n)')
      <3>1. \A n \in Names :
            ref_count[n] = Reg(n) + Cardinality(LoginsAs(n))
                              + Cardinality(Owners(n)) + Cardinality(Cells(n))
        BY <1>0 DEF PlayerRefs, Reg, LoginsAs, Owners, Cells
      <3> QED
        BY <1>1, <2>2, <2>3, <3>1
    <2> QED
      BY <2>4 DEF PlayerRefs, Reg, LoginsAs, Owners, Cells
  <1>6. ThreadState'
    BY <1>0, <1>1 DEF ThreadState
  <1>7. KnownPlayers'
    BY <1>0, <1>1 DEF KnownPlayers
  <1>8. TypeOK'
    <2>1. gate' \in [Clients -> -1..1] /\ logins' \in [Clients -> 0..MaxLogins]
      <3>1. 0 \in -1..1 /\ 0 \in 0..MaxLogins
        BY LoginBound
      <3> QED
        BY <1>0, <3>1 DEF TypeOK
    <2>2. pc' \in [Clients -> PCs] /\ player' \in [Clients -> Names \cup {NULL}]
      BY <1>0 DEF PCs
    <2> QED
      BY <1>0, <1>1, <1>3, <2>1, <2>2 DEF TypeOK
  <1> QED
    BY <1>3, <1>4, <1>5, <1>6, <1>7, <1>8 DEF IInv

(* preg_fini: the references of the registry go, and no others.            *)
LEMMA FiniStep ==
  ASSUME IInv, preg_fini
  PROVE  IInv'
  <1> USE DEF preg_fini
  <1>0. /\ TypeOK /\ SemCounts /\ ThreadState /\ KnownPlayers /\ PlayerRefs
        /\ ref_count \in [Names -> Nat] /\ preg \in SUBSET Names
    BY DEF IInv, TypeOK
  <1>1. /\ finished' = TRUE
        /\ UNCHANGED <<player, logged_in, gate, pc, new_player, players, logins,
                       login_sem, clobbered, crashed>>
    BY DEF clientVars, threadVars, semVars
  <1>2. Registered' = Registered /\ Inside' = Inside
    BY <1>1 DEF Registered, Inside
  <1>3. SemCounts' /\ login_sem' \in 0..Cardinality(Clients)
    BY <1>1, <1>2, SemSame DEF semVars
  <1>4. ScanCurrent' /\ UniqueLoginUnlessReinit'
    BY <1>1, <1>2, ScanSame
  <1>5. ref_count' \in [Names -> Int]
    BY <1>0
  <1>6. ASSUME NEW n \in Names
        PROVE  ref_count'[n] = ref_count[n] + (Reg(n)' - Reg(n))
             + (Cardinality(LoginsAs(n)') - Cardinality(LoginsAs(n)))
             + (Cardinality(Owners(n)') - Cardinality(Owners(n)))
             + (Cardinality(Cells(n)') - Cardinality(Cells(n)))
    <2>1. LoginsAs(n)' = LoginsAs(n) /\ Owners(n)' = Owners(n) /\ Cells(n)' = Cells(n)
      BY <1>1 DEF LoginsAs, Owners, Cells
    <2>2. ref_count'[n] = ref_count[n] + (Reg(n)' - Reg(n)) /\ ref_count[n] \in Nat
      BY <1>0 DEF Reg
    <2> QED
      BY <2>1, <2>2, TermTypes
  <1>7. PlayerRefs' /\ ref_count' \in [Names -> Nat]
    BY <1>0, <1>5, <1>6, RefsBalance
  <1>8. ThreadState'
    BY <1>0, <1>1 DEF ThreadState
  <1>9. KnownPlayers'
    BY <1>1 DEF KnownPlayers
  <1>10. TypeOK'
    BY <1>0, <1>1, <1>3, <1>7 DEF TypeOK
  <1> QED
    BY <1>3, <1>4, <1>7, <1>8, <1>9, <1>10 DEF IInv
-----------------------------------------------------------------------------
(* Every step preserves the inductive invariant.                           *)
LEMMA NextIInv == IInv /\ [Next]_vars => IInv'
  <1> SUFFICES ASSUME IInv, [Next]_vars PROVE IInv'
    OBVIOUS
  <1>1. ASSUME NEW c \in Clients, Incoming(c) \/ Proceed(c) PROVE IInv'
    BY <1>1, QuietStep, ProcessLoginStep, ArrayStep, ClientLoginStep, UnrefStep,
       UnregisterStep
    DEF Incoming, Proceed
  <1>2. CASE preg_fini
    BY <1>2, FiniStep
  <1>3. ASSUME UNCHANGED vars \/ \E c \in Clients : UseFreedRegistry(c)
        PROVE  IInv'
    <2>1. /\ UNCHANGED <<preg, ref_count, player, logged_in, gate, pc, new_player>>
          /\ UNCHANGED <<players, logins, login_sem, clobbered, finished>>
          /\ crashed' \in {crashed, TRUE}
      BY <1>3 DEF vars, playerVars, clientVars, threadVars, semVars, endVars,
                  UseFreedRegistry
    <2>2. TypeOK' /\ SemCounts'
      BY <2>1 DEF IInv, TypeOK, SemCounts, Inside
    <2>3. ThreadState' /\ KnownPlayers'
      BY <2>1 DEF IInv, ThreadState, KnownPlayers
    <2>4. ScanCurrent' /\ UniqueLoginUnlessReinit'
      BY <2>1 DEF IInv, ScanCurrent, Registered, UniqueLoginUnlessReinit,
                  UniqueLogin
    <2>5. PlayerRefs'
      BY <2>1 DEF IInv, PlayerRefs
    <2> QED
      BY <2>2, <2>3, <2>4, <2>5 DEF IInv
  <1> QED
    BY <1>1, <1>2, <1>3 DEF Next, Ended

(* The invariant holds whatever the clients send and in whatever order     *)
(* their threads run.                                                      *)
THEOREM LoginInvariant == Spec => []IInv
  BY InitIInv, NextIInv, PTL DEF Spec

(* Types: in particular no reference count of a player goes below 0, and   *)
(* CLIENT_LOGIN_SEM never exceeds the number of clients.                   *)
THEOREM LoginTypeCorrect == Spec => []TypeOK
  <1>1. IInv => TypeOK
    BY DEF IInv
  <1> QED
    BY <1>1, LoginInvariant, PTL

(* The references to a player are those that the registry, the clients,    *)
(* the logins under way and the arrays of creg_all_players hold.           *)
THEOREM PlayerRefsExact == Spec => []PlayerRefs
  <1>1. IInv => PlayerRefs
    BY DEF IInv
  <1> QED
    BY <1>1, LoginInvariant, PTL

(* Two registered clients are not logged in as the same player, as long as *)
(* client_create has not initialised CLIENT_LOGIN_SEM while in use.        *)
THEOREM LoginsAreUnique == Spec => []UniqueLoginUnlessReinit
  <1>1. IInv => UniqueLoginUnlessReinit
    BY DEF IInv
  <1> QED
    BY <1>1, LoginInvariant, PTL

-----------------------------------------------------------------------------
(* The references that client c and its thread count.                      *)
Counted(c) ==
  {new_player[c]} \cup {players[c][d] : d \in Clients}
    \cup (IF logged_in[c] THEN {player[c]} ELSE {})

(* A PLAYER that a client or a thread counts is allocated, also after      *)
(* preg_fini.  Until then a PLAYER is allocated as long as the registry    *)
(* has it, and client->player points to one that is, logged in or not.     *)
(* When the registry and all clients are gone, every PLAYER has been       *)
(* freed.                                                                  *)
NoDanglingPlayer ==
  \A n \in Names :
    /\ \A c \in Clients : n \in Counted(c) => ref_count[n] > 0
    /\ ~finished =>
         /\ ref_count[n] > 0 <=> n \in preg
         /\ \A c \in Clients : player[c] = n => ref_count[n] > 0
    /\ finished /\ (\A c \in Clients : pc[c] = "gone") => ref_count[n] = 0

(* Where preg_fini has happened the registry is empty.                     *)
FinishedIsEmpty == finished => preg = {}

(* It stays so, because nothing is registered in a freed registry.         *)
LEMMA RegistryStaysEmpty == Spec => []FinishedIsEmpty
<1>1. Init => FinishedIsEmpty
  BY DEF Init, FinishedIsEmpty
<1>2. FinishedIsEmpty /\ [Next]_vars => FinishedIsEmpty'
  BY DEF FinishedIsEmpty, Next, Incoming, Proceed, client_create, RefuseLogin,
         process_login, process_users, InviteWithoutPlayer, ReceiveEof,
         WaitLoginSem, ScanPlayers, client_login, AnswerLogin, SendUsers,
         client_logout, creg_unregister, UseFreedRegistry, preg_fini, Ended,
         vars, playerVars, endVars
<1> QED  BY <1>1, <1>2, PTL DEF Spec

(* A set of clients or of entries that has a member counts for something.  *)
LEMMA MemberCounts ==
  ASSUME NEW n \in Names, NEW c \in Clients, n \in Counted(c), IInv
  PROVE  Cardinality(LoginsAs(n)) + Cardinality(Owners(n))
           + Cardinality(Cells(n)) > 0
<1>1. CASE logged_in[c] /\ player[c] = n
  <2>1. c \in LoginsAs(n) /\ LoginsAs(n) \in SUBSET Clients
    BY <1>1 DEF LoginsAs
  <2>2. Cardinality(LoginsAs(n)) # 0
    BY <2>1, ClientsFinite, FS_EmptySet
  <2> QED  BY <2>2, TermTypes
<1>2. CASE new_player[c] = n
  <2>1. c \in Owners(n) /\ Owners(n) \in SUBSET Clients
    BY <1>2 DEF Owners
  <2>2. Cardinality(Owners(n)) # 0
    BY <2>1, ClientsFinite, FS_EmptySet
  <2> QED  BY <2>2, TermTypes
<1>3. ASSUME NEW d \in Clients, players[c][d] = n
      PROVE  Cardinality(Cells(n)) > 0
  <2>1. <<c, d>> \in Cells(n) /\ Cells(n) \in SUBSET (Clients \X Clients)
    BY <1>3 DEF Cells
  <2>2. Cardinality(Cells(n)) # 0
    BY <2>1, CellsFinite, FS_EmptySet
  <2> QED  BY <2>2, TermTypes
<1>4. Cardinality(Cells(n)) > 0 =>
        Cardinality(LoginsAs(n)) + Cardinality(Owners(n))
          + Cardinality(Cells(n)) > 0
  BY TermTypes
<1> QED  BY <1>1, <1>2, <1>3, <1>4 DEF Counted

(* process_login's new_player, the arrays of creg_all_players and the      *)
(* players of logged-in clients are never freed, even if terminate does    *)
(* not wait for their threads.  client->player, which client_logout leaves *)
(* behind after it has given the reference back, points to an allocated    *)
(* PLAYER as long as there is a registry to find the client in.            *)
THEOREM PlayersDoNotDangle == Spec => []NoDanglingPlayer
<1>1. ASSUME IInv, NEW n \in Names
      PROVE  ref_count[n] = Reg(n) + Cardinality(LoginsAs(n))
                              + Cardinality(Owners(n)) + Cardinality(Cells(n))
  BY <1>1 DEF IInv, PlayerRefs, Reg, LoginsAs, Owners, Cells
<1>2. ASSUME IInv, NEW n \in Names, NEW c \in Clients, n \in Counted(c)
      PROVE  ref_count[n] > 0
  BY <1>1, <1>2, MemberCounts, TermTypes
<1>3. ASSUME IInv, NEW n \in Names, ~finished
      PROVE  ref_count[n] > 0 <=> n \in preg
  <2>1. n \notin preg => ref_count[n] = 0
    BY <1>3, UnknownHasNone
  <2>2. n \in preg => Reg(n) = 1
    BY DEF Reg
  <2>3. n \in preg => ref_count[n] > 0
    BY <1>1, <1>3, <2>2, TermTypes
  <2> QED  BY <2>1, <2>3
<1>4. ASSUME IInv, NEW n \in Names, ~finished, NEW c \in Clients, player[c] = n
      PROVE  n \in preg
  BY <1>4, LoginNames DEF IInv, KnownPlayers
<1>5. ASSUME IInv, FinishedIsEmpty, NEW n \in Names, finished,
             \A c \in Clients : pc[c] = "gone"
      PROVE  ref_count[n] = 0
  <2>1. Reg(n) = 0
    BY <1>5 DEF Reg, FinishedIsEmpty
  <2>2. LoginsAs(n) = {} /\ Owners(n) = {} /\ Cells(n) = {}
    BY <1>5, LoginNames DEF IInv, ThreadState, NoPlayers, LoginsAs, Owners, Cells
  <2>3. Cardinality({}) = 0
    BY FS_EmptySet
  <2> QED  BY <1>1, <1>5, <2>1, <2>2, <2>3
<1>6. IInv /\ FinishedIsEmpty => NoDanglingPlayer
  BY <1>2, <1>3, <1>4, <1>5 DEF NoDanglingPlayer
<1> QED  BY <1>6, LoginInvariant, RegistryStaysEmpty, PTL
=============================================================================
