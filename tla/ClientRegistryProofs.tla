------------------------ MODULE ClientRegistryProofs ------------------------
(***************************************************************************)
(* Safety of the client registry, for every set of connections and every   *)
(* capacity.                                                               *)
(***************************************************************************)
EXTENDS ClientRegistry, FiniteSetTheorems, SequenceTheorems, TLAPS

(* Once the registry is released, main does nothing but exit.              *)
FreedAtEnd == freed => mpc \in {"exit", "exited"}

(* The thread that CreateThread starts has not been started before.        *)
PendingAccepted == pending \in Conns => pc[pending] = "accepted"

(* The inductive invariant.  Capacity alone is not inductive: that a slot  *)
(* is free when AddClient appends follows from SlotAccounting, which needs *)
(* RegistryExact to know that RemoveClient takes one client out.           *)
IInv ==
  /\ TypeOK
  /\ FreedAtEnd
  /\ PendingAccepted
  /\ Capacity
  /\ SlotAccounting
  /\ RegistryExact
  /\ MutexHeld
  /\ WakeupPending

-----------------------------------------------------------------------------
(* The threads at a set of places form a finite set.                       *)
LEMMA AtFinite ==
  ASSUME NEW S
  PROVE  IsFiniteSet(At(S)) /\ Cardinality(At(S)) \in Nat
  <1>1. At(S) \in SUBSET Conns
    BY DEF At
  <1> QED
    BY <1>1, ConnsAssumption, FS_Subset, FS_CardinalityType

(* A step of t to a place in S adds t to the threads at S.                 *)
LEMMA AtEnter ==
  ASSUME NEW S, NEW t \in Conns, NEW to \in S,
         pc \in [Conns -> ServicePCs],
         pc[t] \notin S, pc' = [pc EXCEPT ![t] = to]
  PROVE  /\ At(S)' = At(S) \cup {t}
         /\ Cardinality(At(S)') = Cardinality(At(S)) + 1
  <1>1. At(S)' = At(S) \cup {t} /\ t \notin At(S)
    BY DEF At
  <1> QED
    BY <1>1, AtFinite, FS_AddElement

(* A step of t away from S takes t out of the threads at S.                *)
LEMMA AtLeave ==
  ASSUME NEW S, NEW t \in Conns, NEW to, to \notin S,
         pc \in [Conns -> ServicePCs],
         pc[t] \in S, pc' = [pc EXCEPT ![t] = to]
  PROVE  /\ At(S)' = At(S) \ {t}
         /\ Cardinality(At(S)') = Cardinality(At(S)) - 1
         /\ Cardinality(At(S)') \in Nat
  <1>1. At(S)' = At(S) \ {t} /\ t \in At(S)
    BY DEF At
  <1> QED
    BY <1>1, AtFinite, FS_RemoveElement, FS_CardinalityType

(* A step that neither enters nor leaves S.                                *)
LEMMA AtSame ==
  ASSUME NEW S, NEW t \in Conns, NEW to,
         pc \in [Conns -> ServicePCs],
         pc[t] \in S <=> to \in S, pc' = [pc EXCEPT ![t] = to]
  PROVE  At(S)' = At(S)
  BY DEF At

(* Appending an element.                                                   *)
LEMMA AppendToSet ==
  ASSUME NEW s \in Seq(Conns), NEW t \in Conns
  PROVE  /\ Append(s, t) \in Seq(Conns)
         /\ Len(Append(s, t)) = Len(s) + 1
         /\ ToSet(Append(s, t)) = ToSet(s) \cup {t}
         /\ (/\ \A i, j \in 1..Len(s) : s[i] = s[j] => i = j
             /\ t \notin ToSet(s))
              => \A i, j \in 1..Len(Append(s, t)) :
                   Append(s, t)[i] = Append(s, t)[j] => i = j
  <1> DEFINE a == Append(s, t)
  <1>1. /\ a \in Seq(Conns)
        /\ Len(a) = Len(s) + 1
        /\ \A i \in 1..Len(s) : a[i] = s[i]
        /\ a[Len(s) + 1] = t
    BY AppendProperties
  <1>2. DOMAIN a = 1..Len(a) /\ DOMAIN s = 1..Len(s) /\ Len(s) \in Nat
    BY <1>1
  <1> HIDE DEF a
  <1>3. ToSet(a) = ToSet(s) \cup {t}
    <2>1. \A i \in DOMAIN s : i \in DOMAIN a /\ a[i] = s[i]
      BY <1>1, <1>2
    <2>2. \A i \in DOMAIN a : i \in DOMAIN s \/ a[i] = t
      BY <1>1, <1>2
    <2>3. Len(s) + 1 \in DOMAIN a
      BY <1>1, <1>2
    <2> QED
      BY <1>1, <2>1, <2>2, <2>3 DEF ToSet
  <1>4. ASSUME \A i, j \in 1..Len(s) : s[i] = s[j] => i = j,
               \A i \in 1..Len(s) : s[i] # t
        PROVE  \A i, j \in 1..Len(a) : a[i] = a[j] => i = j
    BY <1>1, <1>2, <1>4
  <1>5. t \notin ToSet(s) => \A i \in 1..Len(s) : s[i] # t
    BY <1>2 DEF ToSet
  <1> QED
    BY <1>1, <1>3, <1>4, <1>5 DEF a

(* Taking out the element at a position, with no element twice.            *)
LEMMA RemoveAtProperties ==
  ASSUME NEW s \in Seq(Conns), NEW k \in 1..Len(s),
         \A i, j \in 1..Len(s) : s[i] = s[j] => i = j
  PROVE  /\ RemoveAt(s, k) \in Seq(Conns)
         /\ Len(RemoveAt(s, k)) = Len(s) - 1
         /\ ToSet(RemoveAt(s, k)) = ToSet(s) \ {s[k]}
         /\ \A i, j \in 1..Len(RemoveAt(s, k)) :
              RemoveAt(s, k)[i] = RemoveAt(s, k)[j] => i = j
  <1> DEFINE r == RemoveAt(s, k)
  <1>0. Len(s) \in Nat /\ k \in Nat /\ 1 <= k /\ k <= Len(s)
    OBVIOUS
  <1>1. /\ r \in Seq(Conns)
        /\ Len(r) = Len(s) - 1
        /\ \A i \in 1..Len(r) : r[i] = IF i < k THEN s[i] ELSE s[i + 1]
    <2>1. /\ SubSeq(s, 1, k - 1) \in Seq(Conns)
          /\ Len(SubSeq(s, 1, k - 1)) = k - 1
          /\ \A i \in 1..(k - 1) : SubSeq(s, 1, k - 1)[i] = s[i]
      BY SubSeqProperties
    <2>2. /\ SubSeq(s, k + 1, Len(s)) \in Seq(Conns)
          /\ Len(SubSeq(s, k + 1, Len(s))) = Len(s) - k
          /\ \A i \in 1..(Len(s) - k) : SubSeq(s, k + 1, Len(s))[i] = s[k + i]
      BY SubSeqProperties
    <2>3. PICK p \in Seq(Conns), q \in Seq(Conns) :
            /\ r = p \o q
            /\ Len(p) = k - 1 /\ \A i \in 1..(k - 1) : p[i] = s[i]
            /\ Len(q) = Len(s) - k /\ \A i \in 1..(Len(s) - k) : q[i] = s[k + i]
      BY <2>1, <2>2 DEF RemoveAt
    <2> HIDE DEF r
    <2>4. r \in Seq(Conns) /\ Len(r) = Len(s) - 1
      <3>1. r \in Seq(Conns) /\ Len(r) = Len(p) + Len(q)
        BY <2>3, ConcatProperties
      <3> QED
        BY <1>0, <2>3, <3>1
    <2>5. ASSUME NEW i \in 1..(Len(s) - 1), i < k
          PROVE  r[i] = s[i]
      <3>1. i \in 1..(Len(p) + Len(q)) /\ i <= Len(p) /\ i \in 1..(k - 1)
        BY <1>0, <2>3, <2>5
      <3>2. r[i] = p[i]
        BY <2>3, <3>1, ConcatProperties
      <3> QED
        BY <2>3, <3>1, <3>2
    <2>6. ASSUME NEW i \in 1..(Len(s) - 1), ~(i < k)
          PROVE  r[i] = s[i + 1]
      <3>1. /\ i \in 1..(Len(p) + Len(q)) /\ ~(i <= Len(p))
            /\ i - Len(p) \in 1..(Len(s) - k)
            /\ k + (i - Len(p)) = i + 1
        BY <1>0, <2>3, <2>6
      <3>2. r[i] = q[i - Len(p)]
        BY <2>3, <3>1, ConcatProperties
      <3> QED
        BY <2>3, <3>1, <3>2
    <2> QED
      BY <2>4, <2>5, <2>6
  <1> HIDE DEF r
  <1>6. DOMAIN r = 1..Len(r) /\ DOMAIN s = 1..Len(s)
    BY <1>1
  <1>2. ASSUME NEW i \in 1..Len(r)
        PROVE  \E j \in 1..Len(s) : r[i] = s[j] /\ j # k
    BY <1>0, <1>1
  <1>3. ASSUME NEW i \in 1..Len(s), i # k
        PROVE  \E j \in 1..Len(r) : r[j] = s[i]
    <2>1. CASE i < k
      BY <2>1, <1>0, <1>1
    <2>2. CASE i > k
      <3>1. i - 1 \in 1..Len(r) /\ ~(i - 1 < k) /\ (i - 1) + 1 = i
        BY <2>2, <1>0, <1>1
      <3> QED
        BY <3>1, <1>1
    <2> QED
      BY <1>0, <1>3, <2>1, <2>2
  <1>4. ToSet(r) = ToSet(s) \ {s[k]}
    <2>1. ToSet(r) \subseteq ToSet(s)
      BY <1>2, <1>6 DEF ToSet
    <2>2. s[k] \notin ToSet(r)
      BY <1>0, <1>2, <1>6 DEF ToSet
    <2>3. ToSet(s) \ {s[k]} \subseteq ToSet(r)
      BY <1>3, <1>6 DEF ToSet
    <2> QED
      BY <2>1, <2>2, <2>3
  <1>5. \A i, j \in 1..Len(r) : r[i] = r[j] => i = j
    BY <1>0, <1>1
  <1> QED
    BY <1>1, <1>4, <1>5 DEF r
-----------------------------------------------------------------------------
(* The places whose threads SlotAccounting, RegistryExact and              *)
(* WakeupPending speak of.                                                 *)
Watched == {"register", "post_login_queue", "post_sem"} \cup Registered

(* A step that leaves the array and the queue alone, and moves no thread   *)
(* from or to a watched place, preserves what is said of them.             *)
LEMMA QuietStep ==
  ASSUME IInv, UNCHANGED <<clients, login_queue>>, freed => freed',
         \A S \in SUBSET Watched : At(S)' = At(S)
  PROVE  Capacity' /\ SlotAccounting' /\ RegistryExact'
  <1>1. /\ At({"register"})' = At({"register"})
        /\ At({"post_login_queue"})' = At({"post_login_queue"})
        /\ At(Registered)' = At(Registered)
    BY DEF Watched
  <1>2. Capacity'
    BY DEF IInv, Capacity, length
  <1>3. SlotAccounting'
    BY <1>1, AtFinite DEF IInv, SlotAccounting, length
  <1>4. RegistryExact'
    BY <1>1 DEF IInv, RegistryExact, length
  <1> QED
    BY <1>2, <1>3, <1>4

(* Moves between unwatched places are of this kind.                        *)
LEMMA QuietMove ==
  ASSUME NEW t \in Conns, NEW to \in ServicePCs \ Watched,
         pc \in [Conns -> ServicePCs], pc[t] \notin Watched,
         pc' = [pc EXCEPT ![t] = to]
  PROVE  \A S \in SUBSET Watched : At(S)' = At(S)
  BY DEF At

(* So are steps that move no thread.                                       *)
LEMMA NoMove ==
  ASSUME pc' = pc
  PROVE  \A S \in SUBSET Watched : At(S)' = At(S)
  BY DEF At

(* The initial state has every slot in the queue and nobody registered.    *)
LEMMA InitIInv == Init => IInv
  <1> SUFFICES ASSUME Init PROVE IInv
    OBVIOUS
  <1>1. TypeOK
    <2>1. clients \in Seq(Conns)
      BY EmptySeq DEF Init
    <2>2. login_queue \in Nat /\ sem \in Nat
      BY MaxClientsAssumption DEF Init
    <2>3. pc \in [Conns -> ServicePCs] /\ mpc \in MainPCs
      BY DEF Init, MainPCs, ServicePCs
    <2> QED
      BY <2>1, <2>2, <2>3 DEF Init, TypeOK
  <1>2. FreedAtEnd /\ PendingAccepted /\ WakeupPending /\ MutexHeld
    BY ConnsAssumption
    DEF Init, FreedAtEnd, PendingAccepted, WakeupPending, MutexHeld
  <1>3. /\ At({"register"}) = {} /\ At({"post_login_queue"}) = {}
        /\ At(Registered) = {}
    BY DEF Init, At, Registered
  <1>4. Cardinality({}) = 0 /\ length = 0
    BY FS_EmptySet DEF Init, length
  <1>5. Capacity
    BY <1>4, MaxClientsAssumption DEF Capacity
  <1>6. SlotAccounting
    <2>1. /\ Cardinality(At({"register"})) = 0
          /\ Cardinality(At({"post_login_queue"})) = 0
      BY <1>3, <1>4, Zenon
    <2> QED
      BY <1>4, <2>1, MaxClientsAssumption DEF Init, SlotAccounting
  <1>7. RegistryExact
    BY <1>3, <1>4 DEF Init, RegistryExact, ToSet
  <1> QED
    BY <1>1, <1>2, <1>5, <1>6, <1>7 DEF IInv
-----------------------------------------------------------------------------
(* Steps of the environment and of the main thread.                        *)
LEMMA MainStep ==
  IInv /\ (Main \/ Environment) => IInv'
  <1> SUFFICES ASSUME IInv, Main \/ Environment PROVE IInv'
    OBVIOUS
  <1>0. TypeOK /\ FreedAtEnd /\ PendingAccepted /\ WakeupPending /\ MutexHeld
    BY DEF IInv
  <1> USE DEF MainGoto, regVars
  <1>1. CASE \/ EnterAccept \/ BeginTerminate \/ creg_shutdown_all
             \/ WaitForEmptyRead \/ WaitForEmptySem \/ creg_fini \/ Exit
             \/ Sighup \/ SighupInterruptsWait
             \/ \E t \in Conns : HangUp(t)
    <2> USE DEF EnterAccept, BeginTerminate, creg_shutdown_all,
                WaitForEmptyRead, WaitForEmptySem, creg_fini, Exit,
                Sighup, SighupInterruptsWait, HangUp
    <2>1. UNCHANGED <<clients, login_queue, pc>> /\ (freed => freed')
      BY <1>0, <1>1 DEF TypeOK, mainVars
    <2>2. Capacity' /\ SlotAccounting' /\ RegistryExact'
      BY <2>1, QuietStep, NoMove
    <2>3. TypeOK'
      <3>1. mpc' \in MainPCs
        BY <1>0, <1>1 DEF TypeOK, MainPCs, mainVars
      <3>2. sem' \in Nat
        BY <1>0, <1>1 DEF TypeOK, mainVars
      <3>3. eof' \in SUBSET Conns
        <4>1. ToSet(clients) \subseteq Conns
          BY <1>0 DEF TypeOK, ToSet
        <4> QED
          BY <1>0, <1>1, <4>1 DEF TypeOK, mainVars
      <3>4. /\ no' \in BOOLEAN /\ freed' \in BOOLEAN
            /\ signal_received' \in BOOLEAN
            /\ mutex' \in Conns \cup {Nobody}
            /\ pending' \in Conns \cup {Nobody}
        BY <1>0, <1>1 DEF TypeOK, mainVars
      <3> QED
        BY <1>0, <2>1, <3>1, <3>2, <3>3, <3>4 DEF TypeOK
    <2>4. FreedAtEnd'
      BY <1>0, <1>1 DEF FreedAtEnd, mainVars
    <2>5. PendingAccepted'
      BY <1>0, <1>1, <2>1, ConnsAssumption DEF PendingAccepted, mainVars
    <2>6. WakeupPending'
      <3>1. ASSUME mpc' = "wait_sem" PROVE \/ mpc = "wait_sem" /\ sem' = sem
                                           \/ clients # <<>>
        BY <1>0, <1>1, <3>1 DEF TypeOK, mainVars, length
      <3>2. At({"post_login_queue", "post_sem"})'
              = At({"post_login_queue", "post_sem"})
        BY <2>1 DEF At
      <3> QED
        BY <1>0, <2>1, <3>1, <3>2 DEF WakeupPending
    <2>7. MutexHeld'
      BY <1>0, <1>1, <2>1 DEF MutexHeld
    <2> QED
      BY <2>2, <2>3, <2>4, <2>5, <2>6, <2>7 DEF IInv
  <1>2. ASSUME NEW t \in Conns, AcceptConn(t) PROVE IInv'
    <2> USE <1>2 DEF AcceptConn
    <2>1. /\ pc \in [Conns -> ServicePCs] /\ pc[t] \notin Watched
          /\ "accepted" \in ServicePCs \ Watched
      BY <1>0 DEF TypeOK, ServicePCs, Watched, Registered
    <2>2. \A S \in SUBSET Watched : At(S)' = At(S)
      BY <2>1, QuietMove
    <2>3. Capacity' /\ SlotAccounting' /\ RegistryExact'
      BY <2>2, QuietStep
    <2>4. TypeOK'
      BY <1>0, <2>1 DEF TypeOK, MainPCs
    <2>5. FreedAtEnd' /\ WakeupPending'
      BY <1>0 DEF FreedAtEnd, WakeupPending
    <2>6. PendingAccepted' /\ MutexHeld'
      BY <1>0, <2>1 DEF PendingAccepted, MutexHeld
    <2> QED
      BY <2>3, <2>4, <2>5, <2>6 DEF IInv
  <1>3. CASE CreateThread
    <2> USE <1>3 DEF CreateThread
    <2>1. /\ pc \in [Conns -> ServicePCs] /\ pc[pending] \notin Watched
          /\ "check_length" \in ServicePCs \ Watched
      BY <1>0 DEF TypeOK, PendingAccepted, ServicePCs, UsesRegistry,
                  Watched, Registered
    <2>2. \A S \in SUBSET Watched : At(S)' = At(S)
      BY <2>1, QuietMove
    <2>3. Capacity' /\ SlotAccounting' /\ RegistryExact'
      BY <2>2, QuietStep
    <2>4. TypeOK'
      BY <1>0, <2>1 DEF TypeOK, MainPCs
    <2>5. FreedAtEnd' /\ WakeupPending' /\ PendingAccepted' /\ MutexHeld'
      BY <1>0, <2>1, ConnsAssumption
      DEF FreedAtEnd, WakeupPending, PendingAccepted, MutexHeld
    <2> QED
      BY <2>3, <2>4, <2>5 DEF IInv
  <1> QED
    BY <1>1, <1>2, <1>3 DEF Main, Environment
-----------------------------------------------------------------------------
(* Steps of a service thread change neither main's variables nor freed.    *)
(* They keep the part of the invariant that is about main.                 *)
LEMMA ServiceKeeps ==
  ASSUME IInv, NEW t \in Conns, Service(t)
  PROVE  FreedAtEnd' /\ PendingAccepted'
  <1>1. UNCHANGED <<freed, mainVars>> /\ pc[t] # "accepted"
    BY DEF Service, CheckLength, CheckNo, ReserveSlot, AddClient, CloseConn,
           ReceiveEof, RemoveClient, ReleaseSlot, PostIfEmpty,
           UnlockRegistry, UseFreed, Goto, regVars, UsesRegistry
  <1>2. \E p : pc' = [pc EXCEPT ![t] = p]
    BY DEF Service, CheckLength, CheckNo, ReserveSlot, AddClient, CloseConn,
           ReceiveEof, RemoveClient, ReleaseSlot, PostIfEmpty,
           UnlockRegistry, UseFreed, Goto
  <1> QED
    BY <1>1, <1>2 DEF IInv, FreedAtEnd, PendingAccepted, mainVars, TypeOK

(* Steps of a service thread outside the critical sections.                *)
LEMMA UnlockedStep ==
  ASSUME IInv, NEW t \in Conns,
         \/ CheckLength(t) \/ CheckNo(t) \/ CloseConn(t) \/ ReceiveEof(t)
         \/ UseFreed(t)
  PROVE  IInv'
  <1> USE DEF CheckLength, CheckNo, CloseConn, ReceiveEof, UseFreed, Goto,
              regVars, mainVars
  <1>0. FreedAtEnd' /\ PendingAccepted'
    BY ServiceKeeps DEF Service
  <1>1. TypeOK'
    BY DEF IInv, TypeOK, ServicePCs, UsesRegistry
  <1>2. Capacity' /\ SlotAccounting' /\ RegistryExact'
    <2>1. CASE CheckLength(t) \/ CheckNo(t) \/ CloseConn(t)
      <3>1. PICK to \in ServicePCs \ Watched : pc' = [pc EXCEPT ![t] = to]
        BY <2>1 DEF ServicePCs, UsesRegistry, Watched, Registered
      <3>2. pc[t] \notin Watched /\ pc \in [Conns -> ServicePCs]
        BY <2>1 DEF IInv, TypeOK, Watched, Registered
      <3>3. \A S \in SUBSET Watched : At(S)' = At(S)
        BY <3>1, <3>2, QuietMove
      <3>4. UNCHANGED <<clients, login_queue, freed>>
        BY <2>1
      <3> QED
        BY <3>3, <3>4, QuietStep
    <2>2. CASE ReceiveEof(t)
      <3>1. /\ At({"register"})' = At({"register"})
            /\ At({"post_login_queue"})' = At({"post_login_queue"})
            /\ At(Registered)' = At(Registered)
        BY <2>2 DEF IInv, TypeOK, At, Registered
      <3> QED
        BY <2>2, <3>1, AtFinite
        DEF IInv, Capacity, SlotAccounting, RegistryExact, length
    <2>3. CASE UseFreed(t)
      BY <2>3 DEF IInv, Capacity, SlotAccounting, RegistryExact, length
    <2> QED
      BY <2>1, <2>2, <2>3
  <1>3. MutexHeld'
    BY DEF IInv, TypeOK, MutexHeld
  <1>4. WakeupPending'
    <2>1. CASE freed
      BY <2>1 DEF IInv, FreedAtEnd, WakeupPending
    <2>2. CASE ~freed
      BY <2>2 DEF IInv, TypeOK, WakeupPending, At
    <2> QED
      BY <2>1, <2>2 DEF IInv, TypeOK
  <1> QED
    BY <1>0, <1>1, <1>2, <1>3, <1>4 DEF IInv
-----------------------------------------------------------------------------
(* creg_register: the slot that a thread takes from the queue is the one   *)
(* its client fills.                                                       *)
LEMMA RegisterStep ==
  ASSUME IInv, NEW t \in Conns, ReserveSlot(t) \/ AddClient(t)
  PROVE  IInv'
  <1>0. FreedAtEnd' /\ PendingAccepted'
    BY ServiceKeeps DEF Service
  <1>1. /\ TypeOK /\ SlotAccounting /\ RegistryExact /\ MutexHeld
        /\ WakeupPending /\ pc \in [Conns -> ServicePCs]
        /\ clients \in Seq(Conns) /\ length \in Nat
        /\ login_queue \in Nat
    BY DEF IInv, TypeOK, length
  <1>2. /\ Cardinality(At({"register"})) \in Nat
        /\ Cardinality(At({"post_login_queue"})) \in Nat
    BY AtFinite
  <1>3. CASE ReserveSlot(t)
    <2> USE <1>3 DEF ReserveSlot, Goto
    <2>1. TypeOK'
      BY <1>1 DEF TypeOK, ServicePCs, UsesRegistry, mainVars
    <2>2. Capacity'
      BY DEF IInv, Capacity, length
    <2>3. SlotAccounting'
      <3>1. Cardinality(At({"register"})') = Cardinality(At({"register"})) + 1
        BY <1>1, AtEnter
      <3>2. At({"post_login_queue"})' = At({"post_login_queue"})
        BY <1>1, AtSame
      <3> QED
        BY <1>1, <1>2, <3>1, <3>2 DEF SlotAccounting, length
    <2>4. RegistryExact'
      <3>1. At(Registered)' = At(Registered)
        BY <1>1 DEF At, Registered
      <3> QED
        BY <1>1, <3>1 DEF RegistryExact, length
    <2>5. MutexHeld' /\ WakeupPending'
      BY <1>1 DEF MutexHeld, WakeupPending, At, mainVars
    <2> QED
      BY <1>0, <2>1, <2>2, <2>3, <2>4, <2>5 DEF IInv
  <1>4. CASE AddClient(t)
    <2> USE <1>4 DEF AddClient, Goto
    <2>1. /\ clients' \in Seq(Conns)
          /\ length' = length + 1
          /\ ToSet(clients') = ToSet(clients) \cup {t}
      BY <1>1, AppendToSet DEF length
    <2>2. /\ Cardinality(At({"register"})') = Cardinality(At({"register"})) - 1
          /\ Cardinality(At({"register"})') \in Nat
      <3>1. /\ pc[t] \in {"register"} /\ "serving" \notin {"register"}
            /\ pc' = [pc EXCEPT ![t] = "serving"]
        OBVIOUS
      <3> QED
        BY <1>1, <3>1, AtLeave
    <2>3. At({"post_login_queue"})' = At({"post_login_queue"})
      BY <1>1, AtSame
    <2>4. SlotAccounting'
      BY <1>1, <1>2, <2>1, <2>2, <2>3 DEF SlotAccounting
    <2>5. Capacity'
      BY <1>1, <1>2, <2>1, <2>2, MaxClientsAssumption
      DEF SlotAccounting, Capacity
    <2>6. TypeOK'
      BY <1>1, <2>1 DEF TypeOK, ServicePCs, mainVars
    <2>7. RegistryExact'
      <3>1. At(Registered)' = At(Registered) \cup {t}
        BY <1>1, AtEnter DEF Registered
      <3>2. t \notin ToSet(clients)
        BY <1>1 DEF RegistryExact, At, Registered
      <3>3. \A i, j \in 1..length' : clients'[i] = clients'[j] => i = j
        BY <1>1, <3>2, AppendToSet DEF RegistryExact, length
      <3> QED
        BY <1>1, <2>1, <3>1, <3>3 DEF RegistryExact
    <2>8. clients' # <<>>
      BY <1>1, AppendProperties
    <2>9. MutexHeld' /\ WakeupPending'
      BY <1>1, <2>8 DEF MutexHeld, WakeupPending
    <2> QED
      BY <1>0, <2>4, <2>5, <2>6, <2>7, <2>9 DEF IInv
  <1> QED
    BY <1>3, <1>4

(* creg_unregister: the slot that a client leaves goes back to the queue.  *)
LEMMA UnregisterStep ==
  ASSUME IInv, NEW t \in Conns,
         \/ RemoveClient(t) \/ ReleaseSlot(t) \/ PostIfEmpty(t)
         \/ UnlockRegistry(t)
  PROVE  IInv'
  <1>0. FreedAtEnd' /\ PendingAccepted'
    BY ServiceKeeps DEF Service
  <1>1. /\ TypeOK /\ SlotAccounting /\ RegistryExact /\ MutexHeld
        /\ WakeupPending /\ pc \in [Conns -> ServicePCs]
        /\ clients \in Seq(Conns) /\ length \in Nat
        /\ login_queue \in Nat
    BY DEF IInv, TypeOK, length
  <1>2. /\ Cardinality(At({"register"})) \in Nat
        /\ Cardinality(At({"post_login_queue"})) \in Nat
    BY AtFinite
  <1>3. CASE RemoveClient(t)
    <2> USE <1>3 DEF RemoveClient, Goto
    <2>1. PICK k \in 1..length : clients[k] = t /\ clients' = RemoveAt(clients, k)
      OBVIOUS
    <2>2. /\ clients' \in Seq(Conns)
          /\ length' = length - 1
          /\ ToSet(clients') = ToSet(clients) \ {t}
          /\ \A i, j \in 1..length' : clients'[i] = clients'[j] => i = j
      BY <1>1, <2>1, RemoveAtProperties DEF RegistryExact, length
    <2>3. At({"register"})' = At({"register"})
      BY <1>1, AtSame
    <2>4. Cardinality(At({"post_login_queue"})')
            = Cardinality(At({"post_login_queue"})) + 1
      BY <1>1, AtEnter
    <2>5. SlotAccounting'
      BY <1>1, <1>2, <2>2, <2>3, <2>4 DEF SlotAccounting
    <2>6. Capacity'
      BY <1>1, <2>2, MaxClientsAssumption DEF IInv, Capacity
    <2>7. TypeOK'
      BY <1>1, <2>2 DEF TypeOK, ServicePCs, UsesRegistry, mainVars
    <2>8. RegistryExact'
      <3>1. At(Registered)' = At(Registered) \ {t}
        BY <1>1, AtLeave DEF Registered
      <3> QED
        BY <1>1, <2>2, <3>1 DEF RegistryExact
    <2>9. MutexHeld'
      BY <1>1, ConnsAssumption DEF MutexHeld
    <2>10. WakeupPending'
      BY <1>1 DEF WakeupPending, At
    <2> QED
      BY <1>0, <2>5, <2>6, <2>7, <2>8, <2>9, <2>10 DEF IInv
  <1>4. CASE ReleaseSlot(t)
    <2> USE <1>4 DEF ReleaseSlot, Goto
    <2>1. TypeOK'
      BY <1>1 DEF TypeOK, ServicePCs, UsesRegistry, mainVars
    <2>2. Capacity'
      BY DEF IInv, Capacity, length
    <2>3. SlotAccounting'
      <3>1. /\ Cardinality(At({"post_login_queue"})')
                = Cardinality(At({"post_login_queue"})) - 1
            /\ Cardinality(At({"post_login_queue"})') \in Nat
        <4>1. /\ pc[t] \in {"post_login_queue"}
              /\ "post_sem" \notin {"post_login_queue"}
              /\ pc' = [pc EXCEPT ![t] = "post_sem"]
          OBVIOUS
        <4> QED
          BY <1>1, <4>1, AtLeave
      <3>2. At({"register"})' = At({"register"})
        BY <1>1, AtSame
      <3> QED
        BY <1>1, <1>2, <3>1, <3>2 DEF SlotAccounting, length
    <2>4. RegistryExact'
      <3>1. At(Registered)' = At(Registered)
        BY <1>1 DEF At, Registered
      <3> QED
        BY <1>1, <3>1 DEF RegistryExact, length
    <2>5. MutexHeld' /\ WakeupPending'
      BY <1>1 DEF MutexHeld, WakeupPending, At, mainVars
    <2> QED
      BY <1>0, <2>1, <2>2, <2>3, <2>4, <2>5 DEF IInv
  <1>5. CASE PostIfEmpty(t) \/ UnlockRegistry(t)
    <2> USE <1>5 DEF PostIfEmpty, UnlockRegistry, Goto
    <2>1. TypeOK'
      BY <1>1 DEF TypeOK, ServicePCs, UsesRegistry, mainVars
    <2>2. /\ At({"register"})' = At({"register"})
          /\ At({"post_login_queue"})' = At({"post_login_queue"})
          /\ At(Registered)' = At(Registered)
      BY <1>1 DEF At, Registered
    <2>3. Capacity' /\ RegistryExact'
      BY <1>1, <2>2 DEF IInv, Capacity, RegistryExact, length
    <2>6. SlotAccounting'
      BY <1>1, <1>2, <2>2 DEF SlotAccounting, length
    <2>4. MutexHeld'
      BY <1>1, ConnsAssumption DEF MutexHeld
    <2>5. WakeupPending'
      <3>1. CASE PostIfEmpty(t)
        <4>1. length = 0 => sem' > 0
          BY <1>1, <3>1 DEF TypeOK
        <4>2. length # 0 => clients' # <<>>
          BY <1>1, <3>1 DEF length
        <4> QED
          BY <4>1, <4>2 DEF WakeupPending
      <3>2. CASE UnlockRegistry(t)
        BY <1>1, <3>2 DEF WakeupPending, At, mainVars
      <3> QED
        BY <3>1, <3>2
    <2> QED
      BY <1>0, <2>1, <2>3, <2>4, <2>5, <2>6 DEF IInv
  <1> QED
    BY <1>3, <1>4, <1>5
-----------------------------------------------------------------------------
(* Every step preserves the inductive invariant.                           *)
LEMMA NextIInv == IInv /\ [Next]_vars => IInv'
  <1> SUFFICES ASSUME IInv, [Next]_vars PROVE IInv'
    OBVIOUS
  <1>1. CASE Main \/ Environment
    BY <1>1, MainStep
  <1>2. ASSUME NEW t \in Conns, Service(t) PROVE IInv'
    BY <1>2, UnlockedStep, RegisterStep, UnregisterStep DEF Service
  <1>3. CASE UNCHANGED vars
    <2>1. UNCHANGED <<clients, login_queue, pc, freed>>
      BY <1>3 DEF vars, regVars
    <2>2. Capacity' /\ SlotAccounting' /\ RegistryExact'
      BY <2>1, QuietStep, NoMove
    <2>3. TypeOK' /\ FreedAtEnd' /\ PendingAccepted' /\ MutexHeld'
          /\ WakeupPending'
      BY <1>3 DEF IInv, TypeOK, FreedAtEnd, PendingAccepted, MutexHeld,
                  WakeupPending, At, vars, regVars, mainVars
    <2> QED
      BY <2>2, <2>3 DEF IInv
  <1> QED
    BY <1>1, <1>2, <1>3 DEF Next, Exited

(* The inductive invariant holds in every reachable state of main and the  *)
(* service threads.                                                        *)
THEOREM RegistryInvariant == Spec => []IInv
  BY InitIInv, NextIInv, PTL DEF Spec

(* The registry's variables keep their types: in particular the semaphore  *)
(* login_queue never goes below zero.                                      *)
THEOREM TypeCorrect == Spec => []TypeOK
  <1>1. IInv => TypeOK
    BY DEF IInv
  <1> QED
    BY <1>1, RegistryInvariant, PTL

(* creg_register never writes past clients[MAX_CLIENTS - 1], whatever the  *)
(* interleaving of the unlocked test of length with other registrations.   *)
THEOREM CapacityHolds == Spec => []Capacity
  <1>1. IInv => Capacity
    BY DEF IInv
  <1> QED
    BY <1>1, RegistryInvariant, PTL

(* No slot of the registry is lost or made up, whatever the interleaving   *)
(* of registrations and unregistrations.                                   *)
THEOREM SlotsAccountedFor == Spec => []SlotAccounting
  <1>1. IInv => SlotAccounting
    BY DEF IInv
  <1> QED
    BY <1>1, RegistryInvariant, PTL

(* The array of clients is exactly the set of clients being served.        *)
THEOREM RegistryIsExact == Spec => []RegistryExact
  <1>1. IInv => RegistryExact
    BY DEF IInv
  <1> QED
    BY <1>1, RegistryInvariant, PTL

(* One thread at a time is in creg_unregister's critical section.          *)
THEOREM MutualExclusion == Spec => []MutexHeld
  <1>1. IInv => MutexHeld
    BY DEF IInv
  <1> QED
    BY <1>1, RegistryInvariant, PTL

(* creg_wait_for_empty does not miss the post of the last client although  *)
(* it tests length and waits on sem without the mutex.                     *)
THEOREM NoLostWakeup == Spec => []WakeupPending
  <1>1. IInv => WakeupPending
    BY DEF IInv
  <1> QED
    BY <1>1, RegistryInvariant, PTL
-----------------------------------------------------------------------------
(* The registry implements the bounded registry.                           *)

(* A sequence without repetitions has as many elements as positions.       *)
LEMMA ToSetCardinality ==
  ASSUME NEW s \in Seq(Conns),
         \A i, j \in 1..Len(s) : s[i] = s[j] => i = j
  PROVE  Cardinality(ToSet(s)) = Len(s)
  <1>1. Len(s) \in Nat /\ DOMAIN s = 1..Len(s)
    OBVIOUS
  <1>2. ToSet(s) = {s[i] : i \in 1..Len(s)}
    BY <1>1 DEF ToSet
  <1>3. s \in Bijection(1..Len(s), ToSet(s))
    BY <1>1, <1>2 DEF Bijection, Injection, Surjection, IsInjective
  <1>4. IsFiniteSet(1..Len(s)) /\ Cardinality(1..Len(s)) = Len(s)
    BY <1>1, FS_Interval
  <1> QED
    BY <1>3, <1>4, FS_Bijection DEF ExistsBijection

(* A step that leaves the array alone and takes no thread back before the  *)
(* end of creg_register is a stuttering step, or one thread gives up.      *)
LEMMA KeepsOrGivesUp ==
  ASSUME UNCHANGED clients, NEW t \in Conns, NEW to,
         pc \in [Conns -> ServicePCs], pc' = [pc EXCEPT ![t] = to],
         to \in Unregistered => pc[t] \in Unregistered
  PROVE  [Bounded!Next]_(Bounded!vars)
  <1>1. CASE pc[t] \in Unregistered /\ to \notin Unregistered
    <2>1. t \in At(Unregistered) /\ At(Unregistered)' = At(Unregistered) \ {t}
      BY <1>1 DEF At
    <2>2. Bounded!GiveUp(t)
      BY <2>1 DEF Bounded!GiveUp
    <2> QED
      BY <2>2 DEF Bounded!Next
  <1>2. CASE ~(pc[t] \in Unregistered /\ to \notin Unregistered)
    <2>1. At(Unregistered)' = At(Unregistered)
      BY <1>2, AtSame
    <2> QED
      BY <2>1 DEF Bounded!vars
  <1> QED
    BY <1>1, <1>2

(* Initially all connections are yet to come.                              *)
LEMMA BoundedInit == Init => Bounded!Init
  <1> SUFFICES ASSUME Init PROVE Bounded!Init
    OBVIOUS
  <1>1. At(Unregistered) = Conns
    BY DEF Init, At, Unregistered
  <1>2. ToSet(clients) = {}
    BY DEF Init, ToSet
  <1> QED
    BY <1>1, <1>2 DEF Bounded!Init

(* Every step of main, the service threads and their environment is a step *)
(* of the bounded registry, or none.                                       *)
LEMMA BoundedStep == IInv /\ [Next]_vars => [Bounded!Next]_(Bounded!vars)
  <1> SUFFICES ASSUME IInv, [Next]_vars PROVE [Bounded!Next]_(Bounded!vars)
    OBVIOUS
  <1>0. /\ pc \in [Conns -> ServicePCs] /\ clients \in Seq(Conns)
        /\ PendingAccepted /\ RegistryExact /\ SlotAccounting
        /\ length \in Nat /\ login_queue \in Nat
    BY DEF IInv, TypeOK, length
  <1> USE DEF Goto, MainGoto, regVars, mainVars
  <1>1. CASE UNCHANGED <<clients, pc>>
    BY <1>1 DEF Bounded!vars, At
  <1>2. CASE CreateThread
    <2>1. /\ UNCHANGED clients /\ pending \in Conns
          /\ pc' = [pc EXCEPT ![pending] = "check_length"]
          /\ pc[pending] \in Unregistered
      BY <1>0, <1>2 DEF CreateThread, PendingAccepted, Unregistered
    <2> QED
      BY <1>0, <2>1, KeepsOrGivesUp
  <1>3. ASSUME NEW t \in Conns, AcceptConn(t)
        PROVE  [Bounded!Next]_(Bounded!vars)
    <2>1. /\ UNCHANGED clients /\ pc' = [pc EXCEPT ![t] = "accepted"]
          /\ pc[t] \in Unregistered
      BY <1>3 DEF AcceptConn, Unregistered
    <2> QED
      BY <1>0, <2>1, KeepsOrGivesUp
  <1>4. ASSUME NEW t \in Conns,
               \/ CheckLength(t) \/ CheckNo(t) \/ ReserveSlot(t)
               \/ CloseConn(t) \/ ReceiveEof(t) \/ ReleaseSlot(t)
               \/ PostIfEmpty(t) \/ UnlockRegistry(t) \/ UseFreed(t)
        PROVE  [Bounded!Next]_(Bounded!vars)
    <2>1. UNCHANGED clients
      BY <1>4 DEF CheckLength, CheckNo, ReserveSlot, CloseConn, ReceiveEof,
                  ReleaseSlot, PostIfEmpty, UnlockRegistry, UseFreed
    <2>2. \E to : /\ pc' = [pc EXCEPT ![t] = to]
                  /\ to \in Unregistered => pc[t] \in Unregistered
      BY <1>4 DEF CheckLength, CheckNo, ReserveSlot, CloseConn, ReceiveEof,
                  ReleaseSlot, PostIfEmpty, UnlockRegistry, UseFreed,
                  Unregistered, UsesRegistry
    <2> QED
      BY <1>0, <2>1, <2>2, KeepsOrGivesUp
  <1>5. ASSUME NEW t \in Conns, AddClient(t)
        PROVE  [Bounded!Next]_(Bounded!vars)
    <2>1. ~freed /\ pc[t] = "register" /\ clients' = Append(clients, t)
          /\ pc' = [pc EXCEPT ![t] = "serving"]
      BY <1>5 DEF AddClient
    <2>2. t \in At(Unregistered) /\ At(Unregistered)' = At(Unregistered) \ {t}
      BY <1>0, <2>1 DEF At, Unregistered
    <2>3. ToSet(clients)' = ToSet(clients) \cup {t}
      BY <1>0, <2>1, AppendToSet
    <2>4. Cardinality(ToSet(clients)) < MAX_CLIENTS
      <3>1. Cardinality(ToSet(clients)) = length
        BY <1>0, <2>1, ToSetCardinality DEF RegistryExact, length
      <3>2. Cardinality(At({"register"})) # 0
        <4>1. t \in At({"register"})
          BY <2>1 DEF At
        <4> QED
          BY <4>1, AtFinite, FS_EmptySet
      <3> QED
        BY <1>0, <2>1, <3>1, <3>2, AtFinite, MaxClientsAssumption
        DEF SlotAccounting
    <2>5. Bounded!Cardinality(ToSet(clients)) = Cardinality(ToSet(clients))
      BY DEF Bounded!Cardinality, Cardinality
    <2>6. Bounded!Join(t)
      BY <2>2, <2>3, <2>4, <2>5 DEF Bounded!Join
    <2> QED
      BY <2>6 DEF Bounded!Next
  <1>6. ASSUME NEW t \in Conns, RemoveClient(t)
        PROVE  [Bounded!Next]_(Bounded!vars)
    <2>1. PICK k \in 1..length : clients[k] = t /\ clients' = RemoveAt(clients, k)
      BY <1>6 DEF RemoveClient
    <2>2. ~freed /\ pc[t] = "unregister"
          /\ pc' = [pc EXCEPT ![t] = "post_login_queue"]
      BY <1>6 DEF RemoveClient
    <2>3. At(Unregistered)' = At(Unregistered)
      BY <1>0, <2>2, AtSame DEF Unregistered
    <2>4. ToSet(clients)' = ToSet(clients) \ {t}
      BY <1>0, <2>1, <2>2, RemoveAtProperties DEF RegistryExact, length
    <2>5. t \in ToSet(clients)
      BY <1>0, <2>1 DEF ToSet, length
    <2>6. Bounded!Leave(t)
      BY <2>3, <2>4, <2>5 DEF Bounded!Leave
    <2> QED
      BY <2>6 DEF Bounded!Next
  <1>7. CASE \/ EnterAccept \/ BeginTerminate \/ creg_shutdown_all
             \/ WaitForEmptyRead \/ WaitForEmptySem \/ creg_fini \/ Exit
             \/ Sighup \/ SighupInterruptsWait
             \/ \E t \in Conns : HangUp(t)
    BY <1>1, <1>7
    DEF EnterAccept, BeginTerminate, creg_shutdown_all, WaitForEmptyRead,
        WaitForEmptySem, creg_fini, Exit, Sighup, SighupInterruptsWait, HangUp
  <1>8. UNCHANGED vars => UNCHANGED <<clients, pc>>
    BY DEF vars
  <1> QED
    BY <1>1, <1>2, <1>3, <1>4, <1>5, <1>6, <1>7, <1>8
    DEF Next, Main, Environment, Service, Exited

(* The array, the unlocked tests of length and no, login_queue and the     *)
(* mutex together implement the bounded registry: clients join once, while *)
(* there is room, and leave one at a time, also while main shuts the       *)
(* server down and frees the registry.                                     *)
THEOREM RegistryImplementsBounded == Spec => ImplementsBounded
  BY BoundedInit, BoundedStep, RegistryInvariant, PTL
  DEF Spec, ImplementsBounded, Bounded!Spec
=============================================================================
