-------------------------- MODULE InvitationsProofs --------------------------
(***************************************************************************)
(* Invitations for every set of clients and of INVITATION objects: ids,    *)
(* lists, states and reference counts.                                     *)
(***************************************************************************)
EXTENDS Invitations, FiniteSetTheorems, SequenceTheorems,
        WellFoundedInduction, TLAPS

Node       == [id : Ids, inv : Invs]
GameStates == {"none", "playing", "over", "resigned"}
Objects    == [state : States \cup {"none", "freed"},
               source : Clients \cup {None}, target : Clients \cup {None},
               game : GameStates, refs : 0..2]

IdsOf(s)  == {n.id : n \in ToSet(s)}
InvsOf(s) == {n.inv : n \in ToSet(s)}

(* The lists of the clients in which an invitation is.                     *)
Holders(i) == {c \in Clients : i \in Listed(c)}

-----------------------------------------------------------------------------
(* The inductive invariant.                                                *)

(* No two nodes of a list have the same id, or the same invitation.        *)
Distinct(s) ==
  \A j, k \in 1..Len(s) : s[j].id = s[k].id \/ s[j].inv = s[k].inv => j = k

(* A list s with the ids u in use.                                         *)
GoodList(s, u) ==
  /\ s \in Seq(Node)
  /\ Distinct(s)
  /\ u = IdsOf(s)
  /\ Cardinality(u) = Len(s)
  /\ Cardinality(InvsOf(s)) = Len(s)

Lists == \A c \in Clients : GoodList(list[c], used[c])

(* InvitationRefs and BothSides, also after a freed object has been used.  *)
Counted ==
  \A i \in Invs :
    /\ inv[i].refs = Cardinality(Holders(i))
    /\ i \in Live <=> Holders(i) # {}

TwoSides ==
  \A i \in Live :
    /\ inv[i].source \in Clients /\ inv[i].target \in Clients
    /\ inv[i].source # inv[i].target
    /\ Holders(i) \subseteq Sides(i)
    /\ inv[i].state \in {"OPEN", "ACCEPTED"} => Holders(i) = Sides(i)

(* What a thread has remembered goes with the place where it is.           *)
ArgState ==
  \A c \in Clients :
    /\ pc[c] = "lookup" => arg[c] \in Lookups
    /\ pc[c] = "unref_invitee" => arg[c] \in Clients
    /\ pc[c] = "invite" => arg[c] \in Clients \ {c}
    /\ pc[c] = "walk" => arg[c] \in Invs \cup {None}
    /\ pc[c] = "logout_op" => arg[c] \in Visits
    /\ pc[c] = "shift" => arg[c] \in [slot : Slots] /\ arg[c].slot <= length

(* One thread at a time is in creg_unregister, and a client that is in the *)
(* array is there once and has not been through it.                        *)
ArrayState ==
  /\ \A c, d \in Clients :
       pc[c] \in {"shift", "unref_self"} /\ pc[d] \in {"shift", "unref_self"} =>
         c = d
  /\ \A c \in Clients : \A k \in Found(c) :
       /\ Found(c) = {k}
       /\ pc[c] \notin {"shift", "unref_self", "gone"}

(* The clients that inv_unref still has to look at.                        *)
ReleaseState ==
  release.step # "none" => release.source \in Clients /\ release.target \in Clients

(* IdsUnique needs Lists: removal takes one id because no other node has   *)
(* it, and the next id exists because a list has no invitation twice.      *)
(* ClientRefs needs ArrayState: a client that creg_lookup finds still has  *)
(* the registry's reference.                                               *)
IInv ==
  /\ TypeOK
  /\ Lists
  /\ Counted
  /\ TwoSides
  /\ GameGoesWithState
  /\ ReleaseState
  /\ ArgState
  /\ ArrayState
  /\ ClientRefs
-----------------------------------------------------------------------------
(* Sets and lists.                                                         *)

(* Sets of invitations, of clients and of ids are finite.                  *)
LEMMA Finite ==
  /\ \A S \in SUBSET Invs : IsFiniteSet(S) /\ Cardinality(S) \in Nat
  /\ \A S \in SUBSET Clients : IsFiniteSet(S) /\ Cardinality(S) \in Nat
  /\ \A S \in SUBSET Ids : IsFiniteSet(S) /\ Cardinality(S) \in Nat
  /\ Cardinality(Ids) = Cardinality(Invs)
<1>1. \A S \in SUBSET Invs : IsFiniteSet(S) /\ Cardinality(S) \in Nat
  BY InvsAssumption, FS_Subset, FS_CardinalityType
<1>2. \A S \in SUBSET Clients : IsFiniteSet(S) /\ Cardinality(S) \in Nat
  BY ClientsAssumption, FS_Subset, FS_CardinalityType
<1>3. Cardinality(Invs) \in Nat
  BY <1>1
<1>4. IsFiniteSet(Ids) /\ Cardinality(Ids) = Cardinality(Invs)
  <2> DEFINE n == Cardinality(Invs) - 1
  <2>1. n \in Int /\ (IF 0 > n THEN 0 ELSE n - 0 + 1) = n + 1
    BY <1>3
  <2>2. IsFiniteSet(0..n) /\ Cardinality(0..n) = n + 1
    BY <2>1, FS_Interval
  <2> QED  BY <1>3, <2>2 DEF Ids
<1>5. \A S \in SUBSET Ids : IsFiniteSet(S) /\ Cardinality(S) \in Nat
  BY <1>4, FS_Subset, FS_CardinalityType
<1> QED  BY <1>1, <1>2, <1>4, <1>5

(* One more element is counted as one more, one less as one less.          *)
LEMMA CountChange ==
  ASSUME NEW S, IsFiniteSet(S), NEW x
  PROVE  /\ x \notin S => Cardinality(S \cup {x}) = Cardinality(S) + 1
         /\ x \in S => Cardinality(S \ {x}) = Cardinality(S) - 1
         /\ IsFiniteSet(S \cup {x}) /\ IsFiniteSet(S \ {x})
  BY FS_AddElement, FS_RemoveElement

(* A set of numbers that is not empty has a least element.                 *)
LEMMA LeastElement ==
  ASSUME NEW S \in SUBSET Nat, S # {}
  PROVE  \E x \in S : \A y \in S : x <= y
<1> DEFINE R == OpToRel(<, Nat)
<1>1. IsWellFoundedOn(R, Nat)
  BY NatLessThanWellFounded
<1>2. \A x, y \in Nat : <<y, x>> \in R <=> y < x
  BY DEF OpToRel
<1> HIDE DEF R
<1>3. PICK x \in S : \A y \in S : ~(<<y, x>> \in R)
  BY <1>1, WFMin
<1>4. \A y \in S : ~(y < x)
  BY <1>2, <1>3, Zenon
<1> QED  BY <1>3, <1>4

(* What a sequence of nodes holds.                                         *)
LEMMA NodeFacts ==
  ASSUME NEW s \in Seq(Node)
  PROVE  /\ ToSet(s) = {s[k] : k \in 1..Len(s)}
         /\ \A k \in 1..Len(s) : /\ s[k] \in Node
                                 /\ s[k].id \in IdsOf(s) /\ s[k].inv \in InvsOf(s)
         /\ IdsOf(s) \subseteq Ids /\ InvsOf(s) \subseteq Invs
         /\ \A i \in InvsOf(s) : \E k \in 1..Len(s) : s[k].inv = i
         /\ \A i \in IdsOf(s) : \E k \in 1..Len(s) : s[k].id = i
<1>1. ToSet(s) = {s[k] : k \in 1..Len(s)}
  BY DEF ToSet
<1>2. \A k \in 1..Len(s) : s[k] \in Node
  OBVIOUS
<1>3. \A n \in Node : n.id \in Ids /\ n.inv \in Invs
  BY DEF Node
<1> QED  BY <1>1, <1>2, <1>3 DEF IdsOf, InvsOf

(* A node is removed from a list.                                          *)
LEMMA RemoveNode ==
  ASSUME NEW s, NEW u, GoodList(s, u), NEW k \in 1..Len(s)
  PROVE  /\ GoodList(RemoveAt(s, k), u \ {s[k].id})
         /\ InvsOf(RemoveAt(s, k)) = InvsOf(s) \ {s[k].inv}
<1> DEFINE t == RemoveAt(s, k)
           m == Len(s)
<1>1. s \in Seq(Node) /\ Distinct(s) /\ m \in Nat /\ k \in Nat /\ k \in 1..m
  BY DEF GoodList
<1>2. /\ t \in Seq(Node) /\ Len(t) = m - 1
      /\ \A j \in 1..(m - 1) : t[j] = IF j < k THEN s[j] ELSE s[j + 1]
  <2> DEFINE a == SubSeq(s, 1, k - 1)
             b == SubSeq(s, k + 1, m)
  <2>0. \A j \in 1..m : s[j] \in Node
    BY <1>1
  <2>1. /\ a \in Seq(Node) /\ Len(a) = k - 1
        /\ \A j \in 1..(k - 1) : a[j] = s[j]
    <3>1. \A j \in 1..(k - 1) : s[j] \in Node
      BY <1>1, <2>0
    <3> QED  BY <1>1, <3>1, SubSeqProperties
  <2>2. /\ b \in Seq(Node) /\ Len(b) = m - k
        /\ \A j \in 1..(m - k) : b[j] = s[k + j]
    <3>1. \A j \in (k + 1)..m : s[j] \in Node
      BY <1>1, <2>0
    <3>2. k + 1 \in Int /\ m \in Int /\ (m - (k + 1)) + 1 = m - k
          /\ \A j \in 1..(m - k) : ((k + 1) + j) - 1 = k + j
      BY <1>1
    <3>3. /\ b \in Seq(Node)
          /\ Len(b) = IF k + 1 <= m THEN (m - (k + 1)) + 1 ELSE 0
          /\ \A j \in 1..((m - (k + 1)) + 1) : b[j] = s[((k + 1) + j) - 1]
      BY <3>1, <3>2, SubSeqProperties
    <3> HIDE DEF b, m
    <3>4. Len(b) = m - k
      BY <1>1, <3>3
    <3>5. ASSUME NEW j \in 1..(m - k)  PROVE b[j] = s[k + j]
      BY <3>2, <3>3
    <3> QED  BY <3>3, <3>4, <3>5
  <2>3. t = a \o b
    BY DEF RemoveAt
  <2> HIDE DEF a, b, t
  <2>4. t \in Seq(Node) /\ Len(t) = Len(a) + Len(b)
    BY <2>1, <2>2, <2>3, ConcatProperties
  <2>5. ASSUME NEW j \in 1..(m - 1)  PROVE t[j] = IF j < k THEN s[j] ELSE s[j + 1]
    <3>1. CASE j < k
      BY <1>1, <2>1, <2>2, <2>3, <3>1, ConcatProperties
    <3>2. CASE j >= k
      <4>1. j - (k - 1) \in 1..(m - k) /\ k + (j - (k - 1)) = j + 1
        BY <1>1, <3>2
      <4>2. t[j] = b[j - (k - 1)]
        BY <1>1, <2>1, <2>2, <2>3, <3>2, ConcatProperties
      <4>3. b[j - (k - 1)] = s[j + 1]
        <5> DEFINE l == j - (k - 1)
        <5>1. b[l] = s[k + l]
          BY <2>2, <4>1
        <5> QED  BY <4>1, <5>1
      <4>4. ~(j < k)
        BY <1>1, <3>2
      <4> QED  BY <4>2, <4>3, <4>4
    <3> QED  BY <1>1, <3>1, <3>2
  <2> QED  BY <1>1, <2>1, <2>2, <2>4, <2>5
<1> HIDE DEF t
<1>3. \A j \in 1..m : j # k => \E l \in 1..Len(t) : t[l] = s[j]
  <2> SUFFICES ASSUME NEW j \in 1..m, j # k  PROVE \E l \in 1..Len(t) : t[l] = s[j]
    OBVIOUS
  <2>1. CASE j < k
    <3>1. j \in 1..(m - 1)
      BY <1>1, <2>1
    <3> QED  BY <1>2, <2>1, <3>1
  <2>2. CASE j > k
    <3>1. j - 1 \in 1..(m - 1) /\ ~(j - 1 < k) /\ (j - 1) + 1 = j
      BY <1>1, <2>2
    <3> QED  BY <1>2, <3>1
  <2> QED  BY <1>1, <2>1, <2>2
<1>4. \A l \in 1..Len(t) : \E j \in 1..m : j # k /\ t[l] = s[j]
  <2> SUFFICES ASSUME NEW l \in 1..(m - 1)
               PROVE  \E j \in 1..m : j # k /\ t[l] = s[j]
    BY <1>2
  <2>1. l \in 1..m /\ l + 1 \in 1..m
    BY <1>1
  <2> QED  BY <1>1, <1>2, <2>1
<1>5. Distinct(t)
  <2> SUFFICES ASSUME NEW j \in 1..(m - 1), NEW l \in 1..(m - 1),
                      t[j].id = t[l].id \/ t[j].inv = t[l].inv
               PROVE  j = l
    BY <1>2 DEF Distinct
  <2>1. PICK p \in 1..m : t[j] = s[p] /\ p = IF j < k THEN j ELSE j + 1
    BY <1>1, <1>2
  <2>2. PICK q \in 1..m : t[l] = s[q] /\ q = IF l < k THEN l ELSE l + 1
    BY <1>1, <1>2
  <2>3. p = q
    BY <1>1, <2>1, <2>2 DEF Distinct
  <2> QED  BY <1>1, <2>1, <2>2, <2>3
<1>6. IdsOf(t) = IdsOf(s) \ {s[k].id} /\ InvsOf(t) = InvsOf(s) \ {s[k].inv}
  <2>1. \A j \in 1..m : j # k => s[j].id # s[k].id /\ s[j].inv # s[k].inv
    BY <1>1 DEF Distinct
  <2>2. IdsOf(t) \subseteq IdsOf(s) \ {s[k].id}
        /\ InvsOf(t) \subseteq InvsOf(s) \ {s[k].inv}
    <3> SUFFICES ASSUME NEW l \in 1..Len(t)
                 PROVE  /\ t[l].id \in IdsOf(s) \ {s[k].id}
                        /\ t[l].inv \in InvsOf(s) \ {s[k].inv}
      BY <1>2, NodeFacts
    <3> QED  BY <1>1, <1>4, <2>1, NodeFacts
  <2>3. ASSUME NEW x \in IdsOf(s) \ {s[k].id}  PROVE x \in IdsOf(t)
    <3>1. PICK j \in 1..m : s[j].id = x
      BY <1>1, NodeFacts
    <3> QED  BY <1>2, <1>3, <3>1, NodeFacts
  <2>4. ASSUME NEW x \in InvsOf(s) \ {s[k].inv}  PROVE x \in InvsOf(t)
    <3>1. PICK j \in 1..m : s[j].inv = x
      BY <1>1, NodeFacts
    <3> QED  BY <1>2, <1>3, <3>1, NodeFacts
  <2> QED  BY <2>2, <2>3, <2>4
<1>7. /\ u = IdsOf(s) /\ Cardinality(u) = m /\ Cardinality(InvsOf(s)) = m
      /\ s[k].id \in u /\ s[k].inv \in InvsOf(s)
  BY <1>1, NodeFacts DEF GoodList
<1>8. Cardinality(u \ {s[k].id}) = m - 1
  BY <1>1, <1>7, NodeFacts, Finite, CountChange
<1>9. Cardinality(InvsOf(s) \ {s[k].inv}) = m - 1
  BY <1>1, <1>7, NodeFacts, Finite, CountChange
<1> QED  BY <1>2, <1>5, <1>6, <1>7, <1>8, <1>9 DEF GoodList, t

(* A node with a new id is put at the head of a list.                      *)
LEMMA AddNode ==
  ASSUME NEW s, NEW u, GoodList(s, u), NEW x \in Ids \ u,
         NEW i \in Invs \ InvsOf(s)
  PROVE  /\ GoodList(<<[id |-> x, inv |-> i]>> \o s, u \cup {x})
         /\ InvsOf(<<[id |-> x, inv |-> i]>> \o s) = InvsOf(s) \cup {i}
<1> DEFINE n == [id |-> x, inv |-> i]
           t == <<n>> \o s
           m == Len(s)
<1>1. s \in Seq(Node) /\ Distinct(s) /\ m \in Nat /\ n \in Node /\ u = IdsOf(s)
  BY DEF GoodList, Node
<1>2. /\ t \in Seq(Node) /\ Len(t) = m + 1 /\ t[1] = n
      /\ \A j \in 1..m : t[j + 1] = s[j]
  <2>1. <<n>> \in Seq(Node) /\ Len(<<n>>) = 1 /\ <<n>>[1] = n
    BY <1>1
  <2> HIDE DEF n
  <2>2. /\ t \in Seq(Node) /\ Len(t) = 1 + m
        /\ \A j \in 1..(1 + m) : t[j] = IF j <= 1 THEN <<n>>[j] ELSE s[j - 1]
    BY <1>1, <2>1, ConcatProperties
  <2> HIDE DEF t
  <2>3. ASSUME NEW j \in 1..m  PROVE t[j + 1] = s[j]
    <3>1. j + 1 \in 1..(1 + m) /\ ~(j + 1 <= 1) /\ (j + 1) - 1 = j
      BY <1>1
    <3> QED  BY <2>2, <3>1
  <2> QED  BY <1>1, <2>1, <2>2, <2>3
<1>3. n.id = x /\ n.inv = i
  OBVIOUS
<1> HIDE DEF n, t
<1>4. \A l \in 1..Len(t) : l = 1 \/ (l - 1 \in 1..m /\ t[l] = s[l - 1])
  <2> SUFFICES ASSUME NEW l \in 1..(m + 1), l # 1
               PROVE  l - 1 \in 1..m /\ t[l] = s[l - 1]
    BY <1>2
  <2>1. l - 1 \in 1..m /\ (l - 1) + 1 = l
    BY <1>1
  <2> QED  BY <1>2, <2>1
<1>5. \A j \in 1..m : s[j].id # x /\ s[j].inv # i
  BY <1>1, NodeFacts
<1>6. Distinct(t)
  <2> SUFFICES ASSUME NEW j \in 1..Len(t), NEW l \in 1..Len(t),
                      t[j].id = t[l].id \/ t[j].inv = t[l].inv
               PROVE  j = l
    BY DEF Distinct
  <2>1. CASE j = 1 \/ l = 1
    BY <1>2, <1>3, <1>4, <1>5, <2>1
  <2>2. CASE j # 1 /\ l # 1
    <3>1. /\ j - 1 \in 1..m /\ l - 1 \in 1..m
          /\ t[j] = s[j - 1] /\ t[l] = s[l - 1]
      BY <1>4, <2>2
    <3>2. ASSUME NEW p \in 1..m, NEW q \in 1..m,
                 s[p].id = s[q].id \/ s[p].inv = s[q].inv
          PROVE  p = q
      BY <1>1, <3>2 DEF Distinct
    <3>3. j - 1 = l - 1
      BY <3>1, <3>2
    <3> QED  BY <1>1, <1>2, <3>3
  <2> QED  BY <2>1, <2>2
<1>7. IdsOf(t) = u \cup {x} /\ InvsOf(t) = InvsOf(s) \cup {i}
  <2>1. 1 \in 1..Len(t) /\ \A j \in 1..m : j + 1 \in 1..Len(t)
    BY <1>1, <1>2
  <2>2. ASSUME NEW l \in 1..Len(t)
        PROVE  t[l].id \in u \cup {x} /\ t[l].inv \in InvsOf(s) \cup {i}
    BY <1>1, <1>2, <1>3, <1>4, NodeFacts
  <2>3. x \in IdsOf(t) /\ i \in InvsOf(t)
    BY <1>2, <1>3, <2>1, NodeFacts
  <2>4. ASSUME NEW y \in u  PROVE y \in IdsOf(t)
    <3>1. PICK j \in 1..m : s[j].id = y
      BY <1>1, NodeFacts
    <3> QED  BY <1>2, <2>1, <3>1, NodeFacts
  <2>5. ASSUME NEW y \in InvsOf(s)  PROVE y \in InvsOf(t)
    <3>1. PICK j \in 1..m : s[j].inv = y
      BY <1>1, NodeFacts
    <3> QED  BY <1>2, <2>1, <3>1, NodeFacts
  <2>6. ASSUME NEW y \in IdsOf(t)  PROVE y \in u \cup {x}
    <3>1. PICK l \in 1..Len(t) : t[l].id = y
      BY <1>2, NodeFacts
    <3> QED  BY <2>2, <3>1
  <2>7. ASSUME NEW y \in InvsOf(t)  PROVE y \in InvsOf(s) \cup {i}
    <3>1. PICK l \in 1..Len(t) : t[l].inv = y
      BY <1>2, NodeFacts
    <3> QED  BY <2>2, <3>1
  <2> QED  BY <2>3, <2>4, <2>5, <2>6, <2>7
<1>8. /\ Cardinality(u) = m /\ Cardinality(InvsOf(s)) = m
      /\ IsFiniteSet(u) /\ IsFiniteSet(InvsOf(s))
  BY <1>1, NodeFacts, Finite DEF GoodList
<1>9. Cardinality(u \cup {x}) = m + 1 /\ Cardinality(InvsOf(s) \cup {i}) = m + 1
  BY <1>8, CountChange
<1> QED  BY <1>2, <1>6, <1>7, <1>9 DEF GoodList, n, t

(* A client that does not list all invitations has an id left, and         *)
(* get_available_id returns one.                                           *)
LEMMA IdLeft ==
  ASSUME NEW c \in Clients, GoodList(list[c], used[c]),
         NEW i \in Invs \ Listed(c)
  PROVE  get_available_id(c) \in Ids \ used[c]
<1> DEFINE s == list[c]
           free == Ids \ used[c]
<1>1. s \in Seq(Node) /\ used[c] \subseteq Ids /\ InvsOf(s) \subseteq Invs
      /\ Cardinality(used[c]) = Cardinality(InvsOf(s))
  BY NodeFacts DEF GoodList
<1>2. i \notin InvsOf(s)
  BY DEF Listed, InvsOf
<1> HIDE DEF s
<1>3. Cardinality(InvsOf(s)) # Cardinality(Invs)
  BY <1>1, <1>2, InvsAssumption, FS_Subset
<1>4. free # {}
  <2>1. used[c] # Ids
    BY <1>1, <1>3, Finite
  <2> QED  BY <1>1, <2>1
<1>5. free \subseteq Nat
  <2>1. Cardinality(Invs) \in Nat
    BY Finite
  <2> QED  BY <2>1 DEF Ids
<1>6. \E x \in free : \A y \in free : x <= y
  BY <1>4, <1>5, LeastElement
<1> QED  BY <1>6 DEF get_available_id
-----------------------------------------------------------------------------
(* What the operations on an invitation do.                                *)

(* The list of a client, as the model's operators see it.                  *)
LEMMA ListedFacts ==
  ASSUME Lists, NEW c \in Clients
  PROVE  /\ Listed(c) = InvsOf(list[c]) /\ Listed(c) \subseteq Invs
         /\ list[c] \in Seq(Node)
         /\ \A i \in Listed(c) : /\ Position(c, i) \in 1..Len(list[c])
                                 /\ list[c][Position(c, i)].inv = i
<1>1. Listed(c) = InvsOf(list[c])
  BY DEF Listed, InvsOf
<1>2. list[c] \in Seq(Node)
  BY DEF Lists, GoodList
<1>3. Listed(c) \subseteq Invs
  BY <1>1, <1>2, NodeFacts
<1>4. ASSUME NEW i \in Listed(c)
      PROVE  \E k \in 1..Len(list[c]) : list[c][k].inv = i
  BY <1>1, <1>2, NodeFacts
<1>5. ASSUME NEW i \in Listed(c)
      PROVE  /\ Position(c, i) \in 1..Len(list[c])
             /\ list[c][Position(c, i)].inv = i
  BY <1>4 DEF Position
<1> QED  BY <1>1, <1>2, <1>3, <1>5

(* What a client lists is alive and has the client as one of its sides.    *)
LEMMA HeldFacts ==
  ASSUME IInv, NEW c \in Clients, NEW i \in Listed(c)
  PROVE  /\ i \in Live /\ i \in Invs /\ i # None /\ inv[i] \in Objects
         /\ c \in Sides(i) /\ Sides(i) = {c, Opponent(c, i)}
         /\ Sides(i) \subseteq Clients
<1>1. i \in Invs /\ c \in Holders(i)
  BY ListedFacts DEF IInv, Holders
<1>2. i \in Live
  BY <1>1 DEF IInv, Counted
<1>3. i # None /\ inv[i] \in Objects
  BY <1>1, InvsAssumption DEF IInv, TypeOK, Objects, GameStates
<1>4. Holders(i) \subseteq Sides(i) /\ Sides(i) \subseteq Clients
  BY <1>2 DEF IInv, TwoSides, Sides
<1>5. c \in Sides(i)
  BY <1>1, <1>4
<1> QED  BY <1>1, <1>2, <1>3, <1>4, <1>5 DEF Sides, Opponent

(* client_get_invitation returns an invitation of the client, or none.     *)
LEMMA GetFacts ==
  ASSUME Lists, NEW c \in Clients, NEW id
  PROVE  \/ client_get_invitation(c, id) = None
         \/ client_get_invitation(c, id) \in Listed(c)
<1>1. ASSUME NEW n \in ToSet(list[c])  PROVE n.inv \in Listed(c)
  BY DEF Listed
<1> QED  BY <1>1 DEF client_get_invitation

(* The states that an invitation may be in together with its game.         *)
Matching(st, g) ==
  /\ st = "OPEN" => g = "none"
  /\ st = "ACCEPTED" => g # "none"
  /\ st = "CLOSED" => g # "playing"

(* A change of state and game that goes forward.                           *)
Legal(i, st, g) ==
  /\ st \in {"ACCEPTED", "CLOSED"} /\ g \in GameStates
  /\ Matching(st, g)
  /\ inv[i].state = "CLOSED" => st = "CLOSED"
  /\ inv[i].game = "over" => g \in {"over", "resigned"}
  /\ inv[i].game = "resigned" => g = "resigned"

(* An operation keeps the invitation in the lists, or takes it out of some *)
(* of its sides': of both, unless it is CLOSED.                            *)
Keeps(i, st, g) == i \in Live /\ Legal(i, st, g) /\ Set(i, st, g)

Removes(i, S, st, g) ==
  /\ i \in Live /\ Legal(i, st, g) /\ OpSemFree
  /\ S \subseteq Sides(i) /\ \E c \in S : c \in Holders(i)
  /\ st # "CLOSED" => S = Sides(i)
  /\ \E by \in Clients : Unlist(by, i, S, st, g)

Changes ==
  \/ Nothing
  \/ \E i \in Invs, st \in States, g \in GameStates : Keeps(i, st, g)
  \/ \E i \in Invs, S \in SUBSET Clients, st \in States, g \in GameStates :
       Removes(i, S, st, g)

(* The state and the game of what a client lists match.                    *)
LEMMA StateFacts ==
  ASSUME IInv, NEW i \in Live
  PROVE  /\ Matching(inv[i].state, inv[i].game)
         /\ inv[i].state \in States /\ inv[i].game \in GameStates
  BY DEF IInv, Matching, GameGoesWithState, Live, TypeOK, GameStates

(* What it takes to remove an invitation that c lists.                     *)
LEMMA RemovesFacts ==
  ASSUME IInv, NEW c \in Clients, NEW i \in Listed(c), NEW S,
         S = {c, inv[i].source} \/ S = {c, inv[i].target} \/ S = Sides(i),
         NEW st, NEW g, Legal(i, st, g), st = "CLOSED" \/ S = Sides(i),
         OpSemFree, Unlist(c, i, S, st, g)
  PROVE  Changes
<1>1. /\ i \in Live /\ i \in Invs /\ c \in Sides(i) /\ Sides(i) \subseteq Clients
      /\ c \in Holders(i)
  BY HeldFacts DEF Holders
<1>2. S \subseteq Sides(i) /\ c \in S /\ S \in SUBSET Clients
  BY <1>1 DEF Sides
<1>3. Removes(i, S, st, g)
  BY <1>1, <1>2 DEF Removes
<1>4. st \in States /\ g \in GameStates
  BY DEF Legal, States
<1> QED  BY <1>1, <1>2, <1>3, <1>4 DEF Changes

(* What it takes to change one in its lists.                               *)
LEMMA KeepsFacts ==
  ASSUME IInv, NEW c \in Clients, NEW i \in Listed(c),
         NEW st, NEW g, Legal(i, st, g), Set(i, st, g)
  PROVE  Changes
<1>1. i \in Live /\ i \in Invs
  BY HeldFacts
<1>2. Keeps(i, st, g)
  BY <1>1 DEF Keeps
<1>3. st \in States /\ g \in GameStates
  BY DEF Legal, States
<1> QED  BY <1>1, <1>2, <1>3 DEF Changes

(* Revocation and declination close an OPEN invitation.                    *)
LEMMA RevokeChanges ==
  ASSUME IInv, OpSemFree, NEW c \in Clients, NEW id,
         client_revoke_invitation(c, id) \/ client_decline_invitation(c, id)
  PROVE  Changes
<1> DEFINE i == client_get_invitation(c, id)
<1>1. i = None \/ i \in Listed(c)
  BY GetFacts DEF IInv
<1>2. CASE ~Closable(i, "OPEN")
  BY <1>2 DEF client_revoke_invitation, client_decline_invitation, Changes
<1>3. CASE Closable(i, "OPEN")
  <2>1. i \in Listed(c) /\ i \in Live /\ inv[i].state = "OPEN"
    BY <1>1, <1>3, HeldFacts DEF Closable
  <2>2. Legal(i, "CLOSED", inv[i].game)
    BY <2>1, StateFacts DEF Legal, Matching, GameStates
  <2>3. \/ Unlist(c, i, {c, inv[i].target}, "CLOSED", inv[i].game)
        \/ Unlist(c, i, {c, inv[i].source}, "CLOSED", inv[i].game)
        \/ Set(i, "CLOSED", inv[i].game)
    BY <1>3 DEF client_revoke_invitation, client_decline_invitation
  <2> HIDE DEF i
  <2> QED  BY <2>1, <2>2, <2>3, RemovesFacts, KeepsFacts
<1> QED  BY <1>2, <1>3

(* Acceptance starts the game of an OPEN one.                              *)
LEMMA AcceptChanges ==
  ASSUME IInv, OpSemFree, NEW c \in Clients, NEW id,
         client_accept_invitation(c, id)
  PROVE  Changes
<1> DEFINE i == client_get_invitation(c, id)
<1>1. i = None \/ i \in Listed(c)
  BY GetFacts DEF IInv
<1>2. CASE Nothing
  BY <1>2 DEF Changes
<1>3. CASE ~Nothing
  <2>1. Closable(i, "OPEN") /\ Set(i, "ACCEPTED", "playing")
    BY <1>3 DEF client_accept_invitation
  <2>2. i \in Listed(c) /\ i \in Live /\ inv[i].state = "OPEN"
    BY <1>1, <2>1, HeldFacts DEF Closable
  <2>3. Legal(i, "ACCEPTED", "playing")
    BY <2>2, StateFacts DEF Legal, Matching, GameStates
  <2> HIDE DEF i
  <2> QED  BY <2>1, <2>2, <2>3, KeepsFacts
<1> QED  BY <1>2, <1>3

(* Resignation closes an ACCEPTED one.                                     *)
LEMMA ResignChanges ==
  ASSUME IInv, OpSemFree, NEW c \in Clients, NEW id, client_resign_game(c, id)
  PROVE  Changes
<1> DEFINE i == client_get_invitation(c, id)
<1>1. i = None \/ i \in Listed(c)
  BY GetFacts DEF IInv
<1>2. CASE ~Closable(i, "ACCEPTED")
  BY <1>2 DEF client_resign_game, Changes
<1>3. CASE Closable(i, "ACCEPTED")
  <2>1. i \in Listed(c) /\ i \in Live /\ inv[i].state = "ACCEPTED"
    BY <1>1, <1>3, HeldFacts DEF Closable
  <2>2. PICK g \in {"resigned"} \cup ({inv[i].game} \cap {"over"}) :
          \/ Unlist(c, i, {c, Opponent(c, i)}, "CLOSED", g)
          \/ Set(i, "CLOSED", g)
    BY <1>3 DEF client_resign_game
  <2> HIDE DEF i
  <2>3. Legal(i, "CLOSED", g)
    BY <2>1, StateFacts DEF Legal, Matching, GameStates
  <2>4. {c, Opponent(c, i)} = Sides(i)
    BY <2>1, HeldFacts
  <2>5. CASE Unlist(c, i, {c, Opponent(c, i)}, "CLOSED", g)
    BY <2>1, <2>3, <2>4, <2>5, RemovesFacts
  <2>6. CASE Set(i, "CLOSED", g)
    BY <2>1, <2>3, <2>6, KeepsFacts
  <2> QED  BY <2>2, <2>5, <2>6
<1> QED  BY <1>2, <1>3

(* A move goes on with a game or ends it.                                  *)
LEMMA MoveChanges ==
  ASSUME IInv, OpSemFree, NEW c \in Clients, NEW id, client_make_move(c, id)
  PROVE  Changes
<1> DEFINE i == client_get_invitation(c, id)
<1>1. i = None \/ i \in Listed(c)
  BY GetFacts DEF IInv
<1>2. CASE i = None \/ inv[i].game \in {"none", "resigned"}
  BY <1>2 DEF client_make_move, Changes
<1>3. CASE ~(i = None \/ inv[i].game \in {"none", "resigned"})
  <2>1. i \in Listed(c) /\ i \in Live /\ inv[i].game \in {"playing", "over"}
    BY <1>1, <1>3, HeldFacts, StateFacts DEF GameStates
  <2>2. PICK over \in (IF inv[i].game = "over" THEN {TRUE} ELSE BOOLEAN) :
          \/ over /\ Unlist(c, i, {c, Opponent(c, i)}, inv[i].state, "over")
          \/ Set(i, inv[i].state, IF over THEN "over" ELSE "playing")
    BY <1>3 DEF client_make_move
  <2> HIDE DEF i
  <2>3. {c, Opponent(c, i)} = Sides(i)
    BY <2>1, HeldFacts
  <2>4. inv[i].game = "over" => over
    BY <2>2
  <2>5. inv[i].state \in {"ACCEPTED", "CLOSED"}
        /\ (inv[i].state = "CLOSED" => inv[i].game = "over")
    BY <2>1, StateFacts DEF Matching, States
  <2>6. CASE over
    <3>1. Legal(i, inv[i].state, "over")
      BY <2>1, <2>5 DEF Legal, Matching, GameStates
    <3>2. \/ Unlist(c, i, {c, Opponent(c, i)}, inv[i].state, "over")
          \/ Set(i, inv[i].state, "over")
      BY <2>2, <2>6
    <3>3. CASE Unlist(c, i, {c, Opponent(c, i)}, inv[i].state, "over")
      BY <2>1, <2>3, <3>1, <3>3, RemovesFacts
    <3>4. CASE Set(i, inv[i].state, "over")
      BY <2>1, <3>1, <3>4, KeepsFacts
    <3> QED  BY <3>2, <3>3, <3>4
  <2>7. CASE ~over
    <3>1. Legal(i, inv[i].state, "playing")
      BY <2>1, <2>4, <2>5, <2>7 DEF Legal, Matching, GameStates
    <3>2. Set(i, inv[i].state, "playing")
      BY <2>2, <2>7
    <3> QED  BY <2>1, <3>1, <3>2, KeepsFacts
  <2> QED  BY <2>6, <2>7
<1> QED  BY <1>2, <1>3
-----------------------------------------------------------------------------
(* Such a change keeps the part of the invariant about invitations.        *)

CoreTypes ==
  /\ inv \in [Invs -> Objects]
  /\ list \in [Clients -> Seq(Node)]
  /\ used \in [Clients -> SUBSET Ids]
  /\ ref \in [Clients -> Int]
  /\ freed \in SUBSET Clients
  /\ release \in Releases
  /\ ub \in {"none", "client", "node"}

Core ==
  /\ CoreTypes /\ Lists /\ Counted /\ TwoSides /\ GameGoesWithState
  /\ ReleaseState

(* The clients in whose lists i is are finitely many.                      *)
LEMMA HoldersFinite ==
  ASSUME NEW i, NEW S
  PROVE  /\ IsFiniteSet(Holders(i)) /\ Cardinality(Holders(i)) \in Nat
         /\ IsFiniteSet(Holders(i) \ S) /\ Cardinality(Holders(i) \ S) \in Nat
         /\ IsFiniteSet(Holders(i) \cap S) /\ Cardinality(Holders(i) \cap S) \in Nat
         /\ Cardinality(Holders(i) \ S) =
              Cardinality(Holders(i)) - Cardinality(Holders(i) \cap S)
<1> DEFINE A == Holders(i) \ S
           B == Holders(i) \cap S
<1>1. Holders(i) \subseteq Clients /\ A \subseteq Clients /\ B \subseteq Clients
  BY DEF Holders
<1>2. /\ IsFiniteSet(Holders(i)) /\ Cardinality(Holders(i)) \in Nat
      /\ IsFiniteSet(A) /\ Cardinality(A) \in Nat
      /\ IsFiniteSet(B) /\ Cardinality(B) \in Nat
  BY <1>1, Finite
<1>3. Cardinality(A) = Cardinality(Holders(i)) - Cardinality(B)
  BY <1>2, FS_Difference
<1> QED  BY <1>2, <1>3 DEF A, B

(* What becomes of the lists when i is taken out of those of S.            *)
LEMMA RemovesLists ==
  ASSUME IInv, NEW i \in Invs, NEW S \in SUBSET Clients, NEW st, NEW g,
         NEW by, Unlist(by, i, S, st, g)
  PROVE  /\ Lists' /\ list' \in [Clients -> Seq(Node)]
         /\ used' \in [Clients -> SUBSET Ids]
         /\ \A j \in Invs : Holders(j)' = IF j = i THEN Holders(i) \ S ELSE Holders(j)
<1> DEFINE H == {c \in S : i \in Listed(c)}
           L(d) == IF d \in H THEN RemoveAt(list[d], Position(d, i)) ELSE list[d]
           U(d) == IF d \in H THEN purge_id(d, i) ELSE used[d]
<1>0. Lists
  BY DEF IInv
<1>1. /\ list' = [d \in Clients |-> L(d)]
      /\ used' = [d \in Clients |-> U(d)]
  BY DEF Unlist
<1>2. ASSUME NEW d \in Clients
      PROVE  /\ GoodList(L(d), U(d))
             /\ InvsOf(L(d)) = IF d \in H THEN Listed(d) \ {i} ELSE Listed(d)
  <2>1. GoodList(list[d], used[d]) /\ Listed(d) = InvsOf(list[d])
    BY <1>0, ListedFacts DEF Lists
  <2>2. CASE d \in H
    <3> DEFINE k == Position(d, i)
    <3>1. i \in Listed(d) /\ k \in 1..Len(list[d]) /\ list[d][k].inv = i
      BY <1>0, <2>2, ListedFacts
    <3>2. L(d) = RemoveAt(list[d], k) /\ U(d) = used[d] \ {list[d][k].id}
      BY <2>2 DEF purge_id
    <3> HIDE DEF k, H, L, U
    <3>3. /\ GoodList(RemoveAt(list[d], k), used[d] \ {list[d][k].id})
          /\ InvsOf(RemoveAt(list[d], k)) = InvsOf(list[d]) \ {list[d][k].inv}
      BY <2>1, <3>1, RemoveNode
    <3> QED  BY <2>1, <2>2, <3>1, <3>2, <3>3
  <2>3. CASE d \notin H
    BY <2>1, <2>3
  <2> QED  BY <2>2, <2>3
<1> HIDE DEF L, U, H
<1>3. \A d \in Clients : list'[d] = L(d) /\ used'[d] = U(d)
  BY <1>1
<1>4. ASSUME NEW d \in Clients
      PROVE  /\ GoodList(list'[d], used'[d])
             /\ list'[d] \in Seq(Node) /\ used'[d] \subseteq Ids
             /\ Listed(d)' = IF d \in H THEN Listed(d) \ {i} ELSE Listed(d)
  <2>1. GoodList(list'[d], used'[d])
    BY <1>2, <1>3
  <2>2. list'[d] \in Seq(Node) /\ used'[d] = IdsOf(list'[d])
    BY <2>1 DEF GoodList
  <2>3. used'[d] \subseteq Ids
    BY <2>2, NodeFacts
  <2>4. Listed(d)' = InvsOf(list'[d])
    BY DEF Listed, InvsOf
  <2> QED  BY <1>2, <1>3, <2>1, <2>2, <2>3, <2>4
<1>5. Lists'
  BY <1>4 DEF Lists
<1>6. list' \in [Clients -> Seq(Node)]
  BY <1>1, <1>3, <1>4
<1>7. used' \in [Clients -> SUBSET Ids]
  BY <1>1, <1>3, <1>4
<1>8. ASSUME NEW j \in Invs
      PROVE  Holders(j)' = IF j = i THEN Holders(i) \ S ELSE Holders(j)
  BY <1>4 DEF Holders, H
<1> QED  BY <1>5, <1>6, <1>7, <1>8

(* inv_unref has decremented the count of the source.                      *)
Releasing(by, i, S) ==
  [step |-> "test_source", by |-> by, source |-> inv[i].source,
   target |-> inv[i].target, users |-> S]

(* What becomes of the objects.                                            *)
LEMMA RemovesObjects ==
  ASSUME IInv, NEW i \in Invs, NEW S \in SUBSET Clients,
         NEW st \in States, NEW g \in GameStates, NEW by,
         Unlist(by, i, S, st, g)
  PROVE  LET left == Cardinality(Holders(i) \ S)
         IN  /\ left \in 0..2 /\ (left = 0 <=> Holders(i) \ S = {})
             /\ inv' \in [Invs -> Objects]
             /\ inv'[i] = [inv[i] EXCEPT !.state = IF left = 0 THEN "freed" ELSE st,
                                         !.game = g, !.refs = left]
             /\ \A j \in Invs : j # i => inv'[j] = inv[j]
             /\ ref' = IF left = 0 THEN [ref EXCEPT ![inv[i].source] = @ - 1]
                                   ELSE ref
             /\ release' = IF left = 0 THEN Releasing(by, i, S) ELSE release
             /\ freed' = freed
             /\ ub' \in {ub, "client"}
<1> DEFINE left == Cardinality(Holders(i) \ S)
<1>1. {c \in S : i \in Listed(c)} = Holders(i) \cap S
  BY DEF Holders
<1>2. inv[i].refs = Cardinality(Holders(i)) /\ inv[i].refs \in 0..2
  BY DEF IInv, Counted, TypeOK
<1>3. inv_unref(i, Holders(i) \cap S) = left
  BY <1>2, HoldersFinite DEF inv_unref
<1>4. left \in 0..2
  <2>1. /\ Cardinality(Holders(i) \cap S) \in Nat /\ left \in Nat
        /\ left = inv[i].refs - Cardinality(Holders(i) \cap S)
    BY <1>2, HoldersFinite
  <2> HIDE DEF left
  <2> QED  BY <1>2, <2>1
<1>5. left = 0 <=> Holders(i) \ S = {}
  BY HoldersFinite, FS_EmptySet
<1>6. /\ inv' = [inv EXCEPT ![i] =
                   [@ EXCEPT !.state = IF left = 0 THEN "freed" ELSE st,
                             !.game = g, !.refs = left]]
      /\ ref' = IF left = 0 THEN [ref EXCEPT ![inv[i].source] = @ - 1] ELSE ref
      /\ release' = IF left = 0 THEN Releasing(by, i, S) ELSE release
      /\ freed' = freed
      /\ ub' \in {ub, "client"}
  BY <1>1, <1>3 DEF Unlist, Releasing
<1> HIDE DEF left
<1>7. inv \in [Invs -> Objects]
  BY DEF IInv, TypeOK, Objects, GameStates
<1>8. inv' \in [Invs -> Objects]
  <2>1. [inv[i] EXCEPT !.state = IF left = 0 THEN "freed" ELSE st,
                       !.game = g, !.refs = left] \in Objects
    BY <1>4, <1>7 DEF Objects
  <2> QED  BY <1>6, <1>7, <2>1
<1> QED  BY <1>4, <1>5, <1>6, <1>7, <1>8 DEF left

(* A removal keeps the invariant.                                          *)
LEMMA RemovesCore ==
  ASSUME IInv, NEW i \in Invs, NEW S \in SUBSET Clients,
         NEW st \in States, NEW g \in GameStates, Removes(i, S, st, g)
  PROVE  Core'
<1> DEFINE left == Cardinality(Holders(i) \ S)
<1>0. PICK by \in Clients : Unlist(by, i, S, st, g)
  BY DEF Removes
<1>1. /\ i \in Live /\ Legal(i, st, g) /\ S \subseteq Sides(i)
      /\ st # "CLOSED" => S = Sides(i)
  BY DEF Removes
<1>2. /\ Lists' /\ list' \in [Clients -> Seq(Node)]
      /\ used' \in [Clients -> SUBSET Ids]
      /\ \A j \in Invs : Holders(j)' = IF j = i THEN Holders(i) \ S ELSE Holders(j)
  BY <1>0, RemovesLists
<1>3. /\ left \in 0..2 /\ (left = 0 <=> Holders(i) \ S = {})
      /\ inv' \in [Invs -> Objects]
      /\ inv'[i] = [inv[i] EXCEPT !.state = IF left = 0 THEN "freed" ELSE st,
                                  !.game = g, !.refs = left]
      /\ \A j \in Invs : j # i => inv'[j] = inv[j]
      /\ ref' = IF left = 0 THEN [ref EXCEPT ![inv[i].source] = @ - 1] ELSE ref
      /\ release' = IF left = 0 THEN Releasing(by, i, S) ELSE release
      /\ freed' = freed
      /\ ub' \in {ub, "client"}
  BY <1>0, RemovesObjects
<1>4. inv[i] \in Objects
  BY DEF IInv, TypeOK, Objects, GameStates
<1>5. /\ inv'[i].state = IF left = 0 THEN "freed" ELSE st
      /\ inv'[i].game = g /\ inv'[i].refs = left
      /\ inv'[i].source = inv[i].source /\ inv'[i].target = inv[i].target
  BY <1>3, <1>4 DEF Objects
<1>6. Holders(i)' = Holders(i) \ S /\ \A j \in Invs : j # i => Holders(j)' = Holders(j)
  BY <1>2
<1>7. Cardinality(Holders(i)') = left
  BY <1>6
<1> HIDE DEF left
<1>8. Sides(i) \subseteq Clients
  BY <1>1 DEF IInv, TwoSides, Sides
<1>9. CoreTypes' /\ ReleaseState'
  <2>1. ref' \in [Clients -> Int]
    <3>1. ref \in [Clients -> Int] /\ inv[i].source \in Clients
      BY <1>1 DEF IInv, TypeOK, TwoSides
    <3>2. [ref EXCEPT ![inv[i].source] = @ - 1] \in [Clients -> Int]
      BY <3>1
    <3> QED  BY <1>3, <3>1, <3>2
  <2>2. freed' \in SUBSET Clients
    BY <1>3 DEF IInv, TypeOK
  <2>3. ub' \in {"none", "client", "node"}
    BY <1>3 DEF IInv, TypeOK
  <2>4. release' \in Releases /\ ReleaseState'
    <3>1. inv[i].source \in Clients /\ inv[i].target \in Clients
      BY <1>1 DEF IInv, TwoSides
    <3>2. Releasing(by, i, S) \in Releases
      BY <3>1 DEF Releasing, Releases
    <3>3. CASE left = 0
      BY <1>3, <3>1, <3>2, <3>3 DEF ReleaseState, Releasing
    <3>4. CASE left # 0
      BY <1>3, <3>4 DEF IInv, TypeOK, ReleaseState
    <3> QED  BY <3>3, <3>4
  <2> QED  BY <1>2, <1>3, <2>1, <2>2, <2>3, <2>4 DEF CoreTypes
<1>10. /\ \A j \in Invs : j # i => (j \in Live' <=> j \in Live)
       /\ i \in Live' <=> left # 0
  BY <1>3, <1>5 DEF Live, States
<1>11. Counted'
  <2> SUFFICES ASSUME NEW j \in Invs
               PROVE  /\ inv'[j].refs = Cardinality(Holders(j)')
                      /\ j \in Live' <=> Holders(j)' # {}
    BY DEF Counted
  <2>1. CASE j = i
    BY <1>3, <1>5, <1>6, <1>7, <1>10, <2>1
  <2>2. CASE j # i
    BY <1>3, <1>6, <1>10, <2>2 DEF IInv, Counted
  <2> QED  BY <2>1, <2>2
<1>12. TwoSides'
  <2> SUFFICES ASSUME NEW j \in Live'
               PROVE  /\ inv'[j].source \in Clients /\ inv'[j].target \in Clients
                      /\ inv'[j].source # inv'[j].target
                      /\ Holders(j)' \subseteq {inv'[j].source, inv'[j].target}
                      /\ inv'[j].state \in {"OPEN", "ACCEPTED"} =>
                           Holders(j)' = {inv'[j].source, inv'[j].target}
    BY DEF TwoSides, Sides
  <2>0. j \in Invs
    BY DEF Live
  <2>1. CASE j = i
    <3>1. left # 0 /\ Holders(i) \ S # {} /\ Holders(i) \subseteq Sides(i)
      BY <1>1, <1>3, <1>10, <2>1 DEF IInv, TwoSides
    <3>2. st = "CLOSED"
      BY <1>1, <3>1
    <3> QED  BY <1>1, <1>5, <1>6, <2>1, <3>1, <3>2 DEF IInv, TwoSides, Sides
  <2>2. CASE j # i
    <3>1. j \in Live /\ inv'[j] = inv[j] /\ Holders(j)' = Holders(j)
      BY <1>3, <1>6, <1>10, <2>0, <2>2
    <3> QED  BY <3>1 DEF IInv, TwoSides, Sides
  <2> QED  BY <2>1, <2>2
<1>13. GameGoesWithState'
  <2> SUFFICES ASSUME NEW j \in Live'
               PROVE  Matching(inv'[j].state, inv'[j].game)
    BY DEF GameGoesWithState, Matching
  <2>0. j \in Invs
    BY DEF Live
  <2>1. CASE j = i
    BY <1>1, <1>5, <1>10, <2>1 DEF Legal
  <2>2. CASE j # i
    <3>1. j \in Live /\ inv'[j] = inv[j]
      BY <1>3, <1>10, <2>0, <2>2
    <3> QED  BY <3>1, StateFacts
  <2> QED  BY <2>1, <2>2
<1> QED  BY <1>2, <1>9, <1>11, <1>12, <1>13 DEF Core

(* A change of an invitation in its lists keeps the invariant.             *)
LEMMA KeepsCore ==
  ASSUME IInv, NEW i \in Invs, NEW st \in States, NEW g \in GameStates,
         Keeps(i, st, g)
  PROVE  Core' /\ Live' = Live /\ UNCHANGED <<ref, freed, release>>
         /\ \A j \in Invs : inv'[j].source = inv[j].source
                            /\ inv'[j].target = inv[j].target
<1>1. /\ i \in Live /\ Legal(i, st, g)
      /\ inv' = [inv EXCEPT ![i].state = st, ![i].game = g]
      /\ ub' \in {ub, "client"}
      /\ UNCHANGED <<list, used, ref, freed, release>>
  BY DEF Keeps, Set
<1>2. inv \in [Invs -> Objects]
  BY DEF IInv, TypeOK, Objects, GameStates
<1>3. /\ inv'[i].state = st /\ inv'[i].game = g
      /\ inv'[i].refs = inv[i].refs
      /\ inv'[i].source = inv[i].source /\ inv'[i].target = inv[i].target
      /\ \A j \in Invs : j # i => inv'[j] = inv[j]
  BY <1>1, <1>2 DEF Objects
<1>4. inv' \in [Invs -> Objects]
  <2>1. inv' = [inv EXCEPT ![i] = [inv[i] EXCEPT !.state = st, !.game = g]]
    BY <1>1, <1>2
  <2>2. [inv[i] EXCEPT !.state = st, !.game = g] \in Objects
    BY <1>2 DEF Objects
  <2> QED  BY <1>2, <2>1, <2>2
<1>5. CoreTypes' /\ ReleaseState'
  <2>1. ub' \in {"none", "client", "node"}
    BY <1>1 DEF IInv, TypeOK
  <2>2. ReleaseState'
    BY <1>1 DEF IInv, ReleaseState
  <2> QED  BY <1>1, <1>4, <2>1, <2>2 DEF IInv, TypeOK, CoreTypes, Node
<1>6. Lists' /\ \A j \in Invs : Holders(j)' = Holders(j)
  BY <1>1 DEF IInv, Lists, Holders, Listed
<1>7. Live' = Live
  BY <1>1, <1>3 DEF Live
<1>8. Counted'
  <2> SUFFICES ASSUME NEW j \in Invs
               PROVE  /\ inv'[j].refs = Cardinality(Holders(j)')
                      /\ j \in Live' <=> Holders(j)' # {}
    BY DEF Counted
  <2>1. inv'[j].refs = inv[j].refs
    BY <1>3
  <2> QED  BY <1>6, <1>7, <2>1 DEF IInv, Counted
<1>9. TwoSides'
  <2> SUFFICES ASSUME NEW j \in Live
               PROVE  /\ inv'[j].source \in Clients /\ inv'[j].target \in Clients
                      /\ inv'[j].source # inv'[j].target
                      /\ Holders(j)' \subseteq {inv'[j].source, inv'[j].target}
                      /\ inv'[j].state \in {"OPEN", "ACCEPTED"} =>
                           Holders(j)' = {inv'[j].source, inv'[j].target}
    BY <1>7 DEF TwoSides, Sides
  <2>1. j \in Invs /\ Holders(j)' = Holders(j)
    BY <1>6 DEF Live
  <2>2. inv'[j].source = inv[j].source /\ inv'[j].target = inv[j].target
    BY <1>3, <2>1
  <2>3. inv'[j].state \in {"OPEN", "ACCEPTED"} =>
          inv[j].state \in {"OPEN", "ACCEPTED"}
    BY <1>1, <1>3, <2>1, StateFacts DEF Legal, States
  <2> QED  BY <2>1, <2>2, <2>3 DEF IInv, TwoSides, Sides
<1>10. GameGoesWithState'
  <2> SUFFICES ASSUME NEW j \in Live
               PROVE  Matching(inv'[j].state, inv'[j].game)
    BY <1>7 DEF GameGoesWithState, Matching
  <2>1. j \in Invs
    BY DEF Live
  <2> QED  BY <1>1, <1>3, <2>1, StateFacts DEF Legal
<1> QED  BY <1>1, <1>3, <1>5, <1>6, <1>7, <1>8, <1>9, <1>10 DEF Core

(* Whatever an operation changes, the part about invitations is kept.      *)
LEMMA ChangesCore ==
  ASSUME IInv, Changes
  PROVE  Core'
<1>1. CASE Nothing
  <2>1. UNCHANGED <<inv, list, used, ref, freed, release, ub>>
    BY <1>1 DEF Nothing, invVars
  <2>2. CoreTypes
    BY DEF IInv, TypeOK, CoreTypes, Objects, GameStates, Node
  <2>3. CoreTypes' /\ ReleaseState'
    BY <2>1, <2>2 DEF CoreTypes, IInv, ReleaseState
  <2>4. Lists' /\ Counted'
    BY <2>1 DEF IInv, Lists, Counted, Holders, Listed, Live
  <2>5. TwoSides' /\ GameGoesWithState'
    BY <2>1 DEF IInv, TwoSides, GameGoesWithState, Holders, Listed, Live, Sides
  <2> QED  BY <2>3, <2>4, <2>5 DEF Core
<1>2. CASE \E i \in Invs, st \in States, g \in GameStates : Keeps(i, st, g)
  BY <1>2, KeepsCore
<1>3. CASE \E i \in Invs, S \in SUBSET Clients, st \in States, g \in GameStates :
             Removes(i, S, st, g)
  BY <1>3, RemovesCore
<1> QED  BY <1>1, <1>2, <1>3 DEF Changes

-----------------------------------------------------------------------------
(* References to clients.                                                  *)

Registered(c) == IF pc[c] \in {"unref_self", "gone"} THEN 0 ELSE 1
Made(c)       == {i \in Live : inv[i].source = c}
Got(c)        == {i \in Live : inv[i].target = c}
LookingUp(c)  == {d \in Clients : pc[d] = "lookup" /\ arg[d].client = c}

(* The reference that inv_unref has not given back yet.                    *)
Pending(c) ==
  IF release.step \in {"test_source", "unref_target"} /\ release.target = c
    THEN 1 ELSE 0

(* The references of invitations.                                          *)
Owed(c) == Cardinality(Made(c)) + Cardinality(Got(c)) + Pending(c)

(* The references of c are accounted for.                                  *)
Balanced(c) ==
  /\ c \in freed => ref[c] = 0
  /\ ref[c] = Registered(c) + Owed(c) + Cardinality(LookingUp(c))

(* These are all numbers.                                                  *)
LEMMA CountTypes ==
  ASSUME NEW c
  PROVE  /\ Owed(c) \in Nat /\ Cardinality(LookingUp(c)) \in Nat
         /\ Registered(c) \in Nat /\ Pending(c) \in Nat
         /\ IsFiniteSet(Made(c)) /\ Cardinality(Made(c)) \in Nat
         /\ IsFiniteSet(Got(c)) /\ Cardinality(Got(c)) \in Nat
         /\ IsFiniteSet(LookingUp(c))
<1>1. /\ Made(c) \in SUBSET Invs /\ Got(c) \in SUBSET Invs
      /\ LookingUp(c) \in SUBSET Clients
  BY DEF Made, Got, LookingUp, Live
<1>2. /\ IsFiniteSet(Made(c)) /\ Cardinality(Made(c)) \in Nat
      /\ IsFiniteSet(Got(c)) /\ Cardinality(Got(c)) \in Nat
      /\ IsFiniteSet(LookingUp(c)) /\ Cardinality(LookingUp(c)) \in Nat
  BY <1>1, Finite
<1> QED  BY <1>2 DEF Owed, Registered, Pending

(* The same after a step.                                                  *)
LEMMA CountTypesNext ==
  ASSUME NEW c
  PROVE  /\ Owed(c)' \in Nat /\ Cardinality(LookingUp(c)') \in Nat
         /\ Registered(c)' \in Nat /\ Pending(c)' \in Nat
<1>1. /\ Made(c)' \in SUBSET Invs /\ Got(c)' \in SUBSET Invs
      /\ LookingUp(c)' \in SUBSET Clients
  BY DEF Made, Got, LookingUp, Live
<1>2. /\ Cardinality(Made(c)') \in Nat /\ Cardinality(Got(c)') \in Nat
      /\ Cardinality(LookingUp(c)') \in Nat
  BY <1>1, Finite
<1> QED  BY <1>2 DEF Owed, Registered, Pending

(* ClientRefs in these terms.                                              *)
LEMMA RefsForm ==
  /\ ClientRefs <=> (Defined /\ ~misled => \A c \in Clients : Balanced(c))
  /\ ClientRefs' <=> ((Defined /\ ~misled)' => \A c \in Clients : Balanced(c)')
<1>1. ASSUME NEW c \in Clients
      PROVE  Registered(c) + Owed(c) + Cardinality(LookingUp(c))
               = Registered(c) + Cardinality(Made(c)) + Cardinality(Got(c))
                   + Cardinality(LookingUp(c)) + Pending(c)
  BY CountTypes DEF Owed
<1>2. ClientRefs <=> (Defined /\ ~misled => \A c \in Clients : Balanced(c))
  BY <1>1 DEF ClientRefs, Balanced, Registered, Made, Got, LookingUp, Pending
<1>3. ASSUME NEW c \in Clients
      PROVE  Registered(c)' + Owed(c)' + Cardinality(LookingUp(c)')
               = Registered(c)' + Cardinality(Made(c)') + Cardinality(Got(c)')
                   + Cardinality(LookingUp(c)') + Pending(c)'
  <2>1. /\ Cardinality(Made(c)') \in Nat /\ Cardinality(Got(c)') \in Nat
    <3>1. Made(c)' \in SUBSET Invs /\ Got(c)' \in SUBSET Invs
      BY DEF Made, Got, Live
    <3> QED  BY <3>1, Finite
  <2> QED  BY <2>1, CountTypesNext DEF Owed
<1>4. ClientRefs' <=> ((Defined /\ ~misled)' => \A c \in Clients : Balanced(c)')
  BY <1>3 DEF ClientRefs, Balanced, Registered, Made, Got, LookingUp, Pending
<1> QED  BY <1>2, <1>4

(* An operation changes the count of a client by as much as the number of  *)
(* invitations that it is a side of, and frees it at 0 only.               *)
Settled(c) ==
  /\ ref'[c] - Owed(c)' = ref[c] - Owed(c)
  /\ c \in freed' => ref'[c] = 0

(* A freed invitation gives its two references back.                       *)
LEMMA RemovesSettle ==
  ASSUME IInv, Defined, ~misled, NEW i \in Invs, NEW S \in SUBSET Clients,
         NEW st \in States, NEW g \in GameStates, Removes(i, S, st, g),
         NEW c \in Clients
  PROVE  Settled(c)
<1> DEFINE left == Cardinality(Holders(i) \ S)
<1>0. PICK by \in Clients : Unlist(by, i, S, st, g)
  BY DEF Removes
<1>1. i \in Live /\ release.step = "none"
  BY DEF Removes, OpSemFree
<1>2. /\ left \in 0..2 /\ (left = 0 <=> Holders(i) \ S = {})
      /\ inv' \in [Invs -> Objects]
      /\ inv'[i] = [inv[i] EXCEPT !.state = IF left = 0 THEN "freed" ELSE st,
                                  !.game = g, !.refs = left]
      /\ \A j \in Invs : j # i => inv'[j] = inv[j]
      /\ ref' = IF left = 0 THEN [ref EXCEPT ![inv[i].source] = @ - 1] ELSE ref
      /\ release' = IF left = 0 THEN Releasing(by, i, S) ELSE release
      /\ freed' = freed
      /\ ub' \in {ub, "client"}
  BY <1>0, RemovesObjects
<1> HIDE DEF left
<1>3. inv[i] \in Objects /\ ref \in [Clients -> Int]
  BY DEF IInv, TypeOK, Objects, GameStates
<1>4. /\ inv'[i].state = IF left = 0 THEN "freed" ELSE st
      /\ \A j \in Invs : inv'[j].source = inv[j].source
                         /\ inv'[j].target = inv[j].target
  BY <1>2, <1>3 DEF Objects
<1>5. Live' = IF left = 0 THEN Live \ {i} ELSE Live
  BY <1>1, <1>2, <1>4 DEF Live, States
<1>6. /\ ref[c] \in Int
      /\ c \in freed => ref[c] = 0
      /\ ref[c] = Registered(c) + Owed(c) + Cardinality(LookingUp(c))
  BY RefsForm DEF IInv, TypeOK, Balanced
<1>7. Pending(c) = 0
      /\ Pending(c)' = IF left = 0 /\ c = inv[i].target THEN 1 ELSE 0
  BY <1>1, <1>2 DEF Pending, Releasing
<1>8. inv[i].source # inv[i].target /\ inv[i].source \in Clients
  BY <1>1 DEF IInv, TwoSides
<1>9. CASE left # 0 \/ c \notin Sides(i)
  <2>1. Made(c)' = Made(c) /\ Got(c)' = Got(c) /\ Pending(c)' = Pending(c)
    BY <1>4, <1>5, <1>7, <1>9 DEF Made, Got, Sides, Live
  <2>2. ref'[c] = ref[c]
    BY <1>2, <1>3, <1>9 DEF Sides
  <2> QED  BY <1>2, <1>6, <2>1, <2>2 DEF Settled, Owed
<1>10. CASE left = 0 /\ c = inv[i].source
  <2>1. Made(c)' = Made(c) \ {i} /\ i \in Made(c) /\ Got(c)' = Got(c)
    BY <1>1, <1>4, <1>5, <1>8, <1>10 DEF Made, Got, Live
  <2>2. Cardinality(Made(c)') = Cardinality(Made(c)) - 1
        /\ Cardinality(Made(c)) # 0
    BY <2>1, CountTypes, CountChange, FS_EmptySet
  <2>3. Owed(c)' = Owed(c) - 1 /\ Owed(c) > 0
    BY <1>7, <1>8, <1>10, <2>1, <2>2, CountTypes DEF Owed
  <2>4. ref'[c] = ref[c] - 1
    BY <1>2, <1>3, <1>10
  <2>5. c \notin freed
    BY <1>6, <2>3, CountTypes
  <2> QED  BY <1>2, <1>6, <2>3, <2>4, <2>5, CountTypes DEF Settled
<1>11. CASE left = 0 /\ c = inv[i].target
  <2>1. Got(c)' = Got(c) \ {i} /\ i \in Got(c) /\ Made(c)' = Made(c)
    BY <1>1, <1>4, <1>5, <1>8, <1>11 DEF Made, Got, Live
  <2>2. Cardinality(Got(c)') = Cardinality(Got(c)) - 1
    BY <2>1, CountTypes, CountChange
  <2>3. Owed(c)' = Owed(c)
    BY <1>7, <1>11, <2>1, <2>2, CountTypes DEF Owed
  <2>4. ref'[c] = ref[c]
    BY <1>2, <1>3, <1>8, <1>11
  <2> QED  BY <1>2, <1>6, <2>3, <2>4 DEF Settled
<1> QED  BY <1>9, <1>10, <1>11 DEF Sides

(* So does any operation on an invitation.                                 *)
LEMMA ChangesSettle ==
  ASSUME IInv, Defined, ~misled, Changes, NEW c \in Clients
  PROVE  Settled(c)
<1>1. /\ ref[c] \in Int /\ (c \in freed => ref[c] = 0) /\ Owed(c) \in Nat
  BY RefsForm, CountTypes DEF IInv, TypeOK, Balanced
<1>2. CASE Nothing
  <2>1. UNCHANGED <<inv, ref, freed, release>>
    BY <1>2 DEF Nothing, invVars
  <2> QED  BY <1>1, <2>1 DEF Settled, Owed, Made, Got, Live, Pending
<1>3. CASE \E i \in Invs, st \in States, g \in GameStates : Keeps(i, st, g)
  <2>1. /\ Live' = Live /\ UNCHANGED <<ref, freed, release>>
        /\ \A j \in Invs : inv'[j].source = inv[j].source
                           /\ inv'[j].target = inv[j].target
    BY <1>3, KeepsCore
  <2>2. Made(c)' = Made(c) /\ Got(c)' = Got(c) /\ Pending(c)' = Pending(c)
    BY <2>1 DEF Made, Got, Live, Pending
  <2> QED  BY <1>1, <2>1, <2>2 DEF Settled, Owed
<1>4. CASE \E i \in Invs, S \in SUBSET Clients, st \in States, g \in GameStates :
             Removes(i, S, st, g)
  BY <1>4, RemovesSettle
<1> QED  BY <1>2, <1>3, <1>4 DEF Changes

-----------------------------------------------------------------------------
(* The threads and the registry.                                           *)

Args == Clients \cup Invs \cup {None} \cup [slot : Slots] \cup Lookups
          \cup Visits

FlowTypes ==
  /\ slots \in [Slots -> Clients \cup {None}]
  /\ length \in 0..Cardinality(Clients)
  /\ misled \in BOOLEAN
  /\ pc \in [Clients -> PCs]
  /\ arg \in [Clients -> Args]
  /\ logout \in Clients \cup {None}

Flow == FlowTypes /\ ArgState /\ ArrayState

(* The parts of the invariant.                                             *)
LEMMA Parts == IInv <=> Core /\ Flow /\ ClientRefs
<1>1. TypeOK <=> CoreTypes /\ FlowTypes
  BY DEF TypeOK, CoreTypes, FlowTypes, Objects, GameStates, Node, Args
<1> QED  BY <1>1 DEF IInv, Core, Flow

(* The same after a step.                                                  *)
LEMMA PartsNext == Core' /\ Flow' /\ ClientRefs' => IInv'
<1>1. CoreTypes' /\ FlowTypes' => TypeOK'
  BY DEF TypeOK, CoreTypes, FlowTypes, Objects, GameStates, Node, Args
<1> QED  BY <1>1 DEF IInv, Core, Flow

(* The references that inv_unref still has to give back are the same.      *)
Steady ==
  /\ release' \in Releases /\ ReleaseState'
  /\ \A e \in Clients : Pending(e)' = Pending(e)

(* That is so in most steps.                                               *)
LEMMA SteadyKept ==
  ASSUME IInv, UNCHANGED release  PROVE Steady
  BY DEF IInv, TypeOK, Steady, ReleaseState, Pending

(* A step that leaves the lists and the objects alone.                     *)
LEMMA CoreStays ==
  ASSUME IInv, UNCHANGED <<inv, list, used>>, ref' \in [Clients -> Int],
         freed' \in SUBSET Clients, release' \in Releases, ReleaseState',
         ub' \in {"none", "client", "node"}
  PROVE  /\ Core'
         /\ \A e \in Clients : Made(e)' = Made(e) /\ Got(e)' = Got(e)
<1>1. CoreTypes /\ Lists /\ Counted /\ TwoSides /\ GameGoesWithState
  BY Parts DEF Core
<1>2. CoreTypes'
  BY <1>1 DEF CoreTypes
<1>3. Lists' /\ Counted'
  BY <1>1 DEF Lists, Counted, Holders, Listed, Live
<1>4. TwoSides' /\ GameGoesWithState'
  BY <1>1 DEF TwoSides, GameGoesWithState, Holders, Listed, Live, Sides
<1>5. ASSUME NEW e \in Clients  PROVE Made(e)' = Made(e) /\ Got(e)' = Got(e)
  BY DEF Made, Got, Live
<1> QED  BY <1>2, <1>3, <1>4, <1>5 DEF Core

(* A step that leaves the invitations alone.                               *)
LEMMA CoreKept ==
  ASSUME IInv, UNCHANGED <<inv, list, used>>, Steady, ref' \in [Clients -> Int],
         freed' \in SUBSET Clients, ub' \in {"none", "client", "node"}
  PROVE  Core' /\ \A e \in Clients : Owed(e)' = Owed(e)
  BY CoreStays DEF Steady, Owed

(* The thread of c goes to another place outside of the registry.          *)
LEMMA MoveOn ==
  ASSUME IInv, NEW c \in Clients, NEW a \in Args,
         NEW to \in {"serving", "invite", "logout", "walk", "logout_op", "unregister"},
         pc[c] \notin {"lookup", "shift", "unref_self", "gone"},
         pc' = [pc EXCEPT ![c] = to], arg' = [arg EXCEPT ![c] = a],
         to = "invite" => a \in Clients \ {c},
         to = "walk" => a \in Invs \cup {None},
         to = "logout_op" => a \in Visits,
         UNCHANGED <<slots, length, misled>>, logout' \in Clients \cup {None}
  PROVE  Flow' /\ \A e \in Clients : /\ Registered(e)' = Registered(e)
                                     /\ LookingUp(e)' = LookingUp(e)
<1>1. FlowTypes /\ ArgState /\ ArrayState
  BY Parts DEF Flow
<1>2. /\ pc'[c] = to /\ arg'[c] = a
      /\ \A d \in Clients : d # c => pc'[d] = pc[d] /\ arg'[d] = arg[d]
  BY <1>1 DEF FlowTypes
<1>3. FlowTypes'
  <2>1. pc' \in [Clients -> PCs]
    BY <1>1 DEF FlowTypes, PCs
  <2>2. arg' \in [Clients -> Args]
    BY <1>1 DEF FlowTypes
  <2> QED  BY <1>1, <2>1, <2>2 DEF FlowTypes
<1>4. ArgState'
  BY <1>1, <1>2 DEF ArgState
<1>5. ArrayState'
  <2>1. \A d \in Clients : Found(d)' = Found(d)
    BY DEF Found
  <2>2. \A d \in Clients : /\ pc'[d] \in {"shift", "unref_self"} => pc'[d] = pc[d]
                           /\ pc'[d] = "gone" => pc'[d] = pc[d]
    BY <1>2
  <2> QED  BY <1>1, <2>1, <2>2 DEF ArrayState
<1>6. ASSUME NEW e \in Clients
      PROVE  Registered(e)' = Registered(e) /\ LookingUp(e)' = LookingUp(e)
  BY <1>2 DEF Registered, LookingUp
<1> QED  BY <1>3, <1>4, <1>5, <1>6 DEF Flow

(* When the counts and what they count are the same, ClientRefs still      *)
(* holds.                                                                  *)
LEMMA RefsKept ==
  ASSUME IInv, Defined' => Defined, misled' = misled,
         \A e \in Clients : /\ Registered(e)' = Registered(e)
                            /\ LookingUp(e)' = LookingUp(e),
         \A e \in Clients :
           Defined' /\ ~misled => /\ e \in freed' => ref'[e] = 0
                                  /\ ref'[e] - Owed(e)' = ref[e] - Owed(e)
                                  /\ ref'[e] \in Int
  PROVE  ClientRefs'
<1> SUFFICES ASSUME Defined', ~misled', NEW e \in Clients  PROVE Balanced(e)'
  BY RefsForm
<1>1. /\ ref[e] = Registered(e) + Owed(e) + Cardinality(LookingUp(e))
      /\ ref[e] \in Int
  BY RefsForm DEF IInv, Balanced, TypeOK
<1>2. /\ e \in freed' => ref'[e] = 0
      /\ ref'[e] - Owed(e)' = ref[e] - Owed(e)
      /\ ref'[e] \in Int
  OBVIOUS
<1>3. ref'[e] = Registered(e) + Owed(e)' + Cardinality(LookingUp(e))
  <2>1. /\ Registered(e) \in Nat /\ Owed(e) \in Nat
        /\ Cardinality(LookingUp(e)) \in Nat /\ Owed(e)' \in Nat
    BY CountTypes, CountTypesNext
  <2> QED  BY <1>1, <1>2, <2>1
<1> QED  BY <1>2, <1>3 DEF Balanced

(* No invitation has been made at first.                                   *)
LEMMA InitIInv == Init => IInv
<1> SUFFICES ASSUME Init  PROVE IInv
  OBVIOUS
<1> USE DEF Init
<1>1. \A i \in Invs : inv[i] = NoInv
  OBVIOUS
<1>2. \A c \in Clients : list[c] = <<>> /\ used[c] = {} /\ ref[c] = 1
                         /\ pc[c] = "serving" /\ arg[c] = None
  OBVIOUS
<1>3. NoInv \in Objects
  BY DEF NoInv, Objects, GameStates
<1>4. CoreTypes /\ ReleaseState
  <2>1. inv \in [Invs -> Objects]
    BY <1>3
  <2>2. list \in [Clients -> Seq(Node)]
    BY EmptySeq
  <2>3. release \in Releases /\ ReleaseState
    BY DEF NoRelease, Releases, ReleaseState
  <2> QED  BY <2>1, <2>2, <2>3 DEF CoreTypes
<1>5. Live = {}
  BY <1>1 DEF Live, NoInv, States
<1>6. ToSet(<<>>) = {} /\ <<>> \in Seq(Node) /\ Len(<<>>) = 0
  BY DEF ToSet
<1>7. IdsOf(<<>>) = {} /\ InvsOf(<<>>) = {}
  BY <1>6 DEF IdsOf, InvsOf
<1>8. Lists
  <2>1. GoodList(<<>>, {})
    <3>1. 1..Len(<<>>) = {}
      BY <1>6
    <3>2. Distinct(<<>>)
      BY <3>1 DEF Distinct
    <3>3. Cardinality({}) = 0
      BY FS_EmptySet
    <3> QED  BY <1>6, <1>7, <3>2, <3>3 DEF GoodList
  <2> QED  BY <1>2, <2>1 DEF Lists
<1>9. \A i : Holders(i) = {}
  BY <1>2, <1>6 DEF Holders, Listed
<1>10. Counted
  BY <1>1, <1>5, <1>9, FS_EmptySet DEF Counted, NoInv
<1>11. TwoSides /\ GameGoesWithState
  BY <1>5 DEF TwoSides, GameGoesWithState
<1>12. Cardinality(Clients) \in Nat
  BY Finite
<1>13. FlowTypes
  <2>1. slots \in [Slots -> Clients \cup {None}]
    OBVIOUS
  <2>2. arg \in [Clients -> Args]
    BY DEF Args
  <2>3. length \in 0..Cardinality(Clients)
    BY <1>12
  <2>4. pc \in [Clients -> PCs]
    BY DEF PCs
  <2> QED  BY <2>1, <2>2, <2>3, <2>4 DEF FlowTypes
<1>14. ArgState
  BY <1>2 DEF ArgState
<1>15. ArrayState
  <2>1. \A j, k \in Slots : slots[j] = slots[k] => j = k
    BY DEF IsInjective
  <2>2. 1..length = Slots
    BY DEF Slots
  <2>3. ASSUME NEW c \in Clients, NEW k \in Found(c)  PROVE Found(c) = {k}
    BY <2>1, <2>2 DEF Found
  <2> QED  BY <1>2, <2>3 DEF ArrayState
<1>16. ClientRefs
  <2> SUFFICES ASSUME NEW c \in Clients  PROVE Balanced(c)
    BY RefsForm
  <2>1. /\ Made(c) = {} /\ Got(c) = {} /\ LookingUp(c) = {} /\ Registered(c) = 1
        /\ Pending(c) = 0
    BY <1>2, <1>5 DEF Made, Got, LookingUp, Registered, Pending, NoRelease
  <2> QED  BY <1>2, <2>1, FS_EmptySet DEF Balanced, Owed
<1> QED  BY <1>4, <1>8, <1>10, <1>11, <1>13, <1>14, <1>15, <1>16, Parts DEF Core, Flow

-----------------------------------------------------------------------------
(* One lemma for each kind of step.                                        *)

(* What a packet, or client_logout, does to one invitation.                *)
LEMMA OperationChanges ==
  ASSUME IInv, NEW c \in Clients, Packet(c) \/ LogoutOp(c)
  PROVE  Changes
<1>0. OpSemFree
  BY DEF Packet, LogoutOp
<1>1. CASE Packet(c)
  <2>1. PICK id \in Ids : \/ client_revoke_invitation(c, id)
                          \/ client_decline_invitation(c, id)
                          \/ client_accept_invitation(c, id)
                          \/ client_resign_game(c, id)
                          \/ client_make_move(c, id)
    BY <1>1 DEF Packet
  <2> QED
    BY <1>0, <2>1, RevokeChanges, AcceptChanges, ResignChanges, MoveChanges
<1>2. CASE LogoutOp(c)
  <2>1. arg[c] \in Visits
    BY <1>2 DEF IInv, ArgState, LogoutOp, At
  <2>2. arg[c].op \in {"resign", "revoke", "decline"}
    BY <2>1 DEF Visits
  <2>3. \/ client_resign_game(c, arg[c].id)
        \/ client_revoke_invitation(c, arg[c].id)
        \/ client_decline_invitation(c, arg[c].id)
    BY <1>2, <2>2 DEF LogoutOp
  <2> QED  BY <1>0, <2>3, RevokeChanges, ResignChanges
<1> QED  BY <1>1, <1>2

(* The packets on invitations and games.                                   *)
LEMMA PacketStep ==
  ASSUME IInv, NEW c \in Clients, Packet(c)
  PROVE  IInv'
<1>1. Defined /\ UNCHANGED <<slots, length, misled, pc, arg, logout>>
  BY DEF Packet, At, regVars
<1>2. Changes
  BY OperationChanges
<1>3. Core'
  BY <1>2, ChangesCore
<1>4. Flow'
  <2>1. FlowTypes /\ ArgState /\ ArrayState
    BY Parts DEF Flow
  <2>2. FlowTypes' /\ ArgState'
    BY <1>1, <2>1 DEF FlowTypes, ArgState
  <2>3. ArrayState'
    BY <1>1, <2>1 DEF ArrayState, Found
  <2> QED  BY <2>2, <2>3 DEF Flow
<1>5. ClientRefs'
  <2>1. \A e \in Clients : Registered(e)' = Registered(e) /\ LookingUp(e)' = LookingUp(e)
    BY <1>1 DEF Registered, LookingUp
  <2>2. \A e \in Clients : ~misled => Settled(e)
    BY <1>1, <1>2, ChangesSettle
  <2>3. \A e \in Clients : ref'[e] \in Int
    BY <1>3 DEF Core, CoreTypes
  <2> QED  BY <1>1, <2>1, <2>2, <2>3, RefsKept DEF Settled
<1> QED  BY <1>3, <1>4, <1>5, PartsNext

(* The call that client_logout makes for a node.                           *)
LEMMA LogoutOpStep ==
  ASSUME IInv, NEW c \in Clients, LogoutOp(c)
  PROVE  IInv'
<1>1. /\ Defined /\ pc[c] = "logout_op" /\ pc' = [pc EXCEPT ![c] = "walk"]
      /\ arg' = [arg EXCEPT ![c] = arg[c].next]
      /\ UNCHANGED <<slots, length, misled, logout>>
  BY DEF LogoutOp, At, regVars
<1>2. arg[c].next \in Invs \cup {None}
  <2>1. arg[c] \in Visits
    BY <1>1 DEF IInv, ArgState
  <2> QED  BY <2>1 DEF Visits
<1>3. Changes
  BY OperationChanges
<1>4. Core'
  BY <1>3, ChangesCore
<1>5. Flow' /\ \A e \in Clients : Registered(e)' = Registered(e)
                                  /\ LookingUp(e)' = LookingUp(e)
  <2>1. arg[c].next \in Args
    BY <1>2 DEF Args
  <2>2. logout' \in Clients \cup {None}
    BY <1>1 DEF IInv, TypeOK
  <2> QED  BY <1>1, <1>2, <2>1, <2>2, MoveOn
<1>6. ClientRefs'
  <2>1. \A e \in Clients : ~misled => Settled(e)
    BY <1>1, <1>3, ChangesSettle
  <2>2. \A e \in Clients : ref'[e] \in Int
    BY <1>4 DEF Core, CoreTypes
  <2> QED  BY <1>1, <1>5, <2>1, <2>2, RefsKept DEF Settled
<1> QED  BY <1>4, <1>5, <1>6, PartsNext

(* A step in which a thread only goes on and remembers something.          *)
LEMMA WalkStep ==
  ASSUME IInv, NEW c \in Clients,
         ReceiveEof(c) \/ BeginLogout(c) \/ VisitNode(c) \/ EndLogout(c)
  PROVE  IInv'
<1>1. /\ Defined
      /\ UNCHANGED <<inv, list, used, ref, freed, slots, length, misled, release>>
      /\ pc[c] \in {"serving", "logout", "walk"}
      /\ logout' \in {logout, c, None} /\ ub' \in {ub, "node"}
  BY DEF ReceiveEof, BeginLogout, VisitNode, EndLogout, At, invVars, regVars
<1>2. TypeOK /\ Lists /\ ArgState /\ arg \in [Clients -> Args]
  BY DEF IInv, TypeOK, Args
<1>3. PICK a \in Args, to \in {"serving", "logout", "walk", "logout_op", "unregister"} :
        /\ pc' = [pc EXCEPT ![c] = to] /\ arg' = [arg EXCEPT ![c] = a]
        /\ to = "walk" => a \in Invs \cup {None}
        /\ to = "logout_op" => a \in Visits
  <2>1. CASE ReceiveEof(c)
    <3>1. pc' = [pc EXCEPT ![c] = "logout"] /\ arg' = [arg EXCEPT ![c] = arg[c]]
      BY <1>2, <2>1 DEF ReceiveEof
    <3> QED  BY <1>2, <3>1
  <2>2. CASE EndLogout(c)
    <3>1. pc' = [pc EXCEPT ![c] = "unregister"] /\ arg' = [arg EXCEPT ![c] = arg[c]]
      BY <1>2, <2>2 DEF EndLogout
    <3> QED  BY <1>2, <3>1
  <2>3. CASE BeginLogout(c)
    <3> DEFINE a == IF list[c] = <<>> THEN None ELSE Head(list[c]).inv
    <3>1. list[c] \in Seq(Node)
      BY <1>2, ListedFacts
    <3>2. list[c] # <<>> => Head(list[c]) \in Node
      BY <3>1, HeadTailProperties
    <3>3. a \in Invs \cup {None} /\ a \in Args
      BY <3>2 DEF Node, Args
    <3>4. pc' = [pc EXCEPT ![c] = "walk"] /\ arg' = [arg EXCEPT ![c] = a]
      BY <2>3 DEF BeginLogout
    <3> QED  BY <3>3, <3>4
  <2>4. CASE VisitNode(c)
    <3>1. CASE arg[c] \notin Listed(c)
      <4>1. pc' = [pc EXCEPT ![c] = "walk"] /\ arg' = [arg EXCEPT ![c] = arg[c]]
        BY <1>2, <2>4, <3>1 DEF VisitNode, At, TypeOK
      <4>2. arg[c] \in Invs \cup {None} /\ arg[c] \in Args
        BY <1>2, <2>4 DEF VisitNode, At, ArgState
      <4> QED  BY <4>1, <4>2
    <3>2. CASE arg[c] \in Listed(c)
      <4> DEFINE k == Position(c, arg[c])
                 next == IF k < Len(list[c]) THEN list[c][k + 1].inv ELSE None
                 op == IF inv[arg[c]].game # "none" THEN "resign"
                       ELSE IF inv[arg[c]].source = c THEN "revoke"
                       ELSE "decline"
                 a == [op |-> op, id |-> list[c][k].id, next |-> next]
      <4>1. k \in 1..Len(list[c]) /\ list[c] \in Seq(Node) /\ Len(list[c]) \in Nat
        BY <1>2, <3>2, ListedFacts
      <4>2. list[c][k].id \in Ids
        <5>1. list[c][k] \in Node
          BY <4>1
        <5> QED  BY <5>1 DEF Node
      <4>3. next \in Invs \cup {None}
        <5> HIDE DEF k
        <5>1. k < Len(list[c]) => list[c][k + 1] \in Node
          BY <4>1
        <5> QED  BY <5>1 DEF Node
      <4>4. a \in Visits
        <5>1. op \in {"resign", "revoke", "decline"}
          OBVIOUS
        <5> HIDE DEF op, next, k
        <5> QED  BY <4>2, <4>3, <5>1 DEF Visits
      <4>5. pc' = [pc EXCEPT ![c] = "logout_op"] /\ arg' = [arg EXCEPT ![c] = a]
        BY <2>4, <3>2 DEF VisitNode
      <4> HIDE DEF a
      <4> QED  BY <4>4, <4>5 DEF Args
    <3> QED  BY <3>1, <3>2
  <2> QED  BY <2>1, <2>2, <2>3, <2>4
<1>4. Core' /\ \A e \in Clients : Owed(e)' = Owed(e)
  <2>1. /\ ref' \in [Clients -> Int] /\ freed' \in SUBSET Clients
        /\ ub' \in {"none", "client", "node"}
    BY <1>1, <1>2 DEF TypeOK
  <2> QED  BY <1>1, <2>1, SteadyKept, CoreKept
<1>5. Flow' /\ \A e \in Clients : Registered(e)' = Registered(e)
                                  /\ LookingUp(e)' = LookingUp(e)
  <2>1. logout' \in Clients \cup {None}
    BY <1>1, <1>2 DEF TypeOK
  <2> QED  BY <1>1, <1>3, <2>1, MoveOn
<1>6. ClientRefs'
  <2>1. \A e \in Clients : ~misled => (e \in freed => ref[e] = 0)
    BY <1>1, RefsForm DEF IInv, Balanced
  <2>2. \A e \in Clients : ref[e] \in Int
    BY <1>2 DEF TypeOK
  <2> QED  BY <1>1, <1>4, <1>5, <2>1, <2>2, RefsKept
<1> QED  BY <1>4, <1>5, <1>6, PartsNext

(* creg_lookup finds d, which has the registry's reference, and adds one.  *)
LEMMA LookupStep ==
  ASSUME IInv, NEW c \in Clients, NEW d \in Clients, creg_lookup(c, d)
  PROVE  IInv'
<1>1. /\ Defined /\ pc[c] = "serving" /\ RegistryUnlocked
      /\ ref' = [ref EXCEPT ![d] = @ + 1]
      /\ pc' = [pc EXCEPT ![c] = "lookup"]
      /\ UNCHANGED <<inv, list, used, freed, slots, length, misled, release, logout, ub>>
  BY DEF creg_lookup, At, invVars, regVars
<1>2. PICK k \in Found(d) : arg' = [arg EXCEPT ![c] = [client |-> d, slot |-> k]]
  BY DEF creg_lookup
<1>3. CoreTypes /\ FlowTypes /\ ArgState /\ ArrayState
  BY Parts DEF Core, Flow
<1>4. k \in Slots
  BY <1>3, Finite DEF Found, Slots, FlowTypes
<1> DEFINE a == [client |-> d, slot |-> k]
<1>5. a \in Lookups /\ a \in Args /\ a.client = d
  BY <1>4 DEF Lookups, Args
<1>6. arg' = [arg EXCEPT ![c] = a]
  BY <1>2
<1> HIDE DEF a
<1>7. /\ pc'[c] = "lookup" /\ arg'[c] = a
      /\ \A e \in Clients : e # c => pc'[e] = pc[e] /\ arg'[e] = arg[e]
  BY <1>1, <1>3, <1>6 DEF FlowTypes
<1>8. Core' /\ \A e \in Clients : Owed(e)' = Owed(e)
  <2>1. /\ ref' \in [Clients -> Int] /\ freed' \in SUBSET Clients
        /\ ub' \in {"none", "client", "node"}
    BY <1>1, <1>3 DEF CoreTypes
  <2> QED  BY <1>1, <2>1, SteadyKept, CoreKept
<1>9. Flow'
  <2>1. FlowTypes'
    <3>1. pc' \in [Clients -> PCs]
      BY <1>1, <1>3 DEF FlowTypes, PCs
    <3>2. arg' \in [Clients -> Args]
      BY <1>3, <1>5, <1>6 DEF FlowTypes
    <3> QED  BY <1>1, <1>3, <3>1, <3>2 DEF FlowTypes
  <2>2. ArgState'
    BY <1>1, <1>3, <1>5, <1>7 DEF ArgState
  <2>3. ArrayState'
    <3>1. \A e \in Clients : Found(e)' = Found(e)
      BY <1>1 DEF Found
    <3>2. \A e \in Clients : /\ pc'[e] \in {"shift", "unref_self"} => pc'[e] = pc[e]
                             /\ pc'[e] = "gone" => pc'[e] = pc[e]
      BY <1>7
    <3> QED  BY <1>3, <3>1, <3>2 DEF ArrayState
  <2> QED  BY <2>1, <2>2, <2>3 DEF Flow
<1>10. ClientRefs'
  <2> SUFFICES ASSUME ~misled, NEW e \in Clients  PROVE Balanced(e)'
    BY <1>1, RefsForm
  <2>1. /\ e \in freed => ref[e] = 0
        /\ ref[e] \in Int
        /\ ref[e] = Registered(e) + Owed(e) + Cardinality(LookingUp(e))
    BY <1>1, <1>3, RefsForm DEF IInv, Balanced, CoreTypes
  <2>2. Registered(e)' = Registered(e)
    BY <1>1, <1>7 DEF Registered
  <2>3. CASE e # d
    <3>1. LookingUp(e)' = LookingUp(e)
      BY <1>1, <1>5, <1>7, <2>3 DEF LookingUp
    <3>2. ref'[e] = ref[e]
      BY <1>1, <1>3, <2>3 DEF CoreTypes
    <3> QED  BY <1>1, <1>8, <2>1, <2>2, <3>1, <3>2 DEF Balanced
  <2>4. CASE e = d
    <3>1. LookingUp(e)' = LookingUp(e) \cup {c} /\ c \notin LookingUp(e)
      BY <1>1, <1>5, <1>7, <2>4 DEF LookingUp
    <3>2. Cardinality(LookingUp(e)') = Cardinality(LookingUp(e)) + 1
      BY <3>1, CountTypes, CountChange
    <3>3. ref'[e] = ref[e] + 1
      BY <1>1, <1>3, <2>4 DEF CoreTypes
    <3>4. Registered(e) = 1
      BY <1>3, <2>4 DEF ArrayState, Registered
    <3>5. e \notin freed'
      BY <1>1, <2>1, <3>4, CountTypes
    <3>6. ref'[e] = Registered(e) + Owed(e) + Cardinality(LookingUp(e)')
      BY <2>1, <3>2, <3>3, CountTypes
    <3> QED  BY <1>8, <2>2, <3>5, <3>6 DEF Balanced
  <2> QED  BY <2>3, <2>4
<1> QED  BY <1>8, <1>9, <1>10, PartsNext

(* It returns what is in the slot, and the reference is given back.        *)
LEMMA UnrefInviteeStep ==
  ASSUME IInv, NEW c \in Clients, UnrefInvitee(c)
  PROVE  IInv'
<1> DEFINE found == slots[arg[c].slot]
<1>1. /\ Defined /\ pc[c] = "lookup"
      /\ misled' = (misled \/ found # arg[c].client)
      /\ arg' = [arg EXCEPT ![c] = found]
      /\ UNCHANGED <<inv, list, used, freed, slots, length, release, logout>>
  BY DEF UnrefInvitee, At, invVars
<1>2. CoreTypes /\ FlowTypes /\ ArgState /\ ArrayState
  BY Parts DEF Core, Flow
<1>3. arg[c] \in Lookups /\ arg[c].client \in Clients /\ arg[c].slot \in Slots
  BY <1>1, <1>2 DEF ArgState, Lookups
<1>4. found \in Clients \cup {None}
  BY <1>2, <1>3 DEF FlowTypes
<1>5. PICK to \in {"serving", "unref_invitee"} :
        /\ pc' = [pc EXCEPT ![c] = to]
        /\ \/ to = "serving" /\ found = None /\ UNCHANGED <<ref, ub>>
           \/ /\ to = "unref_invitee" /\ found \in Clients
              /\ ref' = [ref EXCEPT ![found] = @ - 1]
              /\ ub' = IF found \in freed THEN "client" ELSE ub
  BY <1>4 DEF UnrefInvitee
<1>6. found = None => found # arg[c].client
  BY <1>3, ClientsAssumption
<1> HIDE DEF found
<1>7. /\ pc'[c] = to /\ arg'[c] = found
      /\ \A e \in Clients : e # c => pc'[e] = pc[e] /\ arg'[e] = arg[e]
  BY <1>1, <1>2, <1>5 DEF FlowTypes
<1>8. Core' /\ \A e \in Clients : Owed(e)' = Owed(e)
  <2>1. /\ ref' \in [Clients -> Int] /\ freed' \in SUBSET Clients
        /\ ub' \in {"none", "client", "node"}
    BY <1>1, <1>2, <1>5 DEF CoreTypes
  <2> QED  BY <1>1, <2>1, SteadyKept, CoreKept
<1>9. Flow'
  <2>1. FlowTypes'
    <3>1. pc' \in [Clients -> PCs]
      BY <1>2, <1>5 DEF FlowTypes, PCs
    <3>2. arg' \in [Clients -> Args]
      BY <1>1, <1>2, <1>4 DEF FlowTypes, Args
    <3>3. misled' \in BOOLEAN
      BY <1>1, <1>2 DEF FlowTypes
    <3> QED  BY <1>1, <1>2, <3>1, <3>2, <3>3 DEF FlowTypes
  <2>2. ArgState'
    BY <1>1, <1>2, <1>5, <1>7 DEF ArgState
  <2>3. ArrayState'
    <3>1. \A e \in Clients : Found(e)' = Found(e)
      BY <1>1 DEF Found
    <3>2. \A e \in Clients : /\ pc'[e] \in {"shift", "unref_self"} => pc'[e] = pc[e]
                             /\ pc'[e] = "gone" => pc'[e] = pc[e]
      BY <1>7
    <3> QED  BY <1>2, <3>1, <3>2 DEF ArrayState
  <2> QED  BY <2>1, <2>2, <2>3 DEF Flow
<1>10. ClientRefs'
  <2> SUFFICES ASSUME Defined', ~misled', NEW e \in Clients  PROVE Balanced(e)'
    BY RefsForm
  <2>1. /\ ~misled /\ found = arg[c].client /\ found \in Clients
        /\ to = "unref_invitee" /\ found \notin freed
        /\ ref' = [ref EXCEPT ![found] = @ - 1]
    BY <1>1, <1>3, <1>5, <1>6 DEF Defined
  <2>2. /\ e \in freed => ref[e] = 0
        /\ ref[e] \in Int
        /\ ref[e] = Registered(e) + Owed(e) + Cardinality(LookingUp(e))
    BY <1>1, <1>2, <2>1, RefsForm DEF IInv, Balanced, CoreTypes
  <2>3. Registered(e)' = Registered(e)
    BY <1>1, <1>7, <2>1 DEF Registered
  <2>4. CASE e # found
    <3>1. LookingUp(e)' = LookingUp(e)
      BY <1>1, <1>7, <2>1, <2>4 DEF LookingUp
    <3>2. ref'[e] = ref[e]
      BY <1>2, <2>1, <2>4 DEF CoreTypes
    <3> QED  BY <1>1, <1>8, <2>2, <2>3, <3>1, <3>2 DEF Balanced
  <2>5. CASE e = found
    <3>1. LookingUp(e)' = LookingUp(e) \ {c} /\ c \in LookingUp(e)
      BY <1>1, <1>7, <2>1, <2>5 DEF LookingUp
    <3>2. Cardinality(LookingUp(e)') = Cardinality(LookingUp(e)) - 1
      BY <3>1, CountTypes, CountChange
    <3>3. ref'[e] = ref[e] - 1
      BY <1>2, <2>1, <2>5 DEF CoreTypes
    <3>4. ref'[e] = Registered(e) + Owed(e) + Cardinality(LookingUp(e)')
      BY <2>2, <3>2, <3>3, CountTypes
    <3> QED  BY <1>1, <1>8, <2>1, <2>3, <2>5, <3>4 DEF Balanced
  <2> QED  BY <2>4, <2>5
<1> QED  BY <1>8, <1>9, <1>10, PartsNext

(* client_unref tests the count of d, which may be freed by that.          *)
LEMMA FreeKeeps ==
  ASSUME IInv, Defined, NEW d \in Clients, FreeIfUnreferenced(d),
         UNCHANGED <<inv, list, used, ref, misled>>, Steady
  PROVE  /\ Core' /\ \A e \in Clients : Owed(e)' = Owed(e)
         /\ \A e \in Clients : ~misled => (e \in freed' => ref[e] = 0)
         /\ \A e \in Clients : ref[e] \in Int
<1>1. ub' \in {ub, "client"} /\ freed' = IF ref[d] = 0 THEN freed \cup {d} ELSE freed
  BY DEF FreeIfUnreferenced
<1>2. CoreTypes
  BY Parts DEF Core
<1>3. /\ ref' \in [Clients -> Int] /\ freed' \in SUBSET Clients
      /\ ub' \in {"none", "client", "node"}
  BY <1>1, <1>2 DEF CoreTypes
<1>4. ASSUME NEW e \in Clients, ~misled, e \in freed'  PROVE ref[e] = 0
  <2>1. e \in freed => ref[e] = 0
    BY <1>4, RefsForm DEF IInv, Balanced
  <2> QED  BY <1>1, <1>4, <2>1
<1> QED  BY <1>2, <1>3, <1>4, CoreKept DEF CoreTypes

(* After the lookup: the invitee may be freed, and is invited all the      *)
(* same.                                                                   *)
LEMMA TestInviteeStep ==
  ASSUME IInv, NEW c \in Clients, TestInvitee(c)
  PROVE  IInv'
<1>1. /\ Defined /\ pc[c] = "unref_invitee" /\ FreeIfUnreferenced(arg[c])
      /\ pc' = [pc EXCEPT ![c] = IF arg[c] = c THEN "serving" ELSE "invite"]
      /\ arg' = IF arg[c] = c THEN [arg EXCEPT ![c] = None] ELSE arg
      /\ UNCHANGED <<inv, list, used, ref, slots, length, misled, release, logout>>
  BY DEF TestInvitee, At, invVars, regVars
<1>2. arg[c] \in Clients /\ arg \in [Clients -> Args] /\ logout \in Clients \cup {None}
  BY <1>1 DEF IInv, ArgState, TypeOK, Args
<1>3. /\ Core' /\ \A e \in Clients : Owed(e)' = Owed(e)
      /\ \A e \in Clients : ~misled => (e \in freed' => ref[e] = 0)
      /\ \A e \in Clients : ref[e] \in Int
  BY <1>1, <1>2, SteadyKept, FreeKeeps
<1>4. PICK a \in Args, to \in {"serving", "invite"} :
        /\ pc' = [pc EXCEPT ![c] = to] /\ arg' = [arg EXCEPT ![c] = a]
        /\ to = "invite" => a \in Clients \ {c}
  <2>1. CASE arg[c] = c
    BY <1>1, <2>1 DEF Args
  <2>2. CASE arg[c] # c
    <3>1. arg' = [arg EXCEPT ![c] = arg[c]] /\ pc' = [pc EXCEPT ![c] = "invite"]
      BY <1>1, <1>2, <2>2
    <3> QED  BY <1>2, <2>2, <3>1 DEF Args
  <2> QED  BY <2>1, <2>2
<1>5. Flow' /\ \A e \in Clients : Registered(e)' = Registered(e)
                                  /\ LookingUp(e)' = LookingUp(e)
  BY <1>1, <1>2, <1>4, MoveOn
<1>6. ClientRefs'
  BY <1>1, <1>3, <1>5, RefsKept
<1> QED  BY <1>3, <1>5, <1>6, PartsNext

(* creg_unregister tests the count of its own client.                      *)
LEMMA TestSelfStep ==
  ASSUME IInv, NEW c \in Clients, TestSelf(c)
  PROVE  IInv'
<1>1. /\ Defined /\ pc[c] = "unref_self" /\ FreeIfUnreferenced(c)
      /\ pc' = [pc EXCEPT ![c] = "gone"]
      /\ UNCHANGED <<inv, list, used, ref, slots, length, misled, arg, release, logout>>
  BY DEF TestSelf, At, invVars, regVars
<1>2. FlowTypes /\ ArgState /\ ArrayState
  BY Parts DEF Flow
<1>3. /\ Core' /\ \A e \in Clients : Owed(e)' = Owed(e)
      /\ \A e \in Clients : ~misled => (e \in freed' => ref[e] = 0)
      /\ \A e \in Clients : ref[e] \in Int
  BY <1>1, SteadyKept, FreeKeeps
<1>4. pc'[c] = "gone" /\ \A e \in Clients : e # c => pc'[e] = pc[e]
  BY <1>1, <1>2 DEF FlowTypes
<1>5. Flow'
  <2>1. FlowTypes'
    <3>1. pc' \in [Clients -> PCs]
      BY <1>1, <1>2 DEF FlowTypes, PCs
    <3> QED  BY <1>1, <1>2, <3>1 DEF FlowTypes
  <2>2. ArgState'
    BY <1>1, <1>2, <1>4 DEF ArgState
  <2>3. ArrayState'
    <3>1. \A e \in Clients : Found(e)' = Found(e)
      BY <1>1 DEF Found
    <3>2. Found(c) = {}
      BY <1>1, <1>2 DEF ArrayState
    <3>3. \A e \in Clients : pc'[e] \in {"shift", "unref_self"} => pc'[e] = pc[e]
      BY <1>4
    <3> QED  BY <1>2, <1>4, <3>1, <3>2, <3>3 DEF ArrayState
  <2> QED  BY <2>1, <2>2, <2>3 DEF Flow
<1>6. \A e \in Clients : Registered(e)' = Registered(e) /\ LookingUp(e)' = LookingUp(e)
  BY <1>1, <1>4 DEF Registered, LookingUp
<1>7. ClientRefs'
  BY <1>1, <1>3, <1>6, RefsKept
<1> QED  BY <1>3, <1>5, <1>7, PartsNext

(* creg_unregister clears the slot of the client.                          *)
LEMMA UnregisterStep ==
  ASSUME IInv, NEW c \in Clients, creg_unregister(c)
  PROVE  IInv'
<1>1. /\ Defined /\ pc[c] = "unregister" /\ RegistryUnlocked
      /\ pc' = [pc EXCEPT ![c] = "shift"]
      /\ UNCHANGED <<inv, list, used, ref, freed, length, misled, release, logout, ub>>
  BY DEF creg_unregister, At, invVars
<1>2. PICK k \in Found(c) : /\ slots' = [slots EXCEPT ![k] = None]
                            /\ arg' = [arg EXCEPT ![c] = [slot |-> k]]
  BY DEF creg_unregister
<1>3. CoreTypes /\ FlowTypes /\ ArgState /\ ArrayState
  BY Parts DEF Core, Flow
<1>4. k \in Slots /\ k \in 1..length /\ slots[k] = c /\ Found(c) = {k}
  BY <1>3, Finite DEF Found, Slots, FlowTypes, ArrayState
<1> DEFINE a == [slot |-> k]
<1>5. a \in [slot : Slots] /\ a \in Args /\ a.slot = k /\ arg' = [arg EXCEPT ![c] = a]
  BY <1>2, <1>4 DEF Args
<1> HIDE DEF a
<1>6. /\ pc'[c] = "shift" /\ arg'[c] = a
      /\ \A e \in Clients : e # c => pc'[e] = pc[e] /\ arg'[e] = arg[e]
  BY <1>1, <1>3, <1>5 DEF FlowTypes
<1>7. Core' /\ \A e \in Clients : Owed(e)' = Owed(e)
  <2>1. /\ ref' \in [Clients -> Int] /\ freed' \in SUBSET Clients
        /\ ub' \in {"none", "client", "node"}
    BY <1>1, <1>3 DEF CoreTypes
  <2> QED  BY <1>1, <2>1, SteadyKept, CoreKept
<1>8. Flow'
  <2>1. FlowTypes'
    <3>1. pc' \in [Clients -> PCs]
      BY <1>1, <1>3 DEF FlowTypes, PCs
    <3>2. arg' \in [Clients -> Args]
      BY <1>3, <1>5 DEF FlowTypes
    <3>3. slots' \in [Slots -> Clients \cup {None}]
      BY <1>2, <1>3 DEF FlowTypes
    <3> QED  BY <1>1, <1>3, <3>1, <3>2, <3>3 DEF FlowTypes
  <2>2. a.slot <= length
    BY <1>3, <1>4, <1>5 DEF FlowTypes
  <2>3. ArgState'
    BY <1>1, <1>3, <1>5, <1>6, <2>2 DEF ArgState
  <2>4. ASSUME NEW e \in Clients
        PROVE  Found(e)' = IF e = c THEN {} ELSE Found(e)
    <3>1. ASSUME NEW j \in 1..length
          PROVE  slots'[j] = IF j = k THEN None ELSE slots[j]
      <4>1. j \in Slots
        BY <1>3, Finite DEF Slots, FlowTypes
      <4> QED  BY <1>2, <1>3, <4>1 DEF FlowTypes
    <3>2. Found(e)' = {j \in 1..length : slots'[j] = e}
      BY <1>1 DEF Found
    <3> QED  BY <1>4, <3>1, <3>2, ClientsAssumption DEF Found
  <2>5. ArrayState'
    BY <1>1, <1>3, <1>6, <2>4 DEF ArrayState, RegistryUnlocked
  <2> QED  BY <2>1, <2>3, <2>5 DEF Flow
<1>9. \A e \in Clients : Registered(e)' = Registered(e) /\ LookingUp(e)' = LookingUp(e)
  BY <1>1, <1>6 DEF Registered, LookingUp
<1>10. ClientRefs'
  <2>1. \A e \in Clients : ~misled => (e \in freed => ref[e] = 0)
    BY <1>1, RefsForm DEF IInv, Balanced
  <2>2. \A e \in Clients : ref[e] \in Int
    BY <1>3 DEF CoreTypes
  <2> QED  BY <1>1, <1>7, <1>9, <2>1, <2>2, RefsKept
<1> QED  BY <1>7, <1>8, <1>10, PartsNext

(* It moves the other clients up and gives the registry's reference back.  *)
LEMMA ShiftStep ==
  ASSUME IInv, NEW c \in Clients, Shift(c)
  PROVE  IInv'
<1> DEFINE k == arg[c].slot
<1>1. /\ Defined /\ pc[c] = "shift" /\ c \notin freed
      /\ slots' = [j \in Slots |->
                     IF k <= j /\ j < length THEN slots[j + 1] ELSE slots[j]]
      /\ length' = length - 1
      /\ arg' = [arg EXCEPT ![c] = None]
      /\ ref' = [ref EXCEPT ![c] = @ - 1]
      /\ pc' = [pc EXCEPT ![c] = "unref_self"]
      /\ UNCHANGED <<inv, list, used, freed, misled, release, logout, ub>>
  BY DEF Shift, MoveUp, At, invVars
<1>2. CoreTypes /\ FlowTypes /\ ArgState /\ ArrayState
  BY Parts DEF Core, Flow
<1>3. k \in Slots /\ k \in Nat /\ 1 <= k /\ k <= length /\ length \in Nat
      /\ length <= Cardinality(Clients) /\ Cardinality(Clients) \in Nat
  <2>1. arg[c] \in [slot : Slots] /\ arg[c].slot <= length
    BY <1>1, <1>2 DEF ArgState
  <2>2. Cardinality(Clients) \in Nat
    BY Finite
  <2> QED  BY <1>2, <2>1, <2>2 DEF Slots, FlowTypes
<1> HIDE DEF k
<1>4. /\ pc'[c] = "unref_self" /\ arg'[c] = None
      /\ \A e \in Clients : e # c => pc'[e] = pc[e] /\ arg'[e] = arg[e]
  BY <1>1, <1>2 DEF FlowTypes
<1>5. Core' /\ \A e \in Clients : Owed(e)' = Owed(e)
  <2>1. /\ ref' \in [Clients -> Int] /\ freed' \in SUBSET Clients
        /\ ub' \in {"none", "client", "node"}
    BY <1>1, <1>2 DEF CoreTypes
  <2> QED  BY <1>1, <2>1, SteadyKept, CoreKept
<1>6. Flow'
  <2>1. FlowTypes'
    <3>1. pc' \in [Clients -> PCs]
      BY <1>1, <1>2 DEF FlowTypes, PCs
    <3>2. arg' \in [Clients -> Args]
      BY <1>1, <1>2 DEF FlowTypes, Args
    <3>3. slots' \in [Slots -> Clients \cup {None}]
      <4>1. ASSUME NEW j \in Slots, j < length  PROVE j + 1 \in Slots
        BY <1>3, <4>1 DEF Slots
      <4>2. ASSUME NEW j \in Slots
            PROVE  (IF k <= j /\ j < length THEN slots[j + 1] ELSE slots[j])
                     \in Clients \cup {None}
        BY <1>2, <4>1 DEF FlowTypes
      <4> QED  BY <1>1, <4>2
    <3>4. length' \in 0..Cardinality(Clients)
      BY <1>1, <1>3
    <3> QED  BY <1>1, <1>2, <3>1, <3>2, <3>3, <3>4 DEF FlowTypes
  <2>2. \A e \in Clients : e # c => pc[e] # "shift"
    BY <1>1, <1>2 DEF ArrayState
  <2>3. ArgState'
    BY <1>2, <1>4, <2>2 DEF ArgState
  <2>4. ASSUME NEW e \in Clients, NEW j \in Found(e)'
        PROVE  /\ j \in 1..length
               /\ \/ j < k /\ j \in Found(e)
                  \/ j >= k /\ j + 1 \in Found(e)
    <3>1. j \in 1..(length - 1) /\ slots'[j] = e
      BY <1>1, <2>4 DEF Found
    <3>2. j \in Slots /\ j < length /\ j \in 1..length /\ j + 1 \in 1..length
      BY <1>3, <3>1 DEF Slots
    <3>3. e = IF k <= j THEN slots[j + 1] ELSE slots[j]
      BY <1>1, <3>1, <3>2
    <3> QED  BY <1>3, <3>2, <3>3 DEF Found
  <2>5. ASSUME NEW e \in Clients, NEW j \in Found(e)', NEW l \in Found(e)'
        PROVE  j = l
    <3>1. /\ j \in 1..length
          /\ (j < k /\ j \in Found(e)) \/ (j >= k /\ j + 1 \in Found(e))
      BY <2>4
    <3>2. /\ l \in 1..length
          /\ (l < k /\ l \in Found(e)) \/ (l >= k /\ l + 1 \in Found(e))
      BY <2>4
    <3>3. \A p, q \in Found(e) : p = q
      BY <1>2 DEF ArrayState
    <3>4. j \in Nat /\ l \in Nat
      BY <1>3, <3>1, <3>2
    <3>5. CASE j < k /\ l < k
      BY <3>1, <3>2, <3>3, <3>4, <3>5, <1>3
    <3>6. CASE j >= k /\ l >= k
      <4>1. j + 1 = l + 1
        BY <3>1, <3>2, <3>3, <3>4, <3>6, <1>3
      <4> QED  BY <3>4, <4>1
    <3>7. CASE j < k /\ l >= k
      <4>1. j = l + 1
        BY <3>1, <3>2, <3>3, <3>4, <3>7, <1>3
      <4> QED  BY <1>3, <3>4, <3>7, <4>1
    <3>8. CASE j >= k /\ l < k
      <4>1. j + 1 = l
        BY <3>1, <3>2, <3>3, <3>4, <3>8, <1>3
      <4> QED  BY <1>3, <3>4, <3>8, <4>1
    <3> QED  BY <1>3, <3>4, <3>5, <3>6, <3>7, <3>8
  <2>6. ASSUME NEW e \in Clients, NEW j \in Found(e)'
        PROVE  pc'[e] \notin {"shift", "unref_self", "gone"}
    <3>1. Found(e) # {}
      BY <2>4, <2>6
    <3>2. pc[e] \notin {"shift", "unref_self", "gone"}
      BY <1>2, <3>1 DEF ArrayState
    <3> QED  BY <1>1, <1>4, <3>2
  <2>7. ASSUME NEW e \in Clients, NEW j \in Found(e)'  PROVE Found(e)' = {j}
    BY <2>5, <2>7
  <2>8. \A e \in Clients : pc'[e] \in {"shift", "unref_self"} => e = c
    BY <1>1, <1>2, <1>4 DEF ArrayState
  <2>9. ArrayState'
    BY <2>6, <2>7, <2>8 DEF ArrayState
  <2> QED  BY <2>1, <2>3, <2>9 DEF Flow
<1>7. ClientRefs'
  <2> SUFFICES ASSUME ~misled, NEW e \in Clients  PROVE Balanced(e)'
    BY <1>1, RefsForm
  <2>1. /\ e \in freed => ref[e] = 0
        /\ ref[e] \in Int
        /\ ref[e] = Registered(e) + Owed(e) + Cardinality(LookingUp(e))
    BY <1>1, <1>2, RefsForm DEF IInv, Balanced, CoreTypes
  <2>2. LookingUp(e)' = LookingUp(e)
    BY <1>1, <1>4 DEF LookingUp
  <2>3. CASE e # c
    <3>1. ref'[e] = ref[e] /\ Registered(e)' = Registered(e)
      BY <1>1, <1>2, <1>4, <2>3 DEF CoreTypes, Registered
    <3> QED  BY <1>1, <1>5, <2>1, <2>2, <3>1 DEF Balanced
  <2>4. CASE e = c
    <3>1. ref'[e] = ref[e] - 1 /\ Registered(e)' = 0 /\ Registered(e) = 1
      BY <1>1, <1>2, <1>4, <2>4 DEF CoreTypes, Registered
    <3>2. ref'[e] = 0 + Owed(e) + Cardinality(LookingUp(e))
      BY <2>1, <3>1, CountTypes
    <3> QED  BY <1>1, <1>5, <2>2, <2>4, <3>1, <3>2 DEF Balanced
  <2> QED  BY <2>3, <2>4
<1> QED  BY <1>5, <1>6, <1>7, PartsNext

(* Nothing changes, or only that a freed object has been used.             *)
LEMMA StutterStep ==
  ASSUME IInv, ub' \in {"none", "client", "node"}, Defined' => Defined,
         UNCHANGED <<inv, list, used, ref, freed, slots, length, misled, pc, arg,
                     release, logout>>
  PROVE  IInv'
<1>1. CoreTypes /\ FlowTypes /\ ArgState /\ ArrayState
  BY Parts DEF Core, Flow
<1>2. Core' /\ \A e \in Clients : Owed(e)' = Owed(e)
  <2>1. ref' \in [Clients -> Int] /\ freed' \in SUBSET Clients
    BY <1>1 DEF CoreTypes
  <2> QED  BY <2>1, SteadyKept, CoreKept
<1>3. Flow'
  <2>1. FlowTypes' /\ ArgState'
    BY <1>1 DEF FlowTypes, ArgState
  <2>2. ArrayState'
    BY <1>1 DEF ArrayState, Found
  <2> QED  BY <2>1, <2>2 DEF Flow
<1>4. \A e \in Clients : Registered(e)' = Registered(e) /\ LookingUp(e)' = LookingUp(e)
  BY DEF Registered, LookingUp
<1>5. ClientRefs'
  <2>1. \A e \in Clients : Defined /\ ~misled => (e \in freed => ref[e] = 0)
    BY RefsForm DEF IInv, Balanced
  <2>2. \A e \in Clients : ref[e] \in Int
    BY <1>1 DEF CoreTypes
  <2> QED  BY <1>2, <1>4, <2>1, <2>2, RefsKept
<1> QED  BY <1>2, <1>3, <1>5, PartsNext

(* A new invitation is put into both lists.                                *)
LEMMA MakeStep ==
  ASSUME IInv, NEW c \in Clients, client_make_invitation(c)
  PROVE  IInv'
<1> DEFINE d == arg[c]
<1>1. /\ Defined /\ pc[c] = "invite" /\ c \notin freed
      /\ pc' = [pc EXCEPT ![c] = "serving"] /\ arg' = [arg EXCEPT ![c] = None]
      /\ UNCHANGED <<slots, length, misled, logout>>
  BY DEF client_make_invitation, At, regVars
<1>2. d \in Clients /\ d # c
  BY <1>1 DEF IInv, ArgState
<1>3. CoreTypes /\ Lists /\ Counted /\ TwoSides /\ GameGoesWithState
  BY Parts DEF Core
<1>4. Flow' /\ \A e \in Clients : Registered(e)' = Registered(e)
                                  /\ LookingUp(e)' = LookingUp(e)
  <2>1. None \in Args /\ logout' \in Clients \cup {None}
    BY <1>1 DEF Args, IInv, TypeOK
  <2> QED  BY <1>1, <2>1, MoveOn
<1>5. /\ \A e \in Clients : ~misled => (e \in freed => ref[e] = 0)
      /\ \A e \in Clients : ref[e] \in Int
  BY <1>1, <1>3, RefsForm DEF IInv, Balanced, CoreTypes
<1>6. CASE UNCHANGED <<inv, list, used, ref, freed, release>> /\ ub' \in {ub, "client"}
  <2>1. Core' /\ \A e \in Clients : Owed(e)' = Owed(e)
    <3>1. /\ ref' \in [Clients -> Int] /\ freed' \in SUBSET Clients
          /\ ub' \in {"none", "client", "node"}
      BY <1>3, <1>6 DEF CoreTypes
    <3> QED  BY <1>6, <3>1, SteadyKept, CoreKept
  <2>2. ClientRefs'
    BY <1>1, <1>4, <1>5, <1>6, <2>1, RefsKept
  <2> QED  BY <1>4, <2>1, <2>2, PartsNext
<1>7. CASE ~(UNCHANGED <<inv, list, used, ref, freed, release>>
             /\ ub' \in {ub, "client"})
  <2> DEFINE x == get_available_id(c)
             y == get_available_id(d)
             new == inv_create(c, d)
  <2>1. PICK i \in Invs :
          /\ inv[i].state = "none" /\ d \notin freed
          /\ inv' = [inv EXCEPT ![i] = new]
          /\ list' = [list EXCEPT ![c] = <<[id |-> x, inv |-> i]>> \o @,
                                  ![d] = <<[id |-> y, inv |-> i]>> \o @]
          /\ used' = [used EXCEPT ![c] = @ \cup {x}, ![d] = @ \cup {y}]
          /\ ref' = [ref EXCEPT ![c] = @ + 1, ![d] = @ + 1]
          /\ UNCHANGED <<freed, release, ub>>
    BY <1>7 DEF client_make_invitation, Nothing, invVars
  <2>2. /\ new \in Objects /\ new.state = "OPEN" /\ new.game = "none"
        /\ new.source = c /\ new.target = d /\ new.refs = 2
    BY <1>2 DEF inv_create, Objects, States, GameStates
  <2>3. i \notin Live /\ Holders(i) = {} /\ i \notin Listed(c) /\ i \notin Listed(d)
    <3>1. i \notin Live
      BY <2>1 DEF Live, States
    <3>2. Holders(i) = {}
      BY <1>3, <3>1 DEF Counted
    <3> QED  BY <1>2, <3>1, <3>2 DEF Holders
  <2>4. x \in Ids \ used[c] /\ y \in Ids \ used[d]
    <3>1. GoodList(list[c], used[c]) /\ GoodList(list[d], used[d])
      BY <1>2, <1>3 DEF Lists
    <3> HIDE DEF d
    <3> QED  BY <1>2, <2>3, <3>1, IdLeft
  <2> HIDE DEF x, y, new, d
  <2> DEFINE sc == <<[id |-> x, inv |-> i]>> \o list[c]
             sd == <<[id |-> y, inv |-> i]>> \o list[d]
  <2>5. /\ list'[c] = sc /\ list'[d] = sd
        /\ \A e \in Clients : e # c /\ e # d => list'[e] = list[e]
    BY <1>2, <1>3, <2>1 DEF CoreTypes
  <2>6. /\ used'[c] = used[c] \cup {x} /\ used'[d] = used[d] \cup {y}
        /\ \A e \in Clients : e # c /\ e # d => used'[e] = used[e]
    BY <1>2, <1>3, <2>1 DEF CoreTypes
  <2>7. /\ GoodList(sc, used[c] \cup {x}) /\ InvsOf(sc) = Listed(c) \cup {i}
        /\ GoodList(sd, used[d] \cup {y}) /\ InvsOf(sd) = Listed(d) \cup {i}
    <3>1. /\ GoodList(list[c], used[c]) /\ Listed(c) = InvsOf(list[c])
          /\ GoodList(list[d], used[d]) /\ Listed(d) = InvsOf(list[d])
      BY <1>2, <1>3, ListedFacts DEF Lists
    <3>2. i \in Invs \ InvsOf(list[c]) /\ i \in Invs \ InvsOf(list[d])
      BY <2>3, <3>1
    <3>3. GoodList(sc, used[c] \cup {x}) /\ InvsOf(sc) = InvsOf(list[c]) \cup {i}
      BY <2>4, <3>1, <3>2, AddNode
    <3>4. GoodList(sd, used[d] \cup {y}) /\ InvsOf(sd) = InvsOf(list[d]) \cup {i}
      <4>1. /\ GoodList(list[d], used[d]) /\ y \in Ids \ used[d]
            /\ i \in Invs \ InvsOf(list[d])
        BY <2>4, <3>1, <3>2
      <4> HIDE DEF sc
      <4> QED  BY <4>1, AddNode
    <3> QED  BY <3>1, <3>3, <3>4
  <2> HIDE DEF sc, sd
  <2>8. ASSUME NEW e \in Clients
        PROVE  /\ GoodList(list'[e], used'[e])
               /\ Listed(e)' = IF e = c \/ e = d THEN Listed(e) \cup {i} ELSE Listed(e)
    <3>1. Listed(e)' = InvsOf(list'[e])
      BY DEF Listed, InvsOf
    <3>2. CASE e = c
      BY <2>5, <2>6, <2>7, <3>1, <3>2
    <3>3. CASE e = d
      BY <2>5, <2>6, <2>7, <3>1, <3>3
    <3>4. CASE e # c /\ e # d
      <4>1. list'[e] = list[e] /\ used'[e] = used[e]
        BY <2>5, <2>6, <3>4
      <4>2. GoodList(list[e], used[e]) /\ Listed(e) = InvsOf(list[e])
        BY <1>3, ListedFacts DEF Lists
      <4> QED  BY <3>1, <3>4, <4>1, <4>2
    <3> QED  BY <3>2, <3>3, <3>4
  <2>9. Holders(i)' = {c, d} /\ \A j \in Invs : j # i => Holders(j)' = Holders(j)
    BY <1>2, <2>3, <2>8 DEF Holders
  <2>10. inv'[i] = new /\ \A j \in Invs : j # i => inv'[j] = inv[j]
    BY <1>3, <2>1 DEF CoreTypes
  <2>11. Live' = Live \cup {i}
    BY <2>2, <2>10 DEF Live, States
  <2>12. CoreTypes' /\ ReleaseState'
    <3>0. ReleaseState'
      BY <2>1 DEF IInv, ReleaseState
    <3>1. inv' \in [Invs -> Objects]
      BY <1>3, <2>1, <2>2 DEF CoreTypes
    <3>2. list' \in [Clients -> Seq(Node)]
      <4>1. \A e \in Clients : list'[e] \in Seq(Node)
        BY <2>8 DEF GoodList
      <4>2. DOMAIN list' = Clients /\ list' = [e \in DOMAIN list' |-> list'[e]]
        BY <1>3, <2>1 DEF CoreTypes
      <4> QED  BY <4>1, <4>2
    <3>3. used' \in [Clients -> SUBSET Ids]
      BY <1>2, <1>3, <2>1, <2>4 DEF CoreTypes
    <3>4. ref' \in [Clients -> Int]
      BY <1>2, <1>3, <2>1 DEF CoreTypes
    <3> QED  BY <1>3, <2>1, <3>0, <3>1, <3>2, <3>3, <3>4 DEF CoreTypes
  <2>13. Lists'
    BY <2>8 DEF Lists
  <2>14. Cardinality({c, d}) = 2
    <3>1. {c, d} = {c} \cup {d} /\ d \notin {c}
      BY <1>2
    <3>2. IsFiniteSet({c}) /\ Cardinality({c}) = 1
      BY FS_Singleton
    <3> QED  BY <3>1, <3>2, CountChange
  <2>15. Counted'
    <3> SUFFICES ASSUME NEW j \in Invs
                 PROVE  /\ inv'[j].refs = Cardinality(Holders(j)')
                        /\ j \in Live' <=> Holders(j)' # {}
      BY DEF Counted
    <3>1. CASE j = i
      BY <2>2, <2>9, <2>10, <2>11, <2>14, <3>1
    <3>2. CASE j # i
      BY <1>3, <2>9, <2>10, <2>11, <3>2 DEF Counted
    <3> QED  BY <3>1, <3>2
  <2>16. TwoSides'
    <3> SUFFICES ASSUME NEW j \in Live'
                 PROVE  /\ inv'[j].source \in Clients /\ inv'[j].target \in Clients
                        /\ inv'[j].source # inv'[j].target
                        /\ Holders(j)' \subseteq {inv'[j].source, inv'[j].target}
                        /\ inv'[j].state \in {"OPEN", "ACCEPTED"} =>
                             Holders(j)' = {inv'[j].source, inv'[j].target}
      BY DEF TwoSides, Sides
    <3>1. CASE j = i
      BY <1>2, <2>2, <2>9, <2>10, <3>1
    <3>2. CASE j # i
      <4>1. j \in Live /\ inv'[j] = inv[j] /\ Holders(j)' = Holders(j)
        BY <2>9, <2>10, <2>11, <3>2 DEF Live
      <4> QED  BY <1>3, <4>1 DEF TwoSides, Sides
    <3> QED  BY <3>1, <3>2
  <2>17. GameGoesWithState'
    <3> SUFFICES ASSUME NEW j \in Live'
                 PROVE  Matching(inv'[j].state, inv'[j].game)
      BY DEF GameGoesWithState, Matching
    <3>1. CASE j = i
      BY <2>2, <2>10, <3>1 DEF Matching
    <3>2. CASE j # i
      <4>1. j \in Live /\ inv'[j] = inv[j]
        BY <2>10, <2>11, <3>2 DEF Live
      <4> QED  BY <4>1, StateFacts
    <3> QED  BY <3>1, <3>2
  <2>18. ClientRefs'
    <3>1. ASSUME NEW e \in Clients
          PROVE  ref'[e] \in Int /\ ref'[e] - Owed(e)' = ref[e] - Owed(e)
      <4>0. Pending(e)' = Pending(e)
        BY <2>1 DEF Pending
      <4>1. CASE e = c
        <5>1. Made(e)' = Made(e) \cup {i} /\ i \notin Made(e) /\ Got(e)' = Got(e)
          BY <1>2, <2>2, <2>3, <2>10, <2>11, <4>1 DEF Made, Got, Live
        <5>2. Cardinality(Made(e)') = Cardinality(Made(e)) + 1
          BY <5>1, CountTypes, CountChange
        <5>3. Owed(e)' = Owed(e) + 1
          BY <4>0, <5>1, <5>2, CountTypes DEF Owed
        <5>4. ref'[e] = ref[e] + 1
          BY <1>2, <1>3, <2>1, <4>1 DEF CoreTypes
        <5> QED  BY <1>5, <5>3, <5>4, CountTypes
      <4>2. CASE e = d
        <5>1. Got(e)' = Got(e) \cup {i} /\ i \notin Got(e) /\ Made(e)' = Made(e)
          BY <1>2, <2>2, <2>3, <2>10, <2>11, <4>2 DEF Made, Got, Live
        <5>2. Cardinality(Got(e)') = Cardinality(Got(e)) + 1
          BY <5>1, CountTypes, CountChange
        <5>3. Owed(e)' = Owed(e) + 1
          BY <4>0, <5>1, <5>2, CountTypes DEF Owed
        <5>4. ref'[e] = ref[e] + 1
          BY <1>2, <1>3, <2>1, <4>2 DEF CoreTypes
        <5> QED  BY <1>5, <5>3, <5>4, CountTypes
      <4>3. CASE e # c /\ e # d
        <5>0. /\ inv'[i].source # e /\ inv'[i].target # e
              /\ \A j \in Live : j # i /\ inv'[j] = inv[j]
          BY <2>2, <2>3, <2>10, <4>3 DEF Live
        <5>1. Made(e)' = Made(e) /\ Got(e)' = Got(e)
          BY <2>11, <5>0 DEF Made, Got
        <5>2. ref'[e] = ref[e]
          BY <1>2, <1>3, <2>1, <4>3 DEF CoreTypes
        <5> QED  BY <1>5, <4>0, <5>1, <5>2 DEF Owed
      <4> QED  BY <4>1, <4>2, <4>3
    <3>2. ASSUME NEW e \in Clients, ~misled, e \in freed'  PROVE ref'[e] = 0
      <4>1. e \in freed /\ e # c /\ e # d
        BY <1>1, <2>1, <3>2
      <4>2. ref'[e] = ref[e]
        BY <1>2, <1>3, <2>1, <4>1 DEF CoreTypes
      <4> QED  BY <1>5, <3>2, <4>1, <4>2
    <3> QED  BY <1>1, <1>4, <3>1, <3>2, RefsKept
  <2> QED  BY <1>4, <2>12, <2>13, <2>15, <2>16, <2>17, <2>18, PartsNext DEF Core
<1> QED  BY <1>6, <1>7

(* inv_unref goes on: it tests a count, or gives the reference to the      *)
(* target back, or the operation ends.                                     *)
LEMMA ReleaseStep ==
  ASSUME IInv, NEW c \in Clients, UnrefSides(c)
  PROVE  IInv'
<1>1. /\ Defined
      /\ UNCHANGED <<inv, list, used, slots, length, misled, pc, arg, logout>>
      /\ TestSource \/ UnrefTarget \/ TestTarget \/ PurgeId
  BY DEF UnrefSides, invVars, regVars
<1>2. CoreTypes /\ FlowTypes /\ ArgState /\ ArrayState /\ ReleaseState
  BY Parts DEF Core, Flow
<1>3. Flow' /\ \A e \in Clients : Registered(e)' = Registered(e)
                                  /\ LookingUp(e)' = LookingUp(e)
  <2>1. FlowTypes' /\ ArgState'
    BY <1>1, <1>2 DEF FlowTypes, ArgState
  <2>2. ArrayState'
    BY <1>1, <1>2 DEF ArrayState, Found
  <2>3. ASSUME NEW e \in Clients
        PROVE  Registered(e)' = Registered(e) /\ LookingUp(e)' = LookingUp(e)
    BY <1>1 DEF Registered, LookingUp
  <2> QED  BY <2>1, <2>2, <2>3 DEF Flow
<1>4. /\ \A e \in Clients : ~misled => (e \in freed => ref[e] = 0)
      /\ \A e \in Clients : ref[e] \in Int
  BY <1>1, <1>2, RefsForm DEF IInv, Balanced, CoreTypes
<1>5. CASE TestSource \/ TestTarget
  <2>1. PICK d \in Clients : FreeIfUnreferenced(d)
    BY <1>2, <1>5 DEF TestSource, TestTarget, ReleaseState
  <2>2. UNCHANGED ref /\ Steady
    <3>1. PICK to \in {"unref_target", "purge"} :
            /\ release' = [release EXCEPT !.step = to]
            /\ to = "unref_target" => release.step = "test_source"
            /\ to = "purge" => release.step = "test_target"
      BY <1>5 DEF TestSource, TestTarget
    <3>2. /\ release'.step = to /\ release'.source = release.source
          /\ release'.target = release.target /\ release' \in Releases
      BY <1>2, <3>1 DEF CoreTypes, Releases
    <3> QED
      BY <1>2, <1>5, <3>1, <3>2 DEF TestSource, TestTarget, Steady, ReleaseState, Pending
  <2>3. /\ Core' /\ \A e \in Clients : Owed(e)' = Owed(e)
        /\ \A e \in Clients : ~misled => (e \in freed' => ref[e] = 0)
    BY <1>1, <2>1, <2>2, FreeKeeps
  <2>4. ClientRefs'
    BY <1>1, <1>3, <1>4, <2>2, <2>3, RefsKept
  <2> QED  BY <1>3, <2>3, <2>4, PartsNext
<1>6. CASE UnrefTarget
  <2> DEFINE d == release.target
  <2>1. /\ release.step = "unref_target" /\ d \in Clients
        /\ ref' = [ref EXCEPT ![d] = @ - 1] /\ freed' = freed
        /\ release' = [release EXCEPT !.step = "test_target"]
        /\ ub' = IF d \in freed THEN "client" ELSE ub
    BY <1>2, <1>6 DEF UnrefTarget, ReleaseState
  <2>2. /\ release' \in Releases /\ release'.step = "test_target"
        /\ release'.source = release.source /\ release'.target = d
    BY <1>2, <2>1 DEF CoreTypes, Releases
  <2>3. ReleaseState'
    BY <1>2, <2>1, <2>2 DEF ReleaseState
  <2>4. Core' /\ \A e \in Clients : Made(e)' = Made(e) /\ Got(e)' = Got(e)
    <3>1. /\ ref' \in [Clients -> Int] /\ freed' \in SUBSET Clients
          /\ ub' \in {"none", "client", "node"}
      BY <1>2, <2>1 DEF CoreTypes
    <3> QED  BY <1>1, <2>2, <2>3, <3>1, CoreStays
  <2>5. \A e \in Clients : /\ Pending(e) = IF e = d THEN 1 ELSE 0
                           /\ Pending(e)' = 0
    BY <2>1, <2>2 DEF Pending
  <2>6. \A e \in Clients : ref'[e] = IF e = d THEN ref[e] - 1 ELSE ref[e]
    BY <1>2, <2>1 DEF CoreTypes
  <2> HIDE DEF d
  <2>7. ASSUME NEW e \in Clients
        PROVE  ref'[e] - Owed(e)' = ref[e] - Owed(e) /\ ref'[e] \in Int
    <3>1. Owed(e)' = IF e = d THEN Owed(e) - 1 ELSE Owed(e)
      BY <2>4, <2>5, CountTypes DEF Owed
    <3> QED  BY <1>4, <2>6, <3>1, CountTypes
  <2>8. ASSUME NEW e \in Clients, Defined', ~misled, e \in freed'  PROVE ref'[e] = 0
    BY <1>4, <2>1, <2>6, <2>8 DEF Defined
  <2>9. ClientRefs'
    BY <1>1, <1>3, <2>7, <2>8, RefsKept
  <2> QED  BY <1>3, <2>4, <2>9, PartsNext
<1>7. CASE PurgeId
  <2>1. /\ release.step = "purge" /\ release' = NoRelease /\ UNCHANGED <<ref, freed>>
        /\ ub' \in {ub, "client"}
    BY <1>7 DEF PurgeId
  <2>2. Steady
    BY <2>1 DEF Steady, NoRelease, Releases, ReleaseState, Pending
  <2>3. Core' /\ \A e \in Clients : Owed(e)' = Owed(e)
    <3>1. /\ ref' \in [Clients -> Int] /\ freed' \in SUBSET Clients
          /\ ub' \in {"none", "client", "node"}
      BY <1>2, <2>1 DEF CoreTypes
    <3> QED  BY <1>1, <2>2, <3>1, CoreKept
  <2>4. ClientRefs'
    BY <1>1, <1>3, <1>4, <2>1, <2>3, RefsKept
  <2> QED  BY <1>3, <2>3, <2>4, PartsNext
<1> QED  BY <1>1, <1>5, <1>6, <1>7

-----------------------------------------------------------------------------
(* The theorems.                                                           *)

(* Every step of a service thread keeps the invariant.                     *)
LEMMA NextIInv == IInv /\ [Next]_vars => IInv'
<1> SUFFICES ASSUME IInv, [Next]_vars  PROVE IInv'
  OBVIOUS
<1>1. ub \in {"none", "client", "node"}
  BY DEF IInv, TypeOK
<1>2. CASE Ended \/ UNCHANGED vars
  <2>1. UNCHANGED <<inv, list, used, ref, freed, slots, length, misled, pc, arg,
                    release, logout>> /\ ub' = ub
    BY <1>2 DEF Ended, vars, invVars, regVars
  <2>2. ub' \in {"none", "client", "node"} /\ (Defined' => Defined)
    BY <1>1, <2>1 DEF Defined
  <2> QED  BY <2>1, <2>2, StutterStep
<1>3. ASSUME NEW c \in Clients, Serve(c)  PROVE IInv'
  <2>1. ASSUME NEW d \in Clients, creg_lookup(c, d)  PROVE IInv'
    BY <2>1, LookupStep
  <2> QED
    BY <1>3, <2>1, PacketStep, UnrefInviteeStep, TestInviteeStep, MakeStep,
       WalkStep DEF Serve
<1>4. ASSUME NEW c \in Clients, Leave(c)  PROVE IInv'
  <2>1. CASE UseFreedSelf(c)
    <3>1. /\ UNCHANGED <<inv, list, used, ref, freed, slots, length, misled, pc,
                         arg, release, logout>>
          /\ ub' = "client" /\ Defined
      BY <2>1 DEF UseFreedSelf, invVars, regVars
    <3> QED  BY <3>1, StutterStep
  <2> QED
    BY <1>4, <2>1, WalkStep, LogoutOpStep, UnregisterStep, ShiftStep,
       TestSelfStep DEF Leave
<1>5. ASSUME NEW c \in Clients, UnrefSides(c)  PROVE IInv'
  BY <1>5, ReleaseStep
<1> QED  BY <1>2, <1>3, <1>4, <1>5 DEF Next

(* The inductive invariant holds: whatever the threads of the clients do,  *)
(* in whatever order, and whichever packets are lost.                      *)
THEOREM InvitationsInvariant == Spec => []IInv
  BY InitIInv, NextIInv, PTL DEF Spec

(* Every variable keeps its type; in particular an invitation never has    *)
(* more than two references, and an id always comes from available_ids.    *)
THEOREM InvitationsTypeCorrect == Spec => []TypeOK
<1>1. IInv => TypeOK
  BY DEF IInv
<1> QED  BY <1>1, InvitationsInvariant, PTL

(* An id names one invitation of a client at a time, and comes back when   *)
(* its invitation leaves the list (get_available_id, purge_id).            *)
THEOREM IdsAreUnique == Spec => []IdsUnique
<1>1. IInv => IdsUnique
  BY DEF IInv, Lists, GoodList, IdsOf, IdsUnique
<1> QED  BY <1>1, InvitationsInvariant, PTL

(* An invitation lives exactly as long as a list holds it, and counts the  *)
(* lists that do (inv_ref, inv_unref).                                     *)
THEOREM InvitationRefsExact == Spec => []InvitationRefs
<1>1. IInv => InvitationRefs
  BY DEF IInv, Counted, Holders, InvitationRefs
<1> QED  BY <1>1, InvitationsInvariant, PTL

(* A client counts the registry, its living invitations and the threads    *)
(* that have looked it up, and is freed at 0 only, as long as creg_lookup  *)
(* has returned the clients that it found (client_ref, client_unref).      *)
THEOREM ClientRefsExact == Spec => []ClientRefs
<1>1. IInv => ClientRefs
  BY DEF IInv
<1> QED  BY <1>1, InvitationsInvariant, PTL

(* An invitation has a game from its acceptance on and is CLOSED only when *)
(* that game is not in play: what client_logout decides by.                *)
THEOREM GameFollowsState == Spec => []GameGoesWithState
<1>1. IInv => GameGoesWithState
  BY DEF IInv
<1> QED  BY <1>1, InvitationsInvariant, PTL

(* An invitation is in the lists of its two sides only, and in both as     *)
(* long as it is OPEN or ACCEPTED.                                         *)
THEOREM ListedOnBothSides == Spec => []BothSides
<1>1. IInv => BothSides
  BY DEF IInv, TwoSides, Holders, BothSides
<1> QED  BY <1>1, InvitationsInvariant, PTL

(* What no step may do to an invitation.                                   *)
GoesForward ==
  \A i \in Live :
    /\ inv[i].state = "ACCEPTED" => inv'[i].state # "OPEN"
    /\ inv[i].state = "CLOSED" => inv'[i].state \in {"CLOSED", "freed"}
    /\ inv[i].game = "over" => inv'[i].game \in {"over", "resigned"}
    /\ inv[i].game = "resigned" => inv'[i].game = "resigned"

(* A legal change of one invitation goes forward.                          *)
LEMMA ChangesForward ==
  ASSUME IInv, Changes
  PROVE  GoesForward
<1>1. CASE Nothing
  BY <1>1 DEF Nothing, invVars, GoesForward
<1>2. ASSUME NEW i \in Invs, NEW st \in States, NEW g \in GameStates, Legal(i, st, g),
             inv'[i].state \in {st, "freed"}, inv'[i].game = g,
             \A j \in Invs : j # i => inv'[j] = inv[j]
      PROVE  GoesForward
  <2>1. st # "OPEN"
    BY <1>2 DEF Legal
  <2>2. ASSUME NEW j \in Live, j = i
        PROVE  /\ inv[j].state = "ACCEPTED" => inv'[j].state # "OPEN"
               /\ inv[j].state = "CLOSED" => inv'[j].state \in {"CLOSED", "freed"}
               /\ inv[j].game = "over" => inv'[j].game \in {"over", "resigned"}
               /\ inv[j].game = "resigned" => inv'[j].game = "resigned"
    BY <1>2, <2>1, <2>2 DEF Legal
  <2>3. ASSUME NEW j \in Live, j # i  PROVE inv'[j] = inv[j]
    BY <1>2, <2>3 DEF Live
  <2> QED  BY <2>2, <2>3 DEF GoesForward
<1>3. ASSUME NEW i \in Invs, NEW st \in States, NEW g \in GameStates, Keeps(i, st, g)
      PROVE  GoesForward
  <2>1. Legal(i, st, g) /\ inv' = [inv EXCEPT ![i].state = st, ![i].game = g]
    BY <1>3 DEF Keeps, Set
  <2>2. inv \in [Invs -> Objects]
    BY DEF IInv, TypeOK, Objects, GameStates
  <2>3. /\ inv'[i].state = st /\ inv'[i].game = g
        /\ \A j \in Invs : j # i => inv'[j] = inv[j]
    BY <2>1, <2>2 DEF Objects
  <2> QED  BY <1>2, <2>1, <2>3
<1>4. ASSUME NEW i \in Invs, NEW S \in SUBSET Clients, NEW st \in States,
             NEW g \in GameStates, Removes(i, S, st, g)
      PROVE  GoesForward
  <2> DEFINE left == Cardinality(Holders(i) \ S)
  <2>0. PICK by \in Clients : Unlist(by, i, S, st, g)
    BY <1>4 DEF Removes
  <2>1. Legal(i, st, g)
    BY <1>4 DEF Removes
  <2>2. /\ left \in 0..2 /\ (left = 0 <=> Holders(i) \ S = {})
        /\ inv' \in [Invs -> Objects]
        /\ inv'[i] = [inv[i] EXCEPT !.state = IF left = 0 THEN "freed" ELSE st,
                                    !.game = g, !.refs = left]
        /\ \A j \in Invs : j # i => inv'[j] = inv[j]
        /\ ref' = IF left = 0 THEN [ref EXCEPT ![inv[i].source] = @ - 1] ELSE ref
        /\ release' = IF left = 0 THEN Releasing(by, i, S) ELSE release
        /\ freed' = freed
        /\ ub' \in {ub, "client"}
    BY <2>0, RemovesObjects
  <2>3. inv[i] \in Objects
    BY DEF IInv, TypeOK, Objects, GameStates
  <2> HIDE DEF left
  <2>4. inv'[i].state \in {st, "freed"} /\ inv'[i].game = g
    BY <2>2, <2>3 DEF Objects
  <2> QED  BY <1>2, <2>1, <2>2, <2>4
<1> QED  BY <1>1, <1>3, <1>4 DEF Changes

(* An invitation never goes back to an earlier state, and a game that has  *)
(* ended is never in play again, whichever of the two sides' packets and   *)
(* logouts come in whatever order.                                         *)
THEOREM StatesGoForward == Spec => Forward
<1>1. ASSUME IInv, [Next]_vars  PROVE GoesForward
  <2>1. CASE UNCHANGED inv
    BY <2>1 DEF GoesForward
  <2>2. ASSUME NEW c \in Clients, Packet(c) \/ LogoutOp(c)  PROVE GoesForward
    BY <1>1, <2>2, OperationChanges, ChangesForward
  <2>3. ASSUME NEW c \in Clients, client_make_invitation(c), ~ UNCHANGED inv
        PROVE  GoesForward
    <3>1. PICK i \in Invs : /\ inv[i].state = "none"
                            /\ inv' = [inv EXCEPT ![i] = inv_create(c, arg[c])]
      BY <2>3 DEF client_make_invitation, Nothing, invVars
    <3>2. i \notin Live
      BY <3>1 DEF Live, States
    <3>3. \A j \in Live : inv'[j] = inv[j]
      BY <1>1, <3>1, <3>2 DEF IInv, TypeOK, Live
    <3> QED  BY <3>3 DEF GoesForward
  <2>4. ASSUME NEW c \in Clients, Serve(c) \/ UnrefSides(c) \/ Leave(c)
        PROVE  \/ Packet(c) \/ LogoutOp(c) \/ client_make_invitation(c)
               \/ UNCHANGED inv
    BY <2>4 DEF Serve, Leave, creg_lookup, UnrefInvitee, TestInvitee, ReceiveEof,
         BeginLogout, VisitNode, EndLogout, creg_unregister, Shift, TestSelf,
         UseFreedSelf, UnrefSides, invVars
  <2>5. CASE Ended \/ UNCHANGED vars
    BY <2>1, <2>5 DEF Ended, vars, invVars
  <2> QED  BY <1>1, <2>1, <2>2, <2>3, <2>4, <2>5 DEF Next
<1>2. IInv /\ [Next]_vars => [GoesForward]_vars
  BY <1>1
<1> QED  BY <1>2, InvitationsInvariant, PTL DEF Spec, Forward, GoesForward

-----------------------------------------------------------------------------
(* Freed clients.                                                          *)

(* What does not lead to a freed client.                                   *)
FreedIsUnreachable ==
  Defined /\ ~misled =>
    \A c \in freed :
      /\ pc[c] \in {"unref_self", "gone"}
      /\ Found(c) = {} /\ Listed(c) = {}
      /\ \A i \in Live : c \notin Sides(i)
      /\ \A d \in Clients : pc[d] = "lookup" => arg[d].client # c
      /\ release.step \in {"test_source", "unref_target"} => release.target # c

(* All of its references have been given back.                             *)
LEMMA FreedHasNone ==
  ASSUME IInv  PROVE FreedIsUnreachable
<1> SUFFICES ASSUME Defined, ~misled, NEW c \in freed
             PROVE  /\ pc[c] \in {"unref_self", "gone"}
                    /\ Found(c) = {} /\ Listed(c) = {}
                    /\ \A i \in Live : c \notin Sides(i)
                    /\ \A d \in Clients : pc[d] = "lookup" => arg[d].client # c
                    /\ release.step \in {"test_source", "unref_target"} =>
                         release.target # c
  BY DEF FreedIsUnreachable
<1>1. c \in Clients
  BY DEF IInv, TypeOK
<1>2. Registered(c) + Owed(c) + Cardinality(LookingUp(c)) = 0
  BY <1>1, RefsForm DEF IInv, Balanced
<1>3. Registered(c) = 0 /\ Owed(c) = 0 /\ Cardinality(LookingUp(c)) = 0
  BY <1>2, CountTypes
<1>4. /\ Made(c) = {} /\ Got(c) = {} /\ LookingUp(c) = {}
      /\ release.step \in {"test_source", "unref_target"} => release.target # c
  <2>1. Cardinality(Made(c)) = 0 /\ Cardinality(Got(c)) = 0 /\ Pending(c) = 0
    BY <1>3, CountTypes DEF Owed
  <2> QED  BY <1>3, <2>1, CountTypes, FS_EmptySet DEF Pending
<1>5. pc[c] \in {"unref_self", "gone"}
  BY <1>3 DEF Registered
<1>6. Found(c) = {}
  BY <1>1, <1>5 DEF IInv, ArrayState
<1>7. \A i \in Live : c \notin Sides(i)
  BY <1>4 DEF Made, Got, Sides
<1>8. Listed(c) = {}
  BY <1>1, <1>7, HeldFacts
<1>9. \A d \in Clients : pc[d] = "lookup" => arg[d].client # c
  BY <1>4 DEF LookingUp
<1> QED  BY <1>4, <1>5, <1>6, <1>7, <1>8, <1>9

(* Nothing that the server keeps leads to a freed client: not the array of *)
(* the registry, no list, no living invitation, no lookup under way and    *)
(* no inv_unref that has a reference to it to give back; and its own       *)
(* thread has unregistered it.                                             *)
THEOREM FreedClientsAreUnreachable == Spec => []FreedIsUnreachable
<1>1. IInv => FreedIsUnreachable
  BY FreedHasNone
<1> QED  BY <1>1, InvitationsInvariant, PTL

(* The clients of a living invitation are not freed, so that the first     *)
(* step of an operation never uses one that is.                            *)
LEMMA ChangesStale ==
  ASSUME IInv, Defined, ~misled, Changes
  PROVE  ub' # "client"
<1>1. ASSUME NEW i \in Live  PROVE Sides(i) \cap freed = {}
  BY FreedHasNone DEF FreedIsUnreachable
<1>2. CASE Nothing
  BY <1>2 DEF Nothing, Defined
<1>3. ASSUME NEW i \in Invs, NEW st \in States, NEW g \in GameStates, Keeps(i, st, g)
      PROVE  ub' # "client"
  BY <1>1, <1>3 DEF Keeps, Set, Defined
<1>4. ASSUME NEW i \in Invs, NEW S \in SUBSET Clients, NEW st \in States,
             NEW g \in GameStates, Removes(i, S, st, g)
      PROVE  ub' # "client"
  <2>1. i \in Live /\ S \subseteq Sides(i)
    BY <1>4 DEF Removes
  <2>2. (S \cup Sides(i)) \cap freed = {}
    BY <1>1, <2>1
  <2> QED  BY <1>4, <2>2 DEF Removes, Unlist, Defined
<1> QED  BY <1>2, <1>3, <1>4 DEF Changes

(* A freed client is used in three ways only, as long as creg_lookup has   *)
(* returned the clients that it found: in process_invite, which gives the  *)
(* invitee's reference back before it uses it; in client_unref, which      *)
(* looks at the count after unlocking, whoever calls it; and in            *)
(* client_remove_invitation, which goes on after the last reference is     *)
(* gone.                                                                   *)
THEOREM StaleUsesAreKnown == Spec => StaleUsesKnown
<1> DEFINE Known == Defined /\ ub' = "client" /\ ~misled' =>
                      \E c \in Clients : StaleUse(c)
<1>1. ASSUME IInv, [Next]_vars, Defined, ub' = "client", ~misled'
      PROVE  \E c \in Clients : StaleUse(c)
  <2>1. CASE Ended \/ UNCHANGED vars
    BY <1>1, <2>1 DEF Ended, vars, Defined
  <2>2. ASSUME NEW c \in Clients, Packet(c) \/ LogoutOp(c)  PROVE FALSE
    <3>1. UNCHANGED misled
      BY <2>2 DEF Packet, LogoutOp, regVars
    <3> QED  BY <1>1, <2>2, <3>1, OperationChanges, ChangesStale
  <2>3. ASSUME NEW c \in Clients, UnrefInvitee(c)  PROVE FALSE
    <3> DEFINE found == slots[arg[c].slot]
    <3>1. /\ pc[c] = "lookup" /\ found = arg[c].client /\ ~misled
          /\ found \in freed
      BY <1>1, <2>3 DEF UnrefInvitee, At, Defined
    <3> HIDE DEF found
    <3> QED  BY <1>1, <3>1, FreedHasNone DEF FreedIsUnreachable
  <2>4. ASSUME NEW c \in Clients, TestInvitee(c) \/ client_make_invitation(c)
        PROVE  StaleUse(c)
    BY <1>1, <2>4 DEF TestInvitee, FreeIfUnreferenced, client_make_invitation,
                      Nothing, At, Defined, StaleUse
  <2>5. ASSUME NEW c \in Clients, TestSelf(c) \/ UseFreedSelf(c)
        PROVE  StaleUse(c)
    <3>1. c \in freed /\ pc[c] # "gone" /\ ~misled
      BY <1>1, <2>5 DEF TestSelf, UseFreedSelf, FreeIfUnreferenced, At, Defined, regVars
    <3>2. pc[c] = "unref_self"
      BY <1>1, <3>1, FreedHasNone DEF FreedIsUnreachable
    <3> QED  BY <3>1, <3>2 DEF StaleUse
  <2>6. ASSUME NEW c \in Clients,
               \/ \E d \in Clients : creg_lookup(c, d)
               \/ ReceiveEof(c) \/ BeginLogout(c) \/ VisitNode(c) \/ EndLogout(c)
               \/ creg_unregister(c) \/ Shift(c)
        PROVE  FALSE
    BY <1>1, <2>6 DEF creg_lookup, ReceiveEof, BeginLogout, VisitNode, EndLogout,
                      creg_unregister, Shift, Defined
  <2>7. ASSUME NEW c \in Clients, UnrefSides(c)  PROVE StaleUse(c)
    <3>1. ~misled /\ release.by = c /\ ub = "none"
      BY <1>1, <2>7 DEF UnrefSides, regVars, Defined
    <3>2. ~(UnrefTarget /\ release.target \in freed)
      BY <1>1, <3>1, FreedHasNone DEF FreedIsUnreachable, UnrefTarget
    <3> QED
      BY <1>1, <2>7, <3>1, <3>2 DEF UnrefSides, TestSource, UnrefTarget, TestTarget,
           PurgeId, FreeIfUnreferenced, StaleUse
  <2> QED  BY <1>1, <2>1, <2>2, <2>3, <2>4, <2>5, <2>6, <2>7 DEF Next, Serve, Leave
<1>2. IInv /\ [Next]_vars => [Known]_vars
  BY <1>1
<1> QED  BY <1>2, InvitationsInvariant, PTL DEF Spec, StaleUsesKnown
=============================================================================
