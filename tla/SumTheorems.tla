----------------------------- MODULE SumTheorems -----------------------------
(***************************************************************************)
(* The sum of the values of a function on a finite set, SumFunction of the *)
(* Functions module: what it is for a constant function, and how it        *)
(* changes when one value does.                                            *)
(*                                                                         *)
(* SumFunction is a recursive function on the subsets of the domain.  The  *)
(* inductions below are on the number of elements of a subset; they are    *)
(* about sets of numbers (NatInductionSet), not about predicates.          *)
(***************************************************************************)
EXTENDS Integers, FiniteSets, Functions, FiniteSetTheorems,
        WellFoundedInduction, TLAPS

(* A set of numbers that has 0, and n + 1 for every n in it, has them all. *)
LEMMA NatInductionSet ==
  ASSUME NEW T, 0 \in T, \A n \in Nat : n \in T => n + 1 \in T
  PROVE  \A n \in Nat : n \in T
<1> DEFINE R == OpToRel(<, Nat)
           U == Nat \ T
<1>1. IsWellFoundedOn(R, Nat)
  BY NatLessThanWellFounded
<1>2. \A x, y \in Nat : <<y, x>> \in R <=> y < x
  BY DEF OpToRel
<1> HIDE DEF R
<1>3. ASSUME U # {}  PROVE FALSE
  <2>1. U \subseteq Nat
    OBVIOUS
  <2>2. PICK x \in U : \A y \in U : ~(<<y, x>> \in R)
    BY <1>1, <1>3, <2>1, WFMin
  <2>3. \A y \in U : ~(y < x)
    BY <1>2, <2>2, Zenon
  <2>4. x # 0 /\ x \in Nat
    OBVIOUS
  <2>5. x - 1 \in Nat /\ x - 1 < x /\ (x - 1) + 1 = x
    BY <2>4
  <2>6. x - 1 \in T
    BY <2>3, <2>5
  <2> QED  BY <2>5, <2>6
<1> QED  BY <1>3

-----------------------------------------------------------------------------
(* The recursion that defines the sum.                                     *)

Pick(s) == CHOOSE x \in s : TRUE

Rest(s) == s \ {Pick(s)}

(* it is the sum of f on each set in D.                                    *)
Sums(it, f, D) ==
  it = [s \in D |-> IF s = {} THEN 0 ELSE f[Pick(s)] + it[Rest(s)]]

(* Taking the picked element away leaves one element less.                 *)
LEMMA PickFacts ==
  ASSUME NEW S, IsFiniteSet(S), NEW s \in SUBSET S, s # {}
  PROVE  /\ Pick(s) \in s /\ Rest(s) \in SUBSET S
         /\ Cardinality(s) \in Nat /\ Cardinality(Rest(s)) \in Nat
         /\ Cardinality(s) = Cardinality(Rest(s)) + 1
<1>1. Pick(s) \in s
  BY DEF Pick
<1>2. IsFiniteSet(s)
  BY FS_Subset
<1>3. /\ Cardinality(s) \in Nat /\ IsFiniteSet(Rest(s))
      /\ Cardinality(Rest(s)) = Cardinality(s) - 1
  BY <1>1, <1>2, FS_CardinalityType, FS_RemoveElement DEF Rest
<1>4. Cardinality(Rest(s)) \in Nat
  BY <1>3, FS_CardinalityType
<1> QED  BY <1>1, <1>3, <1>4 DEF Rest

(* There is a function that satisfies the recursion.                       *)
LEMMA SumsExist ==
  ASSUME NEW f, NEW S, IsFiniteSet(S)
  PROVE  \E it : Sums(it, f, SUBSET S)
<1> DEFINE D(n) == {s \in SUBSET S : Cardinality(s) <= n}
           T == {n \in Nat : \E it : Sums(it, f, D(n))}
<1>1. 0 \in T
  <2> DEFINE it == [s \in D(0) |-> 0]
  <2>1. ASSUME NEW s \in D(0)  PROVE s = {}
    <3>1. CASE s # {}
      BY <2>1, <3>1, PickFacts
    <3> QED  BY <3>1
  <2>2. Sums(it, f, D(0))
    BY <2>1, Zenon DEF Sums
  <2> QED  BY <2>2
<1>2. ASSUME NEW n \in Nat, n \in T  PROVE n + 1 \in T
  <2>1. PICK g : Sums(g, f, D(n))
    BY <1>2
  <2> DEFINE E == D(n + 1)
             Body(s, k) == IF s = {} THEN 0 ELSE f[Pick(s)] + k[Rest(s)]
             h == [s \in E |-> Body(s, g)]
  <2>2. \A s \in D(n) : g[s] = Body(s, g)
    BY <2>1, Zenon DEF Sums
  <2>3. \A s \in E : h[s] = Body(s, g)
    OBVIOUS
  <2>4. ASSUME NEW s \in E, s # {}  PROVE h[Rest(s)] = g[Rest(s)]
    <3>1. /\ Rest(s) \in SUBSET S /\ Cardinality(Rest(s)) \in Nat
          /\ Cardinality(s) = Cardinality(Rest(s)) + 1 /\ Cardinality(s) <= n + 1
      BY <2>4, PickFacts
    <3>2. Cardinality(Rest(s)) <= n /\ Cardinality(Rest(s)) <= n + 1
      BY <3>1
    <3>3. Rest(s) \in D(n) /\ Rest(s) \in E
      BY <3>1, <3>2
    <3> HIDE DEF D, E, h, Body
    <3> QED  BY <2>2, <2>3, <3>3
  <2>5. \A s \in E : Body(s, g) = Body(s, h)
    <3> HIDE DEF E, h
    <3> QED  BY <2>4
  <2>6. h = [s \in E |-> Body(s, h)]
    <3>1. h = [s \in E |-> Body(s, g)]
      OBVIOUS
    <3> HIDE DEF E, h, Body
    <3> QED  BY <2>5, <3>1
  <2>7. Sums(h, f, D(n + 1))
    <3> HIDE DEF h, D
    <3> QED  BY <2>6 DEF Sums
  <2> HIDE DEF h, D
  <2> QED  BY <2>7
<1>3. Cardinality(S) \in Nat
  BY FS_CardinalityType
<1>4. Cardinality(S) \in T
  <2> HIDE DEF T
  <2> QED  BY <1>1, <1>2, <1>3, NatInductionSet
<1>5. D(Cardinality(S)) = SUBSET S
  BY FS_Subset
<1> QED  BY <1>4, <1>5

(* The sum is what the recursion gives for the whole set.                  *)
LEMMA SumIsSums ==
  ASSUME NEW f, NEW S, IsFiniteSet(S)
  PROVE  \E it : Sums(it, f, SUBSET S) /\ SumFunctionOnSet(f, S) = it[S]
<1> DEFINE it == CHOOSE it : Sums(it, f, SUBSET S)
<1>1. Sums(it, f, SUBSET S)
  BY SumsExist
<1>2. SumFunctionOnSet(f, S) = it[S]
  BY DEF SumFunctionOnSet, FoldFunctionOnSet, MapThenFoldSet, Sums, Pick, Rest
<1> QED  BY <1>1, <1>2

(* What the recursion says for a set that is not empty.                    *)
LEMMA SumsStep ==
  ASSUME NEW f, NEW S, IsFiniteSet(S), NEW it, Sums(it, f, SUBSET S)
  PROVE  /\ it[{}] = 0
         /\ \A s \in SUBSET S : s # {} => it[s] = f[Pick(s)] + it[Rest(s)]
<1> DEFINE Body(s) == IF s = {} THEN 0 ELSE f[Pick(s)] + it[Rest(s)]
<1>1. \A s \in SUBSET S : it[s] = Body(s)
  BY Zenon DEF Sums
<1>2. {} \in SUBSET S
  OBVIOUS
<1> QED  BY <1>1, <1>2

-----------------------------------------------------------------------------
(* An induction over the subsets of a finite set: W has the empty set, and *)
(* every other subset s with Rest(s).                                      *)
LEMMA SubsetInduction ==
  ASSUME NEW S, IsFiniteSet(S), NEW W, {} \in W,
         \A s \in SUBSET S : s # {} /\ Rest(s) \in W => s \in W
  PROVE  S \in W
<1> DEFINE T == {n \in Nat : \A s \in SUBSET S : Cardinality(s) = n => s \in W}
<1>1. 0 \in T
  <2>1. ASSUME NEW s \in SUBSET S, Cardinality(s) = 0  PROVE s \in W
    <3>1. CASE s # {}
      BY <2>1, <3>1, PickFacts
    <3> QED  BY <3>1
  <2> QED  BY <2>1
<1>2. ASSUME NEW n \in Nat, n \in T  PROVE n + 1 \in T
  <2>1. ASSUME NEW s \in SUBSET S, Cardinality(s) = n + 1  PROVE s \in W
    <3>1. s # {}
      BY <2>1, FS_EmptySet
    <3>2. Rest(s) \in SUBSET S /\ Cardinality(Rest(s)) = n
      BY <2>1, <3>1, PickFacts
    <3>3. Rest(s) \in W
      BY <1>2, <3>2
    <3> QED  BY <3>1, <3>3
  <2> QED  BY <2>1
<1>3. Cardinality(S) \in Nat
  BY FS_CardinalityType
<1>4. Cardinality(S) \in T
  <2> HIDE DEF T
  <2> QED  BY <1>1, <1>2, <1>3, NatInductionSet
<1> QED  BY <1>4

(* The sum of a function whose values are all v.                           *)
THEOREM SumOfConstant ==
  ASSUME NEW S, IsFiniteSet(S), NEW v \in Int
  PROVE  SumFunction([x \in S |-> v]) = Cardinality(S) * v
<1> DEFINE f == [x \in S |-> v]
<1>1. PICK it : Sums(it, f, SUBSET S) /\ SumFunctionOnSet(f, S) = it[S]
  BY SumIsSums
<1> DEFINE W == {s \in SUBSET S : it[s] = Cardinality(s) * v}
<1>2. {} \in W
  BY <1>1, SumsStep, FS_EmptySet
<1>3. ASSUME NEW s \in SUBSET S, s # {}, Rest(s) \in W  PROVE s \in W
  <2> DEFINE m == Cardinality(Rest(s))
  <2>1. /\ Pick(s) \in S /\ m \in Nat /\ Cardinality(s) = m + 1
    BY <1>3, PickFacts
  <2>2. it[s] = f[Pick(s)] + it[Rest(s)] /\ it[Rest(s)] = m * v
    BY <1>1, <1>3, SumsStep
  <2>3. f[Pick(s)] = v
    BY <2>1
  <2> HIDE DEF m, f
  <2>4. v + m * v = (m + 1) * v
    BY <2>1
  <2> QED  BY <2>1, <2>2, <2>3, <2>4
<1>4. S \in W
  <2> HIDE DEF W
  <2> QED  BY <1>2, <1>3, SubsetInduction
<1> QED  BY <1>1, <1>4 DEF SumFunction

(* The sum of integers is an integer, and changes by as much as the value  *)
(* of the function at a does.                                              *)
THEOREM SumOfChanged ==
  ASSUME NEW S, IsFiniteSet(S), NEW f \in [S -> Int], NEW g \in [S -> Int],
         NEW a \in S, \A x \in S \ {a} : g[x] = f[x]
  PROVE  /\ SumFunction(f) \in Int
         /\ SumFunction(g) = SumFunction(f) + (g[a] - f[a])
<1>1. PICK it : Sums(it, f, SUBSET S) /\ SumFunctionOnSet(f, S) = it[S]
  BY SumIsSums
<1>2. PICK jt : Sums(jt, g, SUBSET S) /\ SumFunctionOnSet(g, S) = jt[S]
  BY SumIsSums
<1> DEFINE Change(s) == IF a \in s THEN g[a] - f[a] ELSE 0
           W == {s \in SUBSET S : it[s] \in Int /\ jt[s] = it[s] + Change(s)}
<1>3. {} \in W
  <2>1. it[{}] = 0 /\ jt[{}] = 0
    BY <1>1, <1>2, SumsStep
  <2> QED  BY <2>1
<1>4. ASSUME NEW s \in SUBSET S, s # {}, Rest(s) \in W  PROVE s \in W
  <2> DEFINE r == Rest(s)
             p == Pick(s)
  <2>1. p \in s /\ p \in S /\ r = s \ {p}
    BY <1>4, PickFacts DEF Rest
  <2>2. it[s] = f[p] + it[r] /\ jt[s] = g[p] + jt[r]
    BY <1>1, <1>2, <1>4, SumsStep
  <2>3. it[r] \in Int /\ jt[r] = it[r] + Change(r) /\ f[p] \in Int /\ g[p] \in Int
        /\ f[a] \in Int /\ g[a] \in Int
    BY <1>4, <2>1
  <2> HIDE DEF r, p
  <2>4. CASE p = a
    BY <2>1, <2>2, <2>3, <2>4
  <2>5. CASE p # a
    BY <2>1, <2>2, <2>3, <2>5
  <2> QED  BY <2>4, <2>5
<1>5. S \in W
  <2> HIDE DEF W
  <2> QED  BY <1>3, <1>4, SubsetInduction
<1>6. DOMAIN f = S /\ DOMAIN g = S
  OBVIOUS
<1> QED  BY <1>1, <1>2, <1>5, <1>6 DEF SumFunction
=============================================================================
