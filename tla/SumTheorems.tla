---------------------------- MODULE SumTheorems ----------------------------
(***************************************************************************)
(* Lemmas on sums over finite sets, SumFunctionOnSet of the module         *)
(* Functions, that the other proofs cite: a sum is a number, any element   *)
(* can be taken out of it, changing one value moves it by the difference,  *)
(* and it grows with its values and its set.                               *)
(*                                                                         *)
(* SumFunctionOnSet is a recursive function on subsets, chosen by CHOOSE.  *)
(* An induction theorem would take the statement as a parameter; here the  *)
(* statement fails on a set of subsets, and LeastSubset picks a least one, *)
(* where the recursion contradicts it.                                     *)
(***************************************************************************)
EXTENDS Integers, FiniteSets, Functions, FiniteSetTheorems, WellFoundedInduction, TLAPS

\* The element the recursion takes out of a set.
Pick(s) == CHOOSE x \in s : TRUE

\* h is the recursive function on the subsets of T that adds up the values of fun.
Adds(h, fun, T) ==
  h = [s \in SUBSET T |-> IF s = {} THEN 0 ELSE fun[Pick(s)] + h[s \ {Pick(s)}]]

\* It is one of the set's.
LEMMA PickIn == ASSUME NEW s, s # {} PROVE Pick(s) \in s
  BY Zenon DEF Pick

\* SumFunctionOnSet, unfolded to the choice of a function that adds up.
LEMMA SumDef ==
  ASSUME NEW fun, NEW S
  PROVE  SumFunctionOnSet(fun, S) = (CHOOSE h : Adds(h, fun, S))[S]
  BY Zenon DEF SumFunctionOnSet, FoldFunctionOnSet, MapThenFoldSet, Adds, Pick

\* A set of subsets of a finite set has a least element.
LEMMA LeastSubset ==
  ASSUME NEW S, IsFiniteSet(S), NEW W, W \subseteq SUBSET S, W # {}
  PROVE  \E T \in W : \A U \in W : U \subseteq T => U = T
<1>1. IsWellFoundedOn(StrictSubsetOrdering(S), SUBSET S)
  BY FS_StrictSubsetOrderingWellFounded, FS_FiniteSubsetsOfFinite
<1>2. PICK T \in W : \A U \in W : ~ (<<U, T>> \in StrictSubsetOrdering(S))
  BY <1>1, WFMin
<1>3. ASSUME NEW U \in W, U \subseteq T, U # T PROVE FALSE
  BY <1>2, <1>3 DEF StrictSubsetOrdering
<1> QED BY <1>3

\* Two functions that add up agree where both are defined.
LEMMA AddsAgree ==
  ASSUME NEW fun, NEW S, IsFiniteSet(S), NEW T \in SUBSET S, NEW U \in SUBSET S,
         NEW g, NEW h, Adds(g, fun, T), Adds(h, fun, U), NEW s \in SUBSET T, s \in SUBSET U
  PROVE  g[s] = h[s]
<1> DEFINE W == {v \in SUBSET S : v \subseteq T /\ v \subseteq U /\ g[v] # h[v]}
<1> SUFFICES ASSUME W # {} PROVE FALSE
  OBVIOUS
<1>1. PICK v \in W : \A w \in W : w \subseteq v => w = v
  <2>1. W \subseteq SUBSET S
    OBVIOUS
  <2> HIDE DEF W
  <2> QED BY <2>1, LeastSubset
<1> DEFINE x == Pick(v)
<1>2. CASE v = {}
  BY <1>2, <1>1 DEF Adds
<1>3. CASE v # {}
  <2>1. x \in v
    BY <1>3, PickIn
  <2>2. g[v \ {x}] = h[v \ {x}]
    BY <1>1, <2>1
  <2>3. v \in SUBSET T /\ v \in SUBSET U /\ g[v] # h[v]
    OBVIOUS
  <2>4. g[v] = fun[x] + g[v \ {x}] /\ h[v] = fun[x] + h[v \ {x}]
    BY <1>3, <2>3 DEF Adds
  <2> QED BY <2>2, <2>3, <2>4
<1> QED BY <1>2, <1>3

\* Over a finite set there is a function that adds up.
LEMMA AddsExists ==
  ASSUME NEW fun, NEW S, IsFiniteSet(S)
  PROVE  \E h : Adds(h, fun, S)
<1> DEFINE W == {T \in SUBSET S : ~ \E h : Adds(h, fun, T)}
<1> SUFFICES ASSUME W # {} PROVE FALSE
  OBVIOUS
<1>1. PICK T \in W : \A U \in W : U \subseteq T => U = T
  <2>1. W \subseteq SUBSET S
    OBVIOUS
  <2> HIDE DEF W
  <2> QED BY <2>1, LeastSubset
<1> DEFINE H(U) == CHOOSE h : Adds(h, fun, U)
           V(U) == H(U)[U]
<1>2. ASSUME NEW U \in SUBSET T, U # T PROVE Adds(H(U), fun, U)
  <2>1. \E h : Adds(h, fun, U)
    BY <1>1, <1>2
  <2> QED BY <2>1, Zenon
<1>3. ASSUME NEW U \in SUBSET T, U # T, U # {} 
      PROVE  V(U) = fun[Pick(U)] + V(U \ {Pick(U)})
  <2>1. Pick(U) \in U
    BY <1>3, PickIn
  <2>2. Adds(H(U), fun, U)
    BY <1>2, <1>3
  <2>3. H(U)[U] = fun[Pick(U)] + H(U)[U \ {Pick(U)}]
    BY <2>2, <1>3 DEF Adds
  <2>4. Adds(H(U \ {Pick(U)}), fun, U \ {Pick(U)})
    BY <2>1, <1>2, <1>3
  <2>5. IsFiniteSet(U)
    BY FS_Subset
  <2>6. H(U)[U \ {Pick(U)}] = H(U \ {Pick(U)})[U \ {Pick(U)}]
    BY <2>2, <2>4, <2>5, AddsAgree
  <2> QED BY <2>3, <2>6
<1>4. ASSUME T # {}, {} # T PROVE V({}) = 0
  <2>1. Adds(H({}), fun, {})
    BY <1>2, <1>4
  <2> QED BY <2>1 DEF Adds
<1> DEFINE h == [U \in SUBSET T |->
                  IF U = T THEN IF U = {} THEN 0 ELSE fun[Pick(U)] + V(U \ {Pick(U)}) ELSE V(U)]
<1>5. ASSUME NEW U \in SUBSET T
      PROVE  h[U] = IF U = {} THEN 0 ELSE fun[Pick(U)] + h[U \ {Pick(U)}]
  <2>0. h[U] = IF U = T THEN IF U = {} THEN 0 ELSE fun[Pick(U)] + V(U \ {Pick(U)}) ELSE V(U)
    OBVIOUS
  <2>1. CASE U = {}
    <3> HIDE DEF V, H
    <3> QED BY <2>0, <2>1, <1>4
  <2>2. CASE U # {}
    <3>1. Pick(U) \in U
      BY <2>2, PickIn
    <3>2. h[U \ {Pick(U)}] = V(U \ {Pick(U)})
      BY <3>1
    <3> HIDE DEF V, H, h
    <3> QED BY <2>0, <2>2, <3>1, <3>2, <1>3
  <2> QED BY <2>1, <2>2
<1>6. Adds(h, fun, T)
  <2>1. h = [U \in SUBSET T |-> IF U = {} THEN 0 ELSE fun[Pick(U)] + h[U \ {Pick(U)}]]
    <3>1. h = [U \in SUBSET T |-> h[U]]
      OBVIOUS
    <3> HIDE DEF h
    <3> QED BY <3>1, <1>5
  <2> HIDE DEF h
  <2> QED BY <2>1 DEF Adds
<1> HIDE DEF h
<1> QED BY <1>6, <1>1

\* A finite set of numbers that is not empty has a least and a greatest one.
LEMMA Extremes ==
  ASSUME NEW S, IsFiniteSet(S), S \subseteq Int, S # {}
  PROVE  /\ \E x \in S : \A y \in S : x >= y
         /\ \E x \in S : \A y \in S : x =< y
<1> DEFINE Good(T) == /\ \E x \in T : \A y \in T : x >= y
                      /\ \E x \in T : \A y \in T : x =< y
           W == {T \in SUBSET S : T # {} /\ ~Good(T)}
<1> SUFFICES ASSUME W # {} PROVE FALSE
  OBVIOUS
<1>1. PICK T \in W : \A U \in W : U \subseteq T => U = T
  <2>1. W \subseteq SUBSET S
    OBVIOUS
  <2> HIDE DEF W
  <2> QED BY ONLY IsFiniteSet(S), W # {}, <2>1, LeastSubset
<1>2. PICK z \in T : TRUE
  OBVIOUS
<1> DEFINE R == T \ {z}
<1>3. R \subseteq S /\ R \subseteq T /\ R # T /\ z \in Int
  BY <1>2
<1>4. CASE R = {}
  <2>1. T = {z}
    BY <1>2, <1>4
  <2> QED BY <2>1, <1>3
<1>5. CASE R # {}
  <2>1. Good(R)
    BY <1>1, <1>3, <1>5
  <2>2. PICK hi \in R : \A y \in R : hi >= y
    BY <2>1
  <2>3. PICK lo \in R : \A y \in R : lo =< y
    BY <2>1
  <2>4. \A y \in T : y \in Int /\ (y = z \/ y \in R)
    OBVIOUS
  <2>5. \E x \in T : \A y \in T : x >= y
    <3>1. CASE z >= hi
      BY <1>2, <1>3, <2>2, <2>4, <3>1
    <3>2. CASE ~(z >= hi)
      BY <1>2, <1>3, <2>2, <2>4, <3>2
    <3> QED BY <3>1, <3>2
  <2>6. \E x \in T : \A y \in T : x =< y
    <3>1. CASE z =< lo
      BY <1>2, <1>3, <2>3, <2>4, <3>1
    <3>2. CASE ~(z =< lo)
      BY <1>2, <1>3, <2>3, <2>4, <3>2
    <3> QED BY <3>1, <3>2
  <2> QED BY <2>5, <2>6
<1> QED BY <1>4, <1>5

-----------------------------------------------------------------------------
(* Sums *)

\* Of nothing the sum is 0.
LEMMA SumEmpty == ASSUME NEW fun PROVE SumFunctionOnSet(fun, {}) = 0
<1>1. \E h : Adds(h, fun, {})
  BY AddsExists, FS_EmptySet
<1>2. PICK h : Adds(h, fun, {}) /\ SumFunctionOnSet(fun, {}) = h[{}]
  BY <1>1, SumDef, Zenon
<1> QED BY <1>2 DEF Adds

\* The sum is the value at the element CHOOSE picks, and the sum of the rest.
LEMMA SumPick ==
  ASSUME NEW fun, NEW S, IsFiniteSet(S), S # {}
  PROVE  SumFunctionOnSet(fun, S) = fun[Pick(S)] + SumFunctionOnSet(fun, S \ {Pick(S)})
<1> DEFINE x == Pick(S)
           R == S \ {x}
<1>1. x \in S /\ IsFiniteSet(R)
  BY PickIn, FS_RemoveElement
<1>2. PICK h : Adds(h, fun, S) /\ SumFunctionOnSet(fun, S) = h[S]
  BY AddsExists, SumDef, Zenon
<1>3. PICK g : Adds(g, fun, R) /\ SumFunctionOnSet(fun, R) = g[R]
  BY <1>1, AddsExists, SumDef, Zenon
<1>4. h[S] = fun[x] + h[R]
  BY <1>2 DEF Adds
<1>5. h[R] = g[R]
  <2>1. R \in SUBSET S
    OBVIOUS
  <2> HIDE DEF R
  <2> QED BY <1>2, <1>3, <2>1, AddsAgree
<1> QED BY <1>2, <1>3, <1>4, <1>5

\* A sum of integers is one.
LEMMA SumInt ==
  ASSUME NEW fun, NEW S, IsFiniteSet(S), \A x \in S : fun[x] \in Int
  PROVE  SumFunctionOnSet(fun, S) \in Int
<1> DEFINE W == {T \in SUBSET S : SumFunctionOnSet(fun, T) \notin Int}
<1> SUFFICES ASSUME W # {} PROVE FALSE
  OBVIOUS
<1>1. PICK T \in W : \A U \in W : U \subseteq T => U = T
  <2>1. W \subseteq SUBSET S
    OBVIOUS
  <2> HIDE DEF W
  <2> QED BY <2>1, LeastSubset
<1>2. T # {}
  BY SumEmpty
<1>3. IsFiniteSet(T) /\ Pick(T) \in T
  BY <1>2, PickIn, FS_Subset
<1>4. SumFunctionOnSet(fun, T \ {Pick(T)}) \in Int
  BY <1>1, <1>3
<1> QED BY <1>2, <1>3, <1>4, SumPick

\* ... and so it is for any other element: the order of adding up does not matter.
LEMMA SumRemove ==
  ASSUME NEW fun, NEW S, IsFiniteSet(S), \A x \in S : fun[x] \in Int, NEW x \in S
  PROVE  SumFunctionOnSet(fun, S) = fun[x] + SumFunctionOnSet(fun, S \ {x})
<1> DEFINE Good(T) == \A z \in T : SumFunctionOnSet(fun, T) = fun[z] + SumFunctionOnSet(fun, T \ {z})
           W == {T \in SUBSET S : ~Good(T)}
<1> SUFFICES ASSUME W # {} PROVE FALSE
  OBVIOUS
<1>1. PICK T \in W : \A U \in W : U \subseteq T => U = T
  <2>1. W \subseteq SUBSET S
    OBVIOUS
  <2> HIDE DEF W
  <2> QED BY <2>1, LeastSubset
<1> SUFFICES Good(T)
  OBVIOUS
<1> SUFFICES ASSUME NEW z \in T
             PROVE  SumFunctionOnSet(fun, T) = fun[z] + SumFunctionOnSet(fun, T \ {z})
  OBVIOUS
<1> DEFINE y == Pick(T)
<1>2. IsFiniteSet(T) /\ y \in T
  BY PickIn, FS_Subset
<1>3. SumFunctionOnSet(fun, T) = fun[y] + SumFunctionOnSet(fun, T \ {y})
  BY SumPick, <1>2
<1>4. CASE z = y
  BY <1>3, <1>4
<1>5. CASE z # y
  <2>1. Good(T \ {y}) /\ Good(T \ {z})
    BY <1>1, <1>2
  <2> DEFINE rest == SumFunctionOnSet(fun, (T \ {y}) \ {z})
  <2>2. SumFunctionOnSet(fun, T \ {y}) = fun[z] + rest
    BY <2>1, <1>5
  <2>3. (T \ {z}) \ {y} = (T \ {y}) \ {z}
    OBVIOUS
  <2>4. SumFunctionOnSet(fun, T \ {z}) = fun[y] + rest
    BY <2>1, <2>3, <1>2, <1>5
  <2>5. IsFiniteSet((T \ {y}) \ {z}) /\ \A v \in (T \ {y}) \ {z} : fun[v] \in Int
    BY <1>2, FS_Subset
  <2>6. rest \in Int
    BY <2>5, SumInt
  <2>7. fun[y] \in Int /\ fun[z] \in Int
    BY <1>2
  <2> HIDE DEF rest, y
  <2> QED BY <1>3, <2>2, <2>4, <2>6, <2>7
<1> QED BY <1>4, <1>5

\* Larger values add up to a larger sum.
LEMMA SumMonotone ==
  ASSUME NEW f, NEW g, NEW S, IsFiniteSet(S),
         \A x \in S : f[x] \in Int /\ g[x] \in Int /\ f[x] <= g[x]
  PROVE  SumFunctionOnSet(f, S) <= SumFunctionOnSet(g, S)
<1> DEFINE W == {T \in SUBSET S : ~(SumFunctionOnSet(f, T) <= SumFunctionOnSet(g, T))}
<1> SUFFICES ASSUME W # {} PROVE FALSE
  OBVIOUS
<1>1. PICK T \in W : \A U \in W : U \subseteq T => U = T
  <2>1. W \subseteq SUBSET S
    OBVIOUS
  <2> HIDE DEF W
  <2> QED BY <2>1, LeastSubset
<1>2. T # {}
  BY SumEmpty
<1> DEFINE y == Pick(T)
           R == T \ {y}
<1>3. IsFiniteSet(T) /\ y \in T
  BY <1>2, PickIn, FS_Subset
<1>4. IsFiniteSet(R) /\ (\A v \in R : f[v] \in Int /\ g[v] \in Int)
  BY <1>3, FS_Subset
<1>5. SumFunctionOnSet(f, R) \in Int /\ SumFunctionOnSet(g, R) \in Int
  BY <1>4, SumInt
<1>6. SumFunctionOnSet(f, R) <= SumFunctionOnSet(g, R)
  BY <1>1, <1>3
<1>7. /\ SumFunctionOnSet(f, T) = f[y] + SumFunctionOnSet(f, R)
      /\ SumFunctionOnSet(g, T) = g[y] + SumFunctionOnSet(g, R)
  BY <1>2, <1>3, SumPick
<1>8. f[y] \in Int /\ g[y] \in Int /\ f[y] <= g[y]
  BY <1>3
<1> HIDE DEF y, R
<1> QED BY <1>1, <1>5, <1>6, <1>7, <1>8

\* Equal values have equal sums.
LEMMA SumSame ==
  ASSUME NEW f, NEW g, NEW S, IsFiniteSet(S), \A x \in S : f[x] \in Int /\ g[x] = f[x]
  PROVE  SumFunctionOnSet(g, S) = SumFunctionOnSet(f, S)
<1>1. SumFunctionOnSet(f, S) \in Int /\ SumFunctionOnSet(g, S) \in Int
  BY SumInt
<1>2. SumFunctionOnSet(f, S) <= SumFunctionOnSet(g, S)
  BY SumMonotone
<1>3. SumFunctionOnSet(g, S) <= SumFunctionOnSet(f, S)
  BY SumMonotone
<1> QED BY <1>1, <1>2, <1>3

\* Changing one value moves the sum by the difference.
LEMMA SumUpdate ==
  ASSUME NEW f, NEW g, NEW S, IsFiniteSet(S), NEW x \in S,
         \A y \in S : f[y] \in Int, g[x] \in Int, \A y \in S \ {x} : g[y] = f[y]
  PROVE  SumFunctionOnSet(g, S) = SumFunctionOnSet(f, S) - f[x] + g[x]
<1> DEFINE R == S \ {x}
<1>1. IsFiniteSet(R) /\ \A y \in S : g[y] \in Int
  BY FS_RemoveElement
<1>2. SumFunctionOnSet(g, R) = SumFunctionOnSet(f, R)
  BY <1>1, SumSame
<1>3. SumFunctionOnSet(f, R) \in Int
  BY <1>1, SumInt
<1>4. /\ SumFunctionOnSet(f, S) = f[x] + SumFunctionOnSet(f, R)
      /\ SumFunctionOnSet(g, S) = g[x] + SumFunctionOnSet(g, R)
  BY <1>1, SumRemove
<1> HIDE DEF R
<1> QED BY <1>1, <1>2, <1>3, <1>4

\* A sum of natural numbers is one.
LEMMA SumNat ==
  ASSUME NEW fun, NEW S, IsFiniteSet(S), \A x \in S : fun[x] \in Nat
  PROVE  SumFunctionOnSet(fun, S) \in Nat
<1> DEFINE W == {T \in SUBSET S : SumFunctionOnSet(fun, T) \notin Nat}
<1> SUFFICES ASSUME W # {} PROVE FALSE
  OBVIOUS
<1>1. PICK T \in W : \A U \in W : U \subseteq T => U = T
  <2>1. W \subseteq SUBSET S
    OBVIOUS
  <2> HIDE DEF W
  <2> QED BY <2>1, LeastSubset
<1>2. T # {}
  BY SumEmpty
<1>3. IsFiniteSet(T) /\ Pick(T) \in T
  BY <1>2, PickIn, FS_Subset
<1>4. SumFunctionOnSet(fun, T \ {Pick(T)}) \in Nat
  BY <1>1, <1>3
<1> QED BY <1>2, <1>3, <1>4, SumPick

\* A sum of zeros is 0.
LEMMA SumZero ==
  ASSUME NEW fun, NEW S, IsFiniteSet(S), \A x \in S : fun[x] = 0
  PROVE  SumFunctionOnSet(fun, S) = 0
<1> DEFINE W == {T \in SUBSET S : SumFunctionOnSet(fun, T) # 0}
<1> SUFFICES ASSUME W # {} PROVE FALSE
  OBVIOUS
<1>1. PICK T \in W : \A U \in W : U \subseteq T => U = T
  <2>1. W \subseteq SUBSET S
    OBVIOUS
  <2> HIDE DEF W
  <2> QED BY <2>1, LeastSubset
<1>2. T # {}
  BY SumEmpty
<1>3. IsFiniteSet(T) /\ Pick(T) \in T
  BY <1>2, PickIn, FS_Subset
<1>4. SumFunctionOnSet(fun, T \ {Pick(T)}) = 0
  BY <1>1, <1>3
<1> QED BY <1>2, <1>3, <1>4, SumPick

\* A sum of natural numbers over more elements is no smaller.
LEMMA SumSubset ==
  ASSUME NEW f, NEW T, IsFiniteSet(T), NEW S \in SUBSET T, \A x \in T : f[x] \in Nat
  PROVE  SumFunctionOnSet(f, S) <= SumFunctionOnSet(f, T)
<1> DEFINE W == {V \in SUBSET T : S \subseteq V
                                  /\ ~(SumFunctionOnSet(f, S) <= SumFunctionOnSet(f, V))}
<1> SUFFICES ASSUME W # {} PROVE FALSE
  OBVIOUS
<1>1. PICK V \in W : \A U \in W : U \subseteq V => U = V
  <2>1. W \subseteq SUBSET T
    OBVIOUS
  <2> HIDE DEF W
  <2> QED BY <2>1, LeastSubset
<1>2. S \subseteq V /\ V \subseteq T /\ ~(SumFunctionOnSet(f, S) <= SumFunctionOnSet(f, V))
  OBVIOUS
<1>3. \A U \in SUBSET T : SumFunctionOnSet(f, U) \in Nat
  <2>1. ASSUME NEW U \in SUBSET T PROVE SumFunctionOnSet(f, U) \in Nat
    <3>1. IsFiniteSet(U) /\ \A x \in U : f[x] \in Nat
      BY FS_Subset
    <3> QED BY <3>1, SumNat
  <2> QED BY <2>1
<1>4. PICK x \in V : x \notin S
  <2>1. V # S
    BY <1>2, <1>3
  <2> QED BY <1>2, <2>1
<1>5. SumFunctionOnSet(f, V) = f[x] + SumFunctionOnSet(f, V \ {x})
  <2>1. IsFiniteSet(V) /\ \A y \in V : f[y] \in Int
    BY <1>2, FS_Subset
  <2> QED BY <2>1, SumRemove
<1>6. SumFunctionOnSet(f, S) <= SumFunctionOnSet(f, V \ {x})
  BY <1>1, <1>4
<1>7. f[x] \in Nat /\ SumFunctionOnSet(f, S) \in Nat /\ SumFunctionOnSet(f, V \ {x}) \in Nat
      /\ SumFunctionOnSet(f, V) \in Nat
  BY <1>2, <1>3
<1> HIDE DEF W
<1> QED BY <1>2, <1>5, <1>6, <1>7
=============================================================================
