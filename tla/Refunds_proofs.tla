--------------------------- MODULE Refunds_proofs ---------------------------
(***************************************************************************)
(* What Refunds keeps for any number of refunds, requests and amounts.     *)
(*                                                                         *)
(* The first part is about sums over finite sets (TotalOver is a fold of   *)
(* the community modules): a sum does not depend on the order in which its *)
(* terms are taken, so one term can be split off, changed or bounded.      *)
(***************************************************************************)
EXTENDS Refunds, FiniteSetTheorems, TLAPS

Pick(T) == CHOOSE x \in T : TRUE

\* g adds up f on every subset of K.
Adds(g, f, K) ==
    /\ g \in [SUBSET K -> Int]
    /\ \A T \in SUBSET K : g[T] = IF T = {} THEN 0 ELSE f[Pick(T)] + g[T \ {Pick(T)}]

\* Induction over the naturals, for a set.
LEMMA NatInd ==
    ASSUME NEW P, 0 \in P, \A n \in Nat : n \in P => n + 1 \in P
    PROVE  Nat \subseteq P
<1> SUFFICES ASSUME Nat \ P # {} PROVE FALSE
  OBVIOUS
<1> DEFINE R == OpToRel(<, Nat)
<1>1. IsWellFoundedOn(R, Nat)
  BY NatLessThanWellFounded
<1>2. PICK n \in Nat \ P : \A m \in Nat \ P : <<m, n>> \notin R
  <2> HIDE DEF R
  <2> QED BY <1>1, WFMin
<1>3. n \in Nat /\ n # 0 /\ n \notin P
  BY <1>2
<1>3a. n - 1 \in Nat /\ n - 1 < n /\ n = (n - 1) + 1
  BY <1>3
<1>4. <<n - 1, n>> \in R
  BY <1>3, <1>3a DEF OpToRel
<1>5. n - 1 \in P
  BY <1>2, <1>3a, <1>4
<1> QED BY <1>3, <1>3a, <1>5

\* Induction over the subsets of a finite set, for a set of them.
LEMMA SubsetInd ==
    ASSUME NEW K, IsFiniteSet(K), NEW P,
           \A T \in SUBSET K : (\A x \in T : T \ {x} \in P) => T \in P
    PROVE  SUBSET K \subseteq P
<1> SUFFICES ASSUME (SUBSET K) \ P # {} PROVE FALSE
  OBVIOUS
<1> DEFINE R == StrictSubsetOrdering(K)
<1>1. IsWellFoundedOn(R, SUBSET K)
  <2>1. IsWellFoundedOn(StrictSubsetOrdering(K), FiniteSubsetsOf(K))
    BY FS_StrictSubsetOrderingWellFounded
  <2>2. FiniteSubsetsOf(K) = SUBSET K
    BY FS_FiniteSubsetsOfFinite
  <2> QED BY <2>1, <2>2
<1>2. PICK T \in (SUBSET K) \ P : \A U \in (SUBSET K) \ P : <<U, T>> \notin R
  <2> HIDE DEF R
  <2> QED BY <1>1, WFMin
<1>3. ASSUME NEW x \in T PROVE T \ {x} \in P
  <2>1. <<T \ {x}, T>> \in R
    BY <1>2, <1>3 DEF StrictSubsetOrdering
  <2> QED BY <1>2, <1>3, <2>1
<1> QED BY <1>2, <1>3

LEMMA PickIn == ASSUME NEW T, T # {} PROVE Pick(T) \in T
BY DEF Pick

\* Every integer-valued function on a finite set has a function that adds it up.
LEMMA AddsExists ==
    ASSUME NEW K, IsFiniteSet(K), NEW f \in [K -> Int]
    PROVE  \E g : Adds(g, f, K)
<1> DEFINE Rec(g, T) == IF T = {} THEN 0 ELSE f[Pick(T)] + g[T \ {Pick(T)}]
           Good(g, n) == \A T \in SUBSET K : Cardinality(T) <= n => g[T] = Rec(g, T)
           P == {n \in Nat : \E g \in [SUBSET K -> Int] : Good(g, n)}
<1>0. \A T \in SUBSET K : /\ IsFiniteSet(T) /\ Cardinality(T) \in Nat
                          /\ Cardinality(T) = 0 <=> T = {}
                          /\ Cardinality(T) <= Cardinality(K)
  BY FS_Subset, FS_CardinalityType, FS_EmptySet
<1>1. 0 \in P
  <2> DEFINE g == [T \in SUBSET K |-> 0]
  <2>1. Good(g, 0) /\ g \in [SUBSET K -> Int]
    BY <1>0
  <2> HIDE DEF Good, g
  <2> QED BY <2>1
<1>2. ASSUME NEW n \in Nat, n \in P PROVE n + 1 \in P
  <2>1. PICK g \in [SUBSET K -> Int] : Good(g, n)
    BY <1>2
  <2> DEFINE h == [T \in SUBSET K |-> Rec(g, T)]
  <2>2. ASSUME NEW T \in SUBSET K PROVE Rec(g, T) \in Int
    <3>1. CASE T = {}
      BY <3>1
    <3>2. CASE T # {}
      <4>1. Pick(T) \in T
        BY <3>2, PickIn
      <4>2. T \ {Pick(T)} \in SUBSET K /\ f[Pick(T)] \in Int
        BY <4>1
      <4>3. g[T \ {Pick(T)}] \in Int
        BY <4>2
      <4> QED BY <3>2, <4>2, <4>3
    <3> QED BY <3>1, <3>2
  <2>3. h \in [SUBSET K -> Int]
    BY <2>2
  <2>4. ASSUME NEW T \in SUBSET K, Cardinality(T) <= n + 1
        PROVE  h[T] = Rec(h, T)
    <3>1. CASE T = {}
      BY <3>1
    <3>2. CASE T # {}
      <4>1. Pick(T) \in T
        BY <3>2, PickIn
      <4> DEFINE U == T \ {Pick(T)}
      <4>2. U \in SUBSET K
        OBVIOUS
      <4>3. Cardinality(U) <= n
        <5>1. Cardinality(U) = Cardinality(T) - 1
          BY <4>1, <1>0, FS_RemoveElement
        <5> QED BY <5>1, <1>0, <2>4
      <4>4. g[U] = Rec(g, U)
        BY <2>1, <4>2, <4>3
      <4>5. h[U] = g[U]
        BY <4>2, <4>4
      <4> QED BY <3>2, <4>5
    <3> QED BY <3>1, <3>2
  <2> HIDE DEF h
  <2>5. Good(h, n + 1)
    BY <2>4
  <2> HIDE DEF Good
  <2> QED BY <2>3, <2>5
<1>3. Nat \subseteq P
  <2> HIDE DEF P
  <2> QED BY <1>1, <1>2, NatInd
<1>4. PICK g \in [SUBSET K -> Int] : Good(g, Cardinality(K))
  <2>1. Cardinality(K) \in P
    BY <1>0, <1>3
  <2> HIDE DEF Good
  <2> QED BY <2>1
<1>5. \A T \in SUBSET K : g[T] = Rec(g, T)
  BY <1>0, <1>4
<1> QED BY <1>4, <1>5 DEF Adds

\* The fold over S is what any such function says of S.
LEMMA TotalIs ==
    ASSUME NEW K, IsFiniteSet(K), NEW f, NEW g, Adds(g, f, K), NEW S \in SUBSET K
    PROVE  TotalOver(f, S) = g[S]
<1> DEFINE Body(it) == [s \in SUBSET S |-> IF s = {} THEN 0
                                           ELSE f[Pick(s)] + it[s \ {Pick(s)}]]
           it0 == CHOOSE it : it = Body(it)
<1>1. TotalOver(f, S) = it0[S]
  BY DEF TotalOver, FoldFunctionOnSet, MapThenFoldSet, Pick
<1> DEFINE gS == [s \in SUBSET S |-> g[s]]
<1>2. gS = Body(gS)
  <2>1. ASSUME NEW s \in SUBSET S
        PROVE  gS[s] = IF s = {} THEN 0 ELSE f[Pick(s)] + gS[s \ {Pick(s)}]
    BY DEF Adds
  <2> QED BY <2>1
<1>3. it0 = Body(it0)
  <2> HIDE DEF gS, Body
  <2> QED BY <1>2
<1> HIDE DEF it0
<1> DEFINE P == {s \in SUBSET S : it0[s] = g[s]}
<1>4. IsFiniteSet(S)
  BY FS_Subset
<1>5. ASSUME NEW T \in SUBSET S, \A x \in T : T \ {x} \in P
      PROVE  T \in P
  <2>1. it0[T] = IF T = {} THEN 0 ELSE f[Pick(T)] + it0[T \ {Pick(T)}]
    BY <1>3
  <2>2. g[T] = IF T = {} THEN 0 ELSE f[Pick(T)] + g[T \ {Pick(T)}]
    BY DEF Adds
  <2>3. T # {} => it0[T \ {Pick(T)}] = g[T \ {Pick(T)}]
    BY <1>5, PickIn
  <2> QED BY <2>1, <2>2, <2>3
<1>6. SUBSET S \subseteq P
  <2> HIDE DEF P
  <2> QED BY <1>4, <1>5, SubsetInd
<1> QED BY <1>1, <1>6

\* Only the terms of S matter.
LEMMA TotalAgree ==
    ASSUME NEW S, IsFiniteSet(S), NEW f, NEW h,
           \A x \in S : f[x] \in Int /\ f[x] = h[x]
    PROVE  TotalOver(f, S) = TotalOver(h, S)
<1> DEFINE e == [x \in S |-> f[x]]
<1>1. e \in [S -> Int]
  OBVIOUS
<1>2. PICK g : Adds(g, e, S)
  <2> HIDE DEF e
  <2> QED BY <1>1, AddsExists
<1>3. \A T \in SUBSET S : T # {} => e[Pick(T)] = f[Pick(T)] /\ e[Pick(T)] = h[Pick(T)]
  BY PickIn
<1> HIDE DEF e
<1>4. Adds(g, f, S) /\ Adds(g, h, S)
  BY <1>2, <1>3 DEF Adds
<1> QED BY <1>4, TotalIs

\* A sum of integers is an integer; the empty one is 0; any term can be split off.
LEMMA TotalSplit ==
    ASSUME NEW S, IsFiniteSet(S), NEW f, \A x \in S : f[x] \in Int
    PROVE  /\ TotalOver(f, S) \in Int
           /\ S = {} => TotalOver(f, S) = 0
           /\ \A k \in S : TotalOver(f, S) = f[k] + TotalOver(f, S \ {k})
<1> DEFINE e == [x \in S |-> f[x]]
<1>1. e \in [S -> Int]
  OBVIOUS
<1>2. \A x \in S : e[x] = f[x]
  OBVIOUS
<1> HIDE DEF e
<1>3. PICK g : Adds(g, e, S)
  BY <1>1, AddsExists
<1>4. ASSUME NEW T \in SUBSET S PROVE TotalOver(f, T) = g[T]
  <2>1. IsFiniteSet(T)
    BY FS_Subset
  <2>2. TotalOver(f, T) = TotalOver(e, T)
    BY <1>2, <2>1, TotalAgree
  <2> QED BY <1>3, <2>2, TotalIs
<1> DEFINE P == {T \in SUBSET S : \A k \in T : g[T] = e[k] + g[T \ {k}]}
<1>5. ASSUME NEW T \in SUBSET S, \A x \in T : T \ {x} \in P
      PROVE  T \in P
  <2> SUFFICES ASSUME NEW k \in T PROVE g[T] = e[k] + g[T \ {k}]
    OBVIOUS
  <2> DEFINE x == Pick(T)
  <2>1. x \in T
    BY PickIn
  <2>2. g[T] = e[x] + g[T \ {x}]
    BY <1>3 DEF Adds
  <2> HIDE DEF x
  <2>3. CASE k = x
    BY <2>2, <2>3
  <2>4. CASE k # x
    <3> DEFINE U == (T \ {x}) \ {k}
    <3>1. U = (T \ {k}) \ {x}
      OBVIOUS
    <3>2. g[T \ {x}] = e[k] + g[U]
      BY <1>5, <2>1, <2>4
    <3>3. g[T \ {k}] = e[x] + g[U]
      BY <1>5, <2>1, <2>4, <3>1
    <3>4. e[k] \in Int /\ e[x] \in Int /\ g[U] \in Int
      <4>1. k \in S /\ x \in S /\ U \in SUBSET S
        BY <2>1
      <4> QED BY <1>1, <1>3, <4>1 DEF Adds
    <3> HIDE DEF U
    <3> QED BY <2>2, <3>2, <3>3, <3>4
  <2> QED BY <2>3, <2>4
<1>6. SUBSET S \subseteq P
  <2> HIDE DEF P
  <2> QED BY <1>5, SubsetInd
<1>7. S \in P
  BY <1>6
<1>8. g[S] \in Int /\ g[{}] = 0
  BY <1>3 DEF Adds
<1>9. ASSUME NEW k \in S PROVE TotalOver(f, S) = f[k] + TotalOver(f, S \ {k})
  <2>1. g[S] = e[k] + g[S \ {k}]
    BY <1>7
  <2> QED BY <1>2, <1>4, <2>1
<1>10. TotalOver(f, S) = g[S]
  BY <1>4
<1> QED BY <1>8, <1>9, <1>10

\* A sum of naturals is a natural.
LEMMA TotalNat ==
    ASSUME NEW S, IsFiniteSet(S), NEW f, \A x \in S : f[x] \in Nat
    PROVE  TotalOver(f, S) \in Nat
<1> DEFINE P == {T \in SUBSET S : TotalOver(f, T) \in Nat}
<1>1. ASSUME NEW T \in SUBSET S, \A x \in T : T \ {x} \in P
      PROVE  T \in P
  <2>0. IsFiniteSet(T) /\ \A x \in T : f[x] \in Int
    BY FS_Subset
  <2>1. CASE T = {}
    BY <2>0, <2>1, TotalSplit
  <2>2. CASE T # {}
    <3>1. PICK x \in T : TRUE
      BY <2>2
    <3>2. TotalOver(f, T) = f[x] + TotalOver(f, T \ {x})
      BY <2>0, TotalSplit
    <3>3. TotalOver(f, T \ {x}) \in Nat /\ f[x] \in Nat
      BY <1>1
    <3> QED BY <3>2, <3>3
  <2> QED BY <2>1, <2>2
<1>2. SUBSET S \subseteq P
  <2> HIDE DEF P
  <2> QED BY <1>1, SubsetInd
<1> QED BY <1>2

\* A sum grows with its terms.
LEMMA TotalMono ==
    ASSUME NEW S, IsFiniteSet(S), NEW f, NEW h,
           \A x \in S : f[x] \in Int /\ h[x] \in Int /\ f[x] <= h[x]
    PROVE  TotalOver(f, S) <= TotalOver(h, S)
<1> DEFINE P == {T \in SUBSET S : TotalOver(f, T) <= TotalOver(h, T)}
<1>1. ASSUME NEW T \in SUBSET S, \A x \in T : T \ {x} \in P
      PROVE  T \in P
  <2>0. IsFiniteSet(T) /\ (\A x \in T : f[x] \in Int) /\ (\A x \in T : h[x] \in Int)
    BY FS_Subset
  <2>1. CASE T = {}
    <3>1. TotalOver(f, T) = 0 /\ TotalOver(h, T) = 0
      BY <2>0, <2>1, TotalSplit
    <3> QED BY <3>1
  <2>2. CASE T # {}
    <3>1. PICK x \in T : TRUE
      BY <2>2
    <3>2. /\ TotalOver(f, T) = f[x] + TotalOver(f, T \ {x})
          /\ TotalOver(h, T) = h[x] + TotalOver(h, T \ {x})
      BY <2>0, TotalSplit, ZenonT(60)
    <3>3. TotalOver(f, T \ {x}) <= TotalOver(h, T \ {x})
      BY <1>1
    <3>4. TotalOver(f, T \ {x}) \in Int /\ TotalOver(h, T \ {x}) \in Int
      <4>1. IsFiniteSet(T \ {x})
        BY <2>0, FS_RemoveElement
      <4> QED BY <2>0, <4>1, TotalSplit
    <3>5. f[x] \in Int /\ h[x] \in Int /\ f[x] <= h[x]
      OBVIOUS
    <3> QED BY <3>2, <3>3, <3>4, <3>5
  <2> QED BY <2>1, <2>2
<1>2. SUBSET S \subseteq P
  <2> HIDE DEF P
  <2> QED BY <1>1, SubsetInd
<1> QED BY <1>2

\* The sum of two functions.
LEMMA TotalPlus ==
    ASSUME NEW S, IsFiniteSet(S), NEW f, NEW h, NEW e,
           \A x \in S : f[x] \in Int /\ h[x] \in Int /\ e[x] = f[x] + h[x]
    PROVE  TotalOver(e, S) = TotalOver(f, S) + TotalOver(h, S)
<1> DEFINE P == {T \in SUBSET S : TotalOver(e, T) = TotalOver(f, T) + TotalOver(h, T)}
<1>1. ASSUME NEW T \in SUBSET S, \A x \in T : T \ {x} \in P
      PROVE  T \in P
  <2>0. /\ IsFiniteSet(T) /\ (\A x \in T : f[x] \in Int) /\ (\A x \in T : h[x] \in Int)
        /\ \A x \in T : e[x] \in Int
    BY FS_Subset
  <2>1. CASE T = {}
    <3>1. TotalOver(f, T) = 0 /\ TotalOver(h, T) = 0 /\ TotalOver(e, T) = 0
      BY <2>0, <2>1, TotalSplit
    <3> QED BY <3>1
  <2>2. CASE T # {}
    <3>1. PICK x \in T : TRUE
      BY <2>2
    <3>2. /\ TotalOver(f, T) = f[x] + TotalOver(f, T \ {x})
          /\ TotalOver(h, T) = h[x] + TotalOver(h, T \ {x})
          /\ TotalOver(e, T) = e[x] + TotalOver(e, T \ {x})
      BY <2>0, TotalSplit
    <3>3. TotalOver(e, T \ {x}) = TotalOver(f, T \ {x}) + TotalOver(h, T \ {x})
      BY <1>1
    <3>4. TotalOver(f, T \ {x}) \in Int /\ TotalOver(h, T \ {x}) \in Int
      <4>1. IsFiniteSet(T \ {x})
        BY <2>0, FS_RemoveElement
      <4> QED BY <2>0, <4>1, TotalSplit
    <3>5. f[x] \in Int /\ h[x] \in Int /\ e[x] = f[x] + h[x]
      OBVIOUS
    <3> QED BY <3>2, <3>3, <3>4, <3>5
  <2> QED BY <2>1, <2>2
<1>2. SUBSET S \subseteq P
  <2> HIDE DEF P
  <2> QED BY <1>1, SubsetInd
<1> QED BY <1>2

\* Terms that are 0 outside L do not count.
LEMMA TotalOutside ==
    ASSUME NEW S, IsFiniteSet(S), NEW L \in SUBSET S, NEW f,
           \A x \in S : f[x] \in Int, \A x \in S \ L : f[x] = 0
    PROVE  TotalOver(f, S) = TotalOver(f, L)
<1> DEFINE P == {T \in SUBSET S : TotalOver(f, T) = TotalOver(f, T \cap L)}
<1>1. ASSUME NEW T \in SUBSET S, \A x \in T : T \ {x} \in P
      PROVE  T \in P
  <2>0. /\ IsFiniteSet(T) /\ (\A x \in T : f[x] \in Int)
        /\ IsFiniteSet(T \cap L) /\ (\A x \in T \cap L : f[x] \in Int)
    BY FS_Subset
  <2>1. CASE T \subseteq L
    BY <2>1, Zenon
  <2>2. CASE ~(T \subseteq L)
    <3>1. PICK x \in T : x \notin L
      BY <2>2
    <3>2. TotalOver(f, T) = f[x] + TotalOver(f, T \ {x})
      BY <2>0, TotalSplit
    <3>3. TotalOver(f, T \ {x}) = TotalOver(f, (T \ {x}) \cap L)
      BY <1>1
    <3>4. (T \ {x}) \cap L = T \cap L
      BY <3>1
    <3>5. f[x] = 0
      BY <3>1
    <3>6. TotalOver(f, T \cap L) \in Int
      BY <2>0, TotalSplit
    <3>7. TotalOver(f, T \ {x}) = TotalOver(f, T \cap L)
      BY <3>3, <3>4
    <3>8. TotalOver(f, T) = TotalOver(f, T \cap L)
      BY <3>2, <3>5, <3>6, <3>7
    <3> QED BY <3>8
  <2> QED BY <2>1, <2>2
<1>2. SUBSET S \subseteq P
  <2> HIDE DEF P
  <2> QED BY <1>1, SubsetInd
<1>3. S \cap L = L
  OBVIOUS
<1> QED BY <1>2, <1>3

-----------------------------------------------------------------------------
(* The same facts about SumOver, the form the model uses.                  *)

LEMMA SumNat ==
    ASSUME NEW S, IsFiniteSet(S), NEW f \in [S -> Nat] PROVE SumOver(f) \in Nat
<1>1. DOMAIN f = S /\ \A x \in S : f[x] \in Nat
  OBVIOUS
<1> QED BY <1>1, TotalNat DEF SumOver

LEMMA SumZero ==
    ASSUME NEW S, IsFiniteSet(S), NEW f \in [S -> Int], \A x \in S : f[x] = 0
    PROVE  SumOver(f) = 0
<1>1. DOMAIN f = S /\ (\A x \in S : f[x] \in Int) /\ {} \in SUBSET S
  OBVIOUS
<1>2. \A x \in S \ {} : f[x] = 0
  OBVIOUS
<1>3. TotalOver(f, S) = TotalOver(f, {})
  BY <1>1, <1>2, TotalOutside
<1>4. TotalOver(f, {}) = 0
  <2>1. IsFiniteSet({}) /\ \A x \in {} : f[x] \in Int
    BY FS_EmptySet
  <2> QED BY <2>1, TotalSplit
<1> QED BY <1>1, <1>3, <1>4 DEF SumOver

LEMMA SumMono ==
    ASSUME NEW S, IsFiniteSet(S), NEW f \in [S -> Int], NEW h \in [S -> Int],
           \A x \in S : f[x] <= h[x]
    PROVE  SumOver(f) <= SumOver(h)
<1>1. DOMAIN f = S /\ DOMAIN h = S /\ \A x \in S : f[x] \in Int /\ h[x] \in Int /\ f[x] <= h[x]
  OBVIOUS
<1> QED BY <1>1, TotalMono DEF SumOver

LEMMA SumPlus ==
    ASSUME NEW S, IsFiniteSet(S), NEW f \in [S -> Int], NEW h \in [S -> Int],
           NEW e \in [S -> Int], \A x \in S : e[x] = f[x] + h[x]
    PROVE  SumOver(e) = SumOver(f) + SumOver(h)
<1>1. /\ DOMAIN f = S /\ DOMAIN h = S /\ DOMAIN e = S
      /\ \A x \in S : f[x] \in Int /\ h[x] \in Int /\ e[x] = f[x] + h[x]
  OBVIOUS
<1> QED BY <1>1, TotalPlus DEF SumOver

\* Changing one term.
LEMMA SumChange ==
    ASSUME NEW S, IsFiniteSet(S), NEW f \in [S -> Int], NEW h \in [S -> Int],
           NEW k \in S, \A x \in S \ {k} : h[x] = f[x]
    PROVE  /\ SumOver(f) \in Int
           /\ SumOver(h) = SumOver(f) - f[k] + h[k]
<1>1. DOMAIN f = S /\ DOMAIN h = S /\ (\A x \in S : f[x] \in Int) /\ (\A x \in S : h[x] \in Int)
  OBVIOUS
<1>2. IsFiniteSet(S \ {k}) /\ (\A x \in S \ {k} : f[x] \in Int)
  BY FS_RemoveElement
<1>3. /\ TotalOver(f, S) = f[k] + TotalOver(f, S \ {k})
      /\ TotalOver(h, S) = h[k] + TotalOver(h, S \ {k})
      /\ TotalOver(f, S) \in Int
  BY <1>1, TotalSplit
<1>4. TotalOver(f, S \ {k}) \in Int
  BY <1>2, TotalSplit
<1>5. TotalOver(f, S \ {k}) = TotalOver(h, S \ {k})
  BY <1>2, TotalAgree
<1> QED BY <1>1, <1>3, <1>4, <1>5 DEF SumOver

\* No term is larger than a sum of naturals.
LEMMA SumTerm ==
    ASSUME NEW S, IsFiniteSet(S), NEW f \in [S -> Nat], NEW k \in S
    PROVE  f[k] <= SumOver(f)
<1>1. DOMAIN f = S /\ (\A x \in S : f[x] \in Int) /\ f[k] \in Nat
  OBVIOUS
<1>2. IsFiniteSet(S \ {k}) /\ (\A x \in S \ {k} : f[x] \in Nat)
  BY FS_RemoveElement
<1>3. TotalOver(f, S) = f[k] + TotalOver(f, S \ {k})
  BY <1>1, TotalSplit
<1>4. TotalOver(f, S \ {k}) \in Nat
  BY <1>2, TotalNat
<1> QED BY <1>1, <1>3, <1>4 DEF SumOver

\* A sum over a part is the sum over the whole with 0 elsewhere.
LEMMA SumPart ==
    ASSUME NEW S, IsFiniteSet(S), NEW L \in SUBSET S, NEW f \in [L -> Int],
           NEW h \in [S -> Int], \A x \in S : h[x] = IF x \in L THEN f[x] ELSE 0
    PROVE  SumOver(f) = SumOver(h)
<1>1. /\ DOMAIN f = L /\ DOMAIN h = S /\ IsFiniteSet(L) /\ (\A x \in S : h[x] \in Int)
      /\ \A x \in S \ L : h[x] = 0
  BY FS_Subset
<1>2. TotalOver(h, S) = TotalOver(h, L)
  BY <1>1, TotalOutside
<1>3. \A x \in L : f[x] \in Int /\ f[x] = h[x]
  OBVIOUS
<1>4. TotalOver(f, L) = TotalOver(h, L)
  BY <1>1, <1>3, TotalAgree
<1> QED BY <1>1, <1>2, <1>4 DEF SumOver

-----------------------------------------------------------------------------
(* Arithmetic of the shares.                                               *)

\* Rounding a quotient of at most s gives at most s.
LEMMA RoundBound ==
    ASSUME NEW a \in Nat, NEW b \in Nat, b > 0, NEW s \in Nat, a <= s * b
    PROVE  Round(a, b) \in 0 .. s
<1> DEFINE n == 2 * a + b
           d == 2 * b
           q == n \div d
<1>1. n \in Nat /\ d \in Nat /\ d > 0
  OBVIOUS
<1>2. n < (s + 1) * d
  BY SMT
<1> HIDE DEF n, d
<1>3. q \in Int /\ q * d <= n /\ n < (q + 1) * d
  BY <1>1
<1> HIDE DEF q
<1>4. q < s + 1
  BY <1>1, <1>2, <1>3
<1>5. q >= 0
  BY <1>1, <1>3
<1>6. q \in 0 .. s
  BY <1>3, <1>4, <1>5
<1> QED BY <1>6 DEF Round, q, n, d

LEMMA MaxZero == ASSUME NEW a \in Int PROVE Max({0, a}) = IF a > 0 THEN a ELSE 0
BY DEF Max

LEMMA MinTwo == ASSUME NEW a \in Int, NEW b \in Int PROVE Min({a, b}) = IF a <= b THEN a ELSE b
BY DEF Min

Pool == GatewayPool + WalletPool

LEMMA OwnerFacts ==
    /\ IsFiniteSet(Owners) /\ Owners = 1 .. Len(Credits) /\ Len(Credits) \in 0 .. 2
    /\ \A o \in Owners : Credits[o] \in 0 .. Pool
<1>1. Owners = 1 .. Len(Credits) /\ Len(Credits) \in 0 .. 2 /\ Credits \in [Owners -> Nat]
  <2>1. Credits \in Seq(Nat) /\ Len(Credits) <= 2
    BY RefundsAssumption
  <2>2. Len(Credits) \in Nat /\ DOMAIN Credits = 1 .. Len(Credits)
    BY <2>1
  <2>3. Credits \in [1 .. Len(Credits) -> Nat]
    BY <2>1
  <2> QED BY <2>1, <2>2, <2>3 DEF Owners
<1>2. IsFiniteSet(Owners)
  <2>1. 1 \in Int /\ Len(Credits) \in Int
    BY <1>1
  <2> QED BY <1>1, <2>1, FS_Interval
<1>3. ASSUME NEW o \in Owners PROVE Credits[o] \in 0 .. Pool
  <2>1. Credits[o] \in Nat /\ Credits[o] <= SumOver(Credits)
    BY <1>1, <1>2, SumTerm
  <2>2. SumOver(Credits) \in Nat
    BY <1>1, <1>2, SumNat
  <2> QED BY <2>1, <2>2, RefundsAssumption DEF Pool
<1> QED BY <1>1, <1>2, <1>3

DebitType == debits \in [Keys -> [Owners -> Nat]]

\* What each owner still holds is between 0 and what it was credited.
LEMMA RemainingFacts ==
    ASSUME DebitType
    PROVE  /\ \A o \in Owners : /\ Reversed(o) \in Nat /\ Remaining(o) \in Nat
                                /\ Remaining(o) = IF Credits[o] > Reversed(o)
                                                  THEN Credits[o] - Reversed(o) ELSE 0
                                /\ Remaining(o) <= Credits[o] /\ Credits[o] \in 0 .. Pool
                                /\ Remaining(o) <= RemainingCredit
           /\ RemainingCredit \in Nat
<1>1. IsFiniteSet(Owners) /\ (\A o \in Owners : Credits[o] \in 0 .. Pool) /\ IsFiniteSet(Keys)
  BY OwnerFacts, RefundsAssumption
<1>2. ASSUME NEW o \in Owners PROVE Reversed(o) \in Nat
  <2>1. [k \in Keys |-> debits[k][o]] \in [Keys -> Nat]
    BY DEF DebitType
  <2> QED BY <1>1, <2>1, SumNat DEF Reversed
<1>3. ASSUME NEW o \in Owners
      PROVE  /\ Remaining(o) \in Nat
             /\ Remaining(o) = IF Credits[o] > Reversed(o) THEN Credits[o] - Reversed(o) ELSE 0
             /\ Remaining(o) <= Credits[o]
  <2>1. Reversed(o) \in Nat /\ Credits[o] \in 0 .. Pool /\ Pool \in Nat
    BY <1>1, <1>2, RefundsAssumption DEF Pool
  <2>2. Remaining(o) = IF Credits[o] - Reversed(o) > 0 THEN Credits[o] - Reversed(o) ELSE 0
    BY <2>1, MaxZero DEF Remaining
  <2> QED BY <2>1, <2>2
<1> DEFINE f == [o \in Owners |-> Remaining(o)]
<1>4. f \in [Owners -> Nat] /\ \A o \in Owners : f[o] = Remaining(o)
  BY <1>3
<1>5. RemainingCredit = SumOver(f)
  BY DEF RemainingCredit
<1> HIDE DEF f
<1>6. RemainingCredit \in Nat
  BY <1>1, <1>4, <1>5, SumNat
<1>7. ASSUME NEW o \in Owners PROVE Remaining(o) <= RemainingCredit
  BY <1>1, <1>4, <1>5, SumTerm
<1> QED BY <1>1, <1>2, <1>3, <1>6, <1>7

\* A proportion of a share is between nothing and the share.
LEMMA ProportionBound ==
    ASSUME DebitType, NEW share \in Nat, NEW o \in Holders
    PROVE  Proportion(share, o) \in 0 .. share
<1>1. o \in Owners /\ Remaining(o) > 0
  BY DEF Holders
<1>2. Remaining(o) \in Nat /\ RemainingCredit \in Nat /\ Remaining(o) <= RemainingCredit
  BY <1>1, RemainingFacts
<1> DEFINE r == Remaining(o)
           R == RemainingCredit
<1>3. r \in Nat /\ R \in Nat /\ R > 0 /\ r <= R
  BY <1>1, <1>2
<1> HIDE DEF r, R
<1>4. share * r \in Nat /\ share * r <= share * R
  BY <1>3
<1>5. Round(share * r, R) \in 0 .. share
  BY <1>3, <1>4, RoundBound
<1> QED BY <1>5 DEF Proportion, r, R

\* The legs of a clawback are between nothing and the share.
LEMMA ClawbackType ==
    ASSUME DebitType, NEW share \in Nat
    PROVE  Clawback(share) \in [Owners -> 0 .. share]
<1> SUFFICES ASSUME NEW o \in Owners PROVE Clawback(share)[o] \in 0 .. share
  BY DEF Clawback
<1> DEFINE rest == [p \in Holders \ {o} |-> Proportion(share, p)]
<1>1. Clawback(share)[o] = IF o \notin Holders THEN 0
                           ELSE IF o # Max(Holders) THEN Proportion(share, o)
                           ELSE share - SumOver(rest)
  BY DEF Clawback
<1>2. CASE o \notin Holders \/ o # Max(Holders)
  BY <1>1, <1>2, ProportionBound
<1>3. CASE o \in Holders /\ o = Max(Holders)
  <2>1. (\E p : Holders \ {o} = {p}) \/ Holders \ {o} = {}
    <3>1. Owners \subseteq {1, 2}
      BY OwnerFacts
    <3>2. Holders \subseteq {1, 2}
      BY <3>1 DEF Holders
    <3>3. Holders \ {o} = {} \/ Holders \ {o} = {1} \/ Holders \ {o} = {2}
      BY <1>3, <3>2
    <3> QED BY <3>3
  <2>2. rest \in [Holders \ {o} -> 0 .. share]
    BY ProportionBound
  <2>3. SumOver(rest) \in 0 .. share
    <3>1. CASE Holders \ {o} = {}
      <4>1. rest \in [Holders \ {o} -> Int] /\ IsFiniteSet(Holders \ {o})
        BY <2>2, <3>1, FS_EmptySet
      <4>2. \A x \in Holders \ {o} : rest[x] = 0
        BY <3>1
      <4> HIDE DEF rest
      <4>3. SumOver(rest) = 0
        BY <4>1, <4>2, SumZero
      <4> QED BY <4>3
    <3>2. CASE \E p : Holders \ {o} = {p}
      <4>1. PICK p : Holders \ {o} = {p}
        BY <3>2
      <4> HIDE DEF rest
      <4>2. DOMAIN rest = {p} /\ rest[p] \in 0 .. share
        BY <2>2, <4>1
      <4>3. IsFiniteSet({p}) /\ (\A x \in {p} : rest[x] \in Int) /\ p \in {p}
        <5>1. IsFiniteSet({p})
          BY FS_Singleton
        <5> QED BY <4>2, <5>1
      <4>4. TotalOver(rest, {p}) = rest[p] + TotalOver(rest, {p} \ {p})
        BY <4>3, TotalSplit
      <4>5. TotalOver(rest, {p} \ {p}) = 0
        <5>1. {p} \ {p} = {} /\ IsFiniteSet({}) /\ \A x \in {} : rest[x] \in Int
          BY FS_EmptySet
        <5> QED BY <5>1, TotalSplit
      <4> QED BY <4>2, <4>4, <4>5 DEF SumOver
    <3> QED BY <2>1, <3>1, <3>2
  <2> QED BY <1>1, <1>3, <2>3
<1> QED BY <1>2, <1>3

-----------------------------------------------------------------------------
(* Types, and what holds while refunds do not overlap.                     *)

\* A step that leaves no overlap on record.
NoOverlap == "overlap" \notin slips'

LiveStatus == {"pending", "processed"}
RowRec == [status : Statuses, gateway : Amount, wallet : Amount, share : Amount, ref : BOOLEAN]
ReqRec == [pc : Pcs, key : Keys \cup {"none"}, resumed : BOOLEAN,
           to : {"stay", "refunded", "cancelled"}, gateway : Amount, wallet : Amount,
           share : Amount, call : BOOLEAN, pending : BOOLEAN, legs : [Owners -> Amount]]

\* Types, with what a row holds within what was paid.
RowTypes ==
    /\ rows \in [Keys -> RowRec]
    /\ \A k \in Keys : rows[k].gateway + rows[k].wallet <= Pool
    /\ \A k \in Keys : rows[k].status = "none" => rows[k].gateway = 0 /\ rows[k].wallet = 0

DataTypes ==
    /\ booking \in {"paid", "disputed", "refunded", "cancelled"}
    /\ payment \in {"captured", "refunded"} /\ coupon \in BOOLEAN
    /\ \A k \in Keys : intents[k] \in Intents[k]
    /\ vendor \in [Keys -> Amount] /\ credited \in [Keys -> Amount]
    /\ debits \in [Keys -> [Owners -> Amount]]
    /\ faults \in 0 .. MaxFaults

\* A request past its insert has a row.
ReqTypes ==
    /\ req \in [Workers -> ReqRec]
    /\ \A w \in Workers : req[w].pc # "idle" => req[w].key \in Keys
    /\ \A w \in Workers : req[w].pc \notin {"idle", "insert"} => rows[req[w].key].status # "none"
    /\ \A w \in Workers : req[w].pc = "insert" => req[w].gateway + req[w].wallet <= Pool

BaseInv == RowTypes /\ DataTypes /\ ReqTypes

\* Requests in flight are all of one refund.
OneKey ==
    \A v, w \in Workers : req[v].pc # "idle" /\ req[w].pc # "idle" => req[v].key = req[w].key

\* The rows that count: the live ones and those somebody still works on.
Counts(k) == rows[k].status \in LiveStatus \/ \E w \in Workers : req[w].pc # "idle" /\ req[w].key = k
GatewayTaken == [k \in Keys |-> IF Counts(k) THEN rows[k].gateway ELSE 0]
WalletTaken == [k \in Keys |-> IF Counts(k) THEN rows[k].wallet ELSE 0]

\* They stay within both pools, together with the row about to be inserted.
Budget ==
    /\ SumOver(GatewayTaken) <= GatewayPool /\ SumOver(WalletTaken) <= WalletPool
    /\ \A w \in Workers :
           req[w].pc = "insert" /\ rows[req[w].key].status = "none" =>
               /\ req[w].gateway + req[w].wallet > 0
               /\ SumOver(GatewayTaken) + req[w].gateway <= GatewayPool
               /\ SumOver(WalletTaken) + req[w].wallet <= WalletPool

OrderInv == OneKey /\ Budget

-----------------------------------------------------------------------------
(* Where the money is.                                                     *)

AfterVendor == {"wallet", "processed", "read", "post", "move", "coupon", "apply"}
AfterWallet == AfterVendor \ {"wallet"}

\* The vendor and the wallet move what the row says or nothing, the vendor
\* first, and nothing under a row that is not live, unless it is misfiled.
RowOK(k) ==
    /\ vendor[k] \in {0, ToGateway(k)} /\ credited[k] \in {0, ToWallet(k)}
    /\ rows[k].ref => vendor[k] = ToGateway(k)
    /\ rows[k].status = "none" => vendor[k] = 0 /\ credited[k] = 0
    /\ k \notin misfiled /\ rows[k].status \notin LiveStatus => vendor[k] = 0 /\ credited[k] = 0
    /\ ~StrayRow /\ credited[k] # 0 => vendor[k] = ToGateway(k)

\* What a request in flight under k may rely on.
ReqAt(w, k) ==
    /\ req[w].pc # "insert" /\ k \notin misfiled => rows[k].status \in LiveStatus
    /\ req[w].pc = "record" => vendor[k] = ToGateway(k)
    /\ req[w].pc = "fail" => ToGateway(k) > 0
    /\ req[w].pc = "gateway" /\ ~req[w].call /\ ~StrayRow => rows[k].ref
    /\ req[w].pc \in AfterVendor /\ ~StrayRow => vendor[k] = ToGateway(k)
    /\ req[w].pc \in AfterWallet => credited[k] = ToWallet(k)

RowMoney == \A k \in Keys : RowOK(k)
ReqMoney == \A w \in Workers : req[w].pc # "idle" => ReqAt(w, req[w].key)

MoneyInv == RowMoney /\ ReqMoney

-----------------------------------------------------------------------------
(* A row that is returned, a full refund, a row that counts.               *)

Returned(k) == vendor[k] = ToGateway(k) /\ credited[k] = ToWallet(k)
IsFull(k) == intents[k].kind = "full"
LiveRow(k) == rows[k].status \in LiveStatus

-----------------------------------------------------------------------------
(* Steps that neither start a request nor insert a row.                    *)

Kept(v) ==
    /\ req'[v].key = req[v].key /\ req'[v].to = req[v].to
    /\ req'[v].resumed = req[v].resumed /\ req'[v].call = req[v].call
    /\ req'[v].gateway = req[v].gateway /\ req'[v].wallet = req[v].wallet
    /\ req'[v].share = req[v].share

ReqTame ==
    /\ req' \in [Workers -> ReqRec]
    /\ \A v \in Workers :
           \/ req'[v].pc = "idle"
           \/ /\ Kept(v) /\ req[v].pc # "idle"
              /\ req'[v].pc = "insert" <=> req[v].pc = "insert"

RowTame ==
    /\ rows' \in [Keys -> RowRec]
    /\ \A k \in Keys :
           /\ rows'[k].gateway = rows[k].gateway /\ rows'[k].wallet = rows[k].wallet
           /\ rows'[k].share = rows[k].share
           /\ rows'[k].status = "none" <=> rows[k].status = "none"
           /\ rows'[k].status \in LiveStatus => Counts(k)

LEMMA Numbers ==
    /\ GatewayPool \in Nat /\ WalletPool \in Nat /\ Pool \in Nat /\ Amount = 0 .. Pool
    /\ Amount \subseteq Nat /\ 0 \in Amount /\ IsFiniteSet(Keys) /\ MaxFaults \in Nat
BY RefundsAssumption DEF Pool, Amount

LEMMA DebitsTyped == ASSUME DataTypes PROVE DebitType
BY Numbers DEF DataTypes, DebitType

LEMMA NoReqTyped == NoReq \in ReqRec /\ NoReq.pc = "idle"
<1>1. Nobody \in [Owners -> Amount]
  BY Numbers DEF Nobody
<1>2. "idle" \in Pcs /\ "none" \in Keys \cup {"none"}
  BY DEF Pcs
<1> QED BY <1>1, <1>2, Numbers DEF NoReq, ReqRec

\* Where a row's money goes adds up to the row.
LEMMA Delivered ==
    ASSUME RowTypes, NEW k \in Keys
    PROVE  /\ ToGateway(k) \in Amount /\ ToWallet(k) \in Amount
           /\ ToGateway(k) + ToWallet(k) = rows[k].gateway + rows[k].wallet
           /\ ToGateway(k) <= rows[k].gateway
<1>1. /\ rows[k].gateway \in 0 .. Pool /\ rows[k].wallet \in 0 .. Pool
      /\ rows[k].gateway + rows[k].wallet <= Pool
  BY Numbers DEF RowTypes, RowRec
<1>2. ToGateway(k) = 0 \/ ToGateway(k) = rows[k].gateway
  BY DEF ToGateway
<1>3. ToWallet(k) = rows[k].wallet + rows[k].gateway - ToGateway(k)
  BY DEF ToWallet
<1> QED BY <1>1, <1>2, <1>3, Numbers

LEMMA GotoFacts ==
    ASSUME req \in [Workers -> ReqRec], NEW w \in Workers, NEW pc \in Pcs, Goto(w, pc)
    PROVE  /\ req' \in [Workers -> ReqRec] /\ req'[w].pc = pc /\ Kept(w)
           /\ req'[w].pending = req[w].pending /\ req'[w].legs = req[w].legs
           /\ \A v \in Workers \ {w} : req'[v] = req[v]
<1>1. req' = [req EXCEPT ![w] = [req[w] EXCEPT !.pc = pc]]
  BY DEF Goto
<1>2. req[w] \in ReqRec
  OBVIOUS
<1> DEFINE r == [req[w] EXCEPT !.pc = pc]
<1>3. /\ r \in ReqRec /\ r.pc = pc /\ r.key = req[w].key /\ r.to = req[w].to
      /\ r.resumed = req[w].resumed /\ r.call = req[w].call
      /\ r.gateway = req[w].gateway /\ r.wallet = req[w].wallet /\ r.share = req[w].share
      /\ r.pending = req[w].pending /\ r.legs = req[w].legs
  BY <1>2 DEF ReqRec
<1>4. req' = [req EXCEPT ![w] = r]
  BY <1>1
<1> HIDE DEF r
<1>5. req'[w] = r /\ req' \in [Workers -> ReqRec] /\ \A v \in Workers \ {w} : req'[v] = req[v]
  BY <1>3, <1>4
<1> QED BY <1>3, <1>5 DEF Kept

LEMMA EndFacts ==
    ASSUME req \in [Workers -> ReqRec], NEW w \in Workers, req' = [req EXCEPT ![w] = NoReq]
    PROVE  /\ req' \in [Workers -> ReqRec] /\ req'[w].pc = "idle"
           /\ \A v \in Workers \ {w} : req'[v] = req[v]
BY NoReqTyped

LEMMA GotoTame ==
    ASSUME req \in [Workers -> ReqRec], NEW w \in Workers, NEW pc \in Pcs \ {"idle", "insert"},
           req[w].pc \notin {"idle", "insert"}, Goto(w, pc)
    PROVE  ReqTame
<1>1. /\ req' \in [Workers -> ReqRec] /\ req'[w].pc = pc /\ Kept(w)
      /\ \A v \in Workers \ {w} : req'[v] = req[v]
  BY GotoFacts
<1>2. ASSUME NEW v \in Workers
      PROVE  \/ req'[v].pc = "idle"
             \/ /\ Kept(v) /\ req[v].pc # "idle"
                /\ req'[v].pc = "insert" <=> req[v].pc = "insert"
  <2>1. CASE v = w
    BY <1>1, <2>1
  <2>2. CASE v # w
    BY <1>1, <2>2 DEF Kept
  <2> QED BY <2>1, <2>2
<1> QED BY <1>1, <1>2 DEF ReqTame

LEMMA EndTame ==
    ASSUME req \in [Workers -> ReqRec], NEW w \in Workers, req' = [req EXCEPT ![w] = NoReq]
    PROVE  ReqTame
<1>1. /\ req' \in [Workers -> ReqRec] /\ req'[w].pc = "idle"
      /\ \A v \in Workers \ {w} : req'[v] = req[v]
  BY EndFacts
<1> QED BY <1>1 DEF ReqTame, Kept

LEMMA SameTame ==
    ASSUME req \in [Workers -> ReqRec], UNCHANGED req
    PROVE  ReqTame
BY DEF ReqTame, Kept

LEMMA RowsSame ==
    ASSUME RowTypes, UNCHANGED rows
    PROVE  RowTame
BY DEF RowTame, RowTypes, Counts

\* The status of a row that counts changes.
LEMMA RowsMarked ==
    ASSUME RowTypes, NEW k \in Keys, Counts(k), rows[k].status # "none",
           NEW st \in Statuses \ {"none"}, NEW rf \in BOOLEAN,
           rows' = [rows EXCEPT ![k] = [rows[k] EXCEPT !.status = st, !.ref = rf]]
    PROVE  /\ RowTame /\ rows'[k].status = st /\ rows'[k].ref = rf
           /\ \A j \in Keys \ {k} : rows'[j] = rows[j]
<1> DEFINE r == [rows[k] EXCEPT !.status = st, !.ref = rf]
<1>1. rows[k] \in RowRec /\ rows \in [Keys -> RowRec]
  BY DEF RowTypes
<1>2. /\ r \in RowRec /\ r.status = st /\ r.gateway = rows[k].gateway
      /\ r.wallet = rows[k].wallet /\ r.share = rows[k].share /\ r.ref = rf
  BY <1>1 DEF RowRec
<1>3. rows' = [rows EXCEPT ![k] = r]
  OBVIOUS
<1> HIDE DEF r
<1>4. rows'[k] = r /\ rows' \in [Keys -> RowRec] /\ \A j \in Keys \ {k} : rows'[j] = rows[j]
  BY <1>1, <1>2, <1>3
<1>5. ASSUME NEW j \in Keys
      PROVE  /\ rows'[j].gateway = rows[j].gateway /\ rows'[j].wallet = rows[j].wallet
             /\ rows'[j].share = rows[j].share
             /\ rows'[j].status = "none" <=> rows[j].status = "none"
             /\ rows'[j].status \in LiveStatus => Counts(j)
  <2>1. CASE j = k
    BY <1>2, <1>4, <2>1
  <2>2. CASE j # k
    BY <1>4, <2>2 DEF Counts
  <2> QED BY <2>1, <2>2
<1> QED BY <1>2, <1>4, <1>5 DEF RowTame

LEMMA StatusMarked ==
    ASSUME RowTypes, NEW k \in Keys, Counts(k), rows[k].status # "none",
           NEW st \in Statuses \ {"none"}, rows' = [rows EXCEPT ![k].status = st]
    PROVE  /\ RowTame /\ rows'[k].status = st /\ rows'[k].ref = rows[k].ref
           /\ \A j \in Keys \ {k} : rows'[j] = rows[j]
<1>1. rows[k] \in RowRec /\ rows[k].ref \in BOOLEAN
  BY DEF RowTypes, RowRec
<1>2. [rows[k] EXCEPT !.status = st] = [rows[k] EXCEPT !.status = st, !.ref = rows[k].ref]
  BY <1>1 DEF RowRec
<1>3. rows' = [rows EXCEPT ![k] = [rows[k] EXCEPT !.status = st, !.ref = rows[k].ref]]
  BY <1>2
<1> QED BY <1>1, <1>3, RowsMarked, ZenonT(60)

\* A row counts after such a step only if it did before.
LEMMA TameCounts ==
    ASSUME ReqTypes, ReqTame, RowTame, NEW k \in Keys, Counts(k)'
    PROVE  Counts(k)
<1>1. CASE rows'[k].status \in LiveStatus
  BY <1>1 DEF RowTame
<1>2. CASE \E w \in Workers : req'[w].pc # "idle" /\ req'[w].key = k
  <2>1. PICK w \in Workers : req'[w].pc # "idle" /\ req'[w].key = k
    BY <1>2
  <2>2. req[w].pc # "idle" /\ req[w].key = k
    BY <2>1 DEF ReqTame, Kept
  <2> QED BY <2>2 DEF Counts
<1> QED BY <1>1, <1>2 DEF Counts

LEMMA TakenTypes ==
    ASSUME RowTypes
    PROVE  /\ GatewayTaken \in [Keys -> Nat] /\ WalletTaken \in [Keys -> Nat]
           /\ SumOver(GatewayTaken) \in Nat /\ SumOver(WalletTaken) \in Nat
<1>1. \A k \in Keys : rows[k].gateway \in Nat /\ rows[k].wallet \in Nat
  BY Numbers DEF RowTypes, RowRec
<1>2. GatewayTaken \in [Keys -> Nat] /\ WalletTaken \in [Keys -> Nat]
  BY <1>1 DEF GatewayTaken, WalletTaken
<1> QED BY <1>2, Numbers, SumNat

LEMMA TameRowTypes == ASSUME RowTypes, RowTame PROVE RowTypes'
BY DEF RowTypes, RowTame

\* So the pools are taxed no more than before.
LEMMA TameBudget ==
    ASSUME RowTypes, ReqTypes, Budget, ReqTame, RowTame
    PROVE  /\ Budget'
           /\ SumOver(GatewayTaken)' <= SumOver(GatewayTaken)
           /\ SumOver(WalletTaken)' <= SumOver(WalletTaken)
<1>1. RowTypes'
  BY TameRowTypes
<1>2. /\ GatewayTaken \in [Keys -> Nat] /\ WalletTaken \in [Keys -> Nat]
      /\ SumOver(GatewayTaken) \in Nat /\ SumOver(WalletTaken) \in Nat
  BY TakenTypes
<1>3. /\ GatewayTaken' \in [Keys -> Nat] /\ WalletTaken' \in [Keys -> Nat]
      /\ SumOver(GatewayTaken') \in Nat /\ SumOver(WalletTaken') \in Nat
  <2>1. ASSUME RowTypes'
        PROVE  /\ GatewayTaken' \in [Keys -> Nat] /\ WalletTaken' \in [Keys -> Nat]
               /\ SumOver(GatewayTaken)' \in Nat /\ SumOver(WalletTaken)' \in Nat
    <3>1. \A k \in Keys : rows'[k].gateway \in Nat /\ rows'[k].wallet \in Nat
      BY Numbers, <2>1 DEF RowTypes, RowRec
    <3>2. GatewayTaken' \in [Keys -> Nat] /\ WalletTaken' \in [Keys -> Nat]
      BY <3>1 DEF GatewayTaken, WalletTaken
    <3> QED BY <3>2, Numbers, SumNat
  <2> QED BY <1>1, <2>1
<1>4. ASSUME NEW k \in Keys
      PROVE  GatewayTaken'[k] <= GatewayTaken[k] /\ WalletTaken'[k] <= WalletTaken[k]
  <2>1. /\ GatewayTaken'[k] = IF Counts(k)' THEN rows'[k].gateway ELSE 0
        /\ WalletTaken'[k] = IF Counts(k)' THEN rows'[k].wallet ELSE 0
        /\ GatewayTaken[k] = IF Counts(k) THEN rows[k].gateway ELSE 0
        /\ WalletTaken[k] = IF Counts(k) THEN rows[k].wallet ELSE 0
    BY DEF GatewayTaken, WalletTaken
  <2>2. rows'[k].gateway = rows[k].gateway /\ rows'[k].wallet = rows[k].wallet
    BY DEF RowTame
  <2>3. rows[k].gateway \in Nat /\ rows[k].wallet \in Nat
    BY Numbers DEF RowTypes, RowRec
  <2>4. Counts(k)' => Counts(k)
    BY TameCounts
  <2> QED BY <2>1, <2>2, <2>3, <2>4
<1>5. SumOver(GatewayTaken') <= SumOver(GatewayTaken) /\ SumOver(WalletTaken') <= SumOver(WalletTaken)
  <2>1. /\ GatewayTaken \in [Keys -> Int] /\ WalletTaken \in [Keys -> Int]
        /\ GatewayTaken' \in [Keys -> Int] /\ WalletTaken' \in [Keys -> Int]
        /\ IsFiniteSet(Keys)
    BY <1>2, <1>3, Numbers
  <2>2. SumOver(GatewayTaken') <= SumOver(GatewayTaken)
    BY <1>4, <2>1, SumMono
  <2>3. SumOver(WalletTaken') <= SumOver(WalletTaken)
    BY <1>4, <2>1, SumMono
  <2> QED BY <2>2, <2>3
<1>6. SumOver(GatewayTaken') <= GatewayPool /\ SumOver(WalletTaken') <= WalletPool
  BY <1>2, <1>3, <1>5, Numbers DEF Budget
<1>7. ASSUME NEW w \in Workers, req'[w].pc = "insert", rows'[req'[w].key].status = "none"
      PROVE  /\ req'[w].gateway + req'[w].wallet > 0
             /\ SumOver(GatewayTaken') + req'[w].gateway <= GatewayPool
             /\ SumOver(WalletTaken') + req'[w].wallet <= WalletPool
  <2>1. Kept(w) /\ req[w].pc = "insert"
    BY <1>7 DEF ReqTame
  <2>2. req[w].key \in Keys
    BY <2>1 DEF ReqTypes
  <2>3. rows[req[w].key].status = "none"
    BY <1>7, <2>1, <2>2 DEF RowTame, Kept
  <2>4. /\ req[w].gateway + req[w].wallet > 0
        /\ SumOver(GatewayTaken) + req[w].gateway <= GatewayPool
        /\ SumOver(WalletTaken) + req[w].wallet <= WalletPool
    BY <2>1, <2>3 DEF Budget
  <2>5. req'[w].gateway = req[w].gateway /\ req'[w].wallet = req[w].wallet
    BY <2>1 DEF Kept
  <2>6. req[w].gateway \in Nat /\ req[w].wallet \in Nat
    BY Numbers DEF ReqTypes, ReqRec
  <2>7. SumOver(GatewayTaken') + req'[w].gateway <= GatewayPool
    <3>1. /\ SumOver(GatewayTaken) \in Nat /\ SumOver(GatewayTaken') \in Nat
          /\ SumOver(GatewayTaken') <= SumOver(GatewayTaken)
      BY <1>2, <1>3, <1>5
    <3> QED BY <2>4, <2>5, <2>6, <3>1, Numbers
  <2>8. SumOver(WalletTaken') + req'[w].wallet <= WalletPool
    <3>1. /\ SumOver(WalletTaken) \in Nat /\ SumOver(WalletTaken') \in Nat
          /\ SumOver(WalletTaken') <= SumOver(WalletTaken)
      BY <1>2, <1>3, <1>5
    <3> QED BY <2>4, <2>5, <2>6, <3>1, Numbers
  <2> QED BY <2>4, <2>5, <2>7, <2>8
<1>8. SumOver(GatewayTaken)' = SumOver(GatewayTaken') /\ SumOver(WalletTaken)' = SumOver(WalletTaken')
  OBVIOUS
<1> QED BY <1>5, <1>6, <1>7, <1>8 DEF Budget

LEMMA TameBase ==
    ASSUME BaseInv, ReqTame, RowTame
    PROVE  /\ RowTypes' /\ ReqTypes'
           /\ OneKey => OneKey'
           /\ Budget => Budget'
<1>1. RowTypes'
  BY TameRowTypes DEF BaseInv
<1>2. Budget => Budget'
  BY TameBudget DEF BaseInv
<1>3. OneKey => OneKey'
  BY DEF OneKey, ReqTame, Kept
<1>4. ReqTypes'
  <2>1. ASSUME NEW w \in Workers, req'[w].pc # "idle" PROVE req'[w].key \in Keys
    BY <2>1 DEF BaseInv, ReqTypes, ReqTame, Kept
  <2>2. ASSUME NEW w \in Workers, req'[w].pc \notin {"idle", "insert"}
        PROVE  rows'[req'[w].key].status # "none"
    <3>1. req'[w].key = req[w].key /\ req[w].pc \notin {"idle", "insert"}
      BY <2>2 DEF ReqTame, Kept
    <3>2. req[w].key \in Keys /\ rows[req[w].key].status # "none"
      BY <3>1 DEF BaseInv, ReqTypes
    <3> QED BY <3>1, <3>2 DEF RowTame
  <2>3. ASSUME NEW w \in Workers, req'[w].pc = "insert"
        PROVE  req'[w].gateway + req'[w].wallet <= Pool
    BY <2>3 DEF BaseInv, ReqTypes, ReqTame, Kept
  <2> QED BY <2>1, <2>2, <2>3 DEF ReqTypes, ReqTame
<1> QED BY <1>1, <1>2, <1>3, <1>4

LEMMA Working ==
    ASSUME BaseInv, NEW w \in Workers, req[w].pc \notin {"idle", "insert"}
    PROVE  /\ req \in [Workers -> ReqRec] /\ req[w] \in ReqRec /\ req[w].key \in Keys
           /\ rows[req[w].key].status # "none" /\ Counts(req[w].key)
           /\ RowTypes /\ DataTypes
BY DEF BaseInv, ReqTypes, Counts

LEMMA VendorTyped ==
    ASSUME BaseInv, NEW k \in Keys
    PROVE  /\ VendorAccepts(k) \in [Keys -> Amount]
           /\ \A j \in Keys \ {k} : VendorAccepts(k)[j] = vendor[j]
           /\ VendorAccepts(k)[k] = vendor[k] \/ VendorAccepts(k)[k] = ToGateway(k)
           /\ vendor[k] # 0 => VendorAccepts(k)[k] = vendor[k]
<1>1. ToGateway(k) \in Amount /\ vendor \in [Keys -> Amount]
  BY Delivered DEF BaseInv, DataTypes
<1> QED BY <1>1 DEF VendorAccepts

LEMMA FaultTyped == ASSUME DataTypes, NEW kind, Fault(kind) PROVE faults' \in 0 .. MaxFaults
BY Numbers DEF DataTypes, Fault

LEMMA CallTame ==
    ASSUME BaseInv, NEW w \in Workers, callGateway(w)
    PROVE  ReqTame /\ RowTame /\ DataTypes'
<1> DEFINE k == req[w].key
<1>1. req[w].pc \notin {"idle", "insert"}
  BY DEF callGateway
<1>2. /\ req \in [Workers -> ReqRec] /\ k \in Keys /\ RowTypes /\ DataTypes
  BY <1>1, Working
<1>3. RowTame
  BY <1>2, RowsSame DEF callGateway
<1>4. ReqTame
  <2>1. \E pc \in {"wallet", "fail", "record"} : Goto(w, pc)
    BY DEF callGateway
  <2>2. {"wallet", "fail", "record"} \subseteq Pcs \ {"idle", "insert"}
    BY DEF Pcs
  <2> QED BY <1>1, <1>2, <2>1, <2>2, GotoTame
<1>5. vendor' \in [Keys -> Amount]
  <2>1. vendor' = vendor \/ vendor' = VendorAccepts(k)
    BY DEF callGateway
  <2> QED BY <1>2, <2>1, VendorTyped DEF DataTypes
<1>6. faults' \in 0 .. MaxFaults
  <2>1. UNCHANGED faults \/ Fault("refuse") \/ Fault("timeout")
    BY DEF callGateway
  <2>2. CASE UNCHANGED faults
    BY <1>2, <2>2 DEF DataTypes
  <2>3. CASE Fault("refuse") \/ Fault("timeout")
    BY <1>2, <2>3, FaultTyped
  <2> QED BY <2>1, <2>2, <2>3
<1>7. UNCHANGED <<booking, payment, coupon, intents, credited, debits>>
  BY DEF callGateway
<1> QED BY <1>2, <1>3, <1>4, <1>5, <1>6, <1>7 DEF DataTypes

LEMMA RecordTame ==
    ASSUME BaseInv, NEW w \in Workers, RecordVendor(w)
    PROVE  /\ ReqTame /\ RowTame /\ DataTypes'
           /\ rows'[req[w].key].status \in LiveStatus /\ rows'[req[w].key].ref
           /\ \A j \in Keys \ {req[w].key} : rows'[j] = rows[j]
<1> DEFINE k == req[w].key
<1>1. req[w].pc \notin {"idle", "insert"} /\ "wallet" \in Pcs \ {"idle", "insert"}
  BY DEF RecordVendor, Pcs
<1>2. /\ req \in [Workers -> ReqRec] /\ k \in Keys /\ RowTypes /\ DataTypes
      /\ Counts(k) /\ rows[k].status # "none"
  BY <1>1, Working
<1>3. PICK st \in {"pending", "processed"} :
          rows' = [rows EXCEPT ![k] = [rows[k] EXCEPT !.status = st, !.ref = TRUE]]
  <2>1. PICK st \in {"pending", "processed"} :
            rows' = [rows EXCEPT ![k].status = st, ![k].ref = TRUE]
    BY DEF RecordVendor
  <2>2. rows \in [Keys -> RowRec] /\ k \in Keys
    BY <1>2 DEF RowTypes
  <2>3. [rows EXCEPT ![k].status = st, ![k].ref = TRUE]
            = [rows EXCEPT ![k] = [rows[k] EXCEPT !.status = st, !.ref = TRUE]]
    BY <2>2 DEF RowRec
  <2> QED BY <2>1, <2>3
<1>4. st \in Statuses \ {"none"} /\ TRUE \in BOOLEAN /\ st \in LiveStatus
  BY DEF Statuses, LiveStatus
<1>5. /\ RowTame /\ rows'[k].status = st /\ rows'[k].ref = TRUE
      /\ \A j \in Keys \ {k} : rows'[j] = rows[j]
  BY <1>2, <1>3, <1>4, RowsMarked
<1>6. ReqTame
  BY <1>1, <1>2, GotoTame DEF RecordVendor
<1>7. DataTypes'
  BY <1>2 DEF DataTypes, RecordVendor
<1> QED BY <1>4, <1>5, <1>6, <1>7

LEMMA FailTame ==
    ASSUME BaseInv, NEW w \in Workers, RecordFailure(w)
    PROVE  /\ ReqTame /\ RowTame /\ DataTypes'
           /\ rows'[req[w].key].status = "failed" /\ rows'[req[w].key].ref = rows[req[w].key].ref
           /\ \A j \in Keys \ {req[w].key} : rows'[j] = rows[j]
<1> DEFINE k == req[w].key
<1>1. req[w].pc \notin {"idle", "insert"} /\ "failed" \in Statuses \ {"none"}
  BY DEF RecordFailure, Statuses
<1>2. /\ req \in [Workers -> ReqRec] /\ k \in Keys /\ RowTypes /\ DataTypes
      /\ Counts(k) /\ rows[k].status # "none"
  BY <1>1, Working
<1>3. rows' = [rows EXCEPT ![k].status = "failed"]
  BY DEF RecordFailure
<1>4. /\ RowTame /\ rows'[k].status = "failed" /\ rows'[k].ref = rows[k].ref
      /\ \A j \in Keys \ {k} : rows'[j] = rows[j]
  BY <1>1, <1>2, <1>3, StatusMarked
<1>5. ReqTame
  BY <1>2, EndTame DEF RecordFailure
<1>6. DataTypes'
  BY <1>2 DEF DataTypes, RecordFailure
<1> QED BY <1>4, <1>5, <1>6

LEMMA CreditTame ==
    ASSUME BaseInv, NEW w \in Workers, creditWallet(w)
    PROVE  ReqTame /\ RowTame /\ DataTypes'
<1> DEFINE k == req[w].key
<1>1. req[w].pc \notin {"idle", "insert"} /\ "processed" \in Pcs \ {"idle", "insert"}
  BY DEF creditWallet, Pcs
<1>2. /\ req \in [Workers -> ReqRec] /\ k \in Keys /\ RowTypes /\ DataTypes
  BY <1>1, Working
<1>3. ReqTame /\ RowTame
  BY <1>1, <1>2, GotoTame, RowsSame DEF creditWallet
<1>4. credited' \in [Keys -> Amount]
  <2>1. ToWallet(k) \in Amount
    BY <1>2, Delivered
  <2> QED BY <1>2, <2>1 DEF creditWallet, DataTypes
<1>5. UNCHANGED <<booking, payment, coupon, intents, vendor, debits, faults>>
  BY DEF creditWallet
<1> QED BY <1>2, <1>3, <1>4, <1>5 DEF DataTypes

LEMMA MarkTame ==
    ASSUME BaseInv, NEW w \in Workers, MarkProcessed(w)
    PROVE  /\ ReqTame /\ RowTame /\ DataTypes'
           /\ \A j \in Keys : /\ rows'[j].ref = rows[j].ref
                              /\ \/ rows'[j].status = rows[j].status
                                 \/ rows'[j].status = "processed" /\ j = req[w].key
<1> DEFINE k == req[w].key
<1>1. /\ req[w].pc \notin {"idle", "insert"} /\ "read" \in Pcs \ {"idle", "insert"}
      /\ "processed" \in Statuses \ {"none"}
  BY DEF MarkProcessed, Pcs, Statuses
<1>2. /\ req \in [Workers -> ReqRec] /\ k \in Keys /\ RowTypes /\ DataTypes
      /\ Counts(k) /\ rows[k].status # "none"
  BY <1>1, Working
<1>3. ReqTame
  BY <1>1, <1>2, GotoTame DEF MarkProcessed
<1>4. DataTypes'
  BY <1>2 DEF DataTypes, MarkProcessed
<1>5. CASE UNCHANGED rows
  BY <1>2, <1>3, <1>4, <1>5, RowsSame
<1>6. CASE rows' = [rows EXCEPT ![k].status = "processed"]
  <2>1. /\ RowTame /\ rows'[k].status = "processed" /\ rows'[k].ref = rows[k].ref
        /\ \A j \in Keys \ {k} : rows'[j] = rows[j]
    BY <1>1, <1>2, <1>6, StatusMarked
  <2> QED BY <1>2, <1>3, <1>4, <2>1
<1> QED BY <1>5, <1>6 DEF MarkProcessed

\* The legs a request reads.
LegsOf(k) ==
    IF IsFull(k) THEN [o \in Owners |-> Remaining(o)] ELSE Clawback(rows[k].share)

LEMMA LegsTyped ==
    ASSUME BaseInv, NEW k \in Keys
    PROVE  LegsOf(k) \in [Owners -> Amount]
<1>1. DebitType
  BY DebitsTyped DEF BaseInv
<1>2. [o \in Owners |-> Remaining(o)] \in [Owners -> Amount]
  <2>1. \A o \in Owners : Remaining(o) \in Nat /\ Remaining(o) <= Credits[o] /\ Credits[o] \in 0 .. Pool
    BY <1>1, RemainingFacts
  <2>2. \A o \in Owners : Remaining(o) \in Amount
    BY <2>1, Numbers
  <2> QED BY <2>2
<1>3. Clawback(rows[k].share) \in [Owners -> Amount]
  <2>1. rows[k].share \in 0 .. Pool
    BY Numbers DEF BaseInv, RowTypes, RowRec
  <2>2. Clawback(rows[k].share) \in [Owners -> 0 .. rows[k].share]
    BY <1>1, <2>1, ClawbackType
  <2>3. 0 .. rows[k].share \subseteq Amount
    BY <2>1, Numbers
  <2> QED BY <2>2, <2>3
<1> QED BY <1>2, <1>3 DEF LegsOf

LEMMA ReadTame ==
    ASSUME BaseInv, NEW w \in Workers, ReadLegs(w)
    PROVE  /\ ReqTame /\ RowTame /\ DataTypes'
           /\ req'[w].pc = "post" /\ req'[w].legs = LegsOf(req[w].key) /\ Kept(w)
           /\ \A v \in Workers \ {w} : req'[v] = req[v]
<1> DEFINE k == req[w].key
<1>1. req[w].pc = "read" /\ "post" \in Pcs
  BY DEF ReadLegs, Pcs
<1>2. /\ req \in [Workers -> ReqRec] /\ req[w] \in ReqRec /\ k \in Keys /\ RowTypes /\ DataTypes
  BY <1>1, Working
<1>3. LegsOf(k) \in [Owners -> Amount]
  BY <1>2, LegsTyped
<1>4. req' = [req EXCEPT ![w] = [req[w] EXCEPT !.pc = "post", !.legs = LegsOf(k)]]
  <2>1. req' = [req EXCEPT ![w].pc = "post", ![w].legs = LegsOf(k)]
    BY DEF ReadLegs, LegsOf, IsFull
  <2>2. [req EXCEPT ![w].pc = "post", ![w].legs = LegsOf(k)]
            = [req EXCEPT ![w] = [req[w] EXCEPT !.pc = "post", !.legs = LegsOf(k)]]
    BY <1>2 DEF ReqRec
  <2> QED BY <2>1, <2>2
<1> DEFINE r == [req[w] EXCEPT !.pc = "post", !.legs = LegsOf(k)]
<1>5. /\ r \in ReqRec /\ r.pc = "post" /\ r.legs = LegsOf(k) /\ r.key = req[w].key
      /\ r.to = req[w].to /\ r.resumed = req[w].resumed /\ r.call = req[w].call
      /\ r.gateway = req[w].gateway /\ r.wallet = req[w].wallet /\ r.share = req[w].share
  BY <1>1, <1>2, <1>3 DEF ReqRec
<1> HIDE DEF r
<1>6. req'[w] = r /\ req' \in [Workers -> ReqRec] /\ \A v \in Workers \ {w} : req'[v] = req[v]
  BY <1>2, <1>4, <1>5 DEF r
<1>7. Kept(w)
  BY <1>5, <1>6 DEF Kept
<1>8. ReqTame
  <2>1. ASSUME NEW v \in Workers
        PROVE  \/ req'[v].pc = "idle"
               \/ /\ Kept(v) /\ req[v].pc # "idle"
                  /\ req'[v].pc = "insert" <=> req[v].pc = "insert"
    <3>1. CASE v = w
      BY <1>1, <1>5, <1>6, <1>7, <3>1
    <3>2. CASE v # w
      BY <1>6, <3>2 DEF Kept
    <3> QED BY <3>1, <3>2
  <2> QED BY <1>6, <2>1 DEF ReqTame
<1>9. RowTame /\ DataTypes'
  BY <1>2, RowsSame DEF ReadLegs, DataTypes
<1> QED BY <1>5, <1>6, <1>7, <1>8, <1>9

LEMMA PostTame ==
    ASSUME BaseInv, NEW w \in Workers, PostLegs(w)
    PROVE  ReqTame /\ RowTame /\ DataTypes'
<1> DEFINE k == req[w].key
<1>1. req[w].pc \notin {"idle", "insert"}
  BY DEF PostLegs
<1>2. /\ req \in [Workers -> ReqRec] /\ req[w] \in ReqRec /\ k \in Keys /\ RowTypes /\ DataTypes
  BY <1>1, Working
<1>3. \E pc \in {"apply", "coupon", "move"} : Goto(w, pc)
  BY DEF PostLegs
<1>4. {"apply", "coupon", "move"} \subseteq Pcs \ {"idle", "insert"}
  BY DEF Pcs
<1>5. ReqTame /\ RowTame
  BY <1>1, <1>2, <1>3, <1>4, GotoTame, RowsSame DEF PostLegs
<1>6. debits' \in [Keys -> [Owners -> Amount]]
  <2>1. req[w].legs \in [Owners -> Amount] /\ debits \in [Keys -> [Owners -> Amount]]
    BY <1>2 DEF ReqRec, DataTypes
  <2>2. [o \in Owners |-> IF debits[k][o] # 0 THEN debits[k][o] ELSE req[w].legs[o]]
            \in [Owners -> Amount]
    BY <1>2, <2>1
  <2> QED BY <2>1, <2>2 DEF PostLegs
<1>7. UNCHANGED <<booking, payment, coupon, intents, vendor, credited, faults>>
  BY DEF PostLegs
<1> QED BY <1>2, <1>5, <1>6, <1>7 DEF DataTypes

LEMMA MoveTame ==
    ASSUME BaseInv, NEW w \in Workers, MoveBooking(w)
    PROVE  ReqTame /\ RowTame /\ DataTypes'
<1>1. req[w].pc \notin {"idle", "insert"}
  BY DEF MoveBooking
<1>2. /\ req \in [Workers -> ReqRec] /\ req[w] \in ReqRec /\ RowTypes /\ DataTypes
  BY <1>1, Working
<1>3. (\E pc \in {"apply", "coupon"} : Goto(w, pc)) \/ req' = [req EXCEPT ![w] = NoReq]
  BY DEF MoveBooking
<1>4. {"apply", "coupon"} \subseteq Pcs \ {"idle", "insert"}
  BY DEF Pcs
<1>5. ReqTame /\ RowTame
  BY <1>1, <1>2, <1>3, <1>4, GotoTame, EndTame, RowsSame DEF MoveBooking
<1>6. booking' \in {"paid", "disputed", "refunded", "cancelled"}
  <2>1. booking' = booking \/ (booking' = req[w].to /\ req[w].to # "stay")
    BY DEF MoveBooking
  <2> QED BY <1>2, <2>1 DEF DataTypes, ReqRec
<1>7. UNCHANGED <<payment, coupon, intents, vendor, credited, debits, faults>>
  BY DEF MoveBooking
<1> QED BY <1>2, <1>5, <1>6, <1>7 DEF DataTypes

LEMMA CouponTame ==
    ASSUME BaseInv, NEW w \in Workers, ReleaseCoupon(w)
    PROVE  ReqTame /\ RowTame /\ DataTypes'
<1>1. req[w].pc \notin {"idle", "insert"}
  BY DEF ReleaseCoupon
<1>2. /\ req \in [Workers -> ReqRec] /\ RowTypes /\ DataTypes
  BY <1>1, Working
<1>3. \E pc \in {"apply", "move"} : Goto(w, pc)
  BY DEF ReleaseCoupon
<1>4. {"apply", "move"} \subseteq Pcs \ {"idle", "insert"}
  BY DEF Pcs
<1>5. ReqTame /\ RowTame
  BY <1>1, <1>2, <1>3, <1>4, GotoTame, RowsSame DEF ReleaseCoupon
<1> QED BY <1>2, <1>5 DEF DataTypes, ReleaseCoupon

LEMMA ApplyTame ==
    ASSUME BaseInv, NEW w \in Workers, applyRefund(w)
    PROVE  ReqTame /\ RowTame /\ DataTypes'
<1>2. /\ req \in [Workers -> ReqRec] /\ RowTypes /\ DataTypes
  BY DEF BaseInv, ReqTypes
<1>3. ReqTame /\ RowTame
  BY <1>2, EndTame, RowsSame DEF applyRefund
<1>4. payment' = payment \/ payment' = "refunded"
  BY DEF applyRefund
<1>5. UNCHANGED <<booking, coupon, intents, vendor, credited, debits, faults>>
  BY DEF applyRefund
<1> QED BY <1>2, <1>3, <1>4, <1>5 DEF DataTypes

LEMMA DieTame ==
    ASSUME BaseInv, NEW w \in Workers, Die(w)
    PROVE  ReqTame /\ RowTame /\ DataTypes'
<1>1. /\ req \in [Workers -> ReqRec] /\ RowTypes /\ DataTypes
  BY DEF BaseInv, ReqTypes
<1>2. ReqTame /\ RowTame
  BY <1>1, EndTame, RowsSame DEF Die
<1>3. faults' \in 0 .. MaxFaults
  BY <1>1, FaultTyped DEF Die
<1> QED BY <1>1, <1>2, <1>3 DEF DataTypes, Die

LEMMA WebhookTame ==
    ASSUME BaseInv, NEW k \in Keys, WebhookConfirms(k)
    PROVE  /\ ReqTame /\ RowTame /\ DataTypes'
           /\ rows'[k].status = "processed" /\ rows'[k].ref = rows[k].ref
           /\ \A j \in Keys \ {k} : rows'[j] = rows[j]
<1>1. /\ rows[k].status = "pending" /\ "processed" \in Statuses \ {"none"}
      /\ rows' = [rows EXCEPT ![k].status = "processed"]
  BY DEF WebhookConfirms, Statuses
<1>2. Counts(k) /\ rows[k].status # "none"
  BY <1>1 DEF Counts, LiveStatus
<1>3. RowTypes /\ DataTypes /\ req \in [Workers -> ReqRec]
  BY DEF BaseInv, ReqTypes
<1>4. /\ RowTame /\ rows'[k].status = "processed" /\ rows'[k].ref = rows[k].ref
      /\ \A j \in Keys \ {k} : rows'[j] = rows[j]
  BY <1>1, <1>2, <1>3, StatusMarked
<1>5. ReqTame /\ DataTypes'
  BY <1>3, SameTame DEF WebhookConfirms, DataTypes
<1> QED BY <1>4, <1>5

LEMMA DisputeTame ==
    ASSUME BaseInv, DisputeMoves
    PROVE  ReqTame /\ RowTame /\ DataTypes'
<1>1. RowTypes /\ DataTypes /\ req \in [Workers -> ReqRec]
  BY DEF BaseInv, ReqTypes
<1>2. ReqTame /\ RowTame
  BY <1>1, SameTame, RowsSame DEF DisputeMoves
<1>3. booking' \in {"paid", "disputed"}
  BY DEF DisputeMoves
<1> QED BY <1>1, <1>2, <1>3 DEF DataTypes, DisputeMoves

-----------------------------------------------------------------------------
(* Starting a request and inserting its row.                               *)

LiveGateway == [k \in Keys |-> IF LiveRow(k) THEN rows[k].gateway ELSE 0]
LiveWallet == [k \in Keys |-> IF LiveRow(k) THEN rows[k].wallet ELSE 0]

LEMMA RefundedIs ==
    ASSUME RowTypes
    PROVE  /\ LiveGateway \in [Keys -> Nat] /\ LiveWallet \in [Keys -> Nat]
           /\ RefundedGateway = SumOver(LiveGateway) /\ RefundedGateway \in Nat
           /\ RefundedWallet = SumOver(LiveWallet) /\ RefundedWallet \in Nat
<1>1. Live \in SUBSET Keys /\ \A k \in Keys : k \in Live <=> LiveRow(k)
  BY DEF Live, LiveRow, LiveStatus
<1>2. \A k \in Keys : rows[k].gateway \in Nat /\ rows[k].wallet \in Nat
  BY Numbers DEF RowTypes, RowRec
<1>3. LiveGateway \in [Keys -> Nat] /\ LiveWallet \in [Keys -> Nat]
  BY <1>2 DEF LiveGateway, LiveWallet
<1> DEFINE g == [k \in Live |-> rows[k].gateway]
           wl == [k \in Live |-> rows[k].wallet]
<1>4. g \in [Live -> Int] /\ wl \in [Live -> Int]
  BY <1>1, <1>2
<1>5. /\ \A k \in Keys : LiveGateway[k] = IF k \in Live THEN g[k] ELSE 0
      /\ \A k \in Keys : LiveWallet[k] = IF k \in Live THEN wl[k] ELSE 0
  BY <1>1 DEF LiveGateway, LiveWallet
<1>6. RefundedGateway = SumOver(g) /\ RefundedWallet = SumOver(wl)
  BY DEF RefundedGateway, RefundedWallet
<1> HIDE DEF g, wl
<1>7. LiveGateway \in [Keys -> Int] /\ LiveWallet \in [Keys -> Int] /\ IsFiniteSet(Keys)
  BY <1>3, Numbers
<1>8. SumOver(g) = SumOver(LiveGateway)
  BY <1>1, <1>4, <1>5, <1>7, SumPart
<1>9. SumOver(wl) = SumOver(LiveWallet)
  BY <1>1, <1>4, <1>5, <1>7, SumPart
<1>10. SumOver(LiveGateway) \in Nat /\ SumOver(LiveWallet) \in Nat
  BY <1>3, <1>7, SumNat
<1> QED BY <1>3, <1>6, <1>8, <1>9, <1>10

\* While nobody works on a row that is not live, exactly the live rows count.
LEMMA TakenIsLive ==
    ASSUME RowTypes,
           \A k \in Keys : Counts(k) => LiveRow(k) \/ rows[k].status = "none"
    PROVE  RefundedGateway = SumOver(GatewayTaken) /\ RefundedWallet = SumOver(WalletTaken)
<1>1. ASSUME NEW k \in Keys
      PROVE  /\ (IF Counts(k) THEN rows[k].gateway ELSE 0) = (IF LiveRow(k) THEN rows[k].gateway ELSE 0)
             /\ (IF Counts(k) THEN rows[k].wallet ELSE 0) = (IF LiveRow(k) THEN rows[k].wallet ELSE 0)
  <2>1. LiveRow(k) => Counts(k)
    BY DEF LiveRow, Counts
  <2>2. rows[k].status = "none" => rows[k].gateway = 0 /\ rows[k].wallet = 0
    BY DEF RowTypes
  <2> QED BY <2>1, <2>2
<1>2. GatewayTaken = LiveGateway /\ WalletTaken = LiveWallet
  BY <1>1 DEF GatewayTaken, LiveGateway, WalletTaken, LiveWallet
<1> QED BY <1>2, RefundedIs

LEMMA RemainingCreditBound ==
    ASSUME DebitType PROVE RemainingCredit \in Amount
<1>1. \A o \in Owners : Remaining(o) \in Nat /\ Remaining(o) <= Credits[o] /\ Credits[o] \in Nat
  BY RemainingFacts, Numbers
<1> DEFINE f == [o \in Owners |-> Remaining(o)]
<1>2. f \in [Owners -> Int] /\ \A o \in Owners : f[o] <= Credits[o]
  BY <1>1
<1>3. Credits \in [Owners -> Int] /\ IsFiniteSet(Owners)
  <2>1. Credits \in Seq(Nat)
    BY RefundsAssumption
  <2>2. Credits \in [DOMAIN Credits -> Nat]
    BY <2>1
  <2> QED BY <2>2, OwnerFacts DEF Owners
<1>4. RemainingCredit = SumOver(f)
  BY DEF RemainingCredit
<1> HIDE DEF f
<1>5. SumOver(f) <= SumOver(Credits)
  BY <1>2, <1>3, SumMono
<1>6. Credits \in [Owners -> Nat]
  BY <1>1, <1>3
<1>7. SumOver(Credits) \in Nat /\ SumOver(Credits) <= Pool
  BY <1>3, <1>6, SumNat, RefundsAssumption DEF Pool
<1>8. RemainingCredit \in Nat
  BY RemainingFacts
<1> QED BY <1>4, <1>5, <1>7, <1>8, Numbers

LEMMA ShareNat ==
    ASSUME NEW amount \in Nat, amount > 0, amount <= Pool,
           NEW bearer \in {"platform", "provider", "shared"}
    PROVE  providerShareFor(bearer, amount) \in Nat
<1>1. CASE bearer = "platform"
  BY <1>1 DEF providerShareFor
<1>2. CASE bearer = "provider"
  BY <1>2 DEF providerShareFor
<1>3. CASE bearer = "shared"
  <2> DEFINE c == SumOver(Credits)
             a == amount * c
             b == GatewayPool + WalletPool
  <2>1. c \in Nat
    <3>1. Credits \in Seq(Nat)
      BY RefundsAssumption
    <3>2. Credits \in [Owners -> Nat]
      BY <3>1 DEF Owners
    <3> QED BY <3>2, OwnerFacts, SumNat
  <2> HIDE DEF c
  <2>2. a \in Nat /\ b \in Nat /\ b > 0
    BY <2>1, Numbers DEF Pool
  <2> HIDE DEF a, b
  <2>3. a <= a * b
    BY <2>2
  <2>4. Round(a, b) \in 0 .. a
    BY <2>2, <2>3, RoundBound
  <2>5. providerShareFor(bearer, amount) = Round(a, b)
    BY <1>3 DEF providerShareFor, a, b, c
  <2> QED BY <2>2, <2>4, <2>5
<1> QED BY <1>1, <1>2, <1>3

ResumeOf(r, k, to) ==
    /\ r.pc = "gateway" /\ r.key = k /\ r.resumed /\ r.to = to
    /\ r.call = (~rows[k].ref /\ ~StrayRow) /\ rows[k].status \in LiveStatus

LEMMA ResumeFacts ==
    ASSUME RowTypes, NEW k \in Keys, rows[k].status # "none",
           NEW to \in {"stay", "refunded", "cancelled"}
    PROVE  /\ ResumeAs(k, to) \in ReqRec
           /\ ResumeAs(k, to).pc = "idle" \/ ResumeOf(ResumeAs(k, to), k, to)
<1>1. rows[k].status \in Statuses /\ rows[k].ref \in BOOLEAN
  BY DEF RowTypes, RowRec
<1>2. CASE rows[k].status = "failed"
  BY <1>2, NoReqTyped DEF ResumeAs
<1>3. CASE rows[k].status # "failed"
  <2> DEFINE c == ~rows[k].ref /\ ~StrayRow
             p == rows[k].status = "pending"
             r == [NoReq EXCEPT !.pc = "gateway", !.key = k, !.resumed = TRUE, !.to = to,
                                !.call = c, !.pending = p]
  <2>1. c \in BOOLEAN /\ p \in BOOLEAN /\ "gateway" \in Pcs
    BY DEF Pcs
  <2>2. ResumeAs(k, to) = r
    BY <1>3 DEF ResumeAs
  <2> HIDE DEF c, p
  <2>3. NoReq \in ReqRec
    BY NoReqTyped
  <2>4. /\ r \in ReqRec /\ r.pc = "gateway" /\ r.key = k /\ r.resumed = TRUE /\ r.to = to
        /\ r.call = c
    BY <2>1, <2>3 DEF ReqRec
  <2>5. rows[k].status \in LiveStatus
    BY <1>1, <1>3 DEF Statuses, LiveStatus
  <2> HIDE DEF r
  <2> QED BY <2>2, <2>4, <2>5 DEF ResumeOf, c
<1> QED BY <1>2, <1>3

LEMMA LandingType ==
    ASSUME DataTypes, NEW k \in Keys
    PROVE  /\ Landing(k) \in {"stay", "refunded", "cancelled"}
           /\ Landing(k) # "stay" => IsFull(k)
           /\ ~IsFull(k) => /\ intents[k].amount \in Nat
                            /\ intents[k].bearer \in {"platform", "provider", "shared"}
<1>1. intents[k] \in FullIntents \cup PartialIntents(Nat)
  BY RefundsAssumption DEF DataTypes
<1>2. CASE intents[k] \in FullIntents
  BY <1>2 DEF FullIntents, Landing, IsFull
<1>3. CASE intents[k] \in PartialIntents(Nat)
  BY <1>3 DEF PartialIntents, Landing, IsFull
<1> QED BY <1>1, <1>2, <1>3

\* What a fresh request asks for: within what is left of both pools and of the
\* credits, and all that is left for a full refund.
FreshOf(r, k, to) ==
    /\ r.pc = "insert" /\ r.key = k /\ r.to = to /\ r.gateway + r.wallet > 0
    /\ r.gateway + r.wallet <= Pool
    /\ RefundedGateway <= GatewayPool /\ RefundedWallet <= WalletPool =>
           RefundedGateway + r.gateway <= GatewayPool /\ RefundedWallet + r.wallet <= WalletPool
    /\ IsFull(k) => /\ RefundedGateway + r.gateway = GatewayPool
                    /\ RefundedWallet + r.wallet = WalletPool
    /\ r.share <= RemainingCredit

LEMMA FreshFacts ==
    ASSUME RowTypes, DataTypes, NEW k \in Keys, NEW to \in {"stay", "refunded", "cancelled"}
    PROVE  /\ FreshAs(k, to) \in ReqRec
           /\ FreshAs(k, to).pc = "idle" \/ FreshOf(FreshAs(k, to), k, to)
<1> DEFINE rg == remainingGateway
           rw == remainingWallet
           amount == IF IsFull(k) THEN rg + rw ELSE intents[k].amount
           gateway == IF IsFull(k) THEN rg ELSE Min({amount, rg})
           share == IF IsFull(k) THEN 0 ELSE providerShareFor(intents[k].bearer, amount)
           refused == \/ payment # "captured"
                      \/ to # "stay" /\ ~isLegal(booking, to)
                      \/ amount <= 0 \/ amount > rg + rw
                      \/ share > RemainingCredit
                      \/ gateway < 0 \/ amount < gateway
           r == [NoReq EXCEPT !.pc = "insert", !.key = k, !.to = to, !.share = share,
                              !.gateway = gateway, !.wallet = amount - gateway]
<1>1. FreshAs(k, to) = IF refused THEN NoReq ELSE r
  BY DEF FreshAs, IsFull
<1>2. CASE refused
  BY <1>1, <1>2, NoReqTyped
<1>3. CASE ~refused
  <2>1. /\ rg \in Int /\ rw \in Int /\ rg <= GatewayPool /\ rw <= WalletPool
        /\ rg = GatewayPool - RefundedGateway /\ rw = WalletPool - RefundedWallet
        /\ RefundedGateway \in Nat /\ RefundedWallet \in Nat
    BY RefundedIs, Numbers DEF remainingGateway, remainingWallet
  <2>2. amount \in Nat /\ amount > 0 /\ amount <= rg + rw
    <3>1. IsFull(k) \/ intents[k].amount \in Nat
      BY LandingType
    <3>2. amount > 0 /\ amount <= rg + rw
      <4>1. amount \in Int /\ rg + rw \in Int
        BY <2>1, <3>1, Numbers
      <4> HIDE DEF amount, rg, rw
      <4> QED BY <1>3, <4>1
    <3> HIDE DEF rg, rw
    <3> QED BY <2>1, <3>1, <3>2
  <2>2a. IsFull(k) => amount = rg + rw
    OBVIOUS
  <2>3. share \in Nat /\ share <= RemainingCredit /\ RemainingCredit \in Amount
    <3>1. RemainingCredit \in Amount
      BY RemainingCreditBound, DebitsTyped
    <3>2. share \in Nat
      <4>1. CASE IsFull(k)
        BY <4>1
      <4>2. CASE ~IsFull(k)
        <5>1. intents[k].bearer \in {"platform", "provider", "shared"}
          BY <4>2, LandingType
        <5>2. amount <= Pool
          BY <2>1, <2>2, Numbers DEF Pool
        <5> HIDE DEF amount
        <5>3. providerShareFor(intents[k].bearer, amount) \in Nat
          BY <2>2, <5>1, <5>2, ShareNat
        <5> QED BY <4>2, <5>3
      <4> QED BY <4>1, <4>2
    <3> HIDE DEF share
    <3> QED BY <1>3, <3>1, <3>2, Numbers
  <2> HIDE DEF rg, rw, amount, share
  <2>4. gateway = IF IsFull(k) THEN rg ELSE IF amount <= rg THEN amount ELSE rg
    BY <2>1, <2>2, MinTwo
  <2>4a. gateway \in Int
    BY <2>1, <2>2, <2>4
  <2> HIDE DEF gateway
  <2>4b. gateway >= 0 /\ amount - gateway >= 0
    BY <1>3, <2>2, <2>4a
  <2>5. gateway \in Amount /\ amount - gateway \in Amount /\ share \in Amount
    BY <2>1, <2>2, <2>3, <2>4a, <2>4b, Numbers DEF Pool
  <2>6. NoReq \in ReqRec /\ "insert" \in Pcs
    BY NoReqTyped DEF Pcs
  <2>7. /\ r \in ReqRec /\ r.pc = "insert" /\ r.key = k /\ r.to = to /\ r.share = share
        /\ r.gateway = gateway /\ r.wallet = amount - gateway
    BY <2>5, <2>6 DEF ReqRec
  <2> HIDE DEF r
  <2>8. gateway \in Nat /\ amount - gateway \in Nat
    BY <2>2, <2>4a, <2>4b
  <2>8a. rg >= 0 /\ rw >= 0 => gateway <= rg /\ amount - gateway <= rw
    BY <2>1, <2>2, <2>2a, <2>4
  <2>9. IsFull(k) => gateway = rg /\ amount - gateway = rw
    BY <2>1, <2>2, <2>2a, <2>4
  <2>10. r.gateway + r.wallet > 0 /\ r.gateway + r.wallet <= Pool
    BY <2>1, <2>2, <2>7, <2>8, Numbers DEF Pool
  <2>11. RefundedGateway <= GatewayPool /\ RefundedWallet <= WalletPool =>
             RefundedGateway + r.gateway <= GatewayPool /\ RefundedWallet + r.wallet <= WalletPool
    BY <2>1, <2>7, <2>8, <2>8a, Numbers
  <2>11a. IsFull(k) => /\ RefundedGateway + r.gateway = GatewayPool
                       /\ RefundedWallet + r.wallet = WalletPool
    BY <2>1, <2>7, <2>8, <2>9, Numbers
  <2>12. r.share <= RemainingCredit
    BY <2>3, <2>7
  <2>13. FreshAs(k, to) = r
    BY <1>1, <1>3
  <2> QED BY <2>7, <2>10, <2>11, <2>11a, <2>12, <2>13 DEF FreshOf
<1> QED BY <1>2, <1>3

\* What a submitted request becomes.
LEMMA SubmitTypes ==
    ASSUME BaseInv, NEW w \in Workers, NEW k \in Keys, Submit(w, k)
    PROVE  /\ UNCHANGED <<booking, payment, coupon, intents, rows, vendor, credited, debits, faults,
                         misfiled>>
           /\ req' \in [Workers -> ReqRec] /\ req[w].pc = "idle"
           /\ \A v \in Workers \ {w} : req'[v] = req[v]
           /\ \/ req'[w].pc = "idle"
              \/ ResumeOf(req'[w], k, Landing(k))
              \/ FreshOf(req'[w], k, Landing(k)) /\ rows[k].status = "none"
<1>0. RowTypes /\ DataTypes /\ req \in [Workers -> ReqRec]
  BY DEF BaseInv, ReqTypes
<1>1. /\ req[w].pc = "idle"
      /\ UNCHANGED <<booking, payment, coupon, intents, rows, vendor, credited, debits, faults,
                    misfiled>>
  BY DEF Submit
<1>3. Landing(k) \in {"stay", "refunded", "cancelled"}
  BY <1>0, LandingType
<1>4. CASE rows[k].status # "none"
  <2>1. req' = [req EXCEPT ![w] = ResumeAs(k, Landing(k))]
    BY <1>4 DEF Submit
  <2>2. /\ ResumeAs(k, Landing(k)) \in ReqRec
        /\ ResumeAs(k, Landing(k)).pc = "idle" \/ ResumeOf(ResumeAs(k, Landing(k)), k, Landing(k))
    BY <1>0, <1>3, <1>4, ResumeFacts
  <2>3. /\ req' \in [Workers -> ReqRec] /\ req'[w] = ResumeAs(k, Landing(k))
        /\ \A v \in Workers \ {w} : req'[v] = req[v]
    BY <1>0, <2>1, <2>2
  <2> QED BY <1>1, <2>2, <2>3
<1>5. CASE rows[k].status = "none"
  <2>1. req' = [req EXCEPT ![w] = FreshAs(k, Landing(k))]
    BY <1>5 DEF Submit
  <2>5. /\ FreshAs(k, Landing(k)) \in ReqRec
        /\ FreshAs(k, Landing(k)).pc = "idle" \/ FreshOf(FreshAs(k, Landing(k)), k, Landing(k))
    BY <1>0, <1>3, FreshFacts
  <2>6. /\ req' \in [Workers -> ReqRec] /\ req'[w] = FreshAs(k, Landing(k))
        /\ \A v \in Workers \ {w} : req'[v] = req[v]
    BY <1>0, <2>1, <2>5
  <2> QED BY <1>1, <1>5, <2>5, <2>6
<1> QED BY <1>4, <1>5

\* Without an overlap it starts while nothing else is under way or unfinished.
LEMMA SubmitFacts ==
    ASSUME NoOverlap, BaseInv, OrderInv, NEW w \in Workers, NEW k \in Keys, Submit(w, k)
    PROVE  /\ \A j \in Keys \ {k} : /\ Settled(j)
                                    /\ \A v \in Workers : req[v].pc # "idle" => req[v].key # j
           /\ UNCHANGED <<booking, payment, coupon, intents, rows, vendor, credited, debits, faults,
                         misfiled, slips>>
           /\ req' \in [Workers -> ReqRec] /\ req[w].pc = "idle"
           /\ \A v \in Workers \ {w} : req'[v] = req[v]
           /\ \/ req'[w].pc = "idle"
              \/ ResumeOf(req'[w], k, Landing(k))
              \/ /\ FreshOf(req'[w], k, Landing(k)) /\ rows[k].status = "none"
                 /\ RefundedGateway = SumOver(GatewayTaken)
                 /\ RefundedWallet = SumOver(WalletTaken)
                 /\ RefundedGateway + req'[w].gateway <= GatewayPool
                 /\ RefundedWallet + req'[w].wallet <= WalletPool
<1>0. RowTypes /\ DataTypes /\ req \in [Workers -> ReqRec]
  BY DEF BaseInv, ReqTypes
<1>1. (\A j \in Keys \ {k} : Settled(j) /\ Running(j) = {}) /\ slips' = slips
  <2>1. ~Overlaps(k)
    BY DEF Submit, Slip, NoOverlap
  <2> QED BY <2>1 DEF Submit, Slip, Overlaps
<1>2. \A j \in Keys \ {k} : /\ Settled(j)
                            /\ \A v \in Workers : req[v].pc # "idle" => req[v].key # j
  BY <1>1 DEF Running
<1>3. /\ UNCHANGED <<booking, payment, coupon, intents, rows, vendor, credited, debits, faults,
                    misfiled>>
      /\ req' \in [Workers -> ReqRec] /\ req[w].pc = "idle"
      /\ \A v \in Workers \ {w} : req'[v] = req[v]
      /\ \/ req'[w].pc = "idle"
         \/ ResumeOf(req'[w], k, Landing(k))
         \/ FreshOf(req'[w], k, Landing(k)) /\ rows[k].status = "none"
  BY SubmitTypes
<1>4. ASSUME FreshOf(req'[w], k, Landing(k)), rows[k].status = "none"
      PROVE  /\ RefundedGateway = SumOver(GatewayTaken) /\ RefundedWallet = SumOver(WalletTaken)
             /\ RefundedGateway + req'[w].gateway <= GatewayPool
             /\ RefundedWallet + req'[w].wallet <= WalletPool
  <2>2. \A j \in Keys : Counts(j) => LiveRow(j) \/ rows[j].status = "none"
    BY <1>2, <1>4 DEF Counts, LiveRow
  <2>3. RefundedGateway = SumOver(GatewayTaken) /\ RefundedWallet = SumOver(WalletTaken)
    BY <1>0, <2>2, TakenIsLive
  <2>4. RefundedGateway <= GatewayPool /\ RefundedWallet <= WalletPool
    BY <2>3 DEF OrderInv, Budget
  <2> QED BY <1>4, <2>3, <2>4 DEF FreshOf
<1> QED BY <1>1, <1>2, <1>3, <1>4

\* It starts no row counting that is not live, except a new one of amount 0.
LEMMA SubmitTyped ==
    ASSUME BaseInv, NEW w \in Workers, NEW k \in Keys, Submit(w, k)
    PROVE  BaseInv'
<1>0. RowTypes /\ DataTypes /\ ReqTypes
  BY DEF BaseInv
<1>1. /\ UNCHANGED <<booking, payment, coupon, intents, rows, vendor, credited, debits, faults>>
      /\ req' \in [Workers -> ReqRec] /\ req[w].pc = "idle"
      /\ \A v \in Workers \ {w} : req'[v] = req[v]
      /\ \/ req'[w].pc = "idle"
         \/ ResumeOf(req'[w], k, Landing(k))
         \/ FreshOf(req'[w], k, Landing(k)) /\ rows[k].status = "none"
  BY SubmitTypes
<1>2. RowTypes' /\ DataTypes'
  BY <1>0, <1>1 DEF RowTypes, DataTypes
<1>3. /\ req'[w].pc # "idle" => req'[w].key = k
      /\ req'[w].pc \notin {"idle", "insert"} => rows[k].status \in LiveStatus
      /\ req'[w].pc = "insert" => req'[w].gateway + req'[w].wallet <= Pool
  BY <1>1 DEF ResumeOf, FreshOf
<1>4. ASSUME NEW v \in Workers
      PROVE  /\ req'[v].pc # "idle" => req'[v].key \in Keys
             /\ req'[v].pc \notin {"idle", "insert"} => rows'[req'[v].key].status # "none"
             /\ req'[v].pc = "insert" => req'[v].gateway + req'[v].wallet <= Pool
  <2>1. CASE v = w
    BY <1>1, <1>3, <2>1 DEF LiveStatus
  <2>2. CASE v # w
    BY <1>0, <1>1, <2>2 DEF ReqTypes
  <2> QED BY <2>1, <2>2
<1> QED BY <1>1, <1>2, <1>4 DEF BaseInv, ReqTypes

LEMMA SubmitBase ==
    ASSUME NoOverlap, BaseInv, OrderInv, NEW w \in Workers, NEW k \in Keys, Submit(w, k)
    PROVE  OrderInv' /\ GatewayTaken' = GatewayTaken /\ WalletTaken' = WalletTaken
<1>0. RowTypes /\ DataTypes /\ ReqTypes /\ OneKey /\ Budget
  BY DEF BaseInv, OrderInv
<1>1. /\ \A j \in Keys \ {k} : \A v \in Workers : req[v].pc # "idle" => req[v].key # j
      /\ UNCHANGED <<booking, payment, coupon, intents, rows, vendor, credited, debits, faults>>
      /\ req' \in [Workers -> ReqRec] /\ req[w].pc = "idle"
      /\ \A v \in Workers \ {w} : req'[v] = req[v]
      /\ \/ req'[w].pc = "idle"
         \/ ResumeOf(req'[w], k, Landing(k))
         \/ /\ FreshOf(req'[w], k, Landing(k)) /\ rows[k].status = "none"
            /\ RefundedGateway = SumOver(GatewayTaken)
            /\ RefundedWallet = SumOver(WalletTaken)
            /\ RefundedGateway + req'[w].gateway <= GatewayPool
            /\ RefundedWallet + req'[w].wallet <= WalletPool
  BY SubmitFacts
<1>3. /\ req'[w].pc # "idle" => req'[w].key = k
      /\ req'[w].pc \notin {"idle", "insert"} => rows[k].status \in LiveStatus
      /\ req'[w].pc = "insert" => /\ FreshOf(req'[w], k, Landing(k)) /\ rows[k].status = "none"
                                  /\ RefundedGateway = SumOver(GatewayTaken)
                                  /\ RefundedWallet = SumOver(WalletTaken)
                                  /\ RefundedGateway + req'[w].gateway <= GatewayPool
                                  /\ RefundedWallet + req'[w].wallet <= WalletPool
      /\ req'[w].pc # "idle" => rows[k].status \in LiveStatus \/ rows[k].status = "none"
  BY <1>1 DEF ResumeOf, FreshOf
<1>5. OneKey'
  <2>1. ASSUME NEW v \in Workers, req'[v].pc # "idle" PROVE req'[v].key = k
    <3>1. CASE v = w
      BY <1>3, <2>1, <3>1
    <3>2. CASE v # w
      BY <1>0, <1>1, <2>1, <3>2 DEF ReqTypes
    <3> QED BY <3>1, <3>2
  <2> QED BY <2>1 DEF OneKey
<1>6. ASSUME NEW j \in Keys
      PROVE  /\ (IF Counts(j)' THEN rows'[j].gateway ELSE 0) = (IF Counts(j) THEN rows[j].gateway ELSE 0)
             /\ (IF Counts(j)' THEN rows'[j].wallet ELSE 0) = (IF Counts(j) THEN rows[j].wallet ELSE 0)
  <2>1. rows' = rows
    BY <1>1
  <2>2. Counts(j) => Counts(j)'
    BY <1>1 DEF Counts
  <2>3. Counts(j)' /\ ~Counts(j) => rows[j].status = "none"
    <3>1. SUFFICES ASSUME Counts(j)', ~Counts(j) PROVE rows[j].status = "none"
      OBVIOUS
    <3>2. PICK v \in Workers : req'[v].pc # "idle" /\ req'[v].key = j
      BY <2>1, <3>1 DEF Counts
    <3>3. v = w
      BY <1>1, <3>1, <3>2 DEF Counts
    <3> QED BY <1>3, <3>1, <3>2, <3>3 DEF Counts
  <2>4. rows[j].status = "none" => rows[j].gateway = 0 /\ rows[j].wallet = 0
    BY <1>0 DEF RowTypes
  <2> QED BY <2>1, <2>2, <2>3, <2>4
<1>7. GatewayTaken' = GatewayTaken /\ WalletTaken' = WalletTaken
  BY <1>6 DEF GatewayTaken, WalletTaken
<1>8. Budget'
  <2>1. SumOver(GatewayTaken') <= GatewayPool /\ SumOver(WalletTaken') <= WalletPool
    BY <1>0, <1>7 DEF Budget
  <2>2. ASSUME NEW v \in Workers, req'[v].pc = "insert", rows'[req'[v].key].status = "none"
        PROVE  /\ req'[v].gateway + req'[v].wallet > 0
               /\ SumOver(GatewayTaken') + req'[v].gateway <= GatewayPool
               /\ SumOver(WalletTaken') + req'[v].wallet <= WalletPool
    <3>1. CASE v = w
      BY <1>3, <1>7, <2>2, <3>1 DEF FreshOf
    <3>2. CASE v # w
      BY <1>0, <1>1, <1>7, <2>2, <3>2 DEF Budget
    <3> QED BY <3>1, <3>2
  <2> QED BY <2>1, <2>2 DEF Budget
<1> QED BY <1>5, <1>7, <1>8 DEF OrderInv

\* A row is inserted, or the one already there is resumed.
LEMMA InsertFacts ==
    ASSUME BaseInv, NEW w \in Workers, InsertRow(w)
    PROVE  LET k == req[w].key IN
           /\ k \in Keys /\ req[w].pc = "insert"
           /\ UNCHANGED <<booking, payment, coupon, intents, vendor, credited, debits, faults>>
           /\ req' \in [Workers -> ReqRec] /\ \A v \in Workers \ {w} : req'[v] = req[v]
           /\ rows' \in [Keys -> RowRec] /\ \A j \in Keys \ {k} : rows'[j] = rows[j]
           /\ \/ /\ rows[k].status # "none" /\ rows' = rows
                 /\ req'[w].pc = "idle" \/ ResumeOf(req'[w], k, req[w].to)
              \/ /\ rows[k].status = "none" /\ rows'[k].status = "pending" /\ ~rows'[k].ref
                 /\ rows'[k].gateway = req[w].gateway /\ rows'[k].wallet = req[w].wallet
                 /\ rows'[k].share = req[w].share
                 /\ req'[w].pc = "gateway" /\ req'[w].key = k /\ req'[w].to = req[w].to
                 /\ req'[w].call
<1> DEFINE k == req[w].key
<1>0. /\ req[w].pc = "insert" /\ k \in Keys /\ RowTypes /\ DataTypes
      /\ req \in [Workers -> ReqRec] /\ req[w] \in ReqRec /\ rows \in [Keys -> RowRec]
  BY DEF InsertRow, BaseInv, ReqTypes, RowTypes
<1>1. UNCHANGED <<booking, payment, coupon, intents, vendor, credited, debits, faults>>
  BY DEF InsertRow
<1>2. CASE rows[k].status # "none"
  <2>1. req' = [req EXCEPT ![w] = ResumeAs(k, req[w].to)] /\ rows' = rows
    BY <1>2 DEF InsertRow
  <2>2. req[w].to \in {"stay", "refunded", "cancelled"}
    BY <1>0 DEF ReqRec
  <2>3. /\ ResumeAs(k, req[w].to) \in ReqRec
        /\ ResumeAs(k, req[w].to).pc = "idle" \/ ResumeOf(ResumeAs(k, req[w].to), k, req[w].to)
    BY <1>0, <1>2, <2>2, ResumeFacts
  <2>4. /\ req' \in [Workers -> ReqRec] /\ req'[w] = ResumeAs(k, req[w].to)
        /\ \A v \in Workers \ {w} : req'[v] = req[v]
    BY <1>0, <2>1, <2>3
  <2> QED BY <1>0, <1>1, <1>2, <2>1, <2>3, <2>4
<1>3. CASE rows[k].status = "none"
  <2> DEFINE row == [status |-> "pending", gateway |-> req[w].gateway,
                     wallet |-> req[w].wallet, share |-> req[w].share, ref |-> FALSE]
             r == [req[w] EXCEPT !.pc = "gateway", !.call = TRUE, !.pending = TRUE]
  <2>1. rows' = [rows EXCEPT ![k] = row]
    BY <1>3 DEF InsertRow
  <2>2. row \in RowRec
    BY <1>0 DEF ReqRec, RowRec, Statuses
  <2>3. /\ rows' \in [Keys -> RowRec] /\ rows'[k] = row
        /\ \A j \in Keys \ {k} : rows'[j] = rows[j]
    BY <1>0, <2>1, <2>2
  <2>4. req' = [req EXCEPT ![w].pc = "gateway", ![w].call = TRUE, ![w].pending = TRUE]
    BY <1>3 DEF InsertRow
  <2>5. req' = [req EXCEPT ![w] = r]
    BY <1>0, <2>4 DEF ReqRec
  <2>6. r \in ReqRec /\ r.pc = "gateway" /\ r.key = k /\ r.to = req[w].to /\ r.call = TRUE
    BY <1>0 DEF ReqRec, Pcs
  <2> HIDE DEF r
  <2>7. req' \in [Workers -> ReqRec] /\ req'[w] = r /\ \A v \in Workers \ {w} : req'[v] = req[v]
    BY <1>0, <2>5, <2>6
  <2> QED BY <1>0, <1>1, <1>3, <2>3, <2>6, <2>7
<1> QED BY <1>2, <1>3

LEMMA InsertTyped ==
    ASSUME BaseInv, NEW w \in Workers, InsertRow(w)
    PROVE  BaseInv'
<1>0. RowTypes /\ DataTypes /\ ReqTypes
  BY DEF BaseInv
<1>k. PICK k : k = req[w].key
  OBVIOUS
<1>1. /\ k \in Keys /\ req[w].pc = "insert"
      /\ UNCHANGED <<booking, payment, coupon, intents, vendor, credited, debits, faults>>
      /\ req' \in [Workers -> ReqRec] /\ \A v \in Workers \ {w} : req'[v] = req[v]
      /\ rows' \in [Keys -> RowRec] /\ \A j \in Keys \ {k} : rows'[j] = rows[j]
      /\ \/ /\ rows[k].status # "none" /\ rows' = rows
            /\ req'[w].pc = "idle" \/ ResumeOf(req'[w], k, req[w].to)
         \/ /\ rows[k].status = "none" /\ rows'[k].status = "pending"
            /\ rows'[k].gateway = req[w].gateway /\ rows'[k].wallet = req[w].wallet
            /\ req'[w].pc = "gateway" /\ req'[w].key = k
  BY <1>k, InsertFacts
<1>2. /\ req'[w].pc # "idle" => req'[w].key = k
      /\ req'[w].pc # "insert" /\ rows'[k].status # "none"
  BY <1>1 DEF ResumeOf
<1>3. req[w].gateway + req[w].wallet <= Pool
  BY <1>0, <1>1 DEF ReqTypes
<1>4. ASSUME NEW j \in Keys
      PROVE  /\ rows'[j].gateway + rows'[j].wallet <= Pool
             /\ rows'[j].status = "none" => rows'[j].gateway = 0 /\ rows'[j].wallet = 0
             /\ rows[j].status # "none" => rows'[j].status # "none"
  <2>1. CASE rows' = rows
    BY <1>0, <2>1 DEF RowTypes
  <2>2. CASE j = k /\ rows[k].status = "none"
    BY <1>1, <1>2, <1>3, <2>2
  <2>3. CASE j # k
    BY <1>0, <1>1, <2>3 DEF RowTypes
  <2> QED BY <1>1, <2>1, <2>2, <2>3
<1>5. ASSUME NEW v \in Workers
      PROVE  /\ req'[v].pc # "idle" => req'[v].key \in Keys
             /\ req'[v].pc \notin {"idle", "insert"} => rows'[req'[v].key].status # "none"
             /\ req'[v].pc = "insert" => req'[v].gateway + req'[v].wallet <= Pool
  <2>1. CASE v = w
    BY <1>1, <1>2, <2>1
  <2>2. CASE v # w
    BY <1>0, <1>1, <1>4, <2>2 DEF ReqTypes
  <2> QED BY <2>1, <2>2
<1>6. DataTypes'
  BY <1>0, <1>1 DEF DataTypes
<1> QED BY <1>1, <1>4, <1>5, <1>6 DEF BaseInv, RowTypes, ReqTypes

LEMMA InsertBaseAt ==
    ASSUME BaseInv, OrderInv, NEW w \in Workers, InsertRow(w), NEW k, k = req[w].key
    PROVE  /\ OrderInv'
           /\ rows[k].status = "none" =>
                  /\ SumOver(GatewayTaken)' = SumOver(GatewayTaken) + req[w].gateway
                  /\ SumOver(WalletTaken)' = SumOver(WalletTaken) + req[w].wallet
           /\ rows[k].status # "none" =>
                  /\ SumOver(GatewayTaken)' <= SumOver(GatewayTaken)
                  /\ SumOver(WalletTaken)' <= SumOver(WalletTaken)
<1>0. RowTypes /\ DataTypes /\ ReqTypes /\ OneKey /\ Budget
  BY DEF BaseInv, OrderInv
<1>1. /\ k \in Keys /\ req[w].pc = "insert"
      /\ UNCHANGED <<booking, payment, coupon, intents, vendor, credited, debits, faults>>
      /\ req' \in [Workers -> ReqRec] /\ \A v \in Workers \ {w} : req'[v] = req[v]
      /\ rows' \in [Keys -> RowRec] /\ \A j \in Keys \ {k} : rows'[j] = rows[j]
      /\ \/ /\ rows[k].status # "none" /\ rows' = rows
            /\ req'[w].pc = "idle" \/ ResumeOf(req'[w], k, req[w].to)
         \/ /\ rows[k].status = "none" /\ rows'[k].status = "pending"
            /\ rows'[k].gateway = req[w].gateway /\ rows'[k].wallet = req[w].wallet
            /\ req'[w].pc = "gateway" /\ req'[w].key = k
  BY InsertFacts
<1>2. /\ req'[w].pc # "idle" => req'[w].key = k
      /\ req'[w].pc # "insert" /\ rows'[k].status # "none"
      /\ rows[k].status # "none" => rows' = rows
  BY <1>1 DEF ResumeOf
<1>3. ASSUME NEW v \in Workers, req'[v].pc # "idle"
      PROVE  req'[v].key = k /\ req[v].pc # "idle" /\ req[v].key = k
  <2>1. CASE v = w
    BY <1>1, <1>2, <1>3, <2>1
  <2>2. CASE v # w
    BY <1>0, <1>1, <1>3, <2>2 DEF OneKey
  <2> QED BY <2>1, <2>2
<1>4. req[w].gateway \in Nat /\ req[w].wallet \in Nat /\ req[w] \in ReqRec
  BY <1>0, Numbers DEF ReqTypes, ReqRec
<1>6. OneKey'
  BY <1>3 DEF OneKey
<1>8. ASSUME NEW j \in Keys, j # k
      PROVE  /\ (IF Counts(j)' THEN rows'[j].gateway ELSE 0) = (IF Counts(j) THEN rows[j].gateway ELSE 0)
             /\ (IF Counts(j)' THEN rows'[j].wallet ELSE 0) = (IF Counts(j) THEN rows[j].wallet ELSE 0)
  <2>1. rows'[j] = rows[j]
    BY <1>1, <1>8
  <2>2. ASSUME Counts(j)', rows[j].status \notin LiveStatus PROVE FALSE
    BY <1>3, <1>8, <2>1, <2>2 DEF Counts
  <2>3. ASSUME Counts(j), rows[j].status \notin LiveStatus PROVE FALSE
    <3>1. PICK v \in Workers : req[v].pc # "idle" /\ req[v].key = j
      BY <2>3 DEF Counts
    <3> QED BY <1>0, <1>1, <1>8, <3>1 DEF OneKey
  <2>4. rows[j].status \in LiveStatus => Counts(j) /\ Counts(j)'
    BY <2>1 DEF Counts
  <2> QED BY <2>1, <2>2, <2>3, <2>4
<1>9. /\ \A j \in Keys \ {k} : GatewayTaken'[j] = GatewayTaken[j] /\ WalletTaken'[j] = WalletTaken[j]
      /\ GatewayTaken[k] = IF Counts(k) THEN rows[k].gateway ELSE 0
      /\ WalletTaken[k] = IF Counts(k) THEN rows[k].wallet ELSE 0
      /\ GatewayTaken'[k] = IF Counts(k)' THEN rows'[k].gateway ELSE 0
      /\ WalletTaken'[k] = IF Counts(k)' THEN rows'[k].wallet ELSE 0
  <2>1. ASSUME NEW j \in Keys
        PROVE  /\ GatewayTaken[j] = (IF Counts(j) THEN rows[j].gateway ELSE 0)
               /\ WalletTaken[j] = (IF Counts(j) THEN rows[j].wallet ELSE 0)
               /\ GatewayTaken'[j] = (IF Counts(j)' THEN rows'[j].gateway ELSE 0)
               /\ WalletTaken'[j] = (IF Counts(j)' THEN rows'[j].wallet ELSE 0)
    BY DEF GatewayTaken, WalletTaken
  <2>2. ASSUME NEW j \in Keys \ {k}
        PROVE  GatewayTaken'[j] = GatewayTaken[j] /\ WalletTaken'[j] = WalletTaken[j]
    BY <1>8, <2>1
  <2> QED BY <1>1, <2>1, <2>2
<1>10. /\ \A j \in Keys : rows'[j].gateway \in Nat /\ rows'[j].wallet \in Nat
       /\ \A j \in Keys : rows[j].gateway \in Nat /\ rows[j].wallet \in Nat
  BY <1>0, <1>1, Numbers DEF RowTypes, RowRec
<1>11. /\ GatewayTaken \in [Keys -> Int] /\ WalletTaken \in [Keys -> Int]
       /\ GatewayTaken' \in [Keys -> Int] /\ WalletTaken' \in [Keys -> Int]
  BY <1>10 DEF GatewayTaken, WalletTaken
<1>12. SumOver(GatewayTaken) \in Nat /\ SumOver(WalletTaken) \in Nat
  BY <1>0, TakenTypes
<1>13. /\ SumOver(GatewayTaken') = SumOver(GatewayTaken) - GatewayTaken[k] + GatewayTaken'[k]
       /\ SumOver(WalletTaken') = SumOver(WalletTaken) - WalletTaken[k] + WalletTaken'[k]
  <2>1. IsFiniteSet(Keys) /\ k \in Keys
    BY <1>1, Numbers
  <2>2. SumOver(GatewayTaken') = SumOver(GatewayTaken) - GatewayTaken[k] + GatewayTaken'[k]
    BY <1>9, <1>11, <2>1, SumChange
  <2>3. SumOver(WalletTaken') = SumOver(WalletTaken) - WalletTaken[k] + WalletTaken'[k]
    BY <1>9, <1>11, <2>1, SumChange
  <2> QED BY <2>2, <2>3
<1>14. ASSUME rows[k].status = "none"
       PROVE  /\ SumOver(GatewayTaken') = SumOver(GatewayTaken) + req[w].gateway
              /\ SumOver(WalletTaken') = SumOver(WalletTaken) + req[w].wallet
  <2>1. rows[k].gateway = 0 /\ rows[k].wallet = 0
    BY <1>0, <1>1, <1>14 DEF RowTypes
  <2>2. GatewayTaken[k] = 0 /\ WalletTaken[k] = 0
    BY <1>9, <2>1
  <2>3. Counts(k)'
    BY <1>1, <1>14 DEF Counts, LiveStatus
  <2>4. GatewayTaken'[k] = req[w].gateway /\ WalletTaken'[k] = req[w].wallet
    BY <1>1, <1>9, <1>14, <2>3
  <2> QED BY <1>4, <1>12, <1>13, <2>2, <2>4
<1>15. ASSUME rows[k].status # "none"
       PROVE  /\ SumOver(GatewayTaken') <= SumOver(GatewayTaken)
              /\ SumOver(WalletTaken') <= SumOver(WalletTaken)
  <2>1. Counts(k) /\ rows' = rows
    BY <1>1, <1>15 DEF Counts
  <2>2. GatewayTaken'[k] <= GatewayTaken[k] /\ WalletTaken'[k] <= WalletTaken[k]
    BY <1>1, <1>9, <1>10, <2>1
  <2>3. /\ GatewayTaken[k] \in Int /\ WalletTaken[k] \in Int
        /\ GatewayTaken'[k] \in Int /\ WalletTaken'[k] \in Int
    BY <1>1, <1>11
  <2> QED BY <1>12, <1>13, <2>2, <2>3
<1>16. SumOver(GatewayTaken') <= GatewayPool /\ SumOver(WalletTaken') <= WalletPool
  <2>1. CASE rows[k].status = "none"
    BY <1>0, <1>1, <1>14, <2>1 DEF Budget
  <2>2. CASE rows[k].status # "none"
    <3>1. SumOver(GatewayTaken') \in Int /\ SumOver(WalletTaken') \in Int
      <4>1. /\ GatewayTaken[k] \in Int /\ WalletTaken[k] \in Int
            /\ GatewayTaken'[k] \in Int /\ WalletTaken'[k] \in Int
        BY <1>1, <1>11
      <4> QED BY <1>12, <1>13, <4>1
    <3>2. SumOver(GatewayTaken) <= GatewayPool /\ SumOver(WalletTaken) <= WalletPool
      BY <1>0 DEF Budget
    <3> QED BY <1>12, <1>15, <2>2, <3>1, <3>2, Numbers
  <2> QED BY <2>1, <2>2
<1>17. Budget'
  BY <1>2, <1>3, <1>16 DEF Budget
<1>18. SumOver(GatewayTaken)' = SumOver(GatewayTaken') /\ SumOver(WalletTaken)' = SumOver(WalletTaken')
  OBVIOUS
<1> QED BY <1>6, <1>14, <1>15, <1>17, <1>18 DEF OrderInv

LEMMA InsertBase ==
    ASSUME BaseInv, OrderInv, NEW w \in Workers, InsertRow(w)
    PROVE  /\ OrderInv'
           /\ rows[req[w].key].status = "none" =>
                  /\ SumOver(GatewayTaken)' = SumOver(GatewayTaken) + req[w].gateway
                  /\ SumOver(WalletTaken)' = SumOver(WalletTaken) + req[w].wallet
           /\ rows[req[w].key].status # "none" =>
                  /\ SumOver(GatewayTaken)' <= SumOver(GatewayTaken)
                  /\ SumOver(WalletTaken)' <= SumOver(WalletTaken)
BY InsertBaseAt

\* Every other step is a tame one.
LEMMA OtherBase ==
    ASSUME BaseInv, ReqTame, RowTame, DataTypes'
    PROVE  /\ BaseInv'
           /\ OrderInv => /\ OrderInv'
                          /\ SumOver(GatewayTaken)' <= SumOver(GatewayTaken)
                          /\ SumOver(WalletTaken)' <= SumOver(WalletTaken)
BY TameBase, TameBudget DEF BaseInv, OrderInv

LEMMA BaseInit == Init => BaseInv /\ OrderInv
<1> SUFFICES ASSUME Init PROVE BaseInv /\ OrderInv
  OBVIOUS
<1>1. NoReq \in ReqRec /\ NoReq.pc = "idle" /\ NoRow \in RowRec /\ Nobody \in [Owners -> Amount]
  BY NoReqTyped, Numbers DEF NoRow, RowRec, Statuses, Nobody
<1>2. /\ req = [w \in Workers |-> NoReq] /\ rows = [k \in Keys |-> NoRow]
      /\ vendor = [k \in Keys |-> 0] /\ credited = [k \in Keys |-> 0]
      /\ debits = [k \in Keys |-> Nobody] /\ faults = 0
      /\ \A k \in Keys : intents[k] \in Intents[k]
      /\ booking \in {"paid", "disputed"} /\ payment = "captured" /\ coupon = TRUE
  BY DEF Init
<1>3. NoRow.status = "none" /\ NoRow.gateway = 0 /\ NoRow.wallet = 0
  BY DEF NoRow
<1>4. RowTypes
  BY <1>1, <1>2, <1>3, Numbers DEF RowTypes
<1>5. DataTypes
  BY <1>1, <1>2, Numbers DEF DataTypes
<1>6. ReqTypes /\ OneKey
  BY <1>1, <1>2 DEF ReqTypes, OneKey
<1>7. SumOver(GatewayTaken) = 0 /\ SumOver(WalletTaken) = 0
  <2>1. /\ GatewayTaken \in [Keys -> Int] /\ WalletTaken \in [Keys -> Int]
        /\ \A k \in Keys : GatewayTaken[k] = 0 /\ WalletTaken[k] = 0
    BY <1>2, <1>3 DEF GatewayTaken, WalletTaken
  <2> QED BY <2>1, Numbers, SumZero
<1>8. Budget
  BY <1>1, <1>2, <1>7, Numbers DEF Budget
<1> QED BY <1>4, <1>5, <1>6, <1>8 DEF BaseInv, OrderInv

LEMMA BaseStep == BaseInv /\ [Next]_vars => BaseInv'
<1> SUFFICES ASSUME BaseInv, [Next]_vars PROVE BaseInv'
  OBVIOUS
<1>1. ASSUME NEW w \in Workers, NEW k \in Keys, Submit(w, k) PROVE BaseInv'
  BY <1>1, SubmitTyped
<1>2. ASSUME NEW w \in Workers, Step(w) PROVE BaseInv'
  <2>1. CASE InsertRow(w)
    BY <2>1, InsertTyped
  <2>2. CASE callGateway(w)
    BY <2>2, CallTame, OtherBase
  <2>3. CASE RecordVendor(w)
    BY <2>3, RecordTame, OtherBase
  <2>4. CASE RecordFailure(w)
    BY <2>4, FailTame, OtherBase
  <2>5. CASE creditWallet(w)
    BY <2>5, CreditTame, OtherBase
  <2>6. CASE MarkProcessed(w)
    BY <2>6, MarkTame, OtherBase
  <2>7. CASE ReadLegs(w)
    BY <2>7, ReadTame, OtherBase
  <2>8. CASE PostLegs(w)
    BY <2>8, PostTame, OtherBase
  <2>9. CASE MoveBooking(w)
    BY <2>9, MoveTame, OtherBase
  <2>10. CASE ReleaseCoupon(w)
    BY <2>10, CouponTame, OtherBase
  <2>11. CASE applyRefund(w)
    BY <2>11, ApplyTame, OtherBase
  <2> QED BY <1>2, <2>1, <2>2, <2>3, <2>4, <2>5, <2>6, <2>7, <2>8, <2>9, <2>10, <2>11 DEF Step
<1>3. ASSUME NEW w \in Workers, Die(w) PROVE BaseInv'
  BY <1>3, DieTame, OtherBase
<1>4. ASSUME NEW k \in Keys, WebhookConfirms(k) PROVE BaseInv'
  BY <1>4, WebhookTame, OtherBase
<1>5. CASE DisputeMoves
  BY <1>5, DisputeTame, OtherBase
<1>6. CASE UNCHANGED vars
  <2>1. RowTypes /\ DataTypes /\ req \in [Workers -> ReqRec]
    BY DEF BaseInv, ReqTypes
  <2>2. ReqTame /\ RowTame /\ DataTypes'
    BY <1>6, <2>1, SameTame, RowsSame DEF vars, DataTypes
  <2> QED BY <2>2, OtherBase
<1> QED BY <1>1, <1>2, <1>3, <1>4, <1>5, <1>6 DEF Next

LEMMA OrderStep == ASSUME NoOverlap PROVE BaseInv /\ OrderInv /\ [Next]_vars => OrderInv'
<1> SUFFICES ASSUME BaseInv, OrderInv, [Next]_vars PROVE OrderInv'
  OBVIOUS
<1>1. ASSUME NEW w \in Workers, NEW k \in Keys, Submit(w, k) PROVE OrderInv'
  BY <1>1, SubmitBase
<1>2. ASSUME NEW w \in Workers, Step(w) PROVE OrderInv'
  <2>1. CASE InsertRow(w)
    BY <2>1, InsertBase
  <2>2. CASE callGateway(w)
    BY <2>2, CallTame, OtherBase
  <2>3. CASE RecordVendor(w)
    BY <2>3, RecordTame, OtherBase
  <2>4. CASE RecordFailure(w)
    BY <2>4, FailTame, OtherBase
  <2>5. CASE creditWallet(w)
    BY <2>5, CreditTame, OtherBase
  <2>6. CASE MarkProcessed(w)
    BY <2>6, MarkTame, OtherBase
  <2>7. CASE ReadLegs(w)
    BY <2>7, ReadTame, OtherBase
  <2>8. CASE PostLegs(w)
    BY <2>8, PostTame, OtherBase
  <2>9. CASE MoveBooking(w)
    BY <2>9, MoveTame, OtherBase
  <2>10. CASE ReleaseCoupon(w)
    BY <2>10, CouponTame, OtherBase
  <2>11. CASE applyRefund(w)
    BY <2>11, ApplyTame, OtherBase
  <2> QED BY <1>2, <2>1, <2>2, <2>3, <2>4, <2>5, <2>6, <2>7, <2>8, <2>9, <2>10, <2>11 DEF Step
<1>3. ASSUME NEW w \in Workers, Die(w) PROVE OrderInv'
  BY <1>3, DieTame, OtherBase
<1>4. ASSUME NEW k \in Keys, WebhookConfirms(k) PROVE OrderInv'
  BY <1>4, WebhookTame, OtherBase
<1>5. CASE DisputeMoves
  BY <1>5, DisputeTame, OtherBase
<1>6. CASE UNCHANGED vars
  <2>1. RowTypes /\ DataTypes /\ req \in [Workers -> ReqRec]
    BY DEF BaseInv, ReqTypes
  <2>2. ReqTame /\ RowTame /\ DataTypes'
    BY <1>6, <2>1, SameTame, RowsSame DEF vars, DataTypes
  <2> QED BY <2>2, OtherBase
<1> QED BY <1>1, <1>2, <1>3, <1>4, <1>5, <1>6 DEF Next

\* The ghosts only grow, and record what they name.
GhostTypes == slips \subseteq {"overlap", "redebit"} /\ misfiled \subseteq Keys
Grow == slips \subseteq slips' /\ misfiled \subseteq misfiled'

LEMMA GhostStep == ASSUME BaseInv, GhostTypes, [Next]_vars PROVE GhostTypes' /\ Grow
<1>1. ASSUME NEW w \in Workers, NEW k \in Keys, Submit(w, k) PROVE GhostTypes' /\ Grow
  BY <1>1 DEF Submit, Slip, GhostTypes, Grow
<1>2. ASSUME NEW w \in Workers, Step(w) PROVE GhostTypes' /\ Grow
  <2>1. CASE RecordFailure(w)
    <3>1. req[w].key \in Keys
      BY <2>1 DEF RecordFailure, BaseInv, ReqTypes
    <3> QED BY <2>1, <3>1 DEF RecordFailure, GhostTypes, Grow
  <2>2. CASE PostLegs(w)
    BY <2>2 DEF PostLegs, Slip, GhostTypes, Grow
  <2>3. CASE InsertRow(w) \/ callGateway(w) \/ RecordVendor(w) \/ creditWallet(w)
    <3>1. UNCHANGED <<slips, misfiled>>
      BY <2>3 DEF InsertRow, callGateway, RecordVendor, creditWallet
    <3> QED BY <3>1 DEF GhostTypes, Grow
  <2>4. CASE MarkProcessed(w) \/ ReadLegs(w) \/ MoveBooking(w) \/ ReleaseCoupon(w) \/ applyRefund(w)
    <3>1. UNCHANGED <<slips, misfiled>>
      BY <2>4 DEF MarkProcessed, ReadLegs, MoveBooking, ReleaseCoupon, applyRefund
    <3> QED BY <3>1 DEF GhostTypes, Grow
  <2> QED BY <1>2, <2>1, <2>2, <2>3, <2>4 DEF Step
<1>3. CASE \/ \E w \in Workers : Die(w)
           \/ \E k \in Keys : WebhookConfirms(k)
           \/ DisputeMoves \/ UNCHANGED vars
  <2>1. UNCHANGED <<slips, misfiled>>
    BY <1>3 DEF Die, WebhookConfirms, DisputeMoves, vars
  <2> QED BY <2>1 DEF GhostTypes, Grow
<1> QED BY <1>1, <1>2, <1>3 DEF Next

\* What every state satisfies: the types, and while no overlap is on record
\* the order of the requests and the budget of both pools.
SoundInv == BaseInv /\ GhostTypes /\ ("overlap" \in slips \/ OrderInv)

LEMMA SoundInit == Init => SoundInv
BY BaseInit DEF Init, SoundInv, GhostTypes

LEMMA SoundStep == SoundInv /\ [Next]_vars => SoundInv' /\ Grow
<1> SUFFICES ASSUME SoundInv, [Next]_vars PROVE SoundInv' /\ Grow
  OBVIOUS
<1>1. BaseInv' /\ GhostTypes' /\ Grow
  BY BaseStep, GhostStep DEF SoundInv
<1>2. CASE "overlap" \in slips'
  BY <1>1, <1>2 DEF SoundInv
<1>3. CASE "overlap" \notin slips'
  <2>1. NoOverlap /\ OrderInv
    BY <1>1, <1>3 DEF NoOverlap, SoundInv, Grow
  <2>2. OrderInv'
    BY <2>1, OrderStep DEF SoundInv
  <2> QED BY <1>1, <2>2 DEF SoundInv
<1> QED BY <1>2, <1>3

\* The rows, the posted legs and the requests keep their types whatever
\* overlaps, deaths, refusals, lost answers and repeated submissions: no row,
\* no leg and no request exceeds what was paid.
THEOREM RefundsTypeCorrect == Spec => []TypeOK
<1>1. SoundInv => TypeOK
  <2> SUFFICES ASSUME SoundInv PROVE TypeOK
    OBVIOUS
  <2>1. RowTypes /\ DataTypes /\ ReqTypes /\ GhostTypes
    BY DEF SoundInv, BaseInv
  <2>2. \A w \in Workers : req[w].pc \in Pcs /\ req[w].legs \in [Owners -> Amount]
    BY <2>1 DEF ReqTypes, ReqRec
  <2> QED BY <2>1, <2>2 DEF TypeOK, RowTypes, DataTypes, RowRec, GhostTypes
<1> QED BY <1>1, SoundInit, SoundStep, PTL DEF Spec

-----------------------------------------------------------------------------
(* Where the money is, step by step.                                       *)

LEMMA SameDelivery ==
    ASSUME RowTame, UNCHANGED intents, NEW k \in Keys
    PROVE  ToGateway(k)' = ToGateway(k) /\ ToWallet(k)' = ToWallet(k)
BY DEF RowTame, ToGateway, ToWallet

\* Steps that move no money and leave every request where it was, or past the
\* wallet.
MoneyQuiet ==
    /\ UNCHANGED <<intents, vendor, credited, misfiled>> /\ RowTame
    /\ \A k \in Keys : /\ rows'[k].ref = rows[k].ref
                       /\ \/ k \in misfiled
                          \/ rows'[k].status \in LiveStatus <=> rows[k].status \in LiveStatus
    /\ \A v \in Workers :
           \/ req'[v].pc = "idle"
           \/ /\ req'[v].key = req[v].key /\ req'[v].call = req[v].call /\ req[v].pc # "idle"
              /\ \/ req'[v].pc = req[v].pc
                 \/ req[v].pc \in AfterWallet /\ req'[v].pc \in AfterWallet

LEMMA QuietMoney ==
    ASSUME BaseInv, MoneyInv, MoneyQuiet
    PROVE  MoneyInv'
<1>1. ASSUME NEW k \in Keys PROVE RowOK(k)'
  <2>1. ToGateway(k)' = ToGateway(k) /\ ToWallet(k)' = ToWallet(k)
    BY SameDelivery DEF MoneyQuiet
  <2>2. RowOK(k)
    BY DEF MoneyInv, RowMoney
  <2>3. /\ rows'[k].status = "none" <=> rows[k].status = "none"
        /\ vendor'[k] = vendor[k] /\ credited'[k] = credited[k] /\ misfiled' = misfiled
        /\ rows'[k].ref = rows[k].ref
        /\ \/ k \in misfiled
           \/ rows'[k].status \in LiveStatus <=> rows[k].status \in LiveStatus
    BY DEF RowTame, MoneyQuiet
  <2> QED BY <2>1, <2>2, <2>3 DEF RowOK
<1>2. ASSUME NEW v \in Workers, req'[v].pc # "idle" PROVE ReqAt(v, req[v].key)' /\ req'[v].key = req[v].key
  <2>1. PICK k \in Keys : k = req[v].key
    BY <1>2 DEF MoneyQuiet, BaseInv, ReqTypes
  <2>2. /\ req'[v].key = k /\ req'[v].call = req[v].call /\ req[v].pc # "idle"
        /\ \/ req'[v].pc = req[v].pc
           \/ req[v].pc \in AfterWallet /\ req'[v].pc \in AfterWallet
    BY <1>2, <2>1 DEF MoneyQuiet
  <2>3. ReqAt(v, k)
    BY <2>1, <2>2 DEF MoneyInv, ReqMoney
  <2>4. ToGateway(k)' = ToGateway(k) /\ ToWallet(k)' = ToWallet(k)
    BY SameDelivery DEF MoneyQuiet
  <2>5. /\ rows'[k].ref = rows[k].ref
        /\ \/ k \in misfiled
           \/ rows'[k].status \in LiveStatus <=> rows[k].status \in LiveStatus
        /\ vendor' = vendor /\ credited' = credited /\ misfiled' = misfiled
    BY DEF MoneyQuiet
  <2>6. ReqAt(v, k)'
    <3>1. CASE req'[v].pc = req[v].pc
      BY <2>2, <2>3, <2>4, <2>5, <3>1 DEF ReqAt
    <3>2. CASE req[v].pc \in AfterWallet /\ req'[v].pc \in AfterWallet
      BY <2>2, <2>3, <2>4, <2>5, <3>2 DEF ReqAt, AfterWallet, AfterVendor
    <3> QED BY <2>2, <3>1, <3>2
  <2> QED BY <2>1, <2>2, <2>6
<1>3. ASSUME NEW v \in Workers, req'[v].pc # "idle" PROVE ReqAt(v, req[v].key)'
  BY <1>2, <1>3
<1> QED BY <1>1, <1>3 DEF MoneyInv, RowMoney, ReqMoney

LEMMA AtWork ==
    ASSUME BaseInv, MoneyInv, NEW w \in Workers, req[w].pc # "idle", NEW k, k = req[w].key
    PROVE  /\ k \in Keys /\ ReqAt(w, k) /\ RowOK(k)
           /\ \A v \in Workers : req[v].pc # "idle" =>
                  req[v].key \in Keys /\ ReqAt(v, req[v].key)
           /\ ToGateway(k) \in Nat /\ ToWallet(k) \in Nat
           /\ vendor \in [Keys -> Amount] /\ credited \in [Keys -> Amount]
<1>1. k \in Keys /\ RowTypes /\ DataTypes /\ ReqTypes
  BY DEF BaseInv, ReqTypes
<1>3. ToGateway(k) \in Nat /\ ToWallet(k) \in Nat
  BY <1>1, Delivered, Numbers
<1> QED BY <1>1, <1>3 DEF MoneyInv, RowMoney, ReqMoney, DataTypes, ReqTypes

LEMMA CallMoney ==
    ASSUME BaseInv, MoneyInv, NEW w \in Workers, callGateway(w)
    PROVE  MoneyInv'
<1>1. PICK k : k = req[w].key
  OBVIOUS
<1>2. req[w].pc = "gateway"
  BY DEF callGateway
<1>3. /\ k \in Keys /\ ReqAt(w, k) /\ RowOK(k)
      /\ \A v \in Workers : req[v].pc # "idle" => req[v].key \in Keys /\ ReqAt(v, req[v].key)
      /\ ToGateway(k) \in Nat /\ ToWallet(k) \in Nat
      /\ vendor \in [Keys -> Amount] /\ credited \in [Keys -> Amount]
  BY <1>1, <1>2, AtWork
<1>4. RowTame /\ UNCHANGED <<rows, intents, credited, misfiled>>
  BY CallTame DEF callGateway
<1>5. \A j \in Keys : ToGateway(j)' = ToGateway(j) /\ ToWallet(j)' = ToWallet(j)
  BY <1>4, SameDelivery
<1>6. k \in misfiled \/ rows[k].status \in LiveStatus
  BY <1>2, <1>3 DEF ReqAt
<1>6a. rows[k].status # "none"
  BY <1>1, <1>2 DEF BaseInv, ReqTypes
<1>7. req \in [Workers -> ReqRec] /\ {"wallet", "record", "fail"} \subseteq Pcs
  BY DEF BaseInv, ReqTypes, Pcs
<1>8. VendorAccepts(k) = vendor \/ (vendor[k] = 0 /\ VendorAccepts(k) = [vendor EXCEPT ![k] = ToGateway(k)])
  BY DEF VendorAccepts
<1>9. \/ /\ ~req[w].call \/ ToGateway(k) = 0
         /\ Goto(w, "wallet") /\ vendor' = vendor
      \/ /\ vendor' = VendorAccepts(k) /\ vendor'[k] # 0
         /\ Goto(w, "record")
      \/ /\ vendor' = vendor \/ vendor' = VendorAccepts(k)
         /\ ToGateway(k) > 0 /\ Goto(w, "fail")
  BY <1>1 DEF callGateway
<1>10. \E pc \in {"wallet", "record", "fail"} : Goto(w, pc) /\ pc \in Pcs
  BY <1>7, <1>9
<1>11. /\ Kept(w) /\ \A v \in Workers \ {w} : req'[v] = req[v]
  BY <1>7, <1>10, GotoFacts
<1>12. /\ \A j \in Keys \ {k} : vendor'[j] = vendor[j]
       /\ vendor'[k] = vendor[k] \/ (vendor[k] = 0 /\ vendor'[k] = ToGateway(k))
  BY <1>3, <1>8, <1>9
<1>12a. ASSUME NEW j \in Keys, vendor[j] = ToGateway(j) PROVE vendor'[j] = ToGateway(j)
  BY <1>12, <1>12a
<1>13. RowMoney'
  <2>1. ASSUME NEW j \in Keys PROVE RowOK(j)'
    <3>1. RowOK(j)
      BY DEF MoneyInv, RowMoney
    <3>2. CASE vendor'[j] = vendor[j]
      BY <1>4, <1>5, <3>1, <3>2 DEF RowOK
    <3>3. CASE j = k /\ vendor[k] = 0 /\ vendor'[k] = ToGateway(k)
      BY <1>4, <1>5, <1>6, <1>6a, <3>1, <3>3 DEF RowOK
    <3> QED BY <1>12, <3>2, <3>3
  <2> QED BY <2>1 DEF RowMoney
<1>14. ASSUME NEW v \in Workers, v # w, req'[v].pc # "idle", NEW j, j = req[v].key
       PROVE  ReqAt(v, j)' /\ req'[v].key = j
  <2>1. req'[v] = req[v] /\ ReqAt(v, j) /\ j \in Keys
    BY <1>3, <1>11, <1>14
  <2>3. vendor[j] = ToGateway(j) => vendor'[j] = ToGateway(j)
    BY <1>12a, <2>1
  <2> QED BY <1>4, <1>5, <1>14, <2>1, <2>3 DEF ReqAt
<1>15. ReqAt(w, k)' /\ req'[w].key = k
  <2>0. req'[w].key = k
    BY <1>1, <1>11 DEF Kept
  <2>1. CASE /\ ~req[w].call \/ ToGateway(k) = 0
             /\ Goto(w, "wallet") /\ vendor' = vendor
    <3>1. req'[w].pc = "wallet"
      BY <1>7, <2>1, GotoFacts
    <3>2. ~StrayRow => vendor[k] = ToGateway(k)
      BY <1>2, <1>3, <2>1 DEF ReqAt, RowOK
    <3> QED BY <1>3, <1>4, <1>5, <1>6, <2>0, <2>1, <3>1, <3>2 DEF ReqAt, AfterVendor, AfterWallet
  <2>2. CASE vendor'[k] # 0 /\ Goto(w, "record")
    <3>1. req'[w].pc = "record"
      BY <1>7, <2>2, GotoFacts
    <3>2. vendor'[k] = ToGateway(k)
      BY <1>3, <1>12, <2>2 DEF RowOK
    <3> QED BY <1>3, <1>4, <1>5, <1>6, <2>0, <3>1, <3>2 DEF ReqAt, AfterVendor, AfterWallet
  <2>3. CASE ToGateway(k) > 0 /\ Goto(w, "fail")
    <3>1. req'[w].pc = "fail"
      BY <1>7, <2>3, GotoFacts
    <3> QED BY <1>3, <1>4, <1>5, <1>6, <2>0, <2>3, <3>1 DEF ReqAt, AfterVendor, AfterWallet
  <2> QED BY <1>9, <2>1, <2>2, <2>3
<1>16. ASSUME NEW v \in Workers, req'[v].pc # "idle", NEW j, j = req[v].key
       PROVE  ReqAt(v, j)' /\ req'[v].key = j
  BY <1>1, <1>14, <1>15, <1>16
<1>17. ASSUME NEW v \in Workers, req'[v].pc # "idle" PROVE ReqAt(v, req[v].key)'
  <2>1. PICK j : j = req[v].key
    OBVIOUS
  <2> QED BY <1>16, <1>17, <2>1
<1> QED BY <1>13, <1>17 DEF MoneyInv, ReqMoney

LEMMA RecordMoney ==
    ASSUME BaseInv, MoneyInv, NEW w \in Workers, RecordVendor(w)
    PROVE  MoneyInv'
<1>1. PICK k : k = req[w].key
  OBVIOUS
<1>2. req[w].pc = "record" /\ "wallet" \in Pcs /\ req \in [Workers -> ReqRec]
  BY DEF RecordVendor, Pcs, BaseInv, ReqTypes
<1>3. /\ k \in Keys /\ ReqAt(w, k) /\ RowOK(k)
      /\ \A v \in Workers : req[v].pc # "idle" => req[v].key \in Keys /\ ReqAt(v, req[v].key)
      /\ ToGateway(k) \in Nat /\ ToWallet(k) \in Nat
  BY <1>1, <1>2, AtWork, SMTT(40)
<1>4. /\ RowTame /\ rows'[k].status \in LiveStatus /\ rows'[k].ref
      /\ \A j \in Keys \ {k} : rows'[j] = rows[j]
      /\ UNCHANGED <<intents, vendor, credited, misfiled>>
  BY <1>1, RecordTame DEF RecordVendor
<1>5. \A j \in Keys : ToGateway(j)' = ToGateway(j) /\ ToWallet(j)' = ToWallet(j)
  BY <1>4, SameDelivery
<1>6. req'[w].pc = "wallet" /\ Kept(w) /\ \A v \in Workers \ {w} : req'[v] = req[v]
  BY <1>2, GotoFacts DEF RecordVendor
<1>7. vendor[k] = ToGateway(k)
  BY <1>2, <1>3 DEF ReqAt
<1>8. ASSUME NEW j \in Keys PROVE RowOK(j)'
  <2>1. RowOK(j)
    BY DEF MoneyInv, RowMoney
  <2>2. CASE j = k
    <3>1. rows'[k].status # "none"
      BY <1>4 DEF LiveStatus
    <3> QED BY <1>4, <1>5, <1>7, <2>1, <2>2, <3>1 DEF RowOK
  <2>3. CASE j # k
    BY <1>4, <1>5, <2>1, <2>3 DEF RowOK
  <2> QED BY <2>2, <2>3
<1>9. ASSUME NEW v \in Workers, req'[v].pc # "idle", NEW i, i = req[v].key
      PROVE  ReqAt(v, i)' /\ req'[v].key = i
  <2>1. CASE v = w
    <3>1. req'[w].key = k
      BY <1>1, <1>6 DEF Kept
    <3>2. i = k
      BY <1>1, <1>9, <2>1
    <3> QED BY <1>3, <1>4, <1>5, <1>6, <1>7, <2>1, <3>1, <3>2 DEF ReqAt, AfterVendor, AfterWallet
  <2>2. CASE v # w
    <3>1. req'[v] = req[v] /\ ReqAt(v, i) /\ i \in Keys
      BY <1>3, <1>6, <1>9, <2>2
    <3>2. CASE i = k
      BY <1>3, <1>4, <1>5, <1>9, <3>1, <3>2 DEF ReqAt
    <3>3. CASE i # k
      BY <1>4, <1>5, <1>9, <3>1, <3>3 DEF ReqAt
    <3> QED BY <3>2, <3>3
  <2> QED BY <2>1, <2>2
<1>10. ASSUME NEW v \in Workers, req'[v].pc # "idle" PROVE ReqAt(v, req[v].key)'
  <2>1. PICK i : i = req[v].key
    OBVIOUS
  <2> QED BY <1>9, <1>10, <2>1
<1> QED BY <1>8, <1>10 DEF MoneyInv, RowMoney, ReqMoney

LEMMA FailMoney ==
    ASSUME BaseInv, MoneyInv, NEW w \in Workers, RecordFailure(w)
    PROVE  MoneyInv'
<1>1. PICK k : k = req[w].key
  OBVIOUS
<1>2. req[w].pc = "fail" /\ req \in [Workers -> ReqRec]
  BY DEF RecordFailure, BaseInv, ReqTypes
<1>3. /\ k \in Keys /\ ReqAt(w, k) /\ RowOK(k)
      /\ \A v \in Workers : req[v].pc # "idle" => req[v].key \in Keys /\ ReqAt(v, req[v].key)
  BY <1>1, <1>2, AtWork
<1>4. /\ RowTame /\ rows'[k].ref = rows[k].ref /\ rows'[k].status = "failed"
      /\ \A j \in Keys \ {k} : rows'[j] = rows[j]
      /\ UNCHANGED <<intents, vendor, credited>>
      /\ misfiled' = IF Misfiles(w, k) THEN misfiled \cup {k} ELSE misfiled
  BY <1>1, FailTame DEF RecordFailure
<1>5. \A j \in Keys : ToGateway(j)' = ToGateway(j) /\ ToWallet(j)' = ToWallet(j)
  BY <1>4, SameDelivery
<1>6. /\ \A v \in Workers \ {w} : req'[v] = req[v]
      /\ req'[w].pc = "idle"
  BY <1>2, EndFacts DEF RecordFailure
<1>7. ASSUME k \notin misfiled'
      PROVE  /\ vendor[k] = 0 /\ credited[k] = 0
             /\ \A v \in Workers \ {w} : req[v].pc = "idle" \/ req[v].key # k
  <2>1. ~Misfiles(w, k)
    BY <1>4, <1>7
  <2> QED BY <2>1 DEF Misfiles, Running
<1>8. ASSUME NEW j \in Keys PROVE RowOK(j)'
  <2>1. RowOK(j)
    BY DEF MoneyInv, RowMoney
  <2>2. CASE j = k
    BY <1>4, <1>5, <1>7, <2>1, <2>2 DEF RowOK
  <2>3. CASE j # k
    <3>1. j \in misfiled' <=> j \in misfiled
      BY <1>4, <2>3
    <3> QED BY <1>4, <1>5, <2>1, <2>3, <3>1 DEF RowOK
  <2> QED BY <2>2, <2>3
<1>9. ASSUME NEW v \in Workers, req'[v].pc # "idle", NEW i, i = req[v].key
      PROVE  ReqAt(v, i)' /\ req'[v].key = i
  <2>1. v # w /\ req'[v] = req[v] /\ ReqAt(v, i) /\ i \in Keys
    BY <1>3, <1>6, <1>9
  <2>2. CASE i = k
    <3>1. k \in misfiled'
      BY <1>7, <1>9, <2>1, <2>2
    <3> QED BY <1>4, <1>5, <1>9, <2>1, <2>2, <3>1 DEF ReqAt
  <2>3. CASE i # k
    <3>1. i \in misfiled' <=> i \in misfiled
      BY <1>4, <2>3
    <3> QED BY <1>4, <1>5, <1>9, <2>1, <2>3, <3>1 DEF ReqAt
  <2> QED BY <2>2, <2>3
<1>10. ASSUME NEW v \in Workers, req'[v].pc # "idle" PROVE ReqAt(v, req[v].key)'
  <2>1. PICK i : i = req[v].key
    OBVIOUS
  <2> QED BY <1>9, <1>10, <2>1
<1> QED BY <1>8, <1>10 DEF MoneyInv, RowMoney, ReqMoney

LEMMA CreditMoney ==
    ASSUME BaseInv, MoneyInv, NEW w \in Workers, creditWallet(w)
    PROVE  MoneyInv'
<1>1. PICK k : k = req[w].key
  OBVIOUS
<1>2. req[w].pc = "wallet" /\ "processed" \in Pcs /\ req \in [Workers -> ReqRec]
  BY DEF creditWallet, Pcs, BaseInv, ReqTypes
<1>3. /\ k \in Keys /\ ReqAt(w, k) /\ RowOK(k)
      /\ \A v \in Workers : req[v].pc # "idle" => req[v].key \in Keys /\ ReqAt(v, req[v].key)
      /\ ToGateway(k) \in Nat /\ ToWallet(k) \in Nat /\ credited \in [Keys -> Amount]
  BY <1>1, <1>2, AtWork
<1>4. RowTame /\ UNCHANGED <<rows, intents, vendor, misfiled>>
  BY CreditTame DEF creditWallet
<1>5. \A j \in Keys : ToGateway(j)' = ToGateway(j) /\ ToWallet(j)' = ToWallet(j)
  BY <1>4, SameDelivery
<1>6. req'[w].pc = "processed" /\ Kept(w) /\ \A v \in Workers \ {w} : req'[v] = req[v]
  BY <1>2, GotoFacts DEF creditWallet
<1>7. /\ credited'[k] = ToWallet(k) /\ \A j \in Keys \ {k} : credited'[j] = credited[j]
  <2>1. credited' = IF credited[k] # 0 THEN credited ELSE [credited EXCEPT ![k] = ToWallet(k)]
    BY <1>1 DEF creditWallet
  <2> QED BY <1>3, <2>1 DEF RowOK
<1>8. /\ k \in misfiled \/ rows[k].status \in LiveStatus
      /\ ~StrayRow => vendor[k] = ToGateway(k)
      /\ rows[k].status # "none"
  BY <1>1, <1>2, <1>3 DEF ReqAt, AfterVendor, BaseInv, ReqTypes
<1>9. ASSUME NEW j \in Keys PROVE RowOK(j)'
  <2>1. RowOK(j)
    BY DEF MoneyInv, RowMoney
  <2>2. CASE j = k
    BY <1>4, <1>5, <1>7, <1>8, <2>1, <2>2 DEF RowOK
  <2>3. CASE j # k
    BY <1>4, <1>5, <1>7, <2>1, <2>3 DEF RowOK
  <2> QED BY <2>2, <2>3
<1>10. ASSUME NEW v \in Workers, req'[v].pc # "idle", NEW i, i = req[v].key
       PROVE  ReqAt(v, i)' /\ req'[v].key = i
  <2>1. CASE v = w
    <3>1. req'[w].key = k /\ i = k
      BY <1>1, <1>6, <1>10, <2>1 DEF Kept
    <3> QED BY <1>3, <1>4, <1>5, <1>6, <1>7, <1>8, <2>1, <3>1 DEF ReqAt, AfterVendor, AfterWallet
  <2>2. CASE v # w
    <3>1. req'[v] = req[v] /\ ReqAt(v, i) /\ i \in Keys
      BY <1>3, <1>6, <1>10, <2>2
    <3>2. credited[i] = ToWallet(i) => credited'[i] = ToWallet(i)
      BY <1>7, <3>1
    <3> QED BY <1>4, <1>5, <1>10, <3>1, <3>2 DEF ReqAt
  <2> QED BY <2>1, <2>2
<1>11. ASSUME NEW v \in Workers, req'[v].pc # "idle" PROVE ReqAt(v, req[v].key)'
  <2>1. PICK i : i = req[v].key
    OBVIOUS
  <2> QED BY <1>10, <1>11, <2>1
<1> QED BY <1>9, <1>11 DEF MoneyInv, RowMoney, ReqMoney

\* A resumed request finds what the earlier ones left.
LEMMA ResumedAt ==
    ASSUME RowMoney, NEW k \in Keys, NEW w \in Workers, NEW to, ResumeOf(req'[w], k, to),
           UNCHANGED <<rows, vendor, credited, intents>>, RowTypes, DataTypes
    PROVE  ReqAt(w, k)'
<1>1. /\ req'[w].pc = "gateway" /\ req'[w].call = (~rows[k].ref /\ ~StrayRow)
      /\ rows[k].status \in LiveStatus
  BY DEF ResumeOf
<1>4. rows[k].ref \in BOOLEAN /\ StrayRow \in BOOLEAN
  BY RefundsAssumption DEF RowTypes, RowRec
<1>7. ~req'[w].call /\ ~StrayRow => rows[k].ref
  BY <1>1
<1> QED BY <1>1, <1>7 DEF ReqAt, AfterVendor, AfterWallet

LEMMA InsertMoney ==
    ASSUME BaseInv, MoneyInv, NEW w \in Workers, InsertRow(w)
    PROVE  MoneyInv'
<1>1. PICK k : k = req[w].key
  OBVIOUS
<1>2. /\ k \in Keys /\ req[w].pc = "insert"
      /\ UNCHANGED <<intents, vendor, credited>>
      /\ \A v \in Workers \ {w} : req'[v] = req[v]
      /\ \A j \in Keys \ {k} : rows'[j] = rows[j]
      /\ \/ /\ rows[k].status # "none" /\ rows' = rows
            /\ req'[w].pc = "idle" \/ ResumeOf(req'[w], k, req[w].to)
         \/ /\ rows[k].status = "none" /\ rows'[k].status = "pending" /\ ~rows'[k].ref
            /\ req'[w].pc = "gateway" /\ req'[w].key = k /\ req'[w].call
  BY <1>1, InsertFacts
<1>2a. misfiled' = misfiled
  BY DEF InsertRow
<1>3. \A v \in Workers : req[v].pc # "idle" => req[v].key \in Keys /\ ReqAt(v, req[v].key)
  BY <1>1, <1>2, AtWork
<1>4. RowTypes /\ DataTypes /\ ReqTypes
  BY DEF BaseInv
<1>5. CASE rows[k].status # "none" /\ rows' = rows
  <2>0. \A j \in Keys : ToGateway(j)' = ToGateway(j) /\ ToWallet(j)' = ToWallet(j)
    BY <1>2, <1>5 DEF ToGateway, ToWallet
  <2>1. RowMoney'
    BY <1>2, <1>2a, <1>5, <2>0 DEF MoneyInv, RowMoney, RowOK
  <2>2. ASSUME NEW v \in Workers, req'[v].pc # "idle", NEW i, i = req[v].key
        PROVE  ReqAt(v, i)' /\ req'[v].key = i
    <3>1. CASE v = w
      <4>1. ResumeOf(req'[w], k, req[w].to) /\ i = k
        BY <1>1, <1>2, <1>5, <2>2, <3>1
      <4> QED BY <1>2, <1>4, <1>5, <3>1, <4>1, ResumedAt DEF MoneyInv, ResumeOf
    <3>2. CASE v # w
      <4>1. req'[v] = req[v] /\ ReqAt(v, i) /\ i \in Keys
        BY <1>2, <1>3, <2>2, <3>2
      <4> QED BY <1>2, <1>2a, <1>5, <2>0, <2>2, <4>1 DEF ReqAt
    <3> QED BY <3>1, <3>2
  <2>3. ASSUME NEW v \in Workers, req'[v].pc # "idle" PROVE ReqAt(v, req[v].key)'
    <3>1. PICK i : i = req[v].key
      OBVIOUS
    <3> QED BY <2>2, <2>3, <3>1
  <2> QED BY <2>1, <2>3 DEF MoneyInv, ReqMoney
<1>6. CASE rows[k].status = "none"
  <2>1. vendor[k] = 0 /\ credited[k] = 0
    BY <1>2, <1>6 DEF MoneyInv, RowMoney, RowOK
  <2>2. ASSUME NEW j \in Keys PROVE RowOK(j)'
    <3>1. RowOK(j)
      BY DEF MoneyInv, RowMoney
    <3>2. CASE j = k
      BY <1>2, <1>6, <2>1, <3>2 DEF RowOK
    <3>3. CASE j # k
      <4>1. ToGateway(j)' = ToGateway(j) /\ ToWallet(j)' = ToWallet(j)
        BY <1>2, <3>3 DEF ToGateway, ToWallet
      <4> QED BY <1>2, <1>2a, <3>1, <3>3, <4>1 DEF RowOK
    <3> QED BY <3>2, <3>3
  <2>3. ASSUME NEW v \in Workers, req'[v].pc # "idle", NEW i, i = req[v].key
        PROVE  ReqAt(v, i)' /\ req'[v].key = i
    <3>1. CASE v = w
      BY <1>1, <1>2, <1>6, <2>1, <2>3, <3>1 DEF ReqAt, AfterVendor, AfterWallet, LiveStatus
    <3>2. CASE v # w
      <4>1. req'[v] = req[v] /\ req[v].pc # "idle" /\ i \in Keys /\ ReqAt(v, i)
        BY <1>2, <1>3, <2>3, <3>2
      <4>2. CASE i = k
        <5>1. req[v].pc = "insert"
          BY <1>4, <1>6, <2>3, <4>1, <4>2 DEF ReqTypes
        <5> QED BY <2>3, <4>1, <5>1 DEF ReqAt, AfterVendor, AfterWallet
      <4>3. CASE i # k
        <5>1. ToGateway(i)' = ToGateway(i) /\ ToWallet(i)' = ToWallet(i)
          BY <1>2, <4>1, <4>3 DEF ToGateway, ToWallet
        <5> QED BY <1>2, <1>2a, <2>3, <4>1, <4>3, <5>1 DEF ReqAt
      <4> QED BY <4>2, <4>3
    <3> QED BY <3>1, <3>2
  <2>4. ASSUME NEW v \in Workers, req'[v].pc # "idle" PROVE ReqAt(v, req[v].key)'
    <3>1. PICK i : i = req[v].key
      OBVIOUS
    <3> QED BY <2>3, <2>4, <3>1
  <2> QED BY <2>2, <2>4 DEF MoneyInv, RowMoney, ReqMoney
<1> QED BY <1>2, <1>5, <1>6

LEMMA SubmitMoney ==
    ASSUME BaseInv, MoneyInv, NEW w \in Workers, NEW k \in Keys, Submit(w, k)
    PROVE  MoneyInv'
<1>1. /\ UNCHANGED <<intents, rows, vendor, credited, misfiled>>
      /\ \A v \in Workers \ {w} : req'[v] = req[v]
      /\ \/ req'[w].pc = "idle"
         \/ ResumeOf(req'[w], k, Landing(k))
         \/ FreshOf(req'[w], k, Landing(k))
  BY SubmitTypes
<1>2. RowTypes /\ DataTypes
  BY DEF BaseInv
<1>3. \A j \in Keys : ToGateway(j)' = ToGateway(j) /\ ToWallet(j)' = ToWallet(j)
  BY <1>1 DEF ToGateway, ToWallet
<1>4. RowMoney'
  BY <1>1, <1>3 DEF MoneyInv, RowMoney, RowOK
<1>5. ASSUME req'[w].pc # "idle" PROVE ReqAt(w, k)' /\ req'[w].key = k
  <2>1. CASE ResumeOf(req'[w], k, Landing(k))
    BY <1>1, <1>2, <2>1, ResumedAt DEF MoneyInv, ResumeOf
  <2>2. CASE FreshOf(req'[w], k, Landing(k))
    BY <2>2 DEF FreshOf, ReqAt, AfterVendor, AfterWallet
  <2> QED BY <1>1, <1>5, <2>1, <2>2
<1>6. ASSUME NEW v \in Workers, req'[v].pc # "idle" PROVE ReqAt(v, req[v].key)'
  <2>1. CASE v = w
    BY <1>5, <1>6, <2>1
  <2>2. CASE v # w
    <3>1. PICK j : j = req[v].key
      OBVIOUS
    <3>2. req'[v] = req[v] /\ j \in Keys /\ ReqAt(v, j)
      BY <1>1, <1>6, <2>2, <3>1 DEF MoneyInv, ReqMoney, BaseInv, ReqTypes
    <3>3. ReqAt(v, j)'
      BY <1>1, <1>3, <3>2 DEF ReqAt
    <3> QED BY <3>1, <3>2, <3>3
  <2> QED BY <2>1, <2>2
<1> QED BY <1>4, <1>6 DEF MoneyInv, ReqMoney

\* Requests past the wallet, and steps beside them.
LEMMA GotoQuiet ==
    ASSUME req \in [Workers -> ReqRec], NEW w \in Workers, NEW pc \in AfterWallet,
           req[w].pc \in AfterWallet, Goto(w, pc)
    PROVE  \A v \in Workers :
               \/ req'[v].pc = "idle"
               \/ /\ req'[v].key = req[v].key /\ req'[v].call = req[v].call /\ req[v].pc # "idle"
                  /\ \/ req'[v].pc = req[v].pc
                     \/ req[v].pc \in AfterWallet /\ req'[v].pc \in AfterWallet
<1>1. pc \in Pcs /\ req[w].pc # "idle"
  BY DEF AfterWallet, AfterVendor, Pcs
<1>2. req'[w].pc = pc /\ Kept(w) /\ \A v \in Workers \ {w} : req'[v] = req[v]
  BY <1>1, GotoFacts
<1> QED BY <1>1, <1>2 DEF Kept

LEMMA EndQuiet ==
    ASSUME req \in [Workers -> ReqRec], NEW w \in Workers, req' = [req EXCEPT ![w] = NoReq]
    PROVE  \A v \in Workers :
               \/ req'[v].pc = "idle"
               \/ /\ req'[v].key = req[v].key /\ req'[v].call = req[v].call /\ req[v].pc # "idle"
                  /\ \/ req'[v].pc = req[v].pc
                     \/ req[v].pc \in AfterWallet /\ req'[v].pc \in AfterWallet
BY EndFacts

LEMMA MarkQuiet ==
    ASSUME BaseInv, MoneyInv, NEW w \in Workers, MarkProcessed(w)
    PROVE  MoneyQuiet
<1>1. PICK k : k = req[w].key
  OBVIOUS
<1>2. /\ req[w].pc \in AfterWallet /\ "read" \in AfterWallet /\ Goto(w, "read")
      /\ UNCHANGED <<intents, vendor, credited, misfiled>> /\ req \in [Workers -> ReqRec]
  BY DEF MarkProcessed, AfterWallet, AfterVendor, BaseInv, ReqTypes
<1>3. /\ RowTame
      /\ \A j \in Keys : /\ rows'[j].ref = rows[j].ref
                         /\ \/ rows'[j].status = rows[j].status
                            \/ rows'[j].status = "processed" /\ j = k
  BY <1>1, MarkTame
<1>4. ReqAt(w, k) /\ req[w].pc # "insert"
  BY <1>1, <1>2, AtWork DEF MarkProcessed
<1>5. k \in misfiled \/ rows[k].status \in LiveStatus
  BY <1>4 DEF ReqAt
<1>6. \A j \in Keys : \/ j \in misfiled
                      \/ rows'[j].status \in LiveStatus <=> rows[j].status \in LiveStatus
  BY <1>3, <1>5 DEF LiveStatus
<1>7. \A v \in Workers :
          \/ req'[v].pc = "idle"
          \/ /\ req'[v].key = req[v].key /\ req'[v].call = req[v].call /\ req[v].pc # "idle"
             /\ \/ req'[v].pc = req[v].pc
                \/ req[v].pc \in AfterWallet /\ req'[v].pc \in AfterWallet
  BY <1>2, GotoQuiet
<1> QED BY <1>2, <1>3, <1>6, <1>7 DEF MoneyQuiet

LEMMA ReadQuiet ==
    ASSUME BaseInv, NEW w \in Workers, ReadLegs(w)
    PROVE  MoneyQuiet
<1>1. /\ UNCHANGED <<intents, rows, vendor, credited, misfiled>> /\ RowTame
      /\ req[w].pc = "read" /\ req'[w].pc = "post" /\ Kept(w)
      /\ \A v \in Workers \ {w} : req'[v] = req[v]
  BY ReadTame DEF ReadLegs
<1>2. "read" \in AfterWallet /\ "post" \in AfterWallet
  BY DEF AfterWallet, AfterVendor
<1> QED BY <1>1, <1>2 DEF MoneyQuiet, Kept

LEMMA GoQuiet ==
    ASSUME BaseInv, NEW w \in Workers, RowTame, UNCHANGED <<intents, rows, vendor, credited, misfiled>>,
           \/ req' = [req EXCEPT ![w] = NoReq]
           \/ req[w].pc \in AfterWallet /\ \E pc \in AfterWallet : Goto(w, pc)
    PROVE  MoneyQuiet
<1>1. req \in [Workers -> ReqRec]
  BY DEF BaseInv, ReqTypes
<1>2. \A v \in Workers :
          \/ req'[v].pc = "idle"
          \/ /\ req'[v].key = req[v].key /\ req'[v].call = req[v].call /\ req[v].pc # "idle"
             /\ \/ req'[v].pc = req[v].pc
                \/ req[v].pc \in AfterWallet /\ req'[v].pc \in AfterWallet
  BY <1>1, EndQuiet, GotoQuiet
<1> QED BY <1>2 DEF MoneyQuiet

LEMMA TailQuiet ==
    ASSUME BaseInv, NEW w \in Workers,
           PostLegs(w) \/ MoveBooking(w) \/ ReleaseCoupon(w) \/ applyRefund(w) \/ Die(w)
    PROVE  MoneyQuiet
<1>0. {"post", "move", "coupon", "apply"} \subseteq AfterWallet
  BY DEF AfterWallet, AfterVendor
<1>1. CASE PostLegs(w)
  <2>1. /\ req[w].pc = "post" /\ UNCHANGED <<intents, rows, vendor, credited, misfiled>>
        /\ \E pc \in {"move", "coupon", "apply"} : Goto(w, pc)
    BY <1>1 DEF PostLegs
  <2> QED BY <1>0, <1>1, <2>1, PostTame, GoQuiet
<1>2. CASE MoveBooking(w)
  <2>1. /\ req[w].pc = "move" /\ UNCHANGED <<intents, rows, vendor, credited, misfiled>>
        /\ (\E pc \in {"coupon", "apply"} : Goto(w, pc)) \/ req' = [req EXCEPT ![w] = NoReq]
    BY <1>2 DEF MoveBooking
  <2> QED BY <1>0, <1>2, <2>1, MoveTame, GoQuiet
<1>3. CASE ReleaseCoupon(w)
  <2>1. /\ req[w].pc = "coupon" /\ UNCHANGED <<intents, rows, vendor, credited, misfiled>>
        /\ \E pc \in {"move", "apply"} : Goto(w, pc)
    BY <1>3 DEF ReleaseCoupon
  <2> QED BY <1>0, <1>3, <2>1, CouponTame, GoQuiet
<1>4. CASE applyRefund(w)
  <2>1. UNCHANGED <<intents, rows, vendor, credited, misfiled>> /\ req' = [req EXCEPT ![w] = NoReq]
    BY <1>4 DEF applyRefund
  <2> QED BY <1>4, <2>1, ApplyTame, GoQuiet
<1>5. CASE Die(w)
  <2>1. UNCHANGED <<intents, rows, vendor, credited, misfiled>> /\ req' = [req EXCEPT ![w] = NoReq]
    BY <1>5 DEF Die
  <2> QED BY <1>5, <2>1, DieTame, GoQuiet
<1> QED BY <1>1, <1>2, <1>3, <1>4, <1>5

LEMMA WebhookQuiet ==
    ASSUME BaseInv, NEW k \in Keys, WebhookConfirms(k)
    PROVE  MoneyQuiet
<1>1. /\ RowTame /\ rows'[k].status = "processed" /\ rows'[k].ref = rows[k].ref
      /\ \A j \in Keys \ {k} : rows'[j] = rows[j]
      /\ rows[k].status = "pending" /\ UNCHANGED <<intents, vendor, credited, misfiled, req>>
  BY WebhookTame DEF WebhookConfirms
<1>2. \A j \in Keys : /\ rows'[j].ref = rows[j].ref
                      /\ rows'[j].status \in LiveStatus <=> rows[j].status \in LiveStatus
  BY <1>1 DEF LiveStatus
<1> QED BY <1>1, <1>2 DEF MoneyQuiet

LEMMA StillQuiet ==
    ASSUME BaseInv, UNCHANGED <<intents, rows, vendor, credited, misfiled, req>>
    PROVE  MoneyQuiet
<1>1. RowTame
  BY RowsSame DEF BaseInv
<1> QED BY <1>1 DEF MoneyQuiet

LEMMA MoneyInit == Init => MoneyInv
<1> SUFFICES ASSUME Init PROVE MoneyInv
  OBVIOUS
<1>1. /\ \A w \in Workers : req[w].pc = "idle"
      /\ \A k \in Keys : /\ vendor[k] = 0 /\ credited[k] = 0
                         /\ rows[k].status = "none" /\ rows[k].ref = FALSE
  BY DEF Init, NoReq, NoRow
<1> QED BY <1>1 DEF MoneyInv, RowMoney, ReqMoney, RowOK, LiveStatus

LEMMA MoneyStep ==
    BaseInv /\ MoneyInv /\ [Next]_vars => MoneyInv'
<1> SUFFICES ASSUME BaseInv, MoneyInv, [Next]_vars PROVE MoneyInv'
  OBVIOUS
<1>1. ASSUME NEW w \in Workers, NEW k \in Keys, Submit(w, k) PROVE MoneyInv'
  BY <1>1, SubmitMoney
<1>2. ASSUME NEW w \in Workers, Step(w) PROVE MoneyInv'
  <2>1. CASE InsertRow(w)
    BY <2>1, InsertMoney
  <2>2. CASE callGateway(w)
    BY <2>2, CallMoney
  <2>3. CASE RecordVendor(w)
    BY <2>3, RecordMoney
  <2>4. CASE RecordFailure(w)
    BY <2>4, FailMoney
  <2>5. CASE creditWallet(w)
    BY <2>5, CreditMoney
  <2>6. CASE MarkProcessed(w)
    BY <2>6, MarkQuiet, QuietMoney
  <2>7. CASE ReadLegs(w)
    BY <2>7, ReadQuiet, QuietMoney
  <2>8. CASE PostLegs(w) \/ MoveBooking(w) \/ ReleaseCoupon(w) \/ applyRefund(w)
    BY <2>8, TailQuiet, QuietMoney
  <2> QED BY <1>2, <2>1, <2>2, <2>3, <2>4, <2>5, <2>6, <2>7, <2>8 DEF Step
<1>3. ASSUME NEW w \in Workers, Die(w) PROVE MoneyInv'
  BY <1>3, TailQuiet, QuietMoney
<1>4. ASSUME NEW k \in Keys, WebhookConfirms(k) PROVE MoneyInv'
  BY <1>4, WebhookQuiet, QuietMoney
<1>5. CASE DisputeMoves
  BY <1>5, StillQuiet, QuietMoney DEF DisputeMoves
<1>6. CASE UNCHANGED vars
  BY <1>6, StillQuiet, QuietMoney DEF vars
<1> QED BY <1>1, <1>2, <1>3, <1>4, <1>5, <1>6 DEF Next

\* What was returned is at most what the live rows took, so at most the pools.
LEMMA ReturnedBound ==
    ASSUME BaseInv, MoneyInv, misfiled = {}
    PROVE  /\ SumOver(vendor) \in Nat /\ SumOver(credited) \in Nat
           /\ SumOver(vendor) <= SumOver(GatewayTaken)
           /\ SumOver(vendor) + SumOver(credited)
                  <= SumOver(GatewayTaken) + SumOver(WalletTaken)
           /\ SumOver(GatewayTaken) \in Nat /\ SumOver(WalletTaken) \in Nat
<1> DEFINE both == [k \in Keys |-> vendor[k] + credited[k]]
           taken == [k \in Keys |-> GatewayTaken[k] + WalletTaken[k]]
<1>0. RowTypes /\ DataTypes
  BY DEF BaseInv
<1>1. vendor \in [Keys -> Nat] /\ credited \in [Keys -> Nat] /\ IsFiniteSet(Keys)
  BY <1>0, Numbers DEF DataTypes
<1>2. /\ GatewayTaken \in [Keys -> Nat] /\ WalletTaken \in [Keys -> Nat]
      /\ SumOver(GatewayTaken) \in Nat /\ SumOver(WalletTaken) \in Nat
  BY <1>0, TakenTypes
<1>3. /\ both \in [Keys -> Int] /\ taken \in [Keys -> Int]
      /\ \A k \in Keys : both[k] = vendor[k] + credited[k]
      /\ \A k \in Keys : taken[k] = GatewayTaken[k] + WalletTaken[k]
      /\ vendor \in [Keys -> Int] /\ credited \in [Keys -> Int]
      /\ GatewayTaken \in [Keys -> Int] /\ WalletTaken \in [Keys -> Int]
  BY <1>1, <1>2
<1>4. ASSUME NEW k \in Keys
      PROVE  vendor[k] <= GatewayTaken[k] /\ vendor[k] + credited[k] <= GatewayTaken[k] + WalletTaken[k]
  <2>1. /\ ToGateway(k) \in Nat /\ ToWallet(k) \in Nat
        /\ ToGateway(k) + ToWallet(k) = rows[k].gateway + rows[k].wallet
        /\ ToGateway(k) <= rows[k].gateway /\ rows[k].gateway \in Nat /\ rows[k].wallet \in Nat
    BY <1>0, Delivered, Numbers DEF RowTypes, RowRec
  <2>2. /\ GatewayTaken[k] = IF Counts(k) THEN rows[k].gateway ELSE 0
        /\ WalletTaken[k] = IF Counts(k) THEN rows[k].wallet ELSE 0
    BY DEF GatewayTaken, WalletTaken
  <2>3. RowOK(k)
    BY DEF MoneyInv, RowMoney
  <2>4. CASE rows[k].status \in LiveStatus
    <3>1. Counts(k)
      BY <2>4 DEF Counts
    <3>2. vendor[k] \in {0, ToGateway(k)} /\ credited[k] \in {0, ToWallet(k)}
      BY <2>3 DEF RowOK
    <3> QED BY <2>1, <2>2, <3>1, <3>2
  <2>5. CASE rows[k].status \notin LiveStatus
    <3>1. vendor[k] = 0 /\ credited[k] = 0
      BY <2>3, <2>5 DEF RowOK
    <3>2. GatewayTaken[k] \in Nat /\ WalletTaken[k] \in Nat
      BY <1>2
    <3> QED BY <3>1, <3>2
  <2> QED BY <2>4, <2>5
<1> HIDE DEF both, taken
<1>5. SumOver(vendor) <= SumOver(GatewayTaken)
  BY <1>1, <1>3, <1>4, SumMono
<1>6. \A k \in Keys : both[k] <= taken[k]
  BY <1>3, <1>4
<1>7. SumOver(both) <= SumOver(taken)
  BY <1>1, <1>3, <1>6, SumMono
<1>8. SumOver(both) = SumOver(vendor) + SumOver(credited)
  BY <1>1, <1>3, SumPlus
<1>9. SumOver(taken) = SumOver(GatewayTaken) + SumOver(WalletTaken)
  BY <1>1, <1>3, SumPlus
<1>10. SumOver(vendor) \in Nat /\ SumOver(credited) \in Nat
  BY <1>1, SumNat
<1> QED BY <1>2, <1>5, <1>7, <1>8, <1>9, <1>10

\* Likewise for the rows that were not misfiled.
LEMMA ReturnedRest ==
    ASSUME BaseInv, MoneyInv, misfiled \subseteq Keys
    PROVE  /\ SumOver([k \in Keys \ misfiled |-> vendor[k] + credited[k]]) \in Int
           /\ SumOver([k \in Keys \ misfiled |-> vendor[k] + credited[k]])
                  <= SumOver(GatewayTaken) + SumOver(WalletTaken)
           /\ SumOver(GatewayTaken) \in Nat /\ SumOver(WalletTaken) \in Nat
<1> DEFINE rest == [k \in Keys \ misfiled |-> vendor[k] + credited[k]]
           both == [k \in Keys |-> IF k \in Keys \ misfiled THEN rest[k] ELSE 0]
           taken == [k \in Keys |-> GatewayTaken[k] + WalletTaken[k]]
<1>0. RowTypes /\ DataTypes
  BY DEF BaseInv
<1>1. vendor \in [Keys -> Nat] /\ credited \in [Keys -> Nat] /\ IsFiniteSet(Keys)
  BY <1>0, Numbers DEF DataTypes
<1>2. /\ GatewayTaken \in [Keys -> Nat] /\ WalletTaken \in [Keys -> Nat]
      /\ SumOver(GatewayTaken) \in Nat /\ SumOver(WalletTaken) \in Nat
  BY <1>0, TakenTypes
<1>3. /\ rest \in [Keys \ misfiled -> Nat] /\ taken \in [Keys -> Int]
      /\ \A k \in Keys : taken[k] = GatewayTaken[k] + WalletTaken[k]
      /\ \A k \in Keys \ misfiled : rest[k] = vendor[k] + credited[k]
      /\ GatewayTaken \in [Keys -> Int] /\ WalletTaken \in [Keys -> Int]
  BY <1>1, <1>2
<1>4. ASSUME NEW k \in Keys \ misfiled
      PROVE  vendor[k] + credited[k] <= GatewayTaken[k] + WalletTaken[k]
  <2>1. /\ ToGateway(k) \in Nat /\ ToWallet(k) \in Nat
        /\ ToGateway(k) + ToWallet(k) = rows[k].gateway + rows[k].wallet
        /\ rows[k].gateway \in Nat /\ rows[k].wallet \in Nat
    BY <1>0, Delivered, Numbers DEF RowTypes, RowRec
  <2>2. /\ GatewayTaken[k] = IF Counts(k) THEN rows[k].gateway ELSE 0
        /\ WalletTaken[k] = IF Counts(k) THEN rows[k].wallet ELSE 0
    BY DEF GatewayTaken, WalletTaken
  <2>3. RowOK(k)
    BY DEF MoneyInv, RowMoney
  <2>4. CASE rows[k].status \in LiveStatus
    <3>1. Counts(k)
      BY <2>4 DEF Counts
    <3>2. vendor[k] \in {0, ToGateway(k)} /\ credited[k] \in {0, ToWallet(k)}
      BY <2>3 DEF RowOK
    <3> QED BY <2>1, <2>2, <3>1, <3>2
  <2>5. CASE rows[k].status \notin LiveStatus
    <3>1. vendor[k] = 0 /\ credited[k] = 0
      BY <2>3, <2>5 DEF RowOK
    <3>2. GatewayTaken[k] \in Nat /\ WalletTaken[k] \in Nat
      BY <1>2
    <3> QED BY <3>1, <3>2
  <2> QED BY <2>4, <2>5
<1> HIDE DEF rest, taken
<1>5. both \in [Keys -> Nat] /\ \A k \in Keys : both[k] = IF k \in Keys \ misfiled THEN rest[k] ELSE 0
  BY <1>3
<1> HIDE DEF both
<1>6. ASSUME NEW k \in Keys PROVE both[k] <= taken[k]
  <2>1. CASE k \in misfiled
    BY <1>2, <1>3, <1>5, <2>1
  <2>2. CASE k \notin misfiled
    BY <1>3, <1>4, <1>5, <2>2
  <2> QED BY <2>1, <2>2
<1>7. both \in [Keys -> Int] /\ rest \in [Keys \ misfiled -> Int] /\ Keys \ misfiled \in SUBSET Keys
  BY <1>3, <1>5
<1>8. SumOver(rest) = SumOver(both)
  BY <1>1, <1>5, <1>7, SumPart
<1>9. SumOver(both) <= SumOver(taken)
  BY <1>1, <1>3, <1>6, <1>7, SumMono
<1>10. SumOver(taken) = SumOver(GatewayTaken) + SumOver(WalletTaken)
  BY <1>1, <1>3, SumPlus
<1>11. SumOver(both) \in Nat
  BY <1>1, <1>5, SumNat
<1> QED BY <1>2, <1>8, <1>9, <1>10, <1>11 DEF rest

\* While refunds do not overlap the customer gets back at most what was paid,
\* over all refunds, retries, resumes, deaths, refusals and lost answers of the
\* vendor together and for any number of them; only a row closed as failed
\* although its money moved is not counted.
THEOREM NeverReturnsMoreThanPaid == Spec => []ReturnedWithinPaid
<1>1. SoundInv /\ MoneyInv => ReturnedWithinPaid
  <2> SUFFICES ASSUME SoundInv, MoneyInv, "overlap" \notin slips
               PROVE  SumOver([k \in Keys \ misfiled |-> vendor[k] + credited[k]])
                          <= GatewayPool + WalletPool
    BY DEF ReturnedWithinPaid
  <2>1. SumOver(GatewayTaken) <= GatewayPool /\ SumOver(WalletTaken) <= WalletPool
    BY DEF SoundInv, OrderInv, Budget
  <2>2. BaseInv /\ misfiled \subseteq Keys
    BY DEF SoundInv, GhostTypes
  <2> DEFINE returned == SumOver([k \in Keys \ misfiled |-> vendor[k] + credited[k]])
  <2>3. /\ returned \in Int /\ returned <= SumOver(GatewayTaken) + SumOver(WalletTaken)
        /\ SumOver(GatewayTaken) \in Nat /\ SumOver(WalletTaken) \in Nat
    BY <2>2, ReturnedRest
  <2> HIDE DEF returned
  <2>4. returned <= GatewayPool + WalletPool
    BY <2>1, <2>3, Numbers
  <2> QED BY <2>4 DEF returned
<1>2. SoundInv /\ MoneyInv /\ [Next]_vars => MoneyInv'
  BY MoneyStep DEF SoundInv
<1> QED BY <1>1, <1>2, SoundInit, SoundStep, MoneyInit, PTL DEF Spec

-----------------------------------------------------------------------------
(* A full refund.                                                          *)

At(w, k) == req[w].pc # "idle" /\ req[w].key = k
NothingLeft == \A o \in Owners : Remaining(o) = 0

\* What the live rows and these amounts take is all there was.
Emptied(g, wl) ==
    SumOver(LiveGateway) + g = GatewayPool /\ SumOver(LiveWallet) + wl = WalletPool

\* A full refund empties both pools, and what the other live rows took of them
\* has been returned.
FullRows ==
    /\ \A k \in Keys : IsFull(k) /\ LiveRow(k) =>
           Emptied(0, 0) /\ \A j \in Keys \ {k} : LiveRow(j) => Returned(j)
    /\ \A w \in Workers, k \in Keys :
           At(w, k) /\ req[w].pc = "insert" /\ IsFull(k) /\ rows[k].status = "none" =>
               /\ Emptied(req[w].gateway, req[w].wallet)
               /\ \A j \in Keys : LiveRow(j) => Returned(j)

\* It takes back all that is left of every credit.
FullLegs ==
    /\ \A k \in Keys : IsFull(k) =>
           \A o \in Owners : debits[k][o] # 0 => Remaining(o) = 0
    /\ \A w \in Workers, k \in Keys : At(w, k) =>
           /\ req[w].to # "stay" => IsFull(k)
           /\ req[w].pc = "post" /\ IsFull(k) =>
                  \A o \in Owners : debits[k][o] = 0 => req[w].legs[o] >= Remaining(o)
           /\ req[w].pc \in {"move", "coupon", "apply"} /\ IsFull(k) => NothingLeft

BookingSays ==
    booking \in {"refunded", "cancelled"} =>
        NothingLeft /\ SumOver(vendor) + SumOver(credited) = Pool

\* The rows and the booking say so while nothing has disturbed them.
Undisturbed == "overlap" \notin slips /\ misfiled = {} /\ ~StrayRow
FullInv == FullRows /\ BookingSays
FullSound == Undisturbed => FullInv

\* Money moves for a row once, and in full.
Moved ==
    \A j \in Keys :
        /\ vendor'[j] = vendor[j] \/ (vendor[j] = 0 /\ vendor'[j] = ToGateway(j))
        /\ credited'[j] = credited[j] \/ (credited[j] = 0 /\ credited'[j] = ToWallet(j))

LEMMA CallMoves == ASSUME BaseInv, NEW w \in Workers, callGateway(w) PROVE Moved
<1>1. PICK k : k = req[w].key
  OBVIOUS
<1>2. k \in Keys
  BY <1>1, Working DEF callGateway
<1>3. vendor' = vendor \/ vendor' = VendorAccepts(k)
  BY <1>1 DEF callGateway
<1>4. /\ \A j \in Keys \ {k} : VendorAccepts(k)[j] = vendor[j]
      /\ VendorAccepts(k)[k] = vendor[k] \/ VendorAccepts(k)[k] = ToGateway(k)
      /\ vendor[k] # 0 => VendorAccepts(k)[k] = vendor[k]
  BY <1>2, VendorTyped
<1>5. credited' = credited
  BY DEF callGateway
<1> QED BY <1>3, <1>4, <1>5 DEF Moved

LEMMA CreditMoves == ASSUME BaseInv, NEW w \in Workers, creditWallet(w) PROVE Moved
<1>1. PICK k : k = req[w].key
  OBVIOUS
<1>2. k \in Keys /\ credited \in [Keys -> Amount]
  BY <1>1, Working DEF creditWallet, DataTypes
<1>3. /\ credited' = IF credited[k] # 0 THEN credited ELSE [credited EXCEPT ![k] = ToWallet(k)]
      /\ vendor' = vendor
  BY <1>1 DEF creditWallet
<1> QED BY <1>2, <1>3 DEF Moved

LEMMA StillMoves == ASSUME UNCHANGED <<vendor, credited>> PROVE Moved
BY DEF Moved

\* What has been returned stays so.
LEMMA StaysReturned ==
    ASSUME BaseInv, RowTame, UNCHANGED intents, Moved, NEW j \in Keys, Returned(j)
    PROVE  Returned(j)'
<1>1. ToGateway(j)' = ToGateway(j) /\ ToWallet(j)' = ToWallet(j)
  BY SameDelivery
<1> QED BY <1>1 DEF Moved, Returned

LEMMA SameLive ==
    ASSUME RowTame, \A j \in Keys : LiveRow(j)' <=> LiveRow(j)
    PROVE  LiveGateway' = LiveGateway /\ LiveWallet' = LiveWallet
<1>1. ASSUME NEW j \in Keys
      PROVE  /\ (IF LiveRow(j)' THEN rows'[j].gateway ELSE 0) = (IF LiveRow(j) THEN rows[j].gateway ELSE 0)
             /\ (IF LiveRow(j)' THEN rows'[j].wallet ELSE 0) = (IF LiveRow(j) THEN rows[j].wallet ELSE 0)
  BY DEF RowTame
<1> QED BY <1>1 DEF LiveGateway, LiveWallet

LEMMA KeptFullRows ==
    ASSUME BaseInv, FullRows, ReqTame, RowTame, UNCHANGED intents, Moved,
           \A j \in Keys : LiveRow(j)' <=> LiveRow(j)
    PROVE  FullRows'
<1>1. LiveGateway' = LiveGateway /\ LiveWallet' = LiveWallet
  BY SameLive
<1>2. \A j \in Keys : Returned(j) => Returned(j)'
  BY StaysReturned
<1>3. \A k \in Keys : IsFull(k)' <=> IsFull(k)
  BY DEF IsFull
<1>4. ASSUME NEW k \in Keys, IsFull(k)', LiveRow(k)'
      PROVE  Emptied(0, 0)' /\ \A j \in Keys \ {k} : LiveRow(j)' => Returned(j)'
  <2>1. Emptied(0, 0) /\ \A j \in Keys \ {k} : LiveRow(j) => Returned(j)
    BY <1>3, <1>4 DEF FullRows
  <2> QED BY <1>1, <1>2, <2>1 DEF Emptied
<1>5. ASSUME NEW w \in Workers, NEW k \in Keys, At(w, k)', req'[w].pc = "insert", IsFull(k)',
             rows'[k].status = "none"
      PROVE  /\ Emptied(req[w].gateway, req[w].wallet)'
             /\ \A j \in Keys : LiveRow(j)' => Returned(j)'
  <2>1. req[w].pc = "insert" /\ req[w].key = k /\ Kept(w) /\ rows[k].status = "none"
    BY <1>5 DEF At, ReqTame, Kept, RowTame
  <2>2. /\ Emptied(req[w].gateway, req[w].wallet)
        /\ \A j \in Keys : LiveRow(j) => Returned(j)
    BY <1>3, <1>5, <2>1 DEF FullRows, At
  <2>3. req'[w].gateway = req[w].gateway /\ req'[w].wallet = req[w].wallet
    BY <2>1 DEF Kept
  <2> QED BY <1>1, <1>2, <2>2, <2>3 DEF Emptied
<1> QED BY <1>4, <1>5 DEF FullRows

\* A refused row was not returned, so no full refund relies on it.
LEMMA FailFullRows ==
    ASSUME BaseInv, MoneyInv, FullRows, misfiled' = {}, NEW w \in Workers, RecordFailure(w)
    PROVE  FullRows'
<1>1. PICK k : k = req[w].key
  OBVIOUS
<1>2. req[w].pc = "fail" /\ req \in [Workers -> ReqRec] /\ UNCHANGED intents
  BY DEF RecordFailure, BaseInv, ReqTypes
<1>3. k \in Keys /\ ReqAt(w, k)
  BY <1>1, <1>2, AtWork
<1>4. ~Misfiles(w, k) /\ misfiled = {}
  BY <1>1 DEF RecordFailure
<1>5. LiveRow(k) /\ ~Returned(k)
  BY <1>2, <1>3, <1>4 DEF ReqAt, LiveRow, Returned, Misfiles
<1>6. rows'[k].status = "failed" /\ \A j \in Keys \ {k} : rows'[j] = rows[j]
  BY <1>1, FailTame
<1>7. req'[w].pc = "idle" /\ \A v \in Workers \ {w} : req'[v] = req[v]
  BY <1>2, EndFacts DEF RecordFailure
<1>8. ASSUME NEW j \in Keys, IsFull(j)', LiveRow(j)' PROVE FALSE
  <2>1. j # k /\ LiveRow(j) /\ IsFull(j)
    BY <1>2, <1>6, <1>8 DEF LiveRow, LiveStatus, IsFull
  <2> QED BY <1>3, <1>5, <2>1 DEF FullRows
<1>9. ASSUME NEW v \in Workers, NEW i \in Keys, At(v, i)', req'[v].pc = "insert", IsFull(i)',
             rows'[i].status = "none"
      PROVE  FALSE
  <2>1. At(v, i) /\ req[v].pc = "insert" /\ IsFull(i) /\ rows[i].status = "none"
    BY <1>2, <1>6, <1>7, <1>9 DEF At, IsFull
  <2> QED BY <1>3, <1>5, <2>1 DEF FullRows
<1> QED BY <1>8, <1>9 DEF FullRows

LEMMA SubmitFullRows ==
    ASSUME NoOverlap, BaseInv, OrderInv, FullRows, NEW w \in Workers, NEW k \in Keys, Submit(w, k)
    PROVE  FullRows'
<1>1. /\ \A j \in Keys \ {k} : Settled(j)
      /\ UNCHANGED <<intents, rows, vendor, credited>>
      /\ \A v \in Workers \ {w} : req'[v] = req[v]
      /\ \/ req'[w].pc = "idle"
         \/ ResumeOf(req'[w], k, Landing(k))
         \/ FreshOf(req'[w], k, Landing(k)) /\ rows[k].status = "none"
  BY SubmitFacts
<1>2. LiveGateway' = LiveGateway /\ LiveWallet' = LiveWallet
  BY <1>1 DEF LiveGateway, LiveWallet, LiveRow
<1>3. \A j \in Keys : /\ LiveRow(j)' <=> LiveRow(j)
                      /\ Returned(j)' <=> Returned(j)
                      /\ IsFull(j)' <=> IsFull(j)
  BY <1>1 DEF LiveRow, Returned, IsFull, ToGateway, ToWallet
<1>4. ASSUME NEW j \in Keys, IsFull(j)', LiveRow(j)'
      PROVE  Emptied(0, 0)' /\ \A i \in Keys \ {j} : LiveRow(i)' => Returned(i)'
  <2>1. Emptied(0, 0) /\ \A i \in Keys \ {j} : LiveRow(i) => Returned(i)
    BY <1>3, <1>4 DEF FullRows
  <2> QED BY <1>2, <1>3, <2>1 DEF Emptied
<1>5. ASSUME NEW v \in Workers, NEW i \in Keys, At(v, i)', req'[v].pc = "insert", IsFull(i)',
             rows'[i].status = "none"
      PROVE  /\ Emptied(req[v].gateway, req[v].wallet)'
             /\ \A j \in Keys : LiveRow(j)' => Returned(j)'
  <2>1. CASE v = w
    <3>1. FreshOf(req'[w], k, Landing(k)) /\ rows[k].status = "none" /\ i = k
      BY <1>1, <1>5, <2>1 DEF ResumeOf, FreshOf, At
    <3>2. Emptied(req[w].gateway, req[w].wallet)'
      <4>1. RefundedGateway = SumOver(LiveGateway) /\ RefundedWallet = SumOver(LiveWallet)
        BY RefundedIs DEF BaseInv
      <4> QED BY <1>2, <1>3, <1>5, <3>1, <4>1 DEF FreshOf, Emptied
    <3>3. ASSUME NEW j \in Keys, LiveRow(j) PROVE Returned(j)
      <4>1. j # k
        BY <3>1, <3>3 DEF LiveRow, LiveStatus
      <4>2. Settled(j)
        BY <1>1, <4>1
      <4> QED BY <3>3, <4>2 DEF Settled, Converged, Returned, LiveRow, LiveStatus
    <3> QED BY <1>3, <2>1, <3>2, <3>3
  <2>2. CASE v # w
    <3>1. req'[v] = req[v]
      BY <1>1, <2>2
    <3>2. At(v, i) /\ req[v].pc = "insert" /\ IsFull(i) /\ rows[i].status = "none"
      BY <1>1, <1>3, <1>5, <3>1 DEF At
    <3>3. Emptied(req[v].gateway, req[v].wallet) /\ \A j \in Keys : LiveRow(j) => Returned(j)
      BY <3>2 DEF FullRows
    <3> QED BY <1>2, <1>3, <3>1, <3>3 DEF Emptied
  <2> QED BY <2>1, <2>2
<1> QED BY <1>4, <1>5 DEF FullRows

\* The live rows take no more than the rows that count.
LEMMA LiveTaken ==
    ASSUME RowTypes
    PROVE  /\ SumOver(LiveGateway) <= SumOver(GatewayTaken)
           /\ SumOver(LiveWallet) <= SumOver(WalletTaken)
           /\ SumOver(LiveGateway) \in Nat /\ SumOver(LiveWallet) \in Nat
<1>1. LiveGateway \in [Keys -> Nat] /\ LiveWallet \in [Keys -> Nat]
  BY RefundedIs
<1>2. GatewayTaken \in [Keys -> Nat] /\ WalletTaken \in [Keys -> Nat]
  BY TakenTypes
<1>3. ASSUME NEW j \in Keys PROVE LiveGateway[j] <= GatewayTaken[j] /\ LiveWallet[j] <= WalletTaken[j]
  <2>1. rows[j].gateway \in Nat /\ rows[j].wallet \in Nat
    BY Numbers DEF RowTypes, RowRec
  <2>2. LiveRow(j) => Counts(j)
    BY DEF LiveRow, Counts
  <2> QED BY <2>1, <2>2 DEF LiveGateway, LiveWallet, GatewayTaken, WalletTaken
<1>4. /\ LiveGateway \in [Keys -> Int] /\ LiveWallet \in [Keys -> Int]
      /\ GatewayTaken \in [Keys -> Int] /\ WalletTaken \in [Keys -> Int] /\ IsFiniteSet(Keys)
  BY <1>1, <1>2, Numbers
<1>5. SumOver(LiveGateway) <= SumOver(GatewayTaken)
  BY <1>3, <1>4, SumMono
<1>6. SumOver(LiveWallet) <= SumOver(WalletTaken)
  BY <1>3, <1>4, SumMono
<1>7. SumOver(LiveGateway) \in Nat /\ SumOver(LiveWallet) \in Nat
  BY <1>1, <1>4, SumNat
<1> QED BY <1>5, <1>6, <1>7

\* A row is inserted where something is left: not beside a full refund.
LEMMA InsertFullRows ==
    ASSUME BaseInv, OrderInv, FullRows, NEW w \in Workers, InsertRow(w)
    PROVE  FullRows'
<1>1. PICK k : k = req[w].key
  OBVIOUS
<1>2. /\ k \in Keys /\ req[w].pc = "insert"
      /\ UNCHANGED <<intents, vendor, credited>>
      /\ \A v \in Workers \ {w} : req'[v] = req[v]
      /\ rows' \in [Keys -> RowRec] /\ \A j \in Keys \ {k} : rows'[j] = rows[j]
      /\ \/ /\ rows[k].status # "none" /\ rows' = rows
            /\ req'[w].pc = "idle" \/ ResumeOf(req'[w], k, req[w].to)
         \/ /\ rows[k].status = "none" /\ rows'[k].status = "pending"
            /\ rows'[k].gateway = req[w].gateway /\ rows'[k].wallet = req[w].wallet
            /\ req'[w].pc = "gateway"
  BY <1>1, InsertFacts
<1>3. req'[w].pc # "insert" /\ rows'[k].status # "none"
  BY <1>2 DEF ResumeOf
<1>4. \A j \in Keys : IsFull(j)' <=> IsFull(j)
  BY <1>2 DEF IsFull
<1>5. \A j \in Keys \ {k} : /\ LiveRow(j)' <=> LiveRow(j)
                            /\ Returned(j)' <=> Returned(j)
  BY <1>2 DEF LiveRow, Returned, ToGateway, ToWallet
<1>6. ASSUME NEW v \in Workers, NEW i \in Keys, At(v, i)', req'[v].pc = "insert",
             rows'[i].status = "none"
      PROVE  rows' = rows /\ v # w /\ At(v, i) /\ req[v].pc = "insert"
  <2>1. v # w
    BY <1>3, <1>6
  <2>2. At(v, i) /\ req[v].pc = "insert"
    BY <1>2, <1>6, <2>1 DEF At
  <2>3. i = k
    BY <1>1, <1>2, <2>2 DEF At, OrderInv, OneKey
  <2> QED BY <1>3, <1>6, <2>3
<1>7. CASE rows[k].status # "none" /\ rows' = rows
  <2>1. /\ LiveGateway' = LiveGateway /\ LiveWallet' = LiveWallet
        /\ \A j \in Keys : /\ LiveRow(j)' <=> LiveRow(j)
                           /\ Returned(j)' <=> Returned(j)
    BY <1>2, <1>7 DEF LiveGateway, LiveWallet, LiveRow, Returned, ToGateway, ToWallet
  <2>2. ASSUME NEW j \in Keys, IsFull(j)', LiveRow(j)'
        PROVE  Emptied(0, 0)' /\ \A i \in Keys \ {j} : LiveRow(i)' => Returned(i)'
    <3>1. Emptied(0, 0) /\ \A i \in Keys \ {j} : LiveRow(i) => Returned(i)
      BY <1>4, <2>1, <2>2 DEF FullRows
    <3> QED BY <2>1, <3>1 DEF Emptied
  <2>3. ASSUME NEW v \in Workers, NEW i \in Keys, At(v, i)', req'[v].pc = "insert", IsFull(i)',
               rows'[i].status = "none"
        PROVE  FALSE
    <3>1. At(v, i) /\ req[v].pc = "insert" /\ i # k
      BY <1>3, <1>6, <2>3
    <3> QED BY <1>1, <1>2, <3>1 DEF At, OrderInv, OneKey
  <2> QED BY <2>2, <2>3 DEF FullRows
<1>8. CASE /\ rows[k].status = "none" /\ rows'[k].status = "pending"
           /\ rows'[k].gateway = req[w].gateway /\ rows'[k].wallet = req[w].wallet
  <2>1. /\ SumOver(LiveGateway') = SumOver(LiveGateway) + req[w].gateway
        /\ SumOver(LiveWallet') = SumOver(LiveWallet) + req[w].wallet
    <3>1. LiveGateway \in [Keys -> Int] /\ LiveWallet \in [Keys -> Int] /\ IsFiniteSet(Keys)
      BY RefundedIs, Numbers DEF BaseInv
    <3>2. \A j \in Keys : rows'[j].gateway \in Int /\ rows'[j].wallet \in Int
      BY <1>2, Numbers DEF RowRec
    <3>3. /\ LiveGateway' = [j \in Keys |-> IF LiveRow(j)' THEN rows'[j].gateway ELSE 0]
          /\ LiveWallet' = [j \in Keys |-> IF LiveRow(j)' THEN rows'[j].wallet ELSE 0]
          /\ LiveGateway = [j \in Keys |-> IF LiveRow(j) THEN rows[j].gateway ELSE 0]
          /\ LiveWallet = [j \in Keys |-> IF LiveRow(j) THEN rows[j].wallet ELSE 0]
      BY DEF LiveGateway, LiveWallet
    <3>4. LiveGateway' \in [Keys -> Int] /\ LiveWallet' \in [Keys -> Int]
      BY <3>2, <3>3
    <3>5. \A j \in Keys \ {k} : LiveGateway'[j] = LiveGateway[j] /\ LiveWallet'[j] = LiveWallet[j]
      BY <1>2, <1>5, <3>3
    <3>6. /\ LiveGateway[k] = 0 /\ LiveGateway'[k] = req[w].gateway
          /\ LiveWallet[k] = 0 /\ LiveWallet'[k] = req[w].wallet
      BY <1>2, <1>8, <3>3 DEF LiveRow, LiveStatus
    <3>7. /\ SumOver(LiveGateway) \in Int
          /\ SumOver(LiveGateway') = SumOver(LiveGateway) - LiveGateway[k] + LiveGateway'[k]
      BY <1>2, <3>1, <3>4, <3>5, SumChange
    <3>8. /\ SumOver(LiveWallet) \in Int
          /\ SumOver(LiveWallet') = SumOver(LiveWallet) - LiveWallet[k] + LiveWallet'[k]
      BY <1>2, <3>1, <3>4, <3>5, SumChange
    <3> QED BY <3>6, <3>7, <3>8
  <2>2. req[w].gateway \in Nat /\ req[w].wallet \in Nat
    BY <1>2, Numbers DEF BaseInv, ReqTypes, ReqRec
  <2>3. ~Emptied(0, 0)
    <3>1. /\ req[w].gateway + req[w].wallet > 0
          /\ SumOver(GatewayTaken) + req[w].gateway <= GatewayPool
          /\ SumOver(WalletTaken) + req[w].wallet <= WalletPool
      BY <1>1, <1>2, <1>8 DEF OrderInv, Budget
    <3>2. SumOver(GatewayTaken) \in Nat /\ SumOver(WalletTaken) \in Nat
      BY TakenTypes DEF BaseInv
    <3>3. /\ SumOver(LiveGateway) <= SumOver(GatewayTaken)
          /\ SumOver(LiveWallet) <= SumOver(WalletTaken)
          /\ SumOver(LiveGateway) \in Nat /\ SumOver(LiveWallet) \in Nat
      BY LiveTaken DEF BaseInv
    <3> QED BY <2>2, <3>1, <3>2, <3>3, Numbers DEF Emptied
  <2>4. ASSUME NEW j \in Keys, IsFull(j)', LiveRow(j)'
        PROVE  Emptied(0, 0)' /\ \A i \in Keys \ {j} : LiveRow(i)' => Returned(i)'
    <3>1. j = k
      BY <1>4, <1>5, <2>3, <2>4 DEF FullRows
    <3>2. Emptied(req[w].gateway, req[w].wallet) /\ \A i \in Keys : LiveRow(i) => Returned(i)
      BY <1>1, <1>2, <1>4, <1>8, <2>4, <3>1 DEF FullRows, At
    <3>3. SumOver(LiveGateway') = GatewayPool /\ SumOver(LiveWallet') = WalletPool
      BY <2>1, <3>2 DEF Emptied
    <3>4. Emptied(0, 0)'
      BY <3>3, Numbers DEF Emptied
    <3> QED BY <1>5, <3>1, <3>2, <3>4
  <2>5. ASSUME NEW v \in Workers, NEW i \in Keys, At(v, i)', req'[v].pc = "insert",
               rows'[i].status = "none"
        PROVE  FALSE
    BY <1>2, <1>3, <1>6, <1>8, <2>5
  <2> QED BY <2>4, <2>5 DEF FullRows
<1> QED BY <1>2, <1>7, <1>8

-----------------------------------------------------------------------------
(* The legs of a full refund.                                              *)

\* Steps that post nothing and bring no request to a later part of the chain.
LegsQuiet ==
    /\ UNCHANGED <<intents, debits>>
    /\ \A v \in Workers :
           \/ req'[v].pc = "idle"
           \/ /\ req[v].pc # "idle" /\ req'[v].key = req[v].key /\ req'[v].to = req[v].to
              /\ \/ req'[v].pc \notin {"post", "move", "coupon", "apply"}
                 \/ req'[v].pc = "post" /\ req[v].pc = "post" /\ req'[v].legs = req[v].legs
                 \/ /\ req'[v].pc \in {"move", "coupon", "apply"}
                    /\ req[v].pc \in {"move", "coupon", "apply"}

LEMMA SameRemaining ==
    ASSUME UNCHANGED debits
    PROVE  \A o \in Owners : Reversed(o)' = Reversed(o) /\ Remaining(o)' = Remaining(o)
BY DEF Reversed, Remaining

LEMMA KeptFullLegs ==
    ASSUME FullLegs, LegsQuiet
    PROVE  FullLegs'
<1>1. /\ \A o \in Owners : Remaining(o)' = Remaining(o)
      /\ \A k \in Keys : (IsFull(k)' <=> IsFull(k)) /\ debits'[k] = debits[k]
  BY SameRemaining DEF LegsQuiet, IsFull
<1>2. ASSUME NEW k \in Keys, IsFull(k)', NEW o \in Owners, debits'[k][o] # 0
      PROVE  Remaining(o)' = 0
  BY <1>1, <1>2 DEF FullLegs
<1>3. ASSUME NEW v \in Workers, NEW k \in Keys, At(v, k)'
      PROVE  /\ req'[v].to # "stay" => IsFull(k)'
             /\ req'[v].pc = "post" /\ IsFull(k)' =>
                    \A o \in Owners : debits'[k][o] = 0 => req'[v].legs[o] >= Remaining(o)'
             /\ req'[v].pc \in {"move", "coupon", "apply"} /\ IsFull(k)' => NothingLeft'
  <2>1. /\ req[v].pc # "idle" /\ req'[v].key = req[v].key /\ req'[v].to = req[v].to
        /\ \/ req'[v].pc \notin {"post", "move", "coupon", "apply"}
           \/ req'[v].pc = "post" /\ req[v].pc = "post" /\ req'[v].legs = req[v].legs
           \/ /\ req'[v].pc \in {"move", "coupon", "apply"}
              /\ req[v].pc \in {"move", "coupon", "apply"}
    BY <1>3 DEF LegsQuiet, At
  <2>2. At(v, k)
    BY <1>3, <2>1 DEF At
  <2>3. /\ req[v].to # "stay" => IsFull(k)
        /\ req[v].pc = "post" /\ IsFull(k) =>
               \A o \in Owners : debits[k][o] = 0 => req[v].legs[o] >= Remaining(o)
        /\ req[v].pc \in {"move", "coupon", "apply"} /\ IsFull(k) => NothingLeft
    BY <2>2 DEF FullLegs
  <2>4. NothingLeft => NothingLeft'
    BY <1>1 DEF NothingLeft
  <2> QED BY <1>1, <2>1, <2>3, <2>4
<1> QED BY <1>2, <1>3 DEF FullLegs

LEMMA GotoLegs ==
    ASSUME req \in [Workers -> ReqRec], NEW w \in Workers, NEW pc \in Pcs \ {"idle"}, Goto(w, pc),
           UNCHANGED <<intents, debits>>, req[w].pc # "idle",
           \/ pc \notin {"post", "move", "coupon", "apply"}
           \/ /\ pc \in {"move", "coupon", "apply"}
              /\ req[w].pc \in {"move", "coupon", "apply"}
    PROVE  LegsQuiet
<1>1. /\ req'[w].pc = pc /\ Kept(w) /\ req'[w].legs = req[w].legs
      /\ \A v \in Workers \ {w} : req'[v] = req[v]
  BY GotoFacts
<1>2. ASSUME NEW v \in Workers \ {w}
      PROVE  \/ req'[v].pc = "idle"
             \/ /\ req[v].pc # "idle" /\ req'[v].key = req[v].key /\ req'[v].to = req[v].to
                /\ \/ req'[v].pc \notin {"post", "move", "coupon", "apply"}
                   \/ req'[v].pc = "post" /\ req[v].pc = "post" /\ req'[v].legs = req[v].legs
                   \/ /\ req'[v].pc \in {"move", "coupon", "apply"}
                      /\ req[v].pc \in {"move", "coupon", "apply"}
  BY <1>1
<1> QED BY <1>1, <1>2 DEF LegsQuiet, Kept

LEMMA EndLegs ==
    ASSUME req \in [Workers -> ReqRec], NEW w \in Workers, req' = [req EXCEPT ![w] = NoReq],
           UNCHANGED <<intents, debits>>
    PROVE  LegsQuiet
<1>1. req'[w].pc = "idle" /\ \A v \in Workers \ {w} : req'[v] = req[v]
  BY EndFacts
<1> QED BY <1>1 DEF LegsQuiet

LEMMA InsertLegs == ASSUME BaseInv, NEW w \in Workers, InsertRow(w) PROVE LegsQuiet
<1>1. PICK k : k = req[w].key
  OBVIOUS
<1>2. /\ req[w].pc = "insert" /\ UNCHANGED <<intents, debits>>
      /\ \A v \in Workers \ {w} : req'[v] = req[v]
      /\ \/ req'[w].pc = "idle"
         \/ ResumeOf(req'[w], k, req[w].to)
         \/ req'[w].pc = "gateway" /\ req'[w].key = k /\ req'[w].to = req[w].to
  BY <1>1, InsertFacts
<1>3. \/ req'[w].pc = "idle"
      \/ req'[w].pc = "gateway" /\ req'[w].key = req[w].key /\ req'[w].to = req[w].to
  BY <1>1, <1>2 DEF ResumeOf
<1> QED BY <1>2, <1>3 DEF LegsQuiet

LEMMA StepLegs ==
    ASSUME BaseInv, NEW w \in Workers,
           \/ callGateway(w) \/ RecordVendor(w) \/ RecordFailure(w) \/ creditWallet(w)
           \/ MarkProcessed(w) \/ MoveBooking(w) \/ ReleaseCoupon(w) \/ applyRefund(w) \/ Die(w)
    PROVE  LegsQuiet
<1>0. req \in [Workers -> ReqRec] /\ UNCHANGED <<intents, debits>> /\ req[w].pc # "idle"
  BY DEF BaseInv, ReqTypes, callGateway, RecordVendor, RecordFailure, creditWallet,
         MarkProcessed, MoveBooking, ReleaseCoupon, applyRefund, Die
<1>1. \/ req' = [req EXCEPT ![w] = NoReq]
      \/ \E pc \in {"wallet", "fail", "record", "processed", "read"} : Goto(w, pc)
      \/ /\ req[w].pc \in {"move", "coupon"}
         /\ \E pc \in {"move", "coupon", "apply"} : Goto(w, pc)
  BY DEF callGateway, RecordVendor, RecordFailure, creditWallet,
         MarkProcessed, MoveBooking, ReleaseCoupon, applyRefund, Die
<1>2. {"wallet", "fail", "record", "processed", "read", "move", "coupon", "apply"} \subseteq Pcs \ {"idle"}
  BY DEF Pcs
<1>3. CASE req' = [req EXCEPT ![w] = NoReq]
  BY <1>0, <1>3, EndLegs
<1>4. CASE \E pc \in {"wallet", "fail", "record", "processed", "read"} : Goto(w, pc)
  BY <1>0, <1>2, <1>4, GotoLegs
<1>5. CASE /\ req[w].pc \in {"move", "coupon"}
           /\ \E pc \in {"move", "coupon", "apply"} : Goto(w, pc)
  BY <1>0, <1>2, <1>5, GotoLegs
<1> QED BY <1>1, <1>3, <1>4, <1>5

LEMMA SubmitLegs ==
    ASSUME BaseInv, FullLegs, NEW w \in Workers, NEW k \in Keys, Submit(w, k)
    PROVE  FullLegs'
<1>1. /\ UNCHANGED <<intents, debits>>
      /\ \A v \in Workers \ {w} : req'[v] = req[v]
      /\ \/ req'[w].pc = "idle"
         \/ ResumeOf(req'[w], k, Landing(k))
         \/ FreshOf(req'[w], k, Landing(k))
  BY SubmitTypes
<1>2. /\ \A o \in Owners : Remaining(o)' = Remaining(o)
      /\ \A j \in Keys : (IsFull(j)' <=> IsFull(j)) /\ debits'[j] = debits[j]
  BY <1>1, SameRemaining DEF IsFull
<1>3. NothingLeft => NothingLeft'
  BY <1>2 DEF NothingLeft
<1>4. ASSUME NEW v \in Workers, NEW j \in Keys, At(v, j)'
      PROVE  /\ req'[v].to # "stay" => IsFull(j)'
             /\ req'[v].pc = "post" /\ IsFull(j)' =>
                    \A o \in Owners : debits'[j][o] = 0 => req'[v].legs[o] >= Remaining(o)'
             /\ req'[v].pc \in {"move", "coupon", "apply"} /\ IsFull(j)' => NothingLeft'
  <2>1. CASE v = w
    <3>1. req'[w].pc \in {"gateway", "insert"} /\ req'[w].to = Landing(k) /\ j = k
      BY <1>1, <1>4, <2>1 DEF At, ResumeOf, FreshOf
    <3>2. Landing(k) # "stay" => IsFull(k)
      BY LandingType DEF BaseInv
    <3> QED BY <1>2, <2>1, <3>1, <3>2
  <2>2. CASE v # w
    <3>1. req'[v] = req[v] /\ At(v, j)
      BY <1>1, <1>4, <2>2 DEF At
    <3>2. /\ req[v].to # "stay" => IsFull(j)
          /\ req[v].pc = "post" /\ IsFull(j) =>
                 \A o \in Owners : debits[j][o] = 0 => req[v].legs[o] >= Remaining(o)
          /\ req[v].pc \in {"move", "coupon", "apply"} /\ IsFull(j) => NothingLeft
      BY <3>1 DEF FullLegs
    <3> QED BY <1>2, <1>3, <3>1, <3>2
  <2> QED BY <2>1, <2>2
<1>5. ASSUME NEW j \in Keys, IsFull(j)', NEW o \in Owners, debits'[j][o] # 0
      PROVE  Remaining(o)' = 0
  BY <1>2, <1>5 DEF FullLegs
<1> QED BY <1>4, <1>5 DEF FullLegs

LEMMA ReadFullLegs ==
    ASSUME BaseInv, FullLegs, NEW w \in Workers, ReadLegs(w)
    PROVE  FullLegs'
<1>1. /\ req[w].pc = "read" /\ req'[w].pc = "post" /\ req'[w].legs = LegsOf(req[w].key)
      /\ Kept(w) /\ UNCHANGED <<intents, debits>>
      /\ \A v \in Workers \ {w} : req'[v] = req[v]
  BY ReadTame DEF ReadLegs
<1>2. /\ \A o \in Owners : Remaining(o)' = Remaining(o)
      /\ \A j \in Keys : (IsFull(j)' <=> IsFull(j)) /\ debits'[j] = debits[j]
  BY <1>1, SameRemaining DEF IsFull
<1>3. NothingLeft => NothingLeft'
  BY <1>2 DEF NothingLeft
<1>4. ASSUME NEW v \in Workers, NEW j \in Keys, At(v, j)'
      PROVE  /\ req'[v].to # "stay" => IsFull(j)'
             /\ req'[v].pc = "post" /\ IsFull(j)' =>
                    \A o \in Owners : debits'[j][o] = 0 => req'[v].legs[o] >= Remaining(o)'
             /\ req'[v].pc \in {"move", "coupon", "apply"} /\ IsFull(j)' => NothingLeft'
  <2>0. At(v, j)
    BY <1>1, <1>4 DEF At, Kept
  <2>1. /\ req[v].to # "stay" => IsFull(j)
        /\ req[v].pc = "post" /\ IsFull(j) =>
               \A o \in Owners : debits[j][o] = 0 => req[v].legs[o] >= Remaining(o)
        /\ req[v].pc \in {"move", "coupon", "apply"} /\ IsFull(j) => NothingLeft
    BY <2>0 DEF FullLegs
  <2>2. CASE v = w
    <3>1. IsFull(j) => \A o \in Owners : req'[v].legs[o] = Remaining(o)
      BY <1>1, <2>0, <2>2 DEF LegsOf, At
    <3>2. req'[v].to = req[v].to
      BY <1>1, <2>2 DEF Kept
    <3>3. \A o \in Owners : Remaining(o) \in Nat
      BY RemainingFacts, DebitsTyped DEF BaseInv
    <3> QED BY <1>1, <1>2, <2>1, <2>2, <3>1, <3>2, <3>3
  <2>3. CASE v # w
    <3>1. req'[v] = req[v]
      BY <1>1, <2>3
    <3> QED BY <1>2, <1>3, <2>1, <3>1
  <2> QED BY <2>2, <2>3
<1>5. ASSUME NEW j \in Keys, IsFull(j)', NEW o \in Owners, debits'[j][o] # 0
      PROVE  Remaining(o)' = 0
  BY <1>2, <1>5 DEF FullLegs
<1> QED BY <1>4, <1>5 DEF FullLegs

\* What a post does to an owner: a leg of the refund that was not posted yet
\* is added to what the owner gave back.
LEMMA PostFacts ==
    ASSUME BaseInv, NEW w \in Workers, PostLegs(w), NEW k, k = req[w].key, NEW o \in Owners
    PROVE  /\ k \in Keys /\ debits[k][o] \in Nat /\ req[w].legs[o] \in Nat
           /\ \A j \in Keys \ {k} : debits'[j] = debits[j]
           /\ debits'[k][o] = IF debits[k][o] # 0 THEN debits[k][o] ELSE req[w].legs[o]
           /\ Reversed(o) \in Nat /\ Reversed(o)' \in Nat
           /\ Reversed(o)' = IF debits[k][o] # 0 THEN Reversed(o) ELSE Reversed(o) + req[w].legs[o]
           /\ Remaining(o)' = IF Credits[o] > Reversed(o)' THEN Credits[o] - Reversed(o)' ELSE 0
<1>1. /\ k \in Keys /\ req[w] \in ReqRec /\ DataTypes
  BY Working DEF PostLegs
<1>2. debits \in [Keys -> [Owners -> Amount]] /\ req[w].legs \in [Owners -> Amount]
  BY <1>1 DEF DataTypes, ReqRec
<1>3. debits' = [debits EXCEPT ![k] =
          [p \in Owners |-> IF debits[k][p] # 0 THEN debits[k][p] ELSE req[w].legs[p]]]
  BY DEF PostLegs
<1>4. /\ debits'[k][o] = IF debits[k][o] # 0 THEN debits[k][o] ELSE req[w].legs[o]
      /\ \A j \in Keys \ {k} : debits'[j] = debits[j]
      /\ debits' \in [Keys -> [Owners -> Amount]]
  BY <1>1, <1>2, <1>3
<1>5. Amount \subseteq Nat /\ IsFiniteSet(Keys)
  BY Numbers
<1> DEFINE f == [j \in Keys |-> debits[j][o]]
           h == [j \in Keys |-> debits'[j][o]]
<1>6. /\ f \in [Keys -> Nat] /\ h \in [Keys -> Nat] /\ \A j \in Keys \ {k} : h[j] = f[j]
      /\ f[k] = debits[k][o] /\ h[k] = debits'[k][o]
  BY <1>1, <1>2, <1>4, <1>5
<1>7. Reversed(o) = SumOver(f) /\ Reversed(o)' = SumOver(h)
  BY DEF Reversed
<1> HIDE DEF f, h
<1>8. SumOver(f) \in Nat /\ SumOver(h) \in Nat
  BY <1>5, <1>6, SumNat
<1>9. SumOver(h) = SumOver(f) - f[k] + h[k]
  <2>1. f \in [Keys -> Int] /\ h \in [Keys -> Int]
    BY <1>6
  <2> QED BY <1>1, <1>5, <1>6, <2>1, SumChange
<1>10. debits[k][o] \in Nat /\ req[w].legs[o] \in Nat
  BY <1>1, <1>2, <1>5
<1>11. Reversed(o)' = IF debits[k][o] # 0 THEN Reversed(o) ELSE Reversed(o) + req[w].legs[o]
  BY <1>4, <1>6, <1>7, <1>8, <1>9, <1>10
<1>12. Remaining(o)' = IF Credits[o] > Reversed(o)' THEN Credits[o] - Reversed(o)' ELSE 0
  <2>1. Credits[o] \in Nat /\ Reversed(o)' \in Nat
    BY <1>7, <1>8, OwnerFacts, Numbers
  <2>2. Credits[o] - Reversed(o)' \in Int
    BY <2>1
  <2>3. Remaining(o)' = IF Credits[o] - Reversed(o)' > 0 THEN Credits[o] - Reversed(o)' ELSE 0
    <3>1. Remaining(o)' = Max({0, Credits[o] - Reversed(o)'})
      BY DEF Remaining
    <3> QED BY <2>2, <3>1, MaxZero
  <2> QED BY <2>1, <2>3
<1> QED BY <1>1, <1>4, <1>7, <1>8, <1>10, <1>11, <1>12

\* So no owner holds more after a post.
LEMMA PostLowers ==
    ASSUME BaseInv, NEW w \in Workers, PostLegs(w), NEW o \in Owners
    PROVE  Remaining(o)' <= Remaining(o) /\ Remaining(o)' \in Nat /\ Remaining(o) \in Nat
<1>1. PICK k : k = req[w].key
  OBVIOUS
<1>2. /\ req[w].legs[o] \in Nat /\ Reversed(o) \in Nat /\ Reversed(o)' \in Nat
      /\ Reversed(o)' = IF debits[k][o] # 0 THEN Reversed(o) ELSE Reversed(o) + req[w].legs[o]
      /\ Remaining(o)' = IF Credits[o] > Reversed(o)' THEN Credits[o] - Reversed(o)' ELSE 0
  BY <1>1, PostFacts
<1>3. /\ Remaining(o) = IF Credits[o] > Reversed(o) THEN Credits[o] - Reversed(o) ELSE 0
      /\ Remaining(o) \in Nat
  <2>1. DebitType
    BY DebitsTyped DEF BaseInv
  <2> QED BY <2>1, RemainingFacts
<1>4. Credits[o] \in Nat
  BY OwnerFacts, Numbers
<1> QED BY <1>2, <1>3, <1>4

\* A full refund's post leaves nothing.
LEMMA FullPost ==
    ASSUME BaseInv, FullLegs, NEW w \in Workers, PostLegs(w), NEW k, k = req[w].key, IsFull(k),
           NEW o \in Owners
    PROVE  /\ Remaining(o)' = 0
           /\ debits'[k][o] = 0 => debits[k][o] = 0 /\ Remaining(o) = 0
<1>1. At(w, k) /\ req[w].pc = "post"
  BY DEF At, PostLegs
<1>2. /\ k \in Keys /\ debits[k][o] \in Nat /\ req[w].legs[o] \in Nat /\ Reversed(o) \in Nat
      /\ debits'[k][o] = IF debits[k][o] # 0 THEN debits[k][o] ELSE req[w].legs[o]
      /\ Reversed(o)' = IF debits[k][o] # 0 THEN Reversed(o) ELSE Reversed(o) + req[w].legs[o]
      /\ Remaining(o)' = IF Credits[o] > Reversed(o)' THEN Credits[o] - Reversed(o)' ELSE 0
  BY PostFacts
<1>3. Remaining(o) = IF Credits[o] > Reversed(o) THEN Credits[o] - Reversed(o) ELSE 0
  <2>1. DebitType
    BY DebitsTyped DEF BaseInv
  <2> QED BY <2>1, RemainingFacts
<1>4. Credits[o] \in Nat
  BY OwnerFacts, Numbers
<1>5. CASE debits[k][o] # 0
  <2>1. Remaining(o) = 0
    BY <1>2, <1>5 DEF FullLegs
  <2> QED BY <1>2, <1>5, <2>1, PostLowers
<1>6. CASE debits[k][o] = 0
  <2>1. req[w].legs[o] >= Remaining(o)
    BY <1>1, <1>2, <1>6 DEF FullLegs
  <2> QED BY <1>2, <1>3, <1>4, <1>6, <2>1
<1> QED BY <1>5, <1>6

LEMMA PostFullLegs ==
    ASSUME BaseInv, FullLegs, NEW w \in Workers, PostLegs(w)
    PROVE  FullLegs'
<1>1. PICK k : k = req[w].key
  OBVIOUS
<1>2. req[w].pc = "post" /\ UNCHANGED intents /\ req \in [Workers -> ReqRec] /\ k \in Keys
  BY <1>1, Working DEF PostLegs
<1>3. /\ req'[w].pc \in {"apply", "coupon", "move"} /\ Kept(w)
      /\ \A v \in Workers \ {w} : req'[v] = req[v]
  <2>1. \E pc \in {"apply", "coupon", "move"} : Goto(w, pc) /\ pc \in Pcs
    BY DEF PostLegs, Pcs
  <2> QED BY <1>2, <2>1, GotoFacts
<1>4. \A j \in Keys : IsFull(j)' <=> IsFull(j)
  BY <1>2 DEF IsFull
<1>5. \A o \in Owners : Remaining(o) = 0 => Remaining(o)' = 0
  BY PostLowers
<1>6. IsFull(k) => \A o \in Owners : /\ Remaining(o)' = 0
                                     /\ debits'[k][o] = 0 => debits[k][o] = 0 /\ Remaining(o) = 0
  BY <1>1, FullPost
<1>7. \A j \in Keys \ {k} : \A o \in Owners : debits'[j] = debits[j]
  BY <1>1, PostFacts
<1>8. ASSUME NEW j \in Keys, IsFull(j)', NEW o \in Owners, debits'[j][o] # 0
      PROVE  Remaining(o)' = 0
  <2>1. CASE j = k
    BY <1>4, <1>6, <1>8, <2>1
  <2>2. CASE j # k
    BY <1>4, <1>5, <1>7, <1>8, <2>2 DEF FullLegs
  <2> QED BY <2>1, <2>2
<1>9. ASSUME NEW v \in Workers, NEW j \in Keys, At(v, j)'
      PROVE  /\ req'[v].to # "stay" => IsFull(j)'
             /\ req'[v].pc = "post" /\ IsFull(j)' =>
                    \A o \in Owners : debits'[j][o] = 0 => req'[v].legs[o] >= Remaining(o)'
             /\ req'[v].pc \in {"move", "coupon", "apply"} /\ IsFull(j)' => NothingLeft'
  <2>1. At(v, j)
    BY <1>2, <1>3, <1>9 DEF At, Kept
  <2>2. req'[v].to # "stay" => IsFull(j)'
    <3>1. req'[v].to = req[v].to
      BY <1>3 DEF Kept
    <3> QED BY <1>4, <2>1, <3>1 DEF FullLegs
  <2>3. ASSUME req'[v].pc \in {"move", "coupon", "apply"}, IsFull(j)' PROVE NothingLeft'
    <3>1. CASE v = w
      <4>1. j = k
        BY <1>1, <2>1, <3>1 DEF At
      <4> QED BY <1>4, <1>6, <2>3, <4>1 DEF NothingLeft
    <3>2. CASE v # w
      <4>1. NothingLeft
        BY <1>3, <1>4, <2>1, <2>3, <3>2 DEF FullLegs
      <4> QED BY <1>5, <4>1 DEF NothingLeft
    <3> QED BY <3>1, <3>2
  <2>4. ASSUME req'[v].pc = "post", IsFull(j)', NEW o \in Owners, debits'[j][o] = 0
        PROVE  req'[v].legs[o] >= Remaining(o)'
    <3>1. v # w /\ req'[v] = req[v]
      BY <1>3, <2>4
    <3>2. debits[j][o] = 0
      BY <1>4, <1>6, <1>7, <2>4
    <3>3. req[v].legs[o] >= Remaining(o)
      BY <1>4, <2>1, <2>4, <3>1, <3>2 DEF FullLegs
    <3>4. /\ Remaining(o)' <= Remaining(o) /\ Remaining(o)' \in Nat /\ Remaining(o) \in Nat
      BY PostLowers
    <3>5. req[v].legs[o] \in Nat
      BY <1>2, Numbers DEF ReqRec
    <3> QED BY <3>1, <3>3, <3>4, <3>5
  <2> QED BY <2>2, <2>3, <2>4
<1> QED BY <1>8, <1>9 DEF FullLegs

-----------------------------------------------------------------------------
(* The booking moves last.                                                 *)

\* When every live row has been returned, what was returned is what they took.
LEMMA AllBack ==
    ASSUME BaseInv, RowMoney, misfiled = {}, \A j \in Keys : LiveRow(j) => Returned(j)
    PROVE  SumOver(vendor) + SumOver(credited) = SumOver(LiveGateway) + SumOver(LiveWallet)
<1> DEFINE both == [j \in Keys |-> vendor[j] + credited[j]]
<1>0. RowTypes /\ DataTypes
  BY DEF BaseInv
<1>1. vendor \in [Keys -> Int] /\ credited \in [Keys -> Int] /\ IsFiniteSet(Keys)
  BY <1>0, Numbers DEF DataTypes
<1>2. LiveGateway \in [Keys -> Int] /\ LiveWallet \in [Keys -> Int]
  BY <1>0, RefundedIs
<1>3. both \in [Keys -> Int] /\ \A j \in Keys : both[j] = vendor[j] + credited[j]
  BY <1>1
<1> HIDE DEF both
<1>4. ASSUME NEW j \in Keys PROVE both[j] = LiveGateway[j] + LiveWallet[j]
  <2>1. /\ ToGateway(j) + ToWallet(j) = rows[j].gateway + rows[j].wallet
        /\ LiveGateway[j] = IF LiveRow(j) THEN rows[j].gateway ELSE 0
        /\ LiveWallet[j] = IF LiveRow(j) THEN rows[j].wallet ELSE 0
    BY <1>0, Delivered DEF LiveGateway, LiveWallet
  <2>2. CASE LiveRow(j)
    BY <1>3, <2>1, <2>2 DEF Returned
  <2>3. CASE ~LiveRow(j)
    <3>1. vendor[j] = 0 /\ credited[j] = 0
      BY <2>3 DEF RowMoney, RowOK, LiveRow
    <3> QED BY <1>3, <2>1, <2>3, <3>1
  <2> QED BY <2>2, <2>3
<1>5. SumOver(both) = SumOver(vendor) + SumOver(credited)
  BY <1>1, <1>3, SumPlus
<1>6. SumOver(both) = SumOver(LiveGateway) + SumOver(LiveWallet)
  BY <1>1, <1>2, <1>3, <1>4, SumPlus
<1> QED BY <1>5, <1>6

LEMMA MoveBack ==
    ASSUME BaseInv, MoneyInv, FullLegs, FullInv, Undisturbed, NEW w \in Workers, MoveBooking(w)
    PROVE  BookingSays'
<1>1. PICK k : k = req[w].key
  OBVIOUS
<1>2. /\ req[w].pc = "move" /\ UNCHANGED <<vendor, credited, debits>>
      /\ booking' = booking \/ (booking' = req[w].to /\ req[w].to # "stay")
  BY DEF MoveBooking
<1>3. k \in Keys /\ At(w, k) /\ ReqAt(w, k)
  BY <1>1, <1>2, AtWork DEF At
<1>4. \A o \in Owners : Remaining(o)' = Remaining(o)
  BY <1>2, SameRemaining
<1>5. CASE booking' = booking
  <2>1. SumOver(vendor)' = SumOver(vendor) /\ SumOver(credited)' = SumOver(credited)
    BY <1>2
  <2> QED BY <1>4, <1>5, <2>1 DEF FullInv, BookingSays, NothingLeft
<1>6. CASE req[w].to # "stay"
  <2>1. IsFull(k) /\ NothingLeft
    BY <1>2, <1>3, <1>6 DEF FullLegs
  <2>2. LiveRow(k) /\ Returned(k)
    BY <1>2, <1>3 DEF Undisturbed, ReqAt, LiveRow, Returned, AfterVendor, AfterWallet
  <2>3. Emptied(0, 0) /\ \A j \in Keys : LiveRow(j) => Returned(j)
    BY <1>3, <2>1, <2>2 DEF FullInv, FullRows
  <2>4. SumOver(vendor) + SumOver(credited) = SumOver(LiveGateway) + SumOver(LiveWallet)
    BY <2>3, AllBack DEF MoneyInv, Undisturbed
  <2>5. SumOver(LiveGateway) = GatewayPool /\ SumOver(LiveWallet) = WalletPool
    <3>1. SumOver(LiveGateway) \in Nat /\ SumOver(LiveWallet) \in Nat
      BY LiveTaken DEF BaseInv
    <3> QED BY <2>3, <3>1 DEF Emptied
  <2>6. SumOver(vendor)' + SumOver(credited)' = Pool
    BY <1>2, <2>4, <2>5 DEF Pool
  <2> QED BY <1>4, <2>1, <2>6 DEF BookingSays, NothingLeft
<1> QED BY <1>2, <1>5, <1>6

\* Undisturbed, no more was returned than was paid.
BackBound == SumOver(vendor) + SumOver(credited) <= Pool

LEMMA BackBounded == SoundInv /\ MoneyInv /\ Undisturbed => BackBound
<1> SUFFICES ASSUME SoundInv, MoneyInv, Undisturbed PROVE BackBound
  OBVIOUS
<1>1. BaseInv /\ Budget /\ misfiled = {}
  BY DEF SoundInv, Undisturbed, OrderInv
<1>2. /\ SumOver(vendor) \in Nat /\ SumOver(credited) \in Nat
      /\ SumOver(vendor) + SumOver(credited) <= SumOver(GatewayTaken) + SumOver(WalletTaken)
      /\ SumOver(GatewayTaken) \in Nat /\ SumOver(WalletTaken) \in Nat
  BY <1>1, ReturnedBound
<1>3. SumOver(GatewayTaken) <= GatewayPool /\ SumOver(WalletTaken) <= WalletPool
  BY <1>1 DEF Budget
<1> QED BY <1>2, <1>3, Numbers DEF BackBound, Pool

\* Beside that, money only moves to the customer, and never too much.
LEMMA KeptBooking ==
    ASSUME BaseInv, BookingSays, Moved, DataTypes', BackBound',
           booking' = booking \/ booking' \in {"paid", "disputed"},
           \A o \in Owners : Remaining(o) = 0 => Remaining(o)' = 0
    PROVE  BookingSays'
<1> SUFFICES ASSUME booking' \in {"refunded", "cancelled"}
             PROVE  NothingLeft' /\ SumOver(vendor)' + SumOver(credited)' = Pool
  BY DEF BookingSays
<1>1. booking' = booking
  OBVIOUS
<1>2. NothingLeft /\ SumOver(vendor) + SumOver(credited) = Pool
  BY <1>1 DEF BookingSays
<1>3. NothingLeft'
  BY <1>2 DEF NothingLeft
<1>4. /\ vendor \in [Keys -> Nat] /\ credited \in [Keys -> Nat]
      /\ vendor' \in [Keys -> Nat] /\ credited' \in [Keys -> Nat] /\ IsFiniteSet(Keys)
  BY Numbers DEF BaseInv, DataTypes
<1>5. ASSUME NEW j \in Keys PROVE vendor[j] <= vendor'[j] /\ credited[j] <= credited'[j]
  BY <1>4 DEF Moved
<1>6. SumOver(vendor) <= SumOver(vendor') /\ SumOver(credited) <= SumOver(credited')
  <2>1. /\ vendor \in [Keys -> Int] /\ credited \in [Keys -> Int]
        /\ vendor' \in [Keys -> Int] /\ credited' \in [Keys -> Int]
    BY <1>4
  <2>2. SumOver(vendor) <= SumOver(vendor')
    BY <1>4, <1>5, <2>1, SumMono
  <2>3. SumOver(credited) <= SumOver(credited')
    BY <1>4, <1>5, <2>1, SumMono
  <2> QED BY <2>2, <2>3
<1>7. /\ SumOver(vendor) \in Nat /\ SumOver(credited) \in Nat
      /\ SumOver(vendor') \in Nat /\ SumOver(credited') \in Nat
  BY <1>4, SumNat
<1>8. SumOver(vendor') + SumOver(credited') <= Pool
  BY DEF BackBound, Pool
<1>9. SumOver(vendor') + SumOver(credited') = Pool
  BY <1>2, <1>6, <1>7, <1>8, Numbers
<1> QED BY <1>3, <1>9

\* Steps that change no row's being live, no booking and no leg.
LEMMA KeptFull ==
    ASSUME BaseInv, FullInv, DataTypes', BackBound', ReqTame, RowTame, LegsQuiet, Moved,
           \A j \in Keys : LiveRow(j)' <=> LiveRow(j),
           booking' = booking \/ booking' \in {"paid", "disputed"}
    PROVE  FullInv'
<1>1. UNCHANGED intents /\ UNCHANGED debits
  BY DEF LegsQuiet
<1>2. FullRows'
  BY <1>1, KeptFullRows DEF FullInv
<1>4. \A o \in Owners : Remaining(o) = 0 => Remaining(o)' = 0
  BY <1>1, SameRemaining
<1>5. BookingSays'
  BY <1>4, KeptBooking DEF FullInv
<1> QED BY <1>2, <1>5 DEF FullInv

\* No step outside RecordFailure and InsertRow changes which rows are live.
LEMMA SameLiveRows ==
    ASSUME BaseInv, MoneyInv, NEW w \in Workers,
           \/ callGateway(w) \/ RecordVendor(w) \/ creditWallet(w) \/ MarkProcessed(w)
           \/ ReadLegs(w) \/ PostLegs(w) \/ MoveBooking(w) \/ ReleaseCoupon(w)
           \/ applyRefund(w) \/ Die(w), misfiled = {}
    PROVE  \A j \in Keys : LiveRow(j)' <=> LiveRow(j)
<1>1. CASE callGateway(w) \/ creditWallet(w)
  BY <1>1 DEF callGateway, creditWallet, LiveRow
<1>2. CASE RecordVendor(w)
  <2>1. PICK k : k = req[w].key
    OBVIOUS
  <2>2. ReqAt(w, k) /\ req[w].pc = "record"
    BY <1>2, <2>1, AtWork DEF RecordVendor
  <2>3. LiveRow(k)
    BY <2>2 DEF ReqAt, LiveRow
  <2>4. rows'[k].status \in LiveStatus /\ \A j \in Keys \ {k} : rows'[j] = rows[j]
    BY <1>2, <2>1, RecordTame
  <2> QED BY <2>3, <2>4 DEF LiveRow
<1>3. CASE MarkProcessed(w) \/ ReadLegs(w) \/ PostLegs(w) \/ MoveBooking(w)
           \/ ReleaseCoupon(w) \/ applyRefund(w) \/ Die(w)
  <2>1. MoneyQuiet
    BY <1>3, MarkQuiet, ReadQuiet, TailQuiet
  <2> QED BY <2>1 DEF MoneyQuiet, LiveRow
<1> QED BY <1>1, <1>2, <1>3

LEMMA FullInit == Init => FullLegs /\ FullInv
<1> SUFFICES ASSUME Init PROVE FullLegs /\ FullInv
  OBVIOUS
<1>1. /\ \A w \in Workers : req[w].pc = "idle"
      /\ \A k \in Keys : rows[k].status = "none"
      /\ \A k \in Keys, o \in Owners : debits[k][o] = 0
      /\ booking \in {"paid", "disputed"}
  BY DEF Init, NoReq, NoRow, Nobody
<1>2. FullRows
  BY <1>1 DEF FullRows, At, LiveRow, LiveStatus
<1>3. FullLegs
  BY <1>1 DEF FullLegs, At
<1>4. BookingSays
  BY <1>1 DEF BookingSays
<1> QED BY <1>2, <1>3, <1>4 DEF FullInv

\* The legs of a full refund hold whatever runs beside it.
LEMMA FullLegsStep == BaseInv /\ FullLegs /\ [Next]_vars => FullLegs'
<1> SUFFICES ASSUME BaseInv, FullLegs, [Next]_vars PROVE FullLegs'
  OBVIOUS
<1>1. ASSUME NEW w \in Workers, NEW k \in Keys, Submit(w, k) PROVE FullLegs'
  BY <1>1, SubmitLegs
<1>2. ASSUME NEW w \in Workers, InsertRow(w) PROVE FullLegs'
  BY <1>2, InsertLegs, KeptFullLegs
<1>3. ASSUME NEW w \in Workers, ReadLegs(w) \/ PostLegs(w) PROVE FullLegs'
  BY <1>3, ReadFullLegs, PostFullLegs
<1>4. ASSUME NEW w \in Workers,
             \/ callGateway(w) \/ RecordVendor(w) \/ RecordFailure(w) \/ creditWallet(w)
             \/ MarkProcessed(w) \/ MoveBooking(w) \/ ReleaseCoupon(w) \/ applyRefund(w) \/ Die(w)
      PROVE  FullLegs'
  BY <1>4, StepLegs, KeptFullLegs
<1>5. ASSUME \/ \E k \in Keys : WebhookConfirms(k)
             \/ DisputeMoves
             \/ UNCHANGED vars
      PROVE  FullLegs'
  <2>1. UNCHANGED <<intents, debits, req>>
    BY <1>5 DEF WebhookConfirms, DisputeMoves, vars
  <2>2. LegsQuiet
    BY <2>1 DEF LegsQuiet
  <2> QED BY <2>2, KeptFullLegs
<1> QED BY <1>1, <1>2, <1>3, <1>4, <1>5 DEF Next, Step

LEMMA FullStep ==
    ASSUME BaseInv, BaseInv', OrderInv, MoneyInv, FullLegs, FullInv, Undisturbed, Undisturbed',
           BackBound', [Next]_vars
    PROVE  FullInv'
<1>0. /\ NoOverlap /\ misfiled = {} /\ misfiled' = {} /\ DataTypes' /\ FullRows /\ BookingSays
      /\ req \in [Workers -> ReqRec]
  BY DEF Undisturbed, NoOverlap, BaseInv, FullInv, ReqTypes
<1>1. ASSUME NEW w \in Workers, NEW k \in Keys, Submit(w, k) PROVE FullInv'
  <2>1. FullRows'
    BY <1>0, <1>1, SubmitFullRows
  <2>2. UNCHANGED <<booking, vendor, credited, debits>>
    BY <1>1 DEF Submit
  <2>3. BookingSays'
    BY <1>0, <2>2, SameRemaining, StillMoves, KeptBooking
  <2> QED BY <2>1, <2>3 DEF FullInv
<1>2. ASSUME NEW w \in Workers, InsertRow(w) PROVE FullInv'
  <2>1. FullRows'
    BY <1>0, <1>2, InsertFullRows
  <2>2. UNCHANGED <<booking, vendor, credited, debits>>
    BY <1>2 DEF InsertRow
  <2>3. BookingSays'
    BY <1>0, <2>2, SameRemaining, StillMoves, KeptBooking
  <2> QED BY <2>1, <2>3 DEF FullInv
<1>3. ASSUME NEW w \in Workers, RecordFailure(w) PROVE FullInv'
  <2>1. FullRows'
    BY <1>0, <1>3, FailFullRows
  <2>2. UNCHANGED <<booking, vendor, credited, debits>>
    BY <1>3 DEF RecordFailure
  <2>3. BookingSays'
    BY <1>0, <2>2, SameRemaining, StillMoves, KeptBooking
  <2> QED BY <2>1, <2>3 DEF FullInv
<1>4. ASSUME NEW w \in Workers,
             \/ callGateway(w) \/ RecordVendor(w) \/ creditWallet(w) \/ MarkProcessed(w)
             \/ ReleaseCoupon(w) \/ applyRefund(w) \/ Die(w)
      PROVE  FullInv'
  <2>1. ReqTame /\ RowTame
    BY <1>4, CallTame, RecordTame, CreditTame, MarkTame, CouponTame, ApplyTame, DieTame
  <2>2. LegsQuiet
    BY <1>4, StepLegs
  <2>3. Moved
    <3>1. CASE callGateway(w)
      BY <3>1, CallMoves
    <3>2. CASE creditWallet(w)
      BY <3>2, CreditMoves
    <3>3. CASE \/ RecordVendor(w) \/ MarkProcessed(w)
               \/ ReleaseCoupon(w) \/ applyRefund(w) \/ Die(w)
      BY <3>3, StillMoves DEF RecordVendor, MarkProcessed, ReleaseCoupon, applyRefund, Die
    <3> QED BY <1>4, <3>1, <3>2, <3>3
  <2>4. \A j \in Keys : LiveRow(j)' <=> LiveRow(j)
    BY <1>0, <1>4, SameLiveRows
  <2>5. booking' = booking
    BY <1>4 DEF callGateway, RecordVendor, creditWallet, MarkProcessed, ReleaseCoupon, applyRefund, Die
  <2> QED BY <1>0, <2>1, <2>2, <2>3, <2>4, <2>5, KeptFull
<1>5. ASSUME NEW w \in Workers, ReadLegs(w) PROVE FullInv'
  <2>1. ReqTame /\ RowTame /\ UNCHANGED <<booking, intents, vendor, credited, debits>>
    BY <1>5, ReadTame DEF ReadLegs
  <2>2. FullRows'
    BY <1>0, <1>5, <2>1, SameLiveRows, StillMoves, KeptFullRows
  <2>4. BookingSays'
    BY <1>0, <2>1, SameRemaining, StillMoves, KeptBooking
  <2> QED BY <2>2, <2>4 DEF FullInv
<1>6. ASSUME NEW w \in Workers, PostLegs(w) PROVE FullInv'
  <2>1. ReqTame /\ RowTame /\ UNCHANGED <<booking, intents, vendor, credited>>
    BY <1>6, PostTame DEF PostLegs
  <2>2. FullRows'
    BY <1>0, <1>6, <2>1, SameLiveRows, StillMoves, KeptFullRows
  <2>4. \A o \in Owners : Remaining(o) = 0 => Remaining(o)' = 0
    BY <1>6, PostLowers
  <2>5. BookingSays'
    BY <1>0, <2>1, <2>4, StillMoves, KeptBooking
  <2> QED BY <2>2, <2>5 DEF FullInv
<1>7. ASSUME NEW w \in Workers, MoveBooking(w) PROVE FullInv'
  <2>1. ReqTame /\ RowTame /\ UNCHANGED <<intents, vendor, credited>>
    BY <1>7, MoveTame DEF MoveBooking
  <2>2. FullRows'
    BY <1>0, <1>7, <2>1, SameLiveRows, StillMoves, KeptFullRows
  <2>4. BookingSays'
    BY <1>7, MoveBack
  <2> QED BY <2>2, <2>4 DEF FullInv
<1>8. ASSUME NEW k \in Keys, WebhookConfirms(k) PROVE FullInv'
  <2>1. ReqTame /\ RowTame /\ MoneyQuiet
    BY <1>8, WebhookTame, WebhookQuiet
  <2>2. UNCHANGED <<booking, intents, vendor, credited, debits, req>>
    BY <1>8 DEF WebhookConfirms
  <2>3. LegsQuiet
    BY <2>2 DEF LegsQuiet
  <2>4. \A j \in Keys : LiveRow(j)' <=> LiveRow(j)
    BY <1>0, <2>1 DEF MoneyQuiet, LiveRow
  <2> QED BY <1>0, <2>1, <2>2, <2>3, <2>4, StillMoves, KeptFull
<1>9. CASE DisputeMoves
  <2>1. ReqTame /\ RowTame
    BY <1>9, DisputeTame
  <2>2. /\ UNCHANGED <<rows, intents, vendor, credited, debits, req>>
        /\ booking' \in {"paid", "disputed"}
    BY <1>9 DEF DisputeMoves
  <2>3. LegsQuiet /\ \A j \in Keys : LiveRow(j)' <=> LiveRow(j)
    BY <2>2 DEF LegsQuiet, LiveRow
  <2> QED BY <1>0, <2>1, <2>2, <2>3, StillMoves, KeptFull
<1>10. CASE UNCHANGED vars
  <2>1. UNCHANGED <<rows, intents, vendor, credited, debits, req, booking>>
    BY <1>10 DEF vars
  <2>2. ReqTame /\ RowTame
    BY <1>0, <2>1, SameTame, RowsSame DEF BaseInv
  <2>3. LegsQuiet /\ \A j \in Keys : LiveRow(j)' <=> LiveRow(j)
    BY <2>1 DEF LegsQuiet, LiveRow
  <2> QED BY <1>0, <2>1, <2>2, <2>3, StillMoves, KeptFull
<1> QED BY <1>1, <1>2, <1>3, <1>4, <1>5, <1>6, <1>7, <1>8, <1>9, <1>10 DEF Next, Step

LEMMA NothingRemains ==
    ASSUME NothingLeft PROVE RemainingCredit = 0
<1>1. [o \in Owners |-> Remaining(o)] = [o \in Owners |-> 0]
  BY DEF NothingLeft
<1>2. RemainingCredit = SumOver([o \in Owners |-> 0])
  BY <1>1 DEF RemainingCredit
<1>3. [o \in Owners |-> 0] \in [Owners -> Int] /\ \A o \in Owners : [p \in Owners |-> 0][o] = 0
  OBVIOUS
<1>4. SumOver([o \in Owners |-> 0]) = 0
  BY <1>3, OwnerFacts, SumZero
<1> QED BY <1>2, <1>4

\* A booking that reads refunded or cancelled has had everything that was paid
\* returned and every credit of the driver side taken back: the full refund
\* that moves it does so last, and nothing later undoes it.  It holds until two
\* refunds overlap or a row is wrongly closed as failed, and for a payment
\* without a later unpaid row.
THEOREM TheBookingMovesLast == Spec => []RefundedMeansReturned
<1>1. FullSound => RefundedMeansReturned
  <2> SUFFICES ASSUME FullSound, booking \in {"refunded", "cancelled"}, Undisturbed
               PROVE  RemainingCredit = 0 /\ SumOver(vendor) + SumOver(credited) = Pool
    BY DEF RefundedMeansReturned, Pool, Undisturbed
  <2>1. NothingLeft /\ SumOver(vendor) + SumOver(credited) = Pool
    BY DEF FullSound, FullInv, BookingSays
  <2> QED BY <2>1, NothingRemains
<1>2. Init => FullLegs /\ FullSound
  BY FullInit DEF FullSound
<1>3. SoundInv /\ [Next]_vars /\ FullLegs => FullLegs'
  BY FullLegsStep DEF SoundInv
<1>4. /\ SoundInv /\ SoundInv' /\ Grow /\ MoneyInv /\ FullLegs /\ FullSound
      /\ (Undisturbed' => BackBound') /\ [Next]_vars
      => FullSound'
  <2> SUFFICES ASSUME SoundInv, SoundInv', Grow, MoneyInv, FullLegs, FullSound,
                      BackBound', [Next]_vars, Undisturbed'
               PROVE  FullInv'
    BY DEF FullSound
  <2>1. Undisturbed
    BY DEF Undisturbed, Grow
  <2>2. BaseInv /\ BaseInv' /\ OrderInv /\ FullInv
    BY <2>1 DEF SoundInv, Undisturbed, FullSound
  <2> QED BY <2>1, <2>2, FullStep
<1>5. SoundInv /\ MoneyInv => (Undisturbed => BackBound)
  BY BackBounded
<1>6. SoundInv /\ MoneyInv /\ [Next]_vars => MoneyInv'
  BY MoneyStep DEF SoundInv
<1> QED BY <1>1, <1>2, <1>3, <1>4, <1>5, <1>6, SoundInit, SoundStep, MoneyInit, PTL DEF Spec

-----------------------------------------------------------------------------
(* What the owners give back.                                              *)

LEMMA OwnerSum ==
    ASSUME NEW f \in [Owners -> Int]
    PROVE  SumOver(f) = (IF 1 \in Owners THEN f[1] ELSE 0) + (IF 2 \in Owners THEN f[2] ELSE 0)
<1>1. IsFiniteSet(Owners) /\ DOMAIN f = Owners /\ \A o \in Owners : f[o] \in Int
  BY OwnerFacts
<1>2. Owners = {} \/ Owners = {1} \/ Owners = {1, 2}
  BY OwnerFacts
<1>3. TotalOver(f, {}) = 0
  BY FS_EmptySet, TotalSplit
<1>4. CASE Owners = {}
  BY <1>1, <1>3, <1>4 DEF SumOver
<1>5. CASE Owners = {1}
  <2>1. TotalOver(f, {1}) = f[1] + TotalOver(f, {1} \ {1})
    BY <1>1, <1>5, TotalSplit
  <2>2. {1} \ {1} = {} /\ f[1] \in Int
    BY <1>1, <1>5
  <2>3. SumOver(f) = f[1]
    BY <1>1, <1>3, <1>5, <2>1, <2>2 DEF SumOver
  <2>4. 1 \in Owners /\ 2 \notin Owners
    BY <1>5
  <2> QED BY <2>2, <2>3, <2>4
<1>6. CASE Owners = {1, 2}
  <2>1. TotalOver(f, {1, 2}) = f[1] + TotalOver(f, {1, 2} \ {1})
    BY <1>1, <1>6, TotalSplit
  <2>2. {1, 2} \ {1} = {2} /\ {2} \ {2} = {} /\ f[1] \in Int /\ f[2] \in Int
    BY <1>1, <1>6
  <2>3. TotalOver(f, {2}) = f[2] + TotalOver(f, {2} \ {2})
    <3>1. IsFiniteSet({2}) /\ (\A x \in {2} : f[x] \in Int) /\ 2 \in {2}
      BY <2>2, FS_Singleton
    <3> QED BY <3>1, TotalSplit
  <2> QED BY <1>1, <1>3, <1>6, <2>1, <2>2, <2>3 DEF SumOver
<1> QED BY <1>2, <1>4, <1>5, <1>6

\* Rounding a quotient of at least t gives at least t.
LEMMA RoundAbove ==
    ASSUME NEW a \in Nat, NEW b \in Nat, b > 0, NEW t \in Nat, t * b <= a
    PROVE  Round(a, b) >= t
<1> DEFINE n == 2 * a + b
           d == 2 * b
           q == n \div d
<1>1. n \in Nat /\ d \in Nat /\ d > 0
  OBVIOUS
<1>2. t * d <= n
  BY SMT
<1> HIDE DEF n, d
<1>3. q \in Int /\ q * d <= n /\ n < (q + 1) * d
  BY <1>1
<1> HIDE DEF q
<1>4. t < q + 1
  BY <1>1, <1>2, <1>3
<1>5. q >= t
  BY <1>3, <1>4
<1> QED BY <1>5 DEF Round, q, n, d

\* A share within the sum of two amounts splits in proportion within each.
LEMMA Proportional ==
    ASSUME NEW s \in Nat, NEW a \in Nat, NEW b \in Nat, a + b > 0, s <= a + b
    PROVE  /\ Round(s * a, a + b) \in 0 .. a
           /\ s - Round(s * a, a + b) <= b
<1> DEFINE r == a + b
<1>1. r \in Nat /\ r > 0 /\ s * a \in Nat
  OBVIOUS
<1>2. s * a <= a * r
  BY SMT
<1>3. Round(s * a, r) \in 0 .. a
  <2> HIDE DEF r
  <2> QED BY <1>1, <1>2, RoundBound
<1>4. CASE s <= b
  BY <1>3, <1>4
<1>5. CASE s > b
  <2>1. s - b \in Nat
    BY <1>5
  <2>2. (s - b) * r = s * a + s * b - b * r
    BY SMT
  <2>3. s * b <= b * r
    BY SMT
  <2>4. (s - b) * r <= s * a
    <3> DEFINE x == s * a
               y == s * b
               z == b * r
    <3>1. x \in Int /\ y \in Int /\ z \in Int
      OBVIOUS
    <3>2. (s - b) * r = x + y - z /\ y <= z
      BY <2>2, <2>3
    <3> HIDE DEF x, y, z
    <3>3. (s - b) * r <= x
      BY <3>1, <3>2
    <3> QED BY <3>3 DEF x
  <2>5. Round(s * a, r) >= s - b
    <3> HIDE DEF r
    <3> QED BY <1>1, <2>1, <2>4, RoundAbove
  <2> QED BY <1>3, <2>5
<1> QED BY <1>3, <1>4, <1>5

\* So the legs of a share the owners can bear fit what each still holds, and
\* add up to the share.
LEMMA ClawbackFits ==
    ASSUME DebitType, NEW share \in Nat, share <= RemainingCredit
    PROVE  /\ Clawback(share) \in [Owners -> Nat]
           /\ \A o \in Owners : Clawback(share)[o] <= Remaining(o)
           /\ SumOver(Clawback(share)) = share
<1> DEFINE rem == [o \in Owners |-> Remaining(o)]
           legs == Clawback(share)
<1>1. /\ \A o \in Owners : Remaining(o) \in Nat
      /\ RemainingCredit \in Nat
  BY RemainingFacts
<1>2. rem \in [Owners -> Int] /\ RemainingCredit = SumOver(rem)
  BY <1>1 DEF RemainingCredit
<1>3. RemainingCredit = (IF 1 \in Owners THEN Remaining(1) ELSE 0)
                        + (IF 2 \in Owners THEN Remaining(2) ELSE 0)
  BY <1>1, <1>2, OwnerSum
<1>4. legs \in [Owners -> 0 .. share]
  BY ClawbackType
<1>5. legs \in [Owners -> Nat] /\ legs \in [Owners -> Int]
  BY <1>4
<1>6. SumOver(legs) = (IF 1 \in Owners THEN legs[1] ELSE 0) + (IF 2 \in Owners THEN legs[2] ELSE 0)
  <2> HIDE DEF legs
  <2> QED BY <1>5, OwnerSum
<1>7. Owners \subseteq {1, 2}
  BY OwnerFacts
<1>8. \A o \in Owners : legs[o] = IF o \notin Holders THEN 0
                                  ELSE IF o # Max(Holders) THEN Proportion(share, o)
                                  ELSE share - SumOver([p \in Holders \ {o} |-> Proportion(share, p)])
  BY DEF Clawback
<1>9. \A o \in Owners : o \notin Holders => Remaining(o) = 0 /\ legs[o] = 0
  <2>1. ASSUME NEW o \in Owners, o \notin Holders PROVE Remaining(o) = 0
    BY <1>1, <2>1 DEF Holders
  <2>2. ASSUME NEW o \in Owners, o \notin Holders PROVE legs[o] = 0
    BY <1>8, <2>2
  <2> QED BY <2>1, <2>2
<1>10. Holders \subseteq Owners /\ \A o \in Holders : Remaining(o) > 0
  BY DEF Holders
<1> HIDE DEF legs
<1>11. CASE Holders = {}
  <2>1. RemainingCredit = 0
    BY <1>3, <1>9, <1>11
  <2>2. share = 0
    BY <2>1
  <2> QED BY <1>1, <1>5, <1>6, <1>9, <1>11, <2>2 DEF legs
<1>12. ASSUME NEW o, Holders = {o} PROVE legs[o] = share /\ o \in Owners
  <2>1. o \in Owners /\ Max(Holders) = o
    <3>1. o \in Owners
      BY <1>10, <1>12
    <3>2. o \in Int
      BY <1>7, <3>1
    <3> QED BY <1>12, <3>1, <3>2 DEF Max
  <2> DEFINE f == [p \in Holders \ {o} |-> Proportion(share, p)]
  <2>2. Holders \ {o} = {} /\ f \in [{} -> Int] /\ IsFiniteSet({})
    BY <1>12, FS_EmptySet
  <2>3. legs[o] = share - SumOver(f)
    BY <1>8, <1>12, <2>1
  <2> HIDE DEF f
  <2>4. SumOver(f) = 0
    BY <2>2, SumZero
  <2> QED BY <2>1, <2>3, <2>4
<1>13. ASSUME NEW o, Holders = {o}
       PROVE  (\A p \in Owners : legs[p] <= Remaining(p)) /\ SumOver(legs) = share
  <2>1. legs[o] = share /\ o \in Owners
    BY <1>12, <1>13
  <2>2. \A p \in Owners \ {o} : Remaining(p) = 0 /\ legs[p] = 0
    BY <1>9, <1>13
  <2>3. o = 1 \/ o = 2
    BY <1>7, <2>1
  <2>4. RemainingCredit = Remaining(o)
    BY <1>1, <1>3, <2>1, <2>2, <2>3
  <2>5. SumOver(legs) = share
    BY <1>6, <2>1, <2>2, <2>3
  <2> QED BY <1>1, <2>1, <2>2, <2>4, <2>5
<1>14. CASE Holders = {1, 2}
  <2>1. Owners = {1, 2} /\ Max(Holders) = 2
    <3>1. Owners = {1, 2}
      BY <1>7, <1>10, <1>14
    <3> QED BY <1>14, <3>1 DEF Max
  <2> DEFINE q == Proportion(share, 1)
             f == [p \in Holders \ {2} |-> Proportion(share, p)]
  <2>2. /\ Remaining(1) \in Nat /\ Remaining(2) \in Nat
        /\ RemainingCredit = Remaining(1) + Remaining(2) /\ Remaining(1) > 0
    BY <1>1, <1>3, <1>10, <1>14, <2>1
  <2>3. q = Round(share * Remaining(1), Remaining(1) + Remaining(2))
    BY <2>2 DEF Proportion
  <2>4. q \in 0 .. Remaining(1) /\ share - q <= Remaining(2)
    <3>1. share <= Remaining(1) + Remaining(2)
      BY <2>2
    <3>2. Remaining(1) + Remaining(2) > 0
      BY <2>2
    <3> HIDE DEF q
    <3> QED BY <2>2, <2>3, <3>1, <3>2, Proportional
  <2>5. legs[1] = q
    BY <1>8, <1>14, <2>1
  <2>6. Holders \ {2} = {1}
    BY <1>14
  <2>7. f \in [{1} -> Int] /\ f[1] = q /\ DOMAIN f = {1}
    BY <2>4, <2>6
  <2>8. legs[2] = share - SumOver(f)
    BY <1>8, <1>14, <2>1
  <2> HIDE DEF f, q
  <2>9. SumOver(f) = q
    <3>1. IsFiniteSet({1}) /\ IsFiniteSet({}) /\ {1} \ {1} = {} /\ \A x \in {1} : f[x] \in Int
      BY <2>7, FS_Singleton, FS_EmptySet
    <3>2. TotalOver(f, {1}) = f[1] + TotalOver(f, {1} \ {1})
      BY <3>1, TotalSplit
    <3>3. TotalOver(f, {}) = 0
      BY <3>1, TotalSplit
    <3> QED BY <2>4, <2>7, <3>1, <3>2, <3>3 DEF SumOver
  <2>10. SumOver(legs) = legs[1] + legs[2]
    BY <1>6, <2>1
  <2>11. SumOver(legs) = share
    BY <2>4, <2>5, <2>8, <2>9, <2>10
  <2>12. \A o \in Owners : legs[o] <= Remaining(o)
    BY <2>1, <2>4, <2>5, <2>8, <2>9
  <2> QED BY <1>5, <2>11, <2>12 DEF legs
<1>15. Holders = {} \/ Holders = {1} \/ Holders = {2} \/ Holders = {1, 2}
  <2>1. Holders \subseteq {1, 2}
    BY <1>7, <1>10
  <2> QED BY <2>1
<1>16. (\E o : Holders = {o}) => (\A p \in Owners : legs[p] <= Remaining(p)) /\ SumOver(legs) = share
  BY <1>13
<1> QED BY <1>5, <1>11, <1>14, <1>15, <1>16 DEF legs

Partial(k) == ~IsFull(k)
WithinCredit == \A o \in Owners : Reversed(o) <= Credits[o]

\* The share of a row whose legs are not posted is still there.
RowShares ==
    \A k \in Keys :
        Counts(k) /\ Partial(k) /\ rows[k].status # "none" /\ debits[k] = Nobody =>
            rows[k].share <= RemainingCredit

NewShares ==
    \A w \in Workers, k \in Keys :
        At(w, k) /\ req[w].pc = "insert" /\ rows[k].status = "none" =>
            req[w].share <= RemainingCredit

\* The legs about to be posted for the first time fit, and make up the share.
LegShares ==
    \A w \in Workers, k \in Keys :
        At(w, k) /\ req[w].pc = "post" /\ debits[k] = Nobody =>
            /\ \A o \in Owners : req[w].legs[o] <= Remaining(o)
            /\ Partial(k) => SumOver(req[w].legs) = rows[k].share

\* A refund that is not the one at work owes no share.
OtherShares ==
    \A w \in Workers, j \in Keys, k \in Keys :
        At(w, j) /\ j # k /\ Counts(k) /\ Partial(k) /\ debits[k] = Nobody => rows[k].share = 0

\* What is posted is the share.
PostedShares ==
    /\ \A k \in Keys : rows[k].status = "none" => debits[k] = Nobody
    /\ \A k \in Keys : Partial(k) /\ debits[k] # Nobody => SumOver(debits[k]) = rows[k].share
    /\ \A w \in Workers, k \in Keys :
           At(w, k) /\ req[w].pc \in {"move", "coupon", "apply"} /\ Partial(k) =>
               SumOver(debits[k]) = rows[k].share

DebtInv == RowShares /\ NewShares /\ LegShares /\ OtherShares /\ PostedShares /\ WithinCredit

\* A step that posts nothing changes nothing of what the owners hold.
LEMMA SameCredit ==
    ASSUME UNCHANGED <<intents, debits>>
    PROVE  /\ \A o \in Owners : Reversed(o)' = Reversed(o) /\ Remaining(o)' = Remaining(o)
           /\ RemainingCredit' = RemainingCredit
           /\ \A k \in Keys : (Partial(k)' <=> Partial(k)) /\ debits'[k] = debits[k]
           /\ WithinCredit => WithinCredit'
<1>1. \A o \in Owners : Reversed(o)' = Reversed(o) /\ Remaining(o)' = Remaining(o)
  BY SameRemaining
<1>2. RemainingCredit' = RemainingCredit
  BY <1>1 DEF RemainingCredit
<1> QED BY <1>1, <1>2 DEF Partial, IsFull, WithinCredit

\* Steps that post nothing, compute no legs and insert no row.
LEMMA KeptDebt ==
    ASSUME BaseInv, DebtInv, ReqTame, RowTame, LegsQuiet
    PROVE  DebtInv'
<1>1. /\ \A o \in Owners : Remaining(o)' = Remaining(o)
      /\ RemainingCredit' = RemainingCredit
      /\ \A k \in Keys : (Partial(k)' <=> Partial(k)) /\ debits'[k] = debits[k]
      /\ WithinCredit'
  BY SameCredit DEF LegsQuiet, DebtInv
<1>2. \A k \in Keys : Counts(k)' => Counts(k)
  BY TameCounts DEF BaseInv
<1>3. \A k \in Keys : /\ rows'[k].share = rows[k].share
                      /\ rows'[k].status = "none" <=> rows[k].status = "none"
  BY DEF RowTame
<1>4. \A v \in Workers, k \in Keys : At(v, k)' => At(v, k) /\ Kept(v)
  BY DEF ReqTame, Kept, At
<1>5. RowShares'
  BY <1>1, <1>2, <1>3 DEF DebtInv, RowShares
<1>6. NewShares'
  <2>1. ASSUME NEW v \in Workers, NEW k \in Keys, At(v, k)', req'[v].pc = "insert",
               rows'[k].status = "none"
        PROVE  req'[v].share <= RemainingCredit'
    <3>1. At(v, k) /\ req[v].pc = "insert" /\ rows[k].status = "none" /\ req'[v].share = req[v].share
      BY <1>3, <1>4, <2>1 DEF ReqTame, Kept
    <3>2. req[v].share <= RemainingCredit
      BY <3>1 DEF DebtInv, NewShares
    <3> QED BY <1>1, <3>1, <3>2
  <2> QED BY <2>1 DEF NewShares
<1>7. LegShares'
  <2>1. ASSUME NEW v \in Workers, NEW k \in Keys, At(v, k)', req'[v].pc = "post",
               debits'[k] = Nobody
        PROVE  /\ \A o \in Owners : req'[v].legs[o] <= Remaining(o)'
               /\ Partial(k)' => SumOver(req'[v].legs) = rows'[k].share
    <3>1. At(v, k) /\ req[v].pc = "post" /\ req'[v].legs = req[v].legs
      BY <1>4, <2>1 DEF LegsQuiet
    <3>2. /\ \A o \in Owners : req[v].legs[o] <= Remaining(o)
          /\ Partial(k) => SumOver(req[v].legs) = rows[k].share
      BY <1>1, <2>1, <3>1 DEF DebtInv, LegShares
    <3> QED BY <1>1, <1>3, <3>1, <3>2
  <2> QED BY <2>1 DEF LegShares
<1>8. OtherShares'
  BY <1>1, <1>2, <1>3, <1>4 DEF DebtInv, OtherShares
<1>9. PostedShares'
  <2>1. ASSUME NEW v \in Workers, NEW k \in Keys, At(v, k)',
               req'[v].pc \in {"move", "coupon", "apply"}, Partial(k)'
        PROVE  SumOver(debits'[k]) = rows'[k].share
    <3>1. At(v, k) /\ req[v].pc \in {"move", "coupon", "apply"}
      BY <1>4, <2>1 DEF LegsQuiet
    <3>2. SumOver(debits[k]) = rows[k].share
      BY <1>1, <2>1, <3>1 DEF DebtInv, PostedShares
    <3> QED BY <1>1, <1>3, <3>2
  <2> QED BY <1>1, <1>3, <2>1 DEF DebtInv, PostedShares
<1> QED BY <1>1, <1>5, <1>6, <1>7, <1>8, <1>9 DEF DebtInv

LEMMA NobodySum == SumOver(Nobody) = 0
BY OwnerFacts, SumZero DEF Nobody

LEMMA SubmitDebt ==
    ASSUME NoOverlap, BaseInv, OrderInv, DebtInv, NEW w \in Workers, NEW k \in Keys, Submit(w, k)
    PROVE  DebtInv'
<1>1. /\ \A j \in Keys \ {k} : /\ Settled(j)
                               /\ \A v \in Workers : req[v].pc # "idle" => req[v].key # j
      /\ UNCHANGED <<intents, rows, debits>>
      /\ \A v \in Workers \ {w} : req'[v] = req[v]
      /\ \/ req'[w].pc = "idle"
         \/ ResumeOf(req'[w], k, Landing(k))
         \/ FreshOf(req'[w], k, Landing(k)) /\ rows[k].status = "none"
  BY SubmitFacts
<1>2. /\ \A o \in Owners : Remaining(o)' = Remaining(o)
      /\ RemainingCredit' = RemainingCredit
      /\ \A j \in Keys : (Partial(j)' <=> Partial(j)) /\ debits'[j] = debits[j] /\ rows'[j] = rows[j]
      /\ WithinCredit'
  BY <1>1, SameCredit DEF DebtInv
<1>3. /\ req'[w].pc \in {"idle", "gateway", "insert"}
      /\ req'[w].pc = "gateway" => req'[w].key = k /\ LiveRow(k)
      /\ req'[w].pc = "insert" => /\ req'[w].key = k /\ rows[k].status = "none"
                                  /\ req'[w].share <= RemainingCredit
  BY <1>1 DEF ResumeOf, FreshOf, LiveRow
<1>4. ASSUME NEW j \in Keys, Counts(j)' PROVE Counts(j) \/ rows[j].status = "none"
  <2>1. CASE rows'[j].status \in LiveStatus
    BY <1>2, <2>1 DEF Counts
  <2>2. CASE \E v \in Workers : req'[v].pc # "idle" /\ req'[v].key = j
    <3>1. PICK v \in Workers : req'[v].pc # "idle" /\ req'[v].key = j
      BY <2>2
    <3>2. CASE v = w
      BY <1>3, <3>1, <3>2 DEF Counts, LiveRow
    <3>3. CASE v # w
      BY <1>1, <3>1, <3>3 DEF Counts
    <3> QED BY <3>2, <3>3
  <2> QED BY <1>4, <2>1, <2>2 DEF Counts
<1>5. RowShares'
  BY <1>2, <1>4 DEF DebtInv, RowShares
<1>6. NewShares'
  <2>1. ASSUME NEW v \in Workers, NEW j \in Keys, At(v, j)', req'[v].pc = "insert",
               rows'[j].status = "none"
        PROVE  req'[v].share <= RemainingCredit'
    <3>1. CASE v = w
      BY <1>2, <1>3, <2>1, <3>1
    <3>2. CASE v # w
      <4>1. req'[v] = req[v] /\ At(v, j)
        BY <1>1, <2>1, <3>2 DEF At
      <4> QED BY <1>2, <2>1, <4>1 DEF DebtInv, NewShares
    <3> QED BY <3>1, <3>2
  <2> QED BY <2>1 DEF NewShares
<1>7. \A v \in Workers, j \in Keys :
          At(v, j)' /\ req'[v].pc \in {"post", "move", "coupon", "apply"} =>
              At(v, j) /\ req'[v] = req[v]
  BY <1>1, <1>3 DEF At
<1>8. LegShares'
  <2>1. ASSUME NEW v \in Workers, NEW j \in Keys, At(v, j)', req'[v].pc = "post",
               debits'[j] = Nobody
        PROVE  /\ \A o \in Owners : req'[v].legs[o] <= Remaining(o)'
               /\ Partial(j)' => SumOver(req'[v].legs) = rows'[j].share
    <3>1. At(v, j) /\ req'[v] = req[v]
      BY <1>7, <2>1
    <3>2. /\ \A o \in Owners : req[v].legs[o] <= Remaining(o)
          /\ Partial(j) => SumOver(req[v].legs) = rows[j].share
      BY <1>2, <2>1, <3>1 DEF DebtInv, LegShares
    <3> QED BY <1>2, <3>1, <3>2
  <2> QED BY <2>1 DEF LegShares
<1>9. OtherShares'
  <2>1. ASSUME NEW v \in Workers, NEW i \in Keys, NEW j \in Keys,
               At(v, i)', i # j, Counts(j)', Partial(j)', debits'[j] = Nobody
        PROVE  rows'[j].share = 0
    <3>1. i = k
      <4>1. CASE v = w
        BY <1>3, <2>1, <4>1 DEF At
      <4>2. CASE v # w
        BY <1>1, <2>1, <4>2 DEF At
      <4> QED BY <4>1, <4>2
    <3>2. j # k /\ Settled(j) /\ Partial(j) /\ debits[j] = Nobody
      BY <1>1, <1>2, <2>1, <3>1
    <3>3. LiveRow(j)
      <4>1. ASSUME NEW u \in Workers, req'[u].pc # "idle" PROVE req'[u].key # j
        <5>1. CASE u = w
          BY <1>3, <3>2, <4>1, <5>1
        <5>2. CASE u # w
          BY <1>1, <3>2, <4>1, <5>2
        <5> QED BY <5>1, <5>2
      <4> QED BY <1>2, <2>1, <4>1 DEF Counts, LiveRow
    <3>4. SumOver(debits[j]) = rows[j].share
      BY <3>2, <3>3 DEF Settled, Converged, Partial, IsFull, LiveRow, LiveStatus
    <3> QED BY <1>2, <3>2, <3>4, NobodySum
  <2> QED BY <2>1 DEF OtherShares
<1>10. PostedShares'
  <2>1. ASSUME NEW v \in Workers, NEW j \in Keys, At(v, j)',
               req'[v].pc \in {"move", "coupon", "apply"}, Partial(j)'
        PROVE  SumOver(debits'[j]) = rows'[j].share
    <3>1. At(v, j) /\ req'[v] = req[v]
      BY <1>7, <2>1
    <3> QED BY <1>2, <2>1, <3>1 DEF DebtInv, PostedShares
  <2> QED BY <1>2, <2>1 DEF DebtInv, PostedShares
<1> QED BY <1>2, <1>5, <1>6, <1>8, <1>9, <1>10 DEF DebtInv

\* The row takes the share its request checked.
LEMMA InsertDebt ==
    ASSUME BaseInv, OrderInv, DebtInv, NEW w \in Workers, InsertRow(w)
    PROVE  DebtInv'
<1>1. PICK k : k = req[w].key
  OBVIOUS
<1>2. /\ k \in Keys /\ req[w].pc = "insert" /\ UNCHANGED <<intents, debits>>
      /\ \A v \in Workers \ {w} : req'[v] = req[v]
      /\ \A j \in Keys \ {k} : rows'[j] = rows[j]
      /\ \/ /\ rows[k].status # "none" /\ rows' = rows
            /\ req'[w].pc = "idle" \/ ResumeOf(req'[w], k, req[w].to)
         \/ /\ rows[k].status = "none" /\ rows'[k].status = "pending"
            /\ rows'[k].share = req[w].share
            /\ req'[w].pc = "gateway" /\ req'[w].key = k
  BY <1>1, InsertFacts
<1>3. /\ req'[w].pc \in {"idle", "gateway"} /\ rows'[k].status # "none"
      /\ req'[w].pc = "gateway" => req'[w].key = k
  BY <1>2 DEF ResumeOf
<1>4. /\ \A o \in Owners : Remaining(o)' = Remaining(o)
      /\ RemainingCredit' = RemainingCredit
      /\ \A j \in Keys : (Partial(j)' <=> Partial(j)) /\ debits'[j] = debits[j]
      /\ WithinCredit'
  BY <1>2, SameCredit DEF DebtInv
<1>5. \A v \in Workers, j \in Keys : At(v, j)' => At(v, j) /\ j = k
  <2>1. ASSUME NEW v \in Workers, NEW j \in Keys, At(v, j)' PROVE At(v, j) /\ j = k
    <3>1. At(v, j)
      BY <1>1, <1>2, <1>3, <2>1 DEF At
    <3> QED BY <1>1, <1>2, <3>1 DEF At, OrderInv, OneKey
  <2> QED BY <2>1
<1>6. \A j \in Keys : Counts(j)' => Counts(j)
  <2>1. ASSUME NEW j \in Keys, Counts(j)' PROVE Counts(j)
    <3>1. CASE j = k
      BY <1>1, <1>2, <3>1 DEF Counts
    <3>2. CASE j # k
      BY <1>2, <1>5, <2>1, <3>2 DEF Counts, At
    <3> QED BY <3>1, <3>2
  <2> QED BY <2>1
<1>7. RowShares'
  <2>1. ASSUME NEW j \in Keys, Counts(j)', Partial(j)', rows'[j].status # "none",
               debits'[j] = Nobody
        PROVE  rows'[j].share <= RemainingCredit'
    <3>1. CASE rows'[j] = rows[j]
      BY <1>4, <1>6, <2>1, <3>1 DEF DebtInv, RowShares
    <3>2. CASE j = k /\ rows[k].status = "none" /\ rows'[k].share = req[w].share
      <4>1. req[w].share <= RemainingCredit
        BY <1>1, <1>2, <3>2 DEF DebtInv, NewShares, At
      <4> QED BY <1>4, <3>2, <4>1
    <3> QED BY <1>2, <3>1, <3>2
  <2> QED BY <2>1 DEF RowShares
<1>8. NewShares'
  BY <1>3, <1>5 DEF NewShares
<1>9. ASSUME NEW v \in Workers, NEW j \in Keys, At(v, j)',
             req'[v].pc \in {"post", "move", "coupon", "apply"}
      PROVE  At(v, j) /\ req'[v] = req[v] /\ rows'[j] = rows[j]
  <2>1. v # w
    BY <1>3, <1>9
  <2>2. At(v, j) /\ j = k /\ req'[v] = req[v]
    BY <1>2, <1>5, <1>9, <2>1
  <2>3. rows[k].status # "none"
    BY <1>9, <2>2 DEF At, BaseInv, ReqTypes
  <2> QED BY <1>2, <2>2, <2>3
<1>10. LegShares'
  <2>1. ASSUME NEW v \in Workers, NEW j \in Keys, At(v, j)', req'[v].pc = "post",
               debits'[j] = Nobody
        PROVE  /\ \A o \in Owners : req'[v].legs[o] <= Remaining(o)'
               /\ Partial(j)' => SumOver(req'[v].legs) = rows'[j].share
    <3>1. At(v, j) /\ req'[v] = req[v] /\ rows'[j] = rows[j]
      BY <1>9, <2>1
    <3>2. /\ \A o \in Owners : req[v].legs[o] <= Remaining(o)
          /\ Partial(j) => SumOver(req[v].legs) = rows[j].share
      BY <1>4, <2>1, <3>1 DEF DebtInv, LegShares
    <3> QED BY <1>4, <3>1, <3>2
  <2> QED BY <2>1 DEF LegShares
<1>11. OtherShares'
  BY <1>2, <1>4, <1>5, <1>6 DEF DebtInv, OtherShares
<1>12. PostedShares'
  <2>1. ASSUME NEW v \in Workers, NEW j \in Keys, At(v, j)',
               req'[v].pc \in {"move", "coupon", "apply"}, Partial(j)'
        PROVE  SumOver(debits'[j]) = rows'[j].share
    <3>1. At(v, j) /\ req'[v] = req[v] /\ rows'[j] = rows[j]
      BY <1>9, <2>1
    <3> QED BY <1>4, <2>1, <3>1 DEF DebtInv, PostedShares
  <2>2. ASSUME NEW j \in Keys, Partial(j)', debits'[j] # Nobody
        PROVE  SumOver(debits'[j]) = rows'[j].share
    <3>1. debits[j] # Nobody /\ rows[j].status # "none"
      BY <1>4, <2>2 DEF DebtInv, PostedShares
    <3>2. rows'[j] = rows[j]
      BY <1>2, <3>1
    <3> QED BY <1>4, <2>2, <3>1, <3>2 DEF DebtInv, PostedShares
  <2>3. ASSUME NEW j \in Keys, rows'[j].status = "none" PROVE debits'[j] = Nobody
    BY <1>2, <1>3, <1>4, <2>3 DEF DebtInv, PostedShares
  <2> QED BY <2>1, <2>2, <2>3 DEF PostedShares
<1> QED BY <1>4, <1>7, <1>8, <1>10, <1>11, <1>12 DEF DebtInv

\* The legs a request reads fit, and make up its share.
LEMMA ReadDebt ==
    ASSUME BaseInv, DebtInv, NEW w \in Workers, ReadLegs(w)
    PROVE  DebtInv'
<1>1. PICK k : k = req[w].key
  OBVIOUS
<1>2. /\ req[w].pc = "read" /\ req'[w].pc = "post" /\ req'[w].legs = LegsOf(k)
      /\ Kept(w) /\ UNCHANGED <<intents, rows, debits>>
      /\ \A v \in Workers \ {w} : req'[v] = req[v]
  BY <1>1, ReadTame DEF ReadLegs
<1>3. /\ k \in Keys /\ rows[k].status # "none" /\ Counts(k) /\ DebitType
  BY <1>1, <1>2, Working, DebitsTyped
<1>4. /\ \A o \in Owners : Remaining(o)' = Remaining(o)
      /\ RemainingCredit' = RemainingCredit
      /\ \A j \in Keys : (Partial(j)' <=> Partial(j)) /\ debits'[j] = debits[j] /\ rows'[j] = rows[j]
      /\ WithinCredit'
  BY <1>2, SameCredit DEF DebtInv
<1>5. \A v \in Workers, j \in Keys : At(v, j)' => At(v, j)
  BY <1>2 DEF At, Kept
<1>6. \A j \in Keys : Counts(j)' => Counts(j)
  BY <1>2, <1>5 DEF Counts, At
<1>7. RowShares'
  BY <1>4, <1>6 DEF DebtInv, RowShares
<1>8. NewShares'
  <2>1. ASSUME NEW v \in Workers, NEW j \in Keys, At(v, j)', req'[v].pc = "insert",
               rows'[j].status = "none"
        PROVE  req'[v].share <= RemainingCredit'
    <3>1. v # w
      BY <1>2, <2>1
    <3>2. req'[v] = req[v] /\ At(v, j)
      BY <1>2, <1>5, <2>1, <3>1
    <3> QED BY <1>4, <2>1, <3>2 DEF DebtInv, NewShares
  <2> QED BY <2>1 DEF NewShares
<1>9. LegShares'
  <2>1. ASSUME NEW v \in Workers, NEW j \in Keys, At(v, j)', req'[v].pc = "post",
               debits'[j] = Nobody
        PROVE  /\ \A o \in Owners : req'[v].legs[o] <= Remaining(o)'
               /\ Partial(j)' => SumOver(req'[v].legs) = rows'[j].share
    <3>1. CASE v = w
      <4>1. j = k /\ debits[k] = Nobody
        BY <1>1, <1>2, <1>4, <2>1, <3>1 DEF At, Kept
      <4>2. \A o \in Owners : Remaining(o) \in Nat
        BY <1>3, RemainingFacts
      <4>3. CASE IsFull(k)
        <5>1. ~Partial(k) /\ \A o \in Owners : req'[w].legs[o] = Remaining(o)
          BY <1>2, <4>3 DEF LegsOf, Partial
        <5> QED BY <1>4, <3>1, <4>1, <4>2, <5>1
      <4>4. CASE Partial(k)
        <5>1. rows[k].share <= RemainingCredit
          BY <1>3, <4>1, <4>4 DEF DebtInv, RowShares
        <5>2. rows[k].share \in Nat
          BY <1>3, Numbers DEF BaseInv, RowTypes, RowRec
        <5>3. /\ \A o \in Owners : Clawback(rows[k].share)[o] <= Remaining(o)
              /\ SumOver(Clawback(rows[k].share)) = rows[k].share
          BY <1>3, <5>1, <5>2, ClawbackFits
        <5>4. req'[w].legs = Clawback(rows[k].share)
          BY <1>2, <4>4 DEF LegsOf, Partial
        <5> QED BY <1>4, <3>1, <4>1, <5>3, <5>4
      <4> QED BY <4>3, <4>4 DEF Partial
    <3>2. CASE v # w
      <4>1. req'[v] = req[v] /\ At(v, j)
        BY <1>2, <1>5, <2>1, <3>2
      <4>2. /\ \A o \in Owners : req[v].legs[o] <= Remaining(o)
            /\ Partial(j) => SumOver(req[v].legs) = rows[j].share
        BY <1>4, <2>1, <4>1 DEF DebtInv, LegShares
      <4> QED BY <1>4, <4>1, <4>2
    <3> QED BY <3>1, <3>2
  <2> QED BY <2>1 DEF LegShares
<1>10. OtherShares'
  BY <1>4, <1>5, <1>6 DEF DebtInv, OtherShares
<1>11. PostedShares'
  <2>1. ASSUME NEW v \in Workers, NEW j \in Keys, At(v, j)',
               req'[v].pc \in {"move", "coupon", "apply"}, Partial(j)'
        PROVE  SumOver(debits'[j]) = rows'[j].share
    <3>1. v # w
      BY <1>2, <2>1
    <3>2. req'[v] = req[v] /\ At(v, j)
      BY <1>2, <1>5, <2>1, <3>1
    <3> QED BY <1>4, <2>1, <3>2 DEF DebtInv, PostedShares
  <2> QED BY <1>4, <2>1 DEF DebtInv, PostedShares
<1> QED BY <1>4, <1>7, <1>8, <1>9, <1>10, <1>11 DEF DebtInv

\* A post that debits no owner late either posts all the legs of the refund
\* for the first time or nothing.
LEMMA PostOnce ==
    ASSUME BaseInv, NEW w \in Workers, PostLegs(w), NEW k, k = req[w].key, "redebit" \notin slips'
    PROVE  /\ debits \in [Keys -> [Owners -> Nat]] /\ req[w].legs \in [Owners -> Nat]
           /\ \/ debits[k] # Nobody /\ debits' = debits
              \/ /\ debits[k] = Nobody /\ debits'[k] = req[w].legs
                 /\ \A j \in Keys \ {k} : debits'[j] = debits[j]
                 /\ req[w].legs = Nobody => debits' = debits
<1>1. k \in Keys /\ req[w] \in ReqRec /\ DataTypes /\ req[w].pc = "post"
  BY Working DEF PostLegs
<1>2. debits \in [Keys -> [Owners -> Nat]] /\ req[w].legs \in [Owners -> Nat]
  BY <1>1, Numbers DEF DataTypes, ReqRec
<1>3. debits' = [debits EXCEPT ![k] =
          [o \in Owners |-> IF debits[k][o] # 0 THEN debits[k][o] ELSE req[w].legs[o]]]
  BY DEF PostLegs
<1>4. ~Redebits(k, req[w].legs)
  BY DEF PostLegs, Slip
<1>5. CASE debits[k] # Nobody
  <2>1. \A o \in Owners : debits[k][o] = 0 => req[w].legs[o] = 0
    BY <1>4, <1>5 DEF Redebits
  <2>2. [o \in Owners |-> IF debits[k][o] # 0 THEN debits[k][o] ELSE req[w].legs[o]] = debits[k]
    BY <1>1, <1>2, <2>1
  <2>3. debits' = debits
    BY <1>1, <1>2, <1>3, <2>2
  <2> QED BY <1>2, <1>5, <2>3
<1>6. CASE debits[k] = Nobody
  <2>1. [o \in Owners |-> IF debits[k][o] # 0 THEN debits[k][o] ELSE req[w].legs[o]] = req[w].legs
    BY <1>2, <1>6 DEF Nobody
  <2>2. debits' = [debits EXCEPT ![k] = req[w].legs]
    BY <1>3, <2>1
  <2>3. debits'[k] = req[w].legs /\ \A j \in Keys \ {k} : debits'[j] = debits[j]
    BY <1>1, <1>2, <2>2
  <2>4. ASSUME req[w].legs = Nobody PROVE debits' = debits
    <3>1. debits' = [debits EXCEPT ![k] = debits[k]]
      BY <1>6, <2>2, <2>4
    <3> QED BY <1>1, <1>2, <3>1
  <2> QED BY <1>2, <1>6, <2>3, <2>4
<1> QED BY <1>5, <1>6

LEMMA PostDebt ==
    ASSUME BaseInv, OrderInv, DebtInv, NEW w \in Workers, PostLegs(w), "redebit" \notin slips'
    PROVE  DebtInv'
<1>1. PICK k : k = req[w].key
  OBVIOUS
<1>2. /\ req[w].pc = "post" /\ UNCHANGED <<intents, rows>> /\ req \in [Workers -> ReqRec]
      /\ k \in Keys /\ rows[k].status # "none" /\ At(w, k) /\ DebitType
  BY <1>1, Working, DebitsTyped DEF PostLegs, At
<1>3. /\ req'[w].pc \in {"apply", "coupon", "move"} /\ Kept(w)
      /\ \A v \in Workers \ {w} : req'[v] = req[v]
  <2>1. \E pc \in {"apply", "coupon", "move"} : Goto(w, pc) /\ pc \in Pcs
    BY DEF PostLegs, Pcs
  <2> QED BY <1>2, <2>1, GotoFacts
<1>4. \A v \in Workers, j \in Keys : At(v, j)' => At(v, j) /\ j = k
  <2>1. ASSUME NEW v \in Workers, NEW j \in Keys, At(v, j)' PROVE At(v, j) /\ j = k
    <3>1. At(v, j)
      BY <1>2, <1>3, <2>1 DEF At, Kept
    <3> QED BY <1>1, <1>2, <3>1 DEF At, OrderInv, OneKey
  <2> QED BY <2>1
<1>5. \A j \in Keys : /\ Counts(j)' => Counts(j)
                      /\ Partial(j)' <=> Partial(j)
                      /\ rows'[j] = rows[j]
  BY <1>2, <1>4 DEF Counts, At, Partial, IsFull
<1>6. /\ req[w].legs \in [Owners -> Nat]
      /\ \/ debits[k] # Nobody /\ debits' = debits
         \/ /\ debits[k] = Nobody /\ debits'[k] = req[w].legs
            /\ \A j \in Keys \ {k} : debits'[j] = debits[j]
            /\ req[w].legs = Nobody => debits' = debits
  BY <1>1, PostOnce
<1>7. /\ \A j \in Keys \ {k} : debits'[j] = debits[j]
      /\ debits'[k] = Nobody => debits' = debits
  BY <1>6
<1>8. WithinCredit'
  <2>1. CASE debits' = debits
    BY <1>2, <2>1, SameCredit DEF DebtInv
  <2>2. CASE debits[k] = Nobody
    <3>1. ASSUME NEW o \in Owners PROVE Reversed(o)' <= Credits[o]
      <4>1. /\ req[w].legs[o] \in Nat /\ Reversed(o) \in Nat
            /\ Reversed(o)' = IF debits[k][o] # 0 THEN Reversed(o) ELSE Reversed(o) + req[w].legs[o]
        BY <1>1, PostFacts
      <4>2. debits[k][o] = 0
        BY <2>2 DEF Nobody
      <4>3. /\ Remaining(o) = IF Credits[o] > Reversed(o) THEN Credits[o] - Reversed(o) ELSE 0
            /\ Remaining(o) \in Nat /\ Credits[o] \in Nat
        BY <1>2, RemainingFacts, OwnerFacts, Numbers
      <4>4. Reversed(o) <= Credits[o] /\ req[w].legs[o] <= Remaining(o)
        BY <1>2, <2>2 DEF DebtInv, WithinCredit, LegShares
      <4> QED BY <4>1, <4>2, <4>3, <4>4
    <3> QED BY <3>1 DEF WithinCredit
  <2> QED BY <1>6, <2>1, <2>2
<1>9. Partial(k) => SumOver(debits'[k]) = rows[k].share
  <2>1. CASE debits[k] # Nobody /\ debits' = debits
    BY <1>2, <2>1 DEF DebtInv, PostedShares
  <2>2. CASE debits[k] = Nobody /\ debits'[k] = req[w].legs
    BY <1>2, <2>2 DEF DebtInv, LegShares
  <2> QED BY <1>6, <2>1, <2>2
<1>10. RowShares'
  <2>1. ASSUME NEW j \in Keys, Counts(j)', Partial(j)', rows'[j].status # "none",
               debits'[j] = Nobody
        PROVE  rows'[j].share <= RemainingCredit'
    <3>1. CASE debits' = debits
      <4>1. RemainingCredit' = RemainingCredit
        BY <1>2, <3>1, SameCredit
      <4> QED BY <1>5, <2>1, <3>1, <4>1 DEF DebtInv, RowShares
    <3>2. CASE j # k
      <4>1. rows'[j].share = 0
        BY <1>2, <1>5, <1>7, <2>1, <3>2 DEF DebtInv, OtherShares
      <4>2. RemainingCredit' \in Nat
        <5> DEFINE f == [o \in Owners |-> Remaining(o)']
        <5>1. f \in [Owners -> Nat] /\ IsFiniteSet(Owners)
          BY PostLowers, OwnerFacts
        <5>2. RemainingCredit' = SumOver(f)
          BY DEF RemainingCredit
        <5> HIDE DEF f
        <5> QED BY <5>1, <5>2, SumNat
      <4> QED BY <4>1, <4>2
    <3> QED BY <1>7, <2>1, <3>1, <3>2
  <2> QED BY <2>1 DEF RowShares
<1>11. NewShares'
  BY <1>2, <1>4 DEF NewShares
<1>12. LegShares'
  <2>1. ASSUME NEW v \in Workers, NEW j \in Keys, At(v, j)', req'[v].pc = "post",
               debits'[j] = Nobody
        PROVE  /\ \A o \in Owners : req'[v].legs[o] <= Remaining(o)'
               /\ Partial(j)' => SumOver(req'[v].legs) = rows'[j].share
    <3>1. v # w
      BY <1>3, <2>1
    <3>2. req'[v] = req[v] /\ At(v, j) /\ j = k
      BY <1>3, <1>4, <2>1, <3>1
    <3>3. debits' = debits /\ \A o \in Owners : Remaining(o)' = Remaining(o)
      BY <1>2, <1>7, <2>1, <3>2, SameCredit
    <3>4. /\ \A o \in Owners : req[v].legs[o] <= Remaining(o)
          /\ Partial(j) => SumOver(req[v].legs) = rows[j].share
      BY <2>1, <3>2, <3>3 DEF DebtInv, LegShares
    <3> QED BY <1>5, <3>2, <3>3, <3>4
  <2> QED BY <2>1 DEF LegShares
<1>13. OtherShares'
  <2>1. ASSUME NEW v \in Workers, NEW i \in Keys, NEW j \in Keys,
               At(v, i)', i # j, Counts(j)', Partial(j)', debits'[j] = Nobody
        PROVE  rows'[j].share = 0
    <3>1. At(v, i) /\ j # k
      BY <1>4, <2>1
    <3> QED BY <1>5, <1>7, <2>1, <3>1 DEF DebtInv, OtherShares
  <2> QED BY <2>1 DEF OtherShares
<1>14. PostedShares'
  <2>1. ASSUME NEW v \in Workers, NEW j \in Keys, At(v, j)',
               req'[v].pc \in {"move", "coupon", "apply"}, Partial(j)'
        PROVE  SumOver(debits'[j]) = rows'[j].share
    BY <1>4, <1>5, <1>9, <2>1
  <2>2. ASSUME NEW j \in Keys, Partial(j)', debits'[j] # Nobody
        PROVE  SumOver(debits'[j]) = rows'[j].share
    <3>1. CASE j = k
      BY <1>5, <1>9, <2>2, <3>1
    <3>2. CASE j # k
      BY <1>5, <1>7, <2>2, <3>2 DEF DebtInv, PostedShares
    <3> QED BY <3>1, <3>2
  <2>3. ASSUME NEW j \in Keys, rows'[j].status = "none" PROVE debits'[j] = Nobody
    <3>1. j # k
      BY <1>2, <1>5, <2>3
    <3> QED BY <1>5, <1>7, <2>3, <3>1 DEF DebtInv, PostedShares
  <2> QED BY <2>1, <2>2, <2>3 DEF PostedShares
<1> QED BY <1>8, <1>10, <1>11, <1>12, <1>13, <1>14 DEF DebtInv

LEMMA DebtInit == Init => DebtInv
<1> SUFFICES ASSUME Init PROVE DebtInv
  OBVIOUS
<1>1. /\ \A w \in Workers : req[w].pc = "idle"
      /\ \A k \in Keys : rows[k].status = "none" /\ debits[k] = Nobody
  BY DEF Init, NoReq, NoRow
<1>2. ASSUME NEW o \in Owners PROVE Reversed(o) <= Credits[o]
  <2> DEFINE f == [k \in Keys |-> debits[k][o]]
  <2>1. f \in [Keys -> Int] /\ \A k \in Keys : f[k] = 0
    BY <1>1 DEF Nobody
  <2>2. Reversed(o) = SumOver(f)
    BY DEF Reversed
  <2> HIDE DEF f
  <2>3. Reversed(o) = 0
    BY <2>1, <2>2, Numbers, SumZero
  <2>4. Credits[o] \in Nat
    BY OwnerFacts, Numbers
  <2> QED BY <2>3, <2>4
<1>3. RowShares /\ NewShares /\ LegShares /\ OtherShares /\ PostedShares
  BY <1>1 DEF RowShares, NewShares, LegShares, OtherShares, PostedShares, At
<1> QED BY <1>2, <1>3 DEF DebtInv, WithinCredit

LEMMA DebtStep ==
    ASSUME BaseInv, OrderInv, DebtInv, NoOverlap, "redebit" \notin slips', [Next]_vars
    PROVE  DebtInv'
<1>1. ASSUME NEW w \in Workers, NEW k \in Keys, Submit(w, k) PROVE DebtInv'
  BY <1>1, SubmitDebt
<1>2. ASSUME NEW w \in Workers, InsertRow(w) \/ ReadLegs(w) \/ PostLegs(w) PROVE DebtInv'
  BY <1>2, InsertDebt, ReadDebt, PostDebt
<1>3. ASSUME NEW w \in Workers,
             \/ callGateway(w) \/ RecordVendor(w) \/ RecordFailure(w) \/ creditWallet(w)
             \/ MarkProcessed(w) \/ MoveBooking(w) \/ ReleaseCoupon(w) \/ applyRefund(w) \/ Die(w)
      PROVE  DebtInv'
  <2>1. LegsQuiet
    BY <1>3, StepLegs
  <2>2. ReqTame /\ RowTame
    BY <1>3, CallTame, RecordTame, FailTame, CreditTame, MarkTame, MoveTame, CouponTame,
       ApplyTame, DieTame
  <2> QED BY <2>1, <2>2, KeptDebt
<1>4. ASSUME NEW k \in Keys, WebhookConfirms(k) PROVE DebtInv'
  <2>1. ReqTame /\ RowTame
    BY <1>4, WebhookTame
  <2>2. LegsQuiet
    BY <1>4 DEF LegsQuiet, WebhookConfirms
  <2> QED BY <2>1, <2>2, KeptDebt
<1>5. CASE DisputeMoves
  <2>1. ReqTame /\ RowTame
    BY <1>5, DisputeTame
  <2>2. LegsQuiet
    BY <1>5 DEF LegsQuiet, DisputeMoves
  <2> QED BY <2>1, <2>2, KeptDebt
<1>6. CASE UNCHANGED vars
  <2>1. ReqTame /\ RowTame
    BY <1>6, SameTame, RowsSame DEF vars, BaseInv, ReqTypes
  <2>2. LegsQuiet
    BY <1>6 DEF LegsQuiet, vars
  <2> QED BY <2>1, <2>2, KeptDebt
<1> QED BY <1>1, <1>2, <1>3, <1>4, <1>5, <1>6 DEF Next, Step

DebtSound == slips = {} => DebtInv

LEMMA DebtSoundStep == SoundInv /\ DebtSound /\ Grow /\ [Next]_vars => DebtSound'
<1> SUFFICES ASSUME SoundInv, DebtSound, Grow, [Next]_vars, slips' = {} PROVE DebtInv'
  BY DEF DebtSound
<1>1. slips = {}
  BY DEF Grow
<1>2. BaseInv /\ OrderInv /\ DebtInv /\ NoOverlap
  BY <1>1 DEF SoundInv, DebtSound, NoOverlap
<1> QED BY <1>2, DebtStep

\* No owner, driver or fleet, gives back more than the trip credited, over all
\* refunds, retries and resumes, whatever dies, is refused or unanswered and
\* however the credits are distributed, until two refunds overlap or a resume
\* posts a leg that the first pass had rounded to nothing.
THEOREM OwnersOweNoMore == Spec => []ReversedWithinCredit
<1>1. DebtSound => ReversedWithinCredit
  BY DEF DebtSound, DebtInv, WithinCredit, ReversedWithinCredit
<1>2. Init => DebtSound
  BY DebtInit DEF DebtSound
<1> QED BY <1>1, <1>2, SoundInit, SoundStep, DebtSoundStep, PTL DEF Spec

-----------------------------------------------------------------------------
(* A request that reports success.                                         *)

\* A full refund reaches its last step with the coupon released.
CouponGone ==
    \A w \in Workers, k \in Keys : At(w, k) /\ IsFull(k) =>
        /\ req[w].pc = "move" /\ req[w].resumed => ~coupon
        /\ req[w].pc = "apply" => ~coupon

\* Steps that bring no full refund past its coupon.
CouponQuiet(w) ==
    /\ UNCHANGED intents /\ coupon' \in {coupon, FALSE}
    /\ \A v \in Workers \ {w} : req'[v] = req[v]
    /\ \/ req'[w].pc \notin {"move", "apply"}
       \/ ~coupon'
       \/ Kept(w) /\ req'[w].pc = "move" /\ ~req[w].resumed
       \/ Kept(w) /\ req[w].pc = "move" /\ req[w].resumed
       \/ Kept(w) /\ ~IsFull(req[w].key)

LEMMA KeptCoupon ==
    ASSUME CouponGone, NEW w \in Workers, CouponQuiet(w) PROVE CouponGone'
<1> SUFFICES ASSUME NEW v \in Workers, NEW k \in Keys, At(v, k)', IsFull(k)',
                    \/ req'[v].pc = "move" /\ req'[v].resumed
                    \/ req'[v].pc = "apply"
             PROVE  ~coupon'
  BY DEF CouponGone
<1>1. IsFull(k) /\ coupon' \in {coupon, FALSE}
  BY DEF CouponQuiet, IsFull
<1>2. CASE v # w
  <2>1. req'[v] = req[v] /\ At(v, k)
    BY <1>2 DEF CouponQuiet, At
  <2> QED BY <1>1, <2>1 DEF CouponGone
<1>3. CASE v = w
  <2>1. CASE Kept(w) /\ req[w].pc = "move" /\ req[w].resumed
    <3>1. At(w, k)
      BY <1>3, <2>1 DEF At, Kept
    <3> QED BY <1>1, <2>1, <3>1 DEF CouponGone
  <2>2. CASE Kept(w) /\ req'[w].pc = "move" /\ ~req[w].resumed
    BY <1>3, <2>2 DEF Kept
  <2>3. CASE Kept(w) /\ ~IsFull(req[w].key)
    BY <1>1, <1>3, <2>3 DEF Kept, At
  <2> QED BY <1>3, <2>1, <2>2, <2>3 DEF CouponQuiet
<1> QED BY <1>2, <1>3

LEMMA CouponStep == BaseInv /\ CouponGone /\ [Next]_vars => CouponGone'
<1> SUFFICES ASSUME BaseInv, CouponGone, [Next]_vars PROVE CouponGone'
  OBVIOUS
<1>0. req \in [Workers -> ReqRec]
  BY DEF BaseInv, ReqTypes
<1>1. ASSUME NEW w \in Workers, NEW k \in Keys, Submit(w, k) PROVE CouponQuiet(w)
  <2>1. /\ UNCHANGED <<coupon, intents>> /\ \A v \in Workers \ {w} : req'[v] = req[v]
        /\ \/ req'[w].pc = "idle"
           \/ ResumeOf(req'[w], k, Landing(k))
           \/ FreshOf(req'[w], k, Landing(k))
    BY <1>1, SubmitTypes
  <2> QED BY <2>1 DEF CouponQuiet, ResumeOf, FreshOf
<1>2. ASSUME NEW w \in Workers, InsertRow(w) PROVE CouponQuiet(w)
  <2>1. PICK k : k = req[w].key
    OBVIOUS
  <2>2. /\ UNCHANGED <<coupon, intents>> /\ \A v \in Workers \ {w} : req'[v] = req[v]
        /\ \/ req'[w].pc = "idle"
           \/ ResumeOf(req'[w], k, req[w].to)
           \/ req'[w].pc = "gateway"
    BY <1>2, <2>1, InsertFacts
  <2> QED BY <2>2 DEF CouponQuiet, ResumeOf
<1>3. ASSUME NEW w \in Workers, ReadLegs(w) PROVE CouponQuiet(w)
  BY <1>3, ReadTame DEF CouponQuiet, ReadLegs
<1>4. ASSUME NEW w \in Workers, req' = [req EXCEPT ![w] = NoReq], UNCHANGED <<coupon, intents>>
      PROVE  CouponQuiet(w)
  BY <1>0, <1>4, EndFacts DEF CouponQuiet
<1>5. ASSUME NEW w \in Workers, NEW pc \in Pcs, Goto(w, pc), UNCHANGED intents,
             coupon' \in {coupon, FALSE},
             \/ pc \notin {"move", "apply"}
             \/ ~coupon'
             \/ pc = "move" /\ ~req[w].resumed
             \/ req[w].pc = "move" /\ req[w].resumed
             \/ ~IsFull(req[w].key)
      PROVE  CouponQuiet(w)
  <2>1. req'[w].pc = pc /\ Kept(w) /\ \A v \in Workers \ {w} : req'[v] = req[v]
    BY <1>0, <1>5, GotoFacts
  <2> QED BY <1>5, <2>1 DEF CouponQuiet
<1>6. ASSUME NEW w \in Workers,
             callGateway(w) \/ RecordVendor(w) \/ creditWallet(w) \/ MarkProcessed(w)
      PROVE  CouponQuiet(w)
  <2>1. /\ UNCHANGED <<coupon, intents>>
        /\ \E pc \in {"wallet", "fail", "record", "processed", "read"} : Goto(w, pc) /\ pc \in Pcs
    BY <1>6 DEF callGateway, RecordVendor, creditWallet, MarkProcessed, Pcs
  <2> QED BY <1>5, <2>1
<1>7. ASSUME NEW w \in Workers, RecordFailure(w) \/ applyRefund(w) \/ Die(w) PROVE CouponQuiet(w)
  BY <1>4, <1>7 DEF RecordFailure, applyRefund, Die
<1>8. ASSUME NEW w \in Workers, PostLegs(w) PROVE CouponQuiet(w)
  <2>1. PICK k : k = req[w].key
    OBVIOUS
  <2>2. /\ UNCHANGED <<coupon, intents>> /\ {"apply", "coupon", "move"} \subseteq Pcs
        /\ Goto(w, IF intents[k].kind = "partial" THEN "apply"
                   ELSE IF req[w].resumed THEN "coupon" ELSE "move")
    BY <1>8, <2>1 DEF PostLegs, Pcs
  <2>3. CASE intents[k].kind = "partial"
    <3>1. Goto(w, "apply") /\ ~IsFull(req[w].key)
      BY <2>1, <2>2, <2>3 DEF IsFull
    <3> QED BY <1>5, <2>2, <3>1
  <2>4. CASE intents[k].kind # "partial" /\ req[w].resumed
    BY <1>5, <2>2, <2>4
  <2>5. CASE intents[k].kind # "partial" /\ ~req[w].resumed
    BY <1>5, <2>2, <2>5
  <2> QED BY <2>3, <2>4, <2>5
<1>9. ASSUME NEW w \in Workers, MoveBooking(w) PROVE CouponQuiet(w)
  <2>1. /\ UNCHANGED <<coupon, intents>> /\ {"apply", "coupon"} \subseteq Pcs /\ req[w].pc = "move"
        /\ \/ req' = [req EXCEPT ![w] = NoReq]
           \/ Goto(w, IF req[w].resumed THEN "apply" ELSE "coupon")
    BY <1>9 DEF MoveBooking, Pcs
  <2>2. CASE req' = [req EXCEPT ![w] = NoReq]
    BY <1>4, <2>1, <2>2
  <2>3. CASE Goto(w, "apply") /\ req[w].resumed
    BY <1>5, <2>1, <2>3
  <2>4. CASE Goto(w, "coupon")
    BY <1>5, <2>1, <2>4
  <2> QED BY <2>1, <2>2, <2>3, <2>4
<1>10. ASSUME NEW w \in Workers, ReleaseCoupon(w) PROVE CouponQuiet(w)
  <2>1. /\ UNCHANGED intents /\ coupon' = FALSE
        /\ \E pc \in {"move", "apply"} : Goto(w, pc) /\ pc \in Pcs
    BY <1>10 DEF ReleaseCoupon, Pcs
  <2> QED BY <1>5, <2>1
<1>11. ASSUME UNCHANGED <<coupon, intents, req>> PROVE CouponGone'
  BY <1>11 DEF CouponGone, At, IsFull
<1>12. (\E k \in Keys : WebhookConfirms(k)) \/ DisputeMoves \/ UNCHANGED vars => CouponGone'
  BY <1>11 DEF WebhookConfirms, DisputeMoves, vars
<1>13. (\E w \in Workers : CouponQuiet(w)) => CouponGone'
  BY KeptCoupon
<1>14. (\E w \in Workers : Step(w) \/ Die(w)) => \E w \in Workers : CouponQuiet(w)
  <2> SUFFICES ASSUME NEW w \in Workers, Step(w) \/ Die(w) PROVE CouponQuiet(w)
    OBVIOUS
  <2> QED BY <1>2, <1>3, <1>6, <1>7, <1>8, <1>9, <1>10 DEF Step
<1>15. (\E w \in Workers, k \in Keys : Submit(w, k)) => \E w \in Workers : CouponQuiet(w)
  BY <1>1
<1> QED BY <1>12, <1>13, <1>14, <1>15 DEF Next

\* A request about to report success has moved all its row promises: the
\* vendor's part (or the resume found a stray payment row), the wallet's part,
\* the credits and the coupon of a full refund, whatever overlapped, died or
\* was refused before; and the share of a partial one, until refunds overlap
\* or a resume posts a leg late.
THEOREM SuccessfulRefundsMoved == Spec => []SuccessMeansMoved
<1>1. SoundInv /\ MoneyInv /\ FullLegs /\ CouponGone /\ DebtSound => SuccessMeansMoved
  <2> SUFFICES ASSUME SoundInv, MoneyInv, FullLegs, CouponGone, DebtSound,
                      NEW w \in Workers, req[w].pc = "apply", NEW k, k = req[w].key
               PROVE  /\ StrayRow \/ vendor[k] = ToGateway(k)
                      /\ credited[k] = ToWallet(k)
                      /\ intents[k].kind = "full" => RemainingCredit = 0 /\ ~coupon
                      /\ intents[k].kind = "partial" /\ slips = {} =>
                             SumOver(debits[k]) = rows[k].share
    BY DEF SuccessMeansMoved
  <2>1. k \in Keys /\ ReqAt(w, k) /\ At(w, k)
    BY AtWork DEF SoundInv, At
  <2>2. (StrayRow \/ vendor[k] = ToGateway(k)) /\ credited[k] = ToWallet(k)
    BY <2>1 DEF ReqAt, AfterVendor, AfterWallet
  <2>3. ASSUME intents[k].kind = "full" PROVE RemainingCredit = 0 /\ ~coupon
    <3>1. IsFull(k)
      BY <2>3 DEF IsFull
    <3>2. NothingLeft /\ ~coupon
      BY <2>1, <3>1 DEF FullLegs, CouponGone
    <3> QED BY <3>2, NothingRemains
  <2>4. ASSUME intents[k].kind = "partial", slips = {} PROVE SumOver(debits[k]) = rows[k].share
    <3>1. PostedShares /\ Partial(k)
      BY <2>4 DEF DebtSound, DebtInv, Partial, IsFull
    <3> QED BY <2>1, <3>1 DEF PostedShares
  <2> QED BY <2>2, <2>3, <2>4
<1>2. Init => FullLegs /\ CouponGone /\ DebtSound
  <2>1. Init => CouponGone
    BY DEF Init, NoReq, CouponGone, At
  <2> QED BY <2>1, FullInit, DebtInit DEF DebtSound
<1>3. SoundInv /\ [Next]_vars =>
          /\ MoneyInv => MoneyInv'
          /\ FullLegs => FullLegs'
          /\ CouponGone => CouponGone'
  BY MoneyStep, FullLegsStep, CouponStep DEF SoundInv
<1> QED BY <1>1, <1>2, <1>3, SoundInit, SoundStep, MoneyInit, DebtSoundStep, PTL DEF Spec

=============================================================================
