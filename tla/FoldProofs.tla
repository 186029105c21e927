----------------------------- MODULE FoldProofs -----------------------------
(***************************************************************************)
(* Facts about the folds of the community modules, for every finite set    *)
(* and every sequence: that the recursive function behind a fold exists,   *)
(* and what a sum over a set or a prefix is.  Induction over the natural   *)
(* numbers is stated over a set of numbers, not over a predicate.          *)
(***************************************************************************)
EXTENDS Integers, SequencesExt, FiniteSetTheorems, SequenceTheorems, WellFoundedInduction, TLAPS

(* A non-empty set of natural numbers has a least element.                 *)
LEMMA LeastNatural ==
  ASSUME NEW T, T \subseteq Nat, T # {}
  PROVE  \E m \in T : \A n \in T : m <= n
  <1> DEFINE R == OpToRel(<, Nat)
  <1>1. IsWellFoundedOn(R, Nat)
    BY NatLessThanWellFounded
  <1>2. \A x, y \in Nat : x < y => <<x, y>> \in R
    BY DEF OpToRel
  <1> HIDE DEF R
  <1>3. PICK m \in T : \A n \in T : ~(<<n, m>> \in R)
    BY <1>1, WFMin, Zenon
  <1>4. ASSUME NEW n \in T PROVE m <= n
    <2>1. n \in Nat /\ m \in Nat
      OBVIOUS
    <2>2. ~(n < m)
      BY <1>2, <1>3, <2>1
    <2>3. QED
      BY <2>1, <2>2
  <1>5. QED
    BY <1>4

(* Induction.                                                              *)
LEMMA SetInduction ==
  ASSUME NEW T, 0 \in T, \A n \in Nat : n \in T => n + 1 \in T
  PROVE  \A n \in Nat : n \in T
  <1> SUFFICES ASSUME NEW k \in Nat, k \notin T
               PROVE  FALSE
    OBVIOUS
  <1> DEFINE F == {n \in Nat : n \notin T}
  <1>1. F \subseteq Nat /\ F # {}
    OBVIOUS
  <1>2. PICK m \in F : \A n \in F : m <= n
    BY <1>1, LeastNatural
  <1>3. m \in Nat /\ m # 0 /\ m \notin T
    OBVIOUS
  <1>4. m - 1 \in Nat /\ m - 1 \in T
    BY <1>2, <1>3
  <1>5. (m - 1) + 1 = m
    BY <1>3
  <1>6. QED
    BY <1>3, <1>4, <1>5

(* Induction up to a bound.                                                *)
LEMMA BoundedInduction ==
  ASSUME NEW N \in Nat, NEW T, 0 \in T, \A n \in Nat : n < N /\ n \in T => n + 1 \in T
  PROVE  \A n \in 0 .. N : n \in T
  <1> DEFINE U == T \cup {n \in Nat : n > N}
  <1>1. 0 \in U
    OBVIOUS
  <1>2. ASSUME NEW n \in Nat, n \in U
        PROVE  n + 1 \in U
    <2>1. CASE n < N
      <3>1. n \in T
        BY <1>2, <2>1
      <3>2. QED
        BY <2>1, <3>1
    <2>2. CASE ~(n < N)
      BY <2>2
    <2>3. QED
      BY <2>1, <2>2
  <1> HIDE DEF U
  <1>3. \A n \in Nat : n \in U
    BY <1>1, <1>2, SetInduction
  <1>4. QED
    BY <1>3 DEF U

-----------------------------------------------------------------------------
LEMMA OneLess ==
  ASSUME NEW s, NEW x \in s, IsFiniteSet(s)
  PROVE  Cardinality(s \ {x}) = Cardinality(s) - 1
  BY FS_RemoveElement

(* The recursive function behind a fold over a finite set exists: c picks  *)
(* the element to take next, G combines it with what the others give.      *)
Picks(c, S) == \A s \in SUBSET S : s # {} => c[s] \in s
Combines(G, S, V) == \A x \in S, v \in V : G[<<x, v>>] \in V
FoldRule(it, S, V, base, c, G) ==
    /\ it \in [SUBSET S -> V]
    /\ \A s \in SUBSET S :
          it[s] = IF s = {} THEN base ELSE G[<<c[s], it[s \ {c[s]}]>>]

LEMMA FoldExists ==
  ASSUME NEW S, IsFiniteSet(S), NEW V, NEW base, base \in V, NEW c, NEW G,
         Picks(c, S), Combines(G, S, V)
  PROVE  \E it : FoldRule(it, S, V, base, c, G)
  <1> DEFINE Next(it, s) == IF s = {} THEN base ELSE G[<<c[s], it[s \ {c[s]}]>>]
             Upto(n) == {s \in SUBSET S : Cardinality(s) <= n}
             Good(it, n) == \A s \in Upto(n) : it[s] = Next(it, s)
             T == {n \in Nat : \E it \in [SUBSET S -> V] : Good(it, n)}
  <1>1. ASSUME NEW it \in [SUBSET S -> V], NEW s \in SUBSET S
        PROVE  Next(it, s) \in V
    <2>1. CASE s = {}
      BY <2>1
    <2>2. CASE s # {}
      <3>1. c[s] \in S /\ s \ {c[s]} \in SUBSET S
        BY <2>2 DEF Picks
      <3>2. it[s \ {c[s]}] \in V
        BY <3>1
      <3>3. QED
        BY <2>2, <3>1, <3>2 DEF Combines
    <2>3. QED
      BY <2>1, <2>2
  <1>2. \A s \in SUBSET S : IsFiniteSet(s) /\ Cardinality(s) \in Nat
    BY FS_Subset, FS_CardinalityType
  <1>3. 0 \in T
    <2> DEFINE it == [s \in SUBSET S |-> base]
    <2>1. it \in [SUBSET S -> V]
      OBVIOUS
    <2>2. ASSUME NEW s \in Upto(0) PROVE s = {}
      <3>1. IsFiniteSet(s) /\ Cardinality(s) \in Nat /\ Cardinality(s) <= 0
        BY <1>2
      <3>2. Cardinality(s) = 0
        BY <3>1
      <3>3. QED
        BY <3>1, <3>2, FS_EmptySet, Zenon
    <2>3. Good(it, 0)
      BY <2>2
    <2>4. QED
      BY <2>1, <2>3
  <1>4. ASSUME NEW n \in Nat, n \in T
        PROVE  n + 1 \in T
    <2>1. PICK it \in [SUBSET S -> V] : Good(it, n)
      BY <1>4
    <2> DEFINE more == [s \in SUBSET S |-> Next(it, s)]
    <2>2. more \in [SUBSET S -> V]
      BY <1>1
    <2>3. ASSUME NEW s \in Upto(n + 1)
          PROVE  more[s] = Next(more, s)
      <3>1. more[s] = Next(it, s)
        OBVIOUS
      <3>2. CASE s = {}
        BY <3>1, <3>2
      <3>3. CASE s # {}
        <4> DEFINE r == s \ {c[s]}
        <4>1. r \in SUBSET S /\ IsFiniteSet(s) /\ c[s] \in s
          BY <1>2, <3>3 DEF Picks
        <4>2. Cardinality(r) = Cardinality(s) - 1
          BY <4>1, OneLess, Zenon
        <4>3. r \in Upto(n)
          <5>1. Cardinality(s) <= n + 1 /\ Cardinality(s) \in Nat
            BY <1>2
          <5>2. Cardinality(r) <= n
            BY <4>2, <5>1
          <5>3. QED
            BY <4>1, <5>2
        <4>4. it[r] = more[r]
          BY <2>1, <4>1, <4>3
        <4> HIDE DEF more, r
        <4>5. QED
          BY <3>1, <3>3, <4>4 DEF r
      <3>4. QED
        BY <3>2, <3>3
    <2> HIDE DEF more
    <2>4. Good(more, n + 1)
      BY <2>3
    <2>5. n + 1 \in Nat
      OBVIOUS
    <2> HIDE DEF Good
    <2>6. QED
      BY <2>2, <2>4, <2>5
  <1> HIDE DEF T
  <1>5. Cardinality(S) \in T
    BY <1>2, <1>3, <1>4, SetInduction
  <1>6. PICK it \in [SUBSET S -> V] : Good(it, Cardinality(S))
    BY <1>5 DEF T
  <1>7. \A s \in SUBSET S : s \in Upto(Cardinality(S))
    BY FS_Subset
  <1>8. QED
    BY <1>6, <1>7 DEF FoldRule

-----------------------------------------------------------------------------
(* Sums over finite sets of indices, in whatever order they are taken.     *)

Choice(s) == CHOOSE x \in s : TRUE
SumRule(it, f, S) ==
    it = [s \in SUBSET S |-> IF s = {} THEN 0 ELSE f[Choice(s)] + it[s \ {Choice(s)}]]

LEMMA ChoiceIsIn ==
  ASSUME NEW s, s # {}
  PROVE  Choice(s) \in s
  BY DEF Choice

LEMMA SumIsFold ==
  ASSUME NEW S, IsFiniteSet(S), NEW f, \A x \in S : f[x] \in Int
  PROVE  \E it : SumRule(it, f, S) /\ SumFunctionOnSet(f, S) = it[S]
  <1> DEFINE c == [s \in SUBSET S |-> Choice(s)]
             G == [p \in S \X Int |-> f[p[1]] + p[2]]
  <1>1. Picks(c, S)
    BY ChoiceIsIn DEF Picks
  <1>2. \A x \in S, v \in Int : G[<<x, v>>] = f[x] + v
    OBVIOUS
  <1>3. \A s \in SUBSET S : c[s] = Choice(s)
    OBVIOUS
  <1> HIDE DEF c, G
  <1>4. Combines(G, S, Int)
    <2> SUFFICES ASSUME NEW x \in S, NEW v \in Int PROVE G[<<x, v>>] \in Int
      BY DEF Combines
    <2>1. f[x] \in Int /\ G[<<x, v>>] = f[x] + v
      BY <1>2
    <2>2. QED
      BY <2>1
  <1>5. PICK it : FoldRule(it, S, Int, 0, c, G)
    <2>1. 0 \in Int
      OBVIOUS
    <2>2. QED
      BY <1>1, <1>4, <2>1, FoldExists
  <1>6. ASSUME NEW s \in SUBSET S
        PROVE  it[s] = IF s = {} THEN 0 ELSE f[Choice(s)] + it[s \ {Choice(s)}]
    <2>1. CASE s = {}
      BY <1>5, <2>1 DEF FoldRule
    <2>2. CASE s # {}
      <3>1. c[s] \in S /\ s \ {c[s]} \in SUBSET S
        BY <1>1, <2>2 DEF Picks
      <3>2. it[s \ {c[s]}] \in Int
        BY <1>5, <3>1 DEF FoldRule
      <3>3. G[<<c[s], it[s \ {c[s]}]>>] = f[c[s]] + it[s \ {c[s]}]
        BY <1>2, <3>1, <3>2
      <3>4. QED
        BY <1>3, <1>5, <2>2, <3>3 DEF FoldRule
    <2>3. QED
      BY <2>1, <2>2
  <1>7. SumRule(it, f, S)
    BY <1>5, <1>6 DEF SumRule, FoldRule
  <1>8. SumFunctionOnSet(f, S) = (CHOOSE g : SumRule(g, f, S))[S]
    BY DEF SumFunctionOnSet, FoldFunctionOnSet, MapThenFoldSet, SumRule, Choice
  <1>9. QED
    BY <1>7, <1>8

(* Induction over the subsets of a finite set.                             *)
LEMMA SubsetInduction ==
  ASSUME NEW S, IsFiniteSet(S), NEW P, {} \in P,
         ASSUME NEW s \in SUBSET S, s # {}, \A x \in s : s \ {x} \in P
         PROVE  s \in P
  PROVE  \A s \in SUBSET S : s \in P
  <1> DEFINE T == {n \in Nat : \A s \in SUBSET S : Cardinality(s) = n => s \in P}
  <1>1. \A s \in SUBSET S : IsFiniteSet(s) /\ Cardinality(s) \in Nat
    BY FS_Subset, FS_CardinalityType
  <1>2. 0 \in T
    <2>1. \A s \in SUBSET S : Cardinality(s) = 0 => s = {}
      BY <1>1, FS_EmptySet
    <2>2. QED
      BY <2>1
  <1>3. ASSUME NEW n \in Nat, n \in T
        PROVE  n + 1 \in T
    <2>1. ASSUME NEW s \in SUBSET S, Cardinality(s) = n + 1
          PROVE  s \in P
      <3>1. s # {}
        BY <2>1, FS_EmptySet
      <3>2. ASSUME NEW x \in s PROVE s \ {x} \in P
        <4>1. IsFiniteSet(s) /\ Cardinality(s) \in Nat
          BY <1>1
        <4>2. Cardinality(s \ {x}) = Cardinality(s) - 1
          BY <4>1, OneLess, Zenon
        <4>3. Cardinality(s \ {x}) = n /\ s \ {x} \in SUBSET S
          BY <2>1, <4>1, <4>2
        <4>4. QED
          BY <1>3, <4>3
      <3>3. QED
        BY <3>1, <3>2
    <2>2. QED
      BY <2>1
  <1> HIDE DEF T
  <1>4. \A n \in Nat : n \in T
    BY <1>2, <1>3, SetInduction
  <1>5. QED
    BY <1>1, <1>4 DEF T

Agree(f, g, S) == \A x \in S : f[x] = g[x]

LEMMA SumOfNone ==
  ASSUME NEW S, NEW f, NEW it, SumRule(it, f, S)
  PROVE  it[{}] = 0
  BY DEF SumRule

LEMMA SumStep ==
  ASSUME NEW S, NEW f, NEW it, SumRule(it, f, S), NEW s, s \in SUBSET S, s # {}
  PROVE  it[s] = f[Choice(s)] + it[s \ {Choice(s)}]
  BY DEF SumRule

LEMMA SumIsInt ==
  ASSUME NEW S, IsFiniteSet(S), NEW f, \A x \in S : f[x] \in Int,
         NEW it, SumRule(it, f, S)
  PROVE  \A s \in SUBSET S : it[s] \in Int
  <1> DEFINE P == {s \in SUBSET S : it[s] \in Int}
  <1>1. {} \in P
    BY SumOfNone
  <1>2. ASSUME NEW s \in SUBSET S, s # {}, \A x \in s : s \ {x} \in P
        PROVE  s \in P
    <2>1. it[s] = f[Choice(s)] + it[s \ {Choice(s)}] /\ Choice(s) \in s
      BY <1>2, SumStep, ChoiceIsIn
    <2>2. f[Choice(s)] \in Int /\ it[s \ {Choice(s)}] \in Int
      BY <1>2, <2>1
    <2>3. QED
      BY <2>1, <2>2
  <1> HIDE DEF P
  <1>3. \A s \in SUBSET S : s \in P
    BY <1>1, <1>2, SubsetInduction
  <1>4. QED
    BY <1>3 DEF P

(* Any element may be taken first.                                         *)
LEMMA SumAnyFirst ==
  ASSUME NEW S, IsFiniteSet(S), NEW f, \A x \in S : f[x] \in Int,
         NEW it, SumRule(it, f, S)
  PROVE  \A s \in SUBSET S : \A x \in s : it[s] = f[x] + it[s \ {x}]
  <1> DEFINE P == {s \in SUBSET S : \A x \in s : it[s] = f[x] + it[s \ {x}]}
  <1>1. {} \in P
    OBVIOUS
  <1>2. ASSUME NEW s \in SUBSET S, s # {}, \A x \in s : s \ {x} \in P
        PROVE  s \in P
    <2> SUFFICES ASSUME NEW x \in s PROVE it[s] = f[x] + it[s \ {x}]
      OBVIOUS
    <2>1. PICK y \in s : it[s] = f[y] + it[s \ {y}]
      BY <1>2, SumStep, ChoiceIsIn
    <2>2. CASE x = y
      BY <2>1, <2>2
    <2>3. CASE x # y
      <3> DEFINE r == (s \ {y}) \ {x}
      <3>1. it[s \ {y}] = f[x] + it[r]
        BY <1>2, <2>1, <2>3
      <3>2. it[s \ {x}] = f[y] + it[(s \ {x}) \ {y}]
        BY <1>2, <2>1, <2>3
      <3>3. (s \ {x}) \ {y} = r
        OBVIOUS
      <3>4. f[x] \in Int /\ f[y] \in Int /\ it[r] \in Int
        BY <2>1, SumIsInt
      <3> HIDE DEF r
      <3>5. it[s] = f[y] + (f[x] + it[r]) /\ it[s \ {x}] = f[y] + it[r]
        BY <2>1, <3>1, <3>2, <3>3
      <3>6. QED
        BY <3>4, <3>5
    <2>4. QED
      BY <2>2, <2>3
  <1> HIDE DEF P
  <1>3. \A s \in SUBSET S : s \in P
    BY <1>1, <1>2, SubsetInduction
  <1>4. QED
    BY <1>3 DEF P

(* A sum only depends on the values it is over.                            *)
LEMMA SumAgrees ==
  ASSUME NEW S, IsFiniteSet(S), NEW R, S \subseteq R, NEW f, NEW g,
         Agree(f, g, S), NEW it, SumRule(it, f, S), NEW jt, SumRule(jt, g, R)
  PROVE  \A s \in SUBSET S : it[s] = jt[s]
  <1> DEFINE P == {s \in SUBSET S : it[s] = jt[s]}
  <1>1. {} \in P
    <2>1. it[{}] = 0
      BY SumOfNone, Zenon
    <2>2. jt[{}] = 0
      BY SumOfNone, Zenon
    <2>3. QED
      BY <2>1, <2>2
  <1>2. ASSUME NEW s \in SUBSET S, s # {}, \A x \in s : s \ {x} \in P
        PROVE  s \in P
    <2>1. it[s] = f[Choice(s)] + it[s \ {Choice(s)}] /\ Choice(s) \in s
      BY <1>2, SumStep, ChoiceIsIn
    <2>2. s \in SUBSET R
      OBVIOUS
    <2>3. jt[s] = g[Choice(s)] + jt[s \ {Choice(s)}]
      BY <1>2, <2>2, SumStep
    <2>4. f[Choice(s)] = g[Choice(s)] /\ it[s \ {Choice(s)}] = jt[s \ {Choice(s)}]
      BY <1>2, <2>1 DEF Agree
    <2>5. QED
      BY <2>1, <2>3, <2>4
  <1> HIDE DEF P
  <1>3. \A s \in SUBSET S : s \in P
    BY <1>1, <1>2, SubsetInduction
  <1>4. QED
    BY <1>3 DEF P

LEMMA SumEmpty ==
  ASSUME NEW f
  PROVE  SumFunctionOnSet(f, {}) = 0
  <1>1. PICK it : SumRule(it, f, {}) /\ SumFunctionOnSet(f, {}) = it[{}]
    BY FS_EmptySet, SumIsFold
  <1>2. QED
    BY <1>1, SumOfNone

LEMMA SumInt ==
  ASSUME NEW S, IsFiniteSet(S), NEW f, \A x \in S : f[x] \in Int
  PROVE  SumFunctionOnSet(f, S) \in Int
  <1>1. PICK it : SumRule(it, f, S) /\ SumFunctionOnSet(f, S) = it[S]
    BY SumIsFold
  <1>2. QED
    BY <1>1, SumIsInt

(* Sums over equal values are equal.                                       *)
LEMMA SumSame ==
  ASSUME NEW S, IsFiniteSet(S), NEW f, NEW g,
         \A x \in S : f[x] \in Int /\ g[x] = f[x]
  PROVE  SumFunctionOnSet(g, S) = SumFunctionOnSet(f, S)
  <1>1. PICK it : SumRule(it, f, S) /\ SumFunctionOnSet(f, S) = it[S]
    BY SumIsFold
  <1>2. PICK jt : SumRule(jt, g, S) /\ SumFunctionOnSet(g, S) = jt[S]
    BY SumIsFold
  <1>3. \A s \in SUBSET S : it[s] = jt[s]
    <2>1. Agree(f, g, S)
      BY DEF Agree
    <2>2. QED
      BY <1>1, <1>2, <2>1, SumAgrees
  <1>4. QED
    BY <1>1, <1>2, <1>3

(* One more element adds its value.                                        *)
LEMMA SumAdd ==
  ASSUME NEW S, IsFiniteSet(S), NEW a, a \notin S, NEW f, NEW g, f[a] \in Int,
         \A x \in S : f[x] \in Int /\ g[x] = f[x]
  PROVE  SumFunctionOnSet(f, S \cup {a}) = SumFunctionOnSet(g, S) + f[a]
  <1> DEFINE R == S \cup {a}
  <1>1. IsFiniteSet(R) /\ S \subseteq R /\ \A x \in R : f[x] \in Int
    BY FS_AddElement
  <1>2. PICK it : SumRule(it, f, R) /\ SumFunctionOnSet(f, R) = it[R]
    BY <1>1, SumIsFold
  <1>3. PICK jt : SumRule(jt, g, S) /\ SumFunctionOnSet(g, S) = jt[S]
    BY SumIsFold
  <1>4. \A s \in SUBSET S : jt[s] = it[s]
    <2>1. Agree(g, f, S)
      BY DEF Agree
    <2> HIDE DEF R
    <2>2. QED
      BY <1>1, <1>2, <1>3, <2>1, SumAgrees
  <1>5. it[R] = f[a] + it[R \ {a}]
    <2>1. R \in SUBSET R /\ a \in R
      OBVIOUS
    <2> HIDE DEF R
    <2>2. QED
      BY <1>1, <1>2, <2>1, SumAnyFirst
  <1>6. R \ {a} = S
    OBVIOUS
  <1>7. jt[S] \in Int
    BY <1>3, SumIsInt
  <1> HIDE DEF R
  <1>8. SumFunctionOnSet(f, R) = SumFunctionOnSet(g, S) + f[a]
    <2>1. it[R] = f[a] + it[S] /\ jt[S] = it[S]
      BY <1>4, <1>5, <1>6
    <2>2. QED
      BY <1>2, <1>3, <1>7, <2>1
  <1>9. QED
    BY <1>8 DEF R

(* A sum of differences is the difference of the sums.                     *)
Differs(h, f, g, S) == \A x \in S : f[x] \in Int /\ g[x] \in Int /\ h[x] = f[x] - g[x]

LEMMA SumLess ==
  ASSUME NEW S, IsFiniteSet(S), NEW f, NEW g, NEW h, Differs(h, f, g, S)
  PROVE  SumFunctionOnSet(h, S) = SumFunctionOnSet(f, S) - SumFunctionOnSet(g, S)
  <1>1. \A x \in S : f[x] \in Int /\ g[x] \in Int /\ h[x] \in Int /\ h[x] = f[x] - g[x]
    BY DEF Differs
  <1>2. PICK it : SumRule(it, f, S) /\ SumFunctionOnSet(f, S) = it[S]
    BY <1>1, SumIsFold
  <1>3. PICK jt : SumRule(jt, g, S) /\ SumFunctionOnSet(g, S) = jt[S]
    BY <1>1, SumIsFold
  <1>4. PICK kt : SumRule(kt, h, S) /\ SumFunctionOnSet(h, S) = kt[S]
    BY <1>1, SumIsFold
  <1>5. \A s \in SUBSET S : it[s] \in Int /\ jt[s] \in Int
    BY <1>1, <1>2, <1>3, SumIsInt
  <1> DEFINE P == {s \in SUBSET S : kt[s] = it[s] - jt[s]}
  <1>6. {} \in P
    <2>1. it[{}] = 0
      BY <1>2, SumOfNone
    <2>2. jt[{}] = 0
      BY <1>3, SumOfNone
    <2>3. kt[{}] = 0
      BY <1>4, SumOfNone
    <2>4. QED
      BY <2>1, <2>2, <2>3
  <1>7. ASSUME NEW s \in SUBSET S, s # {}, \A x \in s : s \ {x} \in P
        PROVE  s \in P
    <2> DEFINE c == Choice(s)
               r == s \ {c}
    <2>1. s # {}
      BY <1>7
    <2>2. c \in s /\ c \in S /\ r \in SUBSET S /\ r \in P
      BY <1>7, ChoiceIsIn
    <2>3. it[s] = f[c] + it[r]
      BY <1>2, <2>1, SumStep
    <2>4. jt[s] = g[c] + jt[r]
      BY <1>3, <2>1, SumStep
    <2>5. kt[s] = h[c] + kt[r]
      BY <1>4, <2>1, SumStep
    <2> HIDE DEF c, r
    <2>6. kt[r] = it[r] - jt[r]
      BY <2>2
    <2>7. /\ f[c] \in Int /\ g[c] \in Int /\ h[c] = f[c] - g[c]
          /\ it[r] \in Int /\ jt[r] \in Int
      BY <1>1, <1>5, <2>2
    <2>8. QED
      BY <2>3, <2>4, <2>5, <2>6, <2>7
  <1> HIDE DEF P
  <1>8. \A s \in SUBSET S : s \in P
    BY <1>6, <1>7, SubsetInduction
  <1>9. S \in P
    BY <1>8
  <1>10. QED
    BY <1>2, <1>3, <1>4, <1>9 DEF P

(* A sum of natural numbers is one.                                        *)
LEMMA SumIsNat ==
  ASSUME NEW S, IsFiniteSet(S), NEW f, \A x \in S : f[x] \in Nat
  PROVE  SumFunctionOnSet(f, S) \in Nat
  <1>1. PICK it : SumRule(it, f, S) /\ SumFunctionOnSet(f, S) = it[S]
    BY SumIsFold
  <1> DEFINE P == {s \in SUBSET S : it[s] \in Nat}
  <1>2. {} \in P
    BY <1>1, SumOfNone
  <1>3. ASSUME NEW s \in SUBSET S, s # {}, \A x \in s : s \ {x} \in P
        PROVE  s \in P
    <2>1. it[s] = f[Choice(s)] + it[s \ {Choice(s)}] /\ Choice(s) \in s
      BY <1>1, <1>3, SumStep, ChoiceIsIn
    <2>2. f[Choice(s)] \in Nat /\ it[s \ {Choice(s)}] \in Nat
      BY <1>3, <2>1
    <2>3. QED
      BY <2>1, <2>2
  <1> HIDE DEF P
  <1>4. \A s \in SUBSET S : s \in P
    BY <1>2, <1>3, SubsetInduction
  <1>5. S \in P
    BY <1>4
  <1>6. QED
    BY <1>1, <1>5 DEF P

(* The sum of the values that v has over S.                                *)
SumOver(v, S) == SumFunctionOnSet([x \in S |-> v[x]], S)
Integral(v, S) == \A x \in S : v[x] \in Int

LEMMA SumOverInt ==
  ASSUME NEW S, IsFiniteSet(S), NEW v, Integral(v, S)
  PROVE  SumOver(v, S) \in Int
  <1> DEFINE f == [x \in S |-> v[x]]
  <1>1. \A x \in S : f[x] \in Int
    BY DEF Integral
  <1> HIDE DEF f
  <1>2. SumFunctionOnSet(f, S) \in Int
    BY <1>1, SumInt
  <1>3. QED
    BY <1>2 DEF SumOver, f

LEMMA SumOverNone ==
  ASSUME NEW v
  PROVE  SumOver(v, {}) = 0
  BY SumEmpty DEF SumOver

LEMMA SumOverMore ==
  ASSUME NEW S, IsFiniteSet(S), NEW a, a \notin S, NEW v, Integral(v, S \cup {a})
  PROVE  SumOver(v, S \cup {a}) = SumOver(v, S) + v[a]
  <1> DEFINE R == S \cup {a}
             f == [x \in R |-> v[x]]
             g == [x \in S |-> v[x]]
  <1>1. f[a] = v[a] /\ f[a] \in Int /\ \A x \in S : f[x] \in Int /\ g[x] = f[x]
    BY DEF Integral
  <1> HIDE DEF f, g
  <1>2. SumFunctionOnSet(f, S \cup {a}) = SumFunctionOnSet(g, S) + f[a]
    BY <1>1, SumAdd
  <1>3. QED
    BY <1>1, <1>2 DEF SumOver, f, g

-----------------------------------------------------------------------------
(* Folds of a sequence from the left.                                      *)

LEMMA MinOfTwo ==
  ASSUME NEW x \in Int, NEW y \in Int
  PROVE  Min({x, y}) = IF x <= y THEN x ELSE y
  <1> DEFINE S == {x, y}
  <1>1. \E m \in S : \A z \in S : m <= z
    OBVIOUS
  <1>2. Min(S) \in S /\ \A z \in S : Min(S) <= z
    <2> HIDE DEF S
    <2>1. QED
      BY <1>1 DEF Min
  <1>3. QED
    BY <1>2

LEMMA MaxOfTwo ==
  ASSUME NEW x \in Int, NEW y \in Int
  PROVE  Max({x, y}) = IF x <= y THEN y ELSE x
  <1> DEFINE S == {x, y}
  <1>1. \E m \in S : \A z \in S : m >= z
    OBVIOUS
  <1>2. Max(S) \in S /\ \A z \in S : Max(S) >= z
    <2> HIDE DEF S
    <2>1. QED
      BY <1>1 DEF Max
  <1>3. QED
    BY <1>2

LEMMA MaxOfSome ==
  ASSUME NEW s, s # {}, NEW n \in Nat, s \subseteq 1 .. n
  PROVE  Max(s) \in s /\ \A y \in s : y <= Max(s)
  <1> DEFINE U == {m \in Nat : \A y \in s : y <= m}
  <1>1. n \in U
    OBVIOUS
  <1>2. PICK m \in U : \A k \in U : m <= k
    BY <1>1, LeastNatural
  <1>3. m \in s
    <2> SUFFICES ASSUME m \notin s PROVE FALSE
      OBVIOUS
    <2>1. \A y \in s : y \in Nat /\ y <= m /\ y # m /\ y >= 1
      BY <1>2
    <2>2. m - 1 \in Nat
      <3>1. PICK y \in s : TRUE
        OBVIOUS
      <3>2. m \in Nat /\ m >= 1
        BY <1>2, <2>1, <3>1
      <3>3. QED
        BY <3>2
    <2>3. \A y \in s : y <= m - 1
      BY <1>2, <2>1
    <2>4. m - 1 \in U
      BY <2>2, <2>3
    <2>5. QED
      BY <1>2, <2>2, <2>4
  <1>4. \E x \in s : \A y \in s : x >= y
    BY <1>2, <1>3
  <1>5. Max(s) \in s /\ \A y \in s : Max(s) >= y
    BY <1>4 DEF Max
  <1>6. QED
    BY <1>5

LEMMA MaxOfInterval ==
  ASSUME NEW k \in Nat \ {0}
  PROVE  Max(1 .. k) = k /\ (1 .. k) \ {k} = 1 .. (k - 1) /\ 1 .. k # {}
  <1>1. 1 .. k # {} /\ (1 .. k) \ {k} = 1 .. (k - 1) /\ k \in 1 .. k
    OBVIOUS
  <1>2. Max(1 .. k) \in 1 .. k /\ k <= Max(1 .. k)
    BY <1>1, MaxOfSome
  <1>3. QED
    BY <1>1, <1>2

(* G takes the value so far and the next element.                          *)
Follows(G, V, E) == \A v \in V, e \in E : G[<<v, e>>] \in V
LeftRule(it, V, base, G, seq) ==
    /\ it \in [SUBSET (DOMAIN seq) -> V]
    /\ \A s \in SUBSET (DOMAIN seq) :
          it[s] = IF s = {} THEN base ELSE G[<<it[s \ {Max(s)}], seq[Max(s)]>>]

LEMMA LeftExists ==
  ASSUME NEW E, NEW seq \in Seq(E), NEW V, NEW base, base \in V, NEW G, Follows(G, V, E)
  PROVE  \E it : LeftRule(it, V, base, G, seq)
  <1> DEFINE D == DOMAIN seq
             c == [s \in SUBSET D |-> Max(s)]
             H == [p \in D \X V |-> G[<<p[2], seq[p[1]]>>]]
  <1>1. D = 1 .. Len(seq) /\ Len(seq) \in Nat /\ \A i \in D : seq[i] \in E
    BY LenProperties, ElementOfSeq
  <1>2. IsFiniteSet(D)
    <2>1. 1 \in Int /\ Len(seq) \in Int
      BY <1>1
    <2>2. IsFiniteSet(1 .. Len(seq))
      BY <2>1, FS_Interval, Zenon
    <2>3. QED
      BY <1>1, <2>2, Zenon
  <1> HIDE DEF D
  <1>3. Picks(c, D)
    BY <1>1, MaxOfSome DEF Picks
  <1>4. \A x \in D, v \in V : H[<<x, v>>] = G[<<v, seq[x]>>]
    OBVIOUS
  <1>5. \A s \in SUBSET D : c[s] = Max(s)
    OBVIOUS
  <1> HIDE DEF c, H
  <1>6. Combines(H, D, V)
    BY <1>1, <1>4 DEF Combines, Follows
  <1>7. PICK it : FoldRule(it, D, V, base, c, H)
    BY <1>2, <1>3, <1>6, FoldExists
  <1>8. ASSUME NEW s \in SUBSET D
        PROVE  it[s] = IF s = {} THEN base ELSE G[<<it[s \ {Max(s)}], seq[Max(s)]>>]
    <2>1. CASE s = {}
      BY <1>7, <2>1 DEF FoldRule
    <2>2. CASE s # {}
      <3>1. c[s] \in D /\ s \ {c[s]} \in SUBSET D
        BY <1>3, <2>2 DEF Picks
      <3>2. it[s \ {c[s]}] \in V
        BY <1>7, <3>1 DEF FoldRule
      <3>3. H[<<c[s], it[s \ {c[s]}]>>] = G[<<it[s \ {c[s]}], seq[c[s]]>>]
        BY <1>4, <3>1, <3>2
      <3>4. it[s] = H[<<c[s], it[s \ {c[s]}]>>]
        BY <1>7, <2>2 DEF FoldRule
      <3>5. QED
        BY <1>5, <2>2, <3>3, <3>4
    <2>3. QED
      BY <2>1, <2>2
  <1>9. it \in [SUBSET D -> V]
    BY <1>7 DEF FoldRule
  <1>10. LeftRule(it, V, base, G, seq)
    BY <1>8, <1>9 DEF LeftRule, D
  <1>11. QED
    BY <1>10

-----------------------------------------------------------------------------
(* Parts of a sum, and the sign of one.                                    *)

LEMMA SumOverSplit ==
  ASSUME NEW S, IsFiniteSet(S), NEW R, IsFiniteSet(R), S \cap R = {},
         NEW v, Integral(v, S \cup R)
  PROVE  SumOver(v, S \cup R) = SumOver(v, S) + SumOver(v, R)
  <1> DEFINE P == {s \in SUBSET R : SumOver(v, S \cup s) = SumOver(v, S) + SumOver(v, s)}
  <1>1. Integral(v, S)
    BY DEF Integral
  <1>2. SumOver(v, S) \in Int
    BY <1>1, SumOverInt
  <1>3. {} \in P
    <2>1. SumOver(v, {}) = 0 /\ S \cup {} = S
      BY SumOverNone
    <2>2. QED
      BY <1>2, <2>1
  <1>4. ASSUME NEW s \in SUBSET R, s # {}, \A x \in s : s \ {x} \in P
        PROVE  s \in P
    <2>1. PICK a \in s : TRUE
      BY <1>4
    <2> DEFINE rest == s \ {a}  more == S \cup rest
    <2>2. s = rest \cup {a} /\ S \cup s = more \cup {a} /\ a \notin rest /\ a \notin more
      BY <2>1
    <2>3. IsFiniteSet(rest) /\ IsFiniteSet(more)
      <3>1. IsFiniteSet(rest)
        <4>1. rest \in SUBSET R
          OBVIOUS
        <4>2. QED
          BY <4>1, FS_Subset
      <3>2. QED
        BY <3>1, FS_Union
    <2>4. Integral(v, rest \cup {a}) /\ Integral(v, more \cup {a}) /\ Integral(v, rest) /\ v[a] \in Int
      BY <2>1 DEF Integral
    <2>5. SumOver(v, more) = SumOver(v, S) + SumOver(v, rest)
      BY <1>4, <2>1
    <2>6. SumOver(v, rest) \in Int
      BY <2>3, <2>4, SumOverInt
    <2> HIDE DEF rest, more
    <2>7. SumOver(v, rest \cup {a}) = SumOver(v, rest) + v[a]
      BY <2>2, <2>3, <2>4, SumOverMore
    <2>8. SumOver(v, more \cup {a}) = SumOver(v, more) + v[a]
      BY <2>2, <2>3, <2>4, SumOverMore
    <2>9. SumOver(v, S \cup s) = SumOver(v, S) + SumOver(v, s)
      <3>1. SumOver(v, S \cup s) = (SumOver(v, S) + SumOver(v, rest)) + v[a]
        BY <2>2, <2>5, <2>8, Zenon
      <3>2. SumOver(v, s) = SumOver(v, rest) + v[a]
        BY <2>2, <2>7, Zenon
      <3> HIDE DEF P
      <3>3. QED
        BY <1>2, <2>4, <2>6, <3>1, <3>2
    <2>10. QED
      BY <2>9
  <1> HIDE DEF P
  <1>5. \A s \in SUBSET R : s \in P
    BY <1>3, <1>4, SubsetInduction
  <1>6. R \in P
    BY <1>5
  <1>7. QED
    BY <1>6 DEF P

LEMMA SumOverUp ==
  ASSUME NEW S, IsFiniteSet(S), NEW v, \A x \in S : v[x] \in Int /\ v[x] > 0
  PROVE  /\ SumOver(v, S) \in Int /\ SumOver(v, S) >= 0
         /\ S # {} => SumOver(v, S) > 0
  <1> DEFINE P == {s \in SUBSET S : SumOver(v, s) \in Int /\ SumOver(v, s) >= 0
                                    /\ (s # {} => SumOver(v, s) > 0)}
  <1>1. {} \in P
    BY SumOverNone
  <1>2. ASSUME NEW s \in SUBSET S, s # {}, \A x \in s : s \ {x} \in P
        PROVE  s \in P
    <2>1. PICK a \in s : TRUE
      BY <1>2
    <2> DEFINE rest == s \ {a}
    <2>2. s = rest \cup {a} /\ a \notin rest /\ rest \in SUBSET S
      BY <2>1
    <2>3. IsFiniteSet(rest) /\ Integral(v, rest \cup {a}) /\ v[a] \in Int /\ v[a] > 0
      BY <2>1, <2>2, FS_Subset DEF Integral
    <2>4. SumOver(v, rest) \in Int /\ SumOver(v, rest) >= 0
      BY <1>2, <2>1
    <2> HIDE DEF rest
    <2>5. SumOver(v, rest \cup {a}) = SumOver(v, rest) + v[a]
      BY <2>2, <2>3, SumOverMore
    <2>6. SumOver(v, s) \in Int /\ SumOver(v, s) >= 0 /\ SumOver(v, s) > 0
      <3>1. SumOver(v, s) = SumOver(v, rest) + v[a]
        BY <2>2, <2>5, Zenon
      <3> HIDE DEF P
      <3>2. QED
        BY <2>3, <2>4, <3>1
    <2>7. QED
      BY <2>6
  <1> HIDE DEF P
  <1>3. \A s \in SUBSET S : s \in P
    BY <1>1, <1>2, SubsetInduction
  <1>4. S \in P
    BY <1>3
  <1>5. QED
    BY <1>4 DEF P

LEMMA SumOverLess ==
  ASSUME NEW S, IsFiniteSet(S), NEW v, NEW w, NEW u,
         \A x \in S : v[x] \in Int /\ w[x] \in Int /\ u[x] = v[x] - w[x]
  PROVE  SumOver(u, S) = SumOver(v, S) - SumOver(w, S)
  <1> DEFINE f == [x \in S |-> v[x]]  g == [x \in S |-> w[x]]  h == [x \in S |-> u[x]]
  <1>1. Differs(h, f, g, S)
    BY DEF Differs
  <1> HIDE DEF f, g, h
  <1>2. SumFunctionOnSet(h, S) = SumFunctionOnSet(f, S) - SumFunctionOnSet(g, S)
    BY <1>1, SumLess
  <1>3. QED
    BY <1>2 DEF SumOver, f, g, h

LEMMA SumOverDown ==
  ASSUME NEW S, IsFiniteSet(S), NEW v, \A x \in S : v[x] \in Int /\ v[x] < 0
  PROVE  /\ SumOver(v, S) \in Int /\ SumOver(v, S) <= 0
         /\ S # {} => SumOver(v, S) < 0
  <1> DEFINE zero == [x \in S |-> 0]  u == [x \in S |-> 0 - v[x]]
  <1>1. \A x \in S : /\ zero[x] \in Int /\ v[x] \in Int /\ u[x] = zero[x] - v[x]
                     /\ zero[x] = zero[x] - zero[x] /\ u[x] \in Int /\ u[x] > 0
    OBVIOUS
  <1> HIDE DEF zero, u
  <1>2. SumOver(u, S) = SumOver(zero, S) - SumOver(v, S)
    BY <1>1, SumOverLess
  <1>3. SumOver(zero, S) = SumOver(zero, S) - SumOver(zero, S)
    BY <1>1, SumOverLess
  <1>4. SumOver(zero, S) \in Int /\ SumOver(v, S) \in Int
    BY <1>1, SumOverInt DEF Integral
  <1>5. SumOver(u, S) \in Int /\ SumOver(u, S) >= 0 /\ (S # {} => SumOver(u, S) > 0)
    BY <1>1, SumOverUp
  <1>6. QED
    BY <1>2, <1>3, <1>4, <1>5

LEMMA SumOverZero ==
  ASSUME NEW S, IsFiniteSet(S), NEW v, \A x \in S : v[x] = 0
  PROVE  SumOver(v, S) = 0
  <1>1. \A x \in S : v[x] \in Int /\ v[x] = v[x] - v[x]
    OBVIOUS
  <1>2. SumOver(v, S) = SumOver(v, S) - SumOver(v, S)
    BY <1>1, SumOverLess
  <1>3. SumOver(v, S) \in Int
    BY <1>1, SumOverInt DEF Integral
  <1>4. QED
    BY <1>2, <1>3

-----------------------------------------------------------------------------
(* The drawdown of a curve, folded along it, is its deepest fall from any  *)
(* height, or from 0, to a later one.                                      *)

Height(curve, k) == IF k = 0 THEN 0 ELSE curve[k]
Higher(x, y) == IF x > y THEN x ELSE y
Sea == [peak |-> 0, depth |-> 0]
Climb(acc, s) == [peak  |-> Higher(acc.peak, s),
                  depth |-> Higher(acc.depth, Higher(acc.peak, s) - s)]
FallRule(it, curve) ==
    it = [s \in SUBSET DOMAIN curve |->
             IF s = {} THEN Sea ELSE Climb(it[s \ {Max(s)}], curve[Max(s)])]
Fall(curve) == (CHOOSE it : FallRule(it, curve))[DOMAIN curve].depth

Walks == [peak : Int, depth : Int]
IsPeak(p, curve, k) ==
    /\ p \in Int
    /\ \A a \in 0 .. k : Height(curve, a) <= p
    /\ \E a \in 0 .. k : p = Height(curve, a)
IsFall(d, curve, k) ==
    /\ d \in Int
    /\ \A a, b \in 0 .. k : a <= b => Height(curve, a) - Height(curve, b) <= d
    /\ \E a, b \in 0 .. k : a <= b /\ d = Height(curve, a) - Height(curve, b)

LEMMA ClimbTypes ==
  ASSUME NEW w \in Walks, NEW s \in Int
  PROVE  /\ Climb(w, s) \in Walks
         /\ Climb(w, s).peak = Higher(w.peak, s)
         /\ Climb(w, s).depth = Higher(w.depth, Higher(w.peak, s) - s)
         /\ w.peak \in Int /\ w.depth \in Int
  BY DEF Climb, Walks, Higher

LEMMA FallRuleExists ==
  ASSUME NEW curve \in Seq(Int)
  PROVE  \E it : FallRule(it, curve) /\ it \in [SUBSET DOMAIN curve -> Walks]
  <1> DEFINE G == [p \in Walks \X Int |-> Climb(p[1], p[2])]
  <1>1. \A w \in Walks, s \in Int : G[<<w, s>>] = Climb(w, s)
    OBVIOUS
  <1>2. Follows(G, Walks, Int)
    BY <1>1, ClimbTypes DEF Follows
  <1>3. Sea \in Walks
    BY DEF Sea, Walks
  <1> HIDE DEF G
  <1>4. PICK it : LeftRule(it, Walks, Sea, G, curve)
    BY <1>2, <1>3, LeftExists
  <1>5. ASSUME NEW s \in SUBSET DOMAIN curve
        PROVE  it[s] = IF s = {} THEN Sea ELSE Climb(it[s \ {Max(s)}], curve[Max(s)])
    <2>1. CASE s = {}
      BY <1>4, <2>1 DEF LeftRule
    <2>2. CASE s # {}
      <3>1. Max(s) \in DOMAIN curve
        BY <2>2, MaxOfSome, LenProperties
      <3>2. curve[Max(s)] \in Int
        BY <3>1, ElementOfSeq, LenProperties
      <3>3. it[s \ {Max(s)}] \in Walks
        BY <1>4 DEF LeftRule
      <3>4. it[s] = G[<<it[s \ {Max(s)}], curve[Max(s)]>>]
        BY <1>4, <2>2 DEF LeftRule
      <3>5. QED
        BY <1>1, <2>2, <3>2, <3>3, <3>4
    <2>3. QED
      BY <2>1, <2>2
  <1>6. it \in [SUBSET DOMAIN curve -> Walks]
    BY <1>4 DEF LeftRule
  <1>7. it = [s \in SUBSET DOMAIN curve |-> it[s]]
    BY <1>6
  <1>8. FallRule(it, curve)
    BY <1>5, <1>7 DEF FallRule
  <1>9. QED
    BY <1>6, <1>8

(* One more point of the curve.                                            *)
LEMMA PeakStep ==
  ASSUME NEW curve \in Seq(Int), NEW k \in Nat, k + 1 <= Len(curve),
         NEW p, IsPeak(p, curve, k)
  PROVE  IsPeak(Higher(p, curve[k + 1]), curve, k + 1)
  <1> DEFINE s == curve[k + 1]  q == Higher(p, s)
  <1>1. s \in Int /\ Height(curve, k + 1) = s
    BY LenProperties, ElementOfSeq DEF Height
  <1>2. p \in Int /\ q \in Int /\ p <= q /\ s <= q /\ (q = p \/ q = s)
    BY <1>1 DEF IsPeak, Higher
  <1>3. ASSUME NEW a \in 0 .. (k + 1)
        PROVE  Height(curve, a) <= q
    <2>1. CASE a = k + 1
      BY <1>1, <1>2, <2>1
    <2>2. CASE a # k + 1
      <3>1. a \in 0 .. k
        BY <2>2
      <3>2. Height(curve, a) <= p /\ Height(curve, a) \in Int
        BY <3>1, LenProperties, ElementOfSeq DEF IsPeak, Height
      <3>3. QED
        BY <1>2, <3>2
    <2>3. QED
      BY <2>1, <2>2
  <1>4. \E a \in 0 .. (k + 1) : q = Height(curve, a)
    <2>1. CASE q = s
      BY <1>1, <2>1
    <2>2. CASE q = p
      <3>1. PICK a \in 0 .. k : p = Height(curve, a)
        BY DEF IsPeak
      <3>2. a \in 0 .. (k + 1)
        OBVIOUS
      <3>3. QED
        BY <2>2, <3>1, <3>2
    <2>3. QED
      BY <1>2, <2>1, <2>2
  <1>5. QED
    BY <1>2, <1>3, <1>4 DEF IsPeak

LEMMA FallStep ==
  ASSUME NEW curve \in Seq(Int), NEW k \in Nat, k + 1 <= Len(curve),
         NEW q, IsPeak(q, curve, k + 1), NEW d, IsFall(d, curve, k)
  PROVE  IsFall(Higher(d, q - curve[k + 1]), curve, k + 1)
  <1> DEFINE s == curve[k + 1]  e == Higher(d, q - s)
  <1>1. s \in Int /\ Height(curve, k + 1) = s
    BY LenProperties, ElementOfSeq DEF Height
  <1>2. q \in Int /\ d \in Int /\ e \in Int /\ d <= e /\ q - s <= e /\ (e = d \/ e = q - s)
    BY <1>1 DEF IsPeak, IsFall, Higher
  <1>3. \A a \in 0 .. (k + 1) : Height(curve, a) \in Int /\ Height(curve, a) <= q
    BY LenProperties, ElementOfSeq DEF Height, IsPeak
  <1>4. ASSUME NEW a \in 0 .. (k + 1), NEW b \in 0 .. (k + 1), a <= b
        PROVE  Height(curve, a) - Height(curve, b) <= e
    <2>1. CASE b = k + 1
      <3>1. Height(curve, a) \in Int /\ Height(curve, a) <= q
        BY <1>3
      <3>2. QED
        BY <1>1, <1>2, <2>1, <3>1
    <2>2. CASE b # k + 1
      <3>1. a \in 0 .. k /\ b \in 0 .. k
        BY <1>4, <2>2
      <3>2. Height(curve, a) - Height(curve, b) <= d
        BY <1>4, <3>1 DEF IsFall
      <3>3. Height(curve, a) \in Int /\ Height(curve, b) \in Int
        BY <1>3
      <3>4. QED
        BY <1>2, <3>2, <3>3
    <2>3. QED
      BY <2>1, <2>2
  <1>5. \E a, b \in 0 .. (k + 1) : a <= b /\ e = Height(curve, a) - Height(curve, b)
    <2>1. CASE e = d
      <3>1. PICK a \in 0 .. k, b \in 0 .. k : a <= b /\ d = Height(curve, a) - Height(curve, b)
        BY DEF IsFall
      <3>2. a \in 0 .. (k + 1) /\ b \in 0 .. (k + 1)
        OBVIOUS
      <3>3. QED
        BY <2>1, <3>1, <3>2
    <2>2. CASE e = q - s
      <3>1. PICK a \in 0 .. (k + 1) : q = Height(curve, a)
        BY DEF IsPeak
      <3>2. k + 1 \in 0 .. (k + 1) /\ a <= k + 1
        OBVIOUS
      <3>3. QED
        BY <1>1, <2>2, <3>1, <3>2
    <2>3. QED
      BY <1>2, <2>1, <2>2
  <1>6. QED
    BY <1>2, <1>4, <1>5 DEF IsFall

LEMMA FallIsDeepest ==
  ASSUME NEW curve \in Seq(Int)
  PROVE  IsFall(Fall(curve), curve, Len(curve))
  <1> DEFINE n == Len(curve)
             it == CHOOSE g : FallRule(g, curve)
             h(k) == it[1 .. k]
  <1>1. n \in Nat /\ DOMAIN curve = 1 .. n /\ \A k \in 1 .. n : curve[k] \in Int
    BY LenProperties, ElementOfSeq
  <1>2. FallRule(it, curve)
    BY FallRuleExists
  <1> HIDE DEF it, n
  <1>3. h(0) = Sea
    <2>1. 1 .. 0 = {} /\ {} \in SUBSET DOMAIN curve
      OBVIOUS
    <2>2. it[{}] = Sea
      BY <1>2, <2>1 DEF FallRule
    <2>3. QED
      BY <2>1, <2>2
  <1>4. ASSUME NEW k \in Nat, k < n
        PROVE  h(k + 1) = Climb(h(k), curve[k + 1])
    <2>1. k + 1 \in Nat \ {0} /\ 1 .. (k + 1) \in SUBSET DOMAIN curve
      BY <1>1, <1>4
    <2>2. Max(1 .. (k + 1)) = k + 1 /\ (1 .. (k + 1)) \ {k + 1} = 1 .. k /\ 1 .. (k + 1) # {}
      <3>1. (k + 1) - 1 = k
        OBVIOUS
      <3>2. QED
        BY <2>1, <3>1, MaxOfInterval
    <2>3. it[1 .. (k + 1)] = Climb(it[(1 .. (k + 1)) \ {Max(1 .. (k + 1))}], curve[Max(1 .. (k + 1))])
      BY <1>2, <2>1, <2>2 DEF FallRule
    <2>4. QED
      BY <2>2, <2>3
  <1> DEFINE T == {k \in Nat : /\ h(k) \in Walks /\ IsPeak(h(k).peak, curve, k)
                               /\ IsFall(h(k).depth, curve, k)}
  <1>5. 0 \in T
    <2>1. Sea \in Walks /\ Sea.peak = 0 /\ Sea.depth = 0
      BY DEF Sea, Walks
    <2>2. IsPeak(0, curve, 0) /\ IsFall(0, curve, 0)
      BY DEF IsPeak, IsFall, Height
    <2>3. QED
      BY <1>3, <2>1, <2>2
  <1>6. ASSUME NEW k \in Nat, k < n /\ k \in T
        PROVE  k + 1 \in T
    <2> DEFINE w == h(k)  s == curve[k + 1]
    <2>1. w \in Walks /\ IsPeak(w.peak, curve, k) /\ IsFall(w.depth, curve, k)
      BY <1>6
    <2>2. k + 1 <= Len(curve) /\ s \in Int
      BY <1>1, <1>6 DEF n
    <2>3. h(k + 1) = Climb(w, s)
      BY <1>4, <1>6
    <2> HIDE DEF h, w, s, T
    <2>4. /\ Climb(w, s) \in Walks /\ Climb(w, s).peak = Higher(w.peak, s)
          /\ Climb(w, s).depth = Higher(w.depth, Higher(w.peak, s) - s)
      BY <2>1, <2>2, ClimbTypes
    <2>5. IsPeak(Higher(w.peak, s), curve, k + 1)
      BY <2>1, <2>2, PeakStep DEF s
    <2>6. IsFall(Higher(w.depth, Higher(w.peak, s) - s), curve, k + 1)
      BY <2>1, <2>2, <2>5, FallStep DEF s
    <2>7. QED
      BY <2>3, <2>4, <2>5, <2>6 DEF T
  <1> HIDE DEF h, T
  <1>7. \A k \in 0 .. n : k \in T
    BY <1>1, <1>5, <1>6, BoundedInduction
  <1>8. n \in T
    BY <1>1, <1>7
  <1>9. Fall(curve) = h(n).depth
    BY <1>1 DEF Fall, h, it
  <1>10. QED
    BY <1>8, <1>9 DEF T, n

FallsAlike(c, n, e, m) ==
    \A a, b \in 0 .. n : a <= b =>
        \E x, y \in 0 .. m : x <= y /\ Height(c, a) - Height(c, b) = Height(e, x) - Height(e, y)

LEMMA FallIsOne ==
  ASSUME NEW c \in Seq(Int), NEW e \in Seq(Int), NEW n, NEW m,
         NEW d, IsFall(d, c, n), NEW f, IsFall(f, e, m),
         FallsAlike(c, n, e, m), FallsAlike(e, m, c, n)
  PROVE  d = f
  <1>1. d \in Int /\ f \in Int
    BY DEF IsFall
  <1>2. d <= f
    <2>1. PICK a \in 0 .. n, b \in 0 .. n : a <= b /\ d = Height(c, a) - Height(c, b)
      BY DEF IsFall
    <2>2. PICK x \in 0 .. m, y \in 0 .. m : x <= y /\ d = Height(e, x) - Height(e, y)
      BY <2>1 DEF FallsAlike
    <2>3. QED
      BY <2>2 DEF IsFall
  <1>3. f <= d
    <2>1. PICK x \in 0 .. m, y \in 0 .. m : x <= y /\ f = Height(e, x) - Height(e, y)
      BY DEF IsFall
    <2>2. PICK a \in 0 .. n, b \in 0 .. n : a <= b /\ f = Height(c, a) - Height(c, b)
      BY <2>1 DEF FallsAlike
    <2>3. QED
      BY <2>2 DEF IsFall
  <1>4. QED
    BY <1>1, <1>2, <1>3

-----------------------------------------------------------------------------
(* A curve that climbs by the value of each element of C in turn, in the   *)
(* order that rk gives them.                                               *)

Ranked(C, rk, r) ==
    /\ r \in Nat /\ IsFiniteSet(C)
    /\ \A i \in C : rk[i] \in 1 .. r
    /\ \A i, j \in C : rk[i] = rk[j] => i = j
    /\ \A k \in 1 .. r : \E i \in C : rk[i] = k
Climbs(curve, C, rk, v) ==
    /\ curve \in Seq(Int)
    /\ \A i \in C : /\ v[i] \in Int
                    /\ rk[i] <= Len(curve) =>
                          Height(curve, rk[i]) = Height(curve, rk[i] - 1) + v[i]
First(C, rk, k) == {i \in C : rk[i] <= k}

LEMMA FirstOnes ==
  ASSUME NEW C, NEW rk, NEW r, Ranked(C, rk, r)
  PROVE  /\ First(C, rk, 0) = {} /\ First(C, rk, r) = C
         /\ \A k \in 0 .. r : IsFiniteSet(First(C, rk, k))
         /\ \A k \in 0 .. r : \A i \in C :
                rk[i] = k + 1 => /\ First(C, rk, k + 1) = First(C, rk, k) \cup {i}
                                 /\ i \notin First(C, rk, k)
  <1>1. First(C, rk, 0) = {} /\ First(C, rk, r) = C
    BY DEF Ranked, First
  <1>2. \A k \in 0 .. r : IsFiniteSet(First(C, rk, k))
    <2> TAKE k \in 0 .. r
    <2>1. First(C, rk, k) \in SUBSET C /\ IsFiniteSet(C)
      BY DEF First, Ranked
    <2>2. QED
      BY <2>1, FS_Subset
  <1>3. ASSUME NEW k \in 0 .. r, NEW i \in C, rk[i] = k + 1
        PROVE  First(C, rk, k + 1) = First(C, rk, k) \cup {i} /\ i \notin First(C, rk, k)
    <2>1. \A j \in C : rk[j] \in Int /\ (rk[j] = rk[i] => j = i)
      BY DEF Ranked
    <2>2. \A j \in C : rk[j] <= k + 1 <=> rk[j] <= k \/ j = i
      BY <1>3, <2>1
    <2>3. ~(rk[i] <= k)
      BY <1>3
    <2>4. QED
      BY <2>2, <2>3 DEF First
  <1>4. QED
    BY <1>1, <1>2, <1>3

LEMMA HeightIsSum ==
  ASSUME NEW C, NEW rk, NEW v, NEW curve, Climbs(curve, C, rk, v), Ranked(C, rk, Len(curve))
  PROVE  \A k \in 0 .. Len(curve) :
             /\ Height(curve, k) \in Int
             /\ Height(curve, k) = SumOver(v, First(C, rk, k))
  <1> DEFINE n == Len(curve)
             T == {k \in Nat : Height(curve, k) \in Int
                               /\ Height(curve, k) = SumOver(v, First(C, rk, k))}
  <1>1. n \in Nat /\ curve \in Seq(Int) /\ \A k \in 1 .. n : curve[k] \in Int
    BY LenProperties, ElementOfSeq DEF Climbs
  <1>2. 0 \in T
    <2>1. First(C, rk, 0) = {} /\ SumOver(v, {}) = 0
      BY FirstOnes, SumOverNone
    <2>2. QED
      BY <2>1 DEF Height
  <1>3. ASSUME NEW k \in Nat, k < n /\ k \in T
        PROVE  k + 1 \in T
    <2>1. k \in 0 .. n /\ k + 1 \in 1 .. n
      BY <1>1, <1>3
    <2>2. PICK i \in C : rk[i] = k + 1
      BY <2>1 DEF Ranked
    <2> DEFINE S == First(C, rk, k)
    <2>3. First(C, rk, k + 1) = S \cup {i} /\ i \notin S /\ IsFiniteSet(S)
      BY <2>1, <2>2, FirstOnes
    <2>4. Integral(v, S \cup {i}) /\ Integral(v, S) /\ v[i] \in Int
      BY DEF Integral, Climbs, First
    <2>5. Height(curve, k + 1) = Height(curve, k) + v[i]
      <3>1. rk[i] <= n /\ rk[i] - 1 = k
        BY <2>1, <2>2
      <3>2. QED
        BY <2>2, <3>1 DEF Climbs
    <2>6. Height(curve, k) = SumOver(v, S) /\ Height(curve, k) \in Int
      BY <1>3
    <2> HIDE DEF S, T, n
    <2>7. SumOver(v, S \cup {i}) = SumOver(v, S) + v[i]
      BY <2>3, <2>4, SumOverMore
    <2>8. Height(curve, k + 1) \in Int
      BY <2>4, <2>5, <2>6
    <2>9. Height(curve, k + 1) = SumOver(v, First(C, rk, k + 1))
      BY <2>3, <2>5, <2>6, <2>7
    <2>10. QED
      BY <2>8, <2>9 DEF T
  <1> HIDE DEF T
  <1>4. \A k \in 0 .. n : k \in T
    BY <1>1, <1>2, <1>3, BoundedInduction
  <1>5. QED
    BY <1>4 DEF T

(* The same values summed over lines 1 to m, where those of C stand last   *)
(* one first: every fall of one curve is a fall of the other.              *)
Lists(sums, C, v) ==
    /\ sums \in Seq(Int) /\ C \subseteq 1 .. Len(sums)
    /\ \A i \in 1 .. Len(sums) : sums[i] = SumOver(v, {j \in C : j <= i})
Backwards(C, rk) == \A i, j \in C : i < j => rk[i] > rk[j]
(* The first b ones are those that are listed after line a.                *)
Meet(C, rk, a, b) == First(C, rk, b) = {j \in C : j > a}

LEMMA ListedHeight ==
  ASSUME NEW C, NEW rk, NEW v, NEW curve, Climbs(curve, C, rk, v), Ranked(C, rk, Len(curve)),
         NEW sums, Lists(sums, C, v), NEW a \in 0 .. Len(sums), NEW b \in 0 .. Len(curve),
         Meet(C, rk, a, b)
  PROVE  /\ Height(sums, a) \in Int /\ Height(curve, b) \in Int
         /\ Height(sums, a) = Height(curve, Len(curve)) - Height(curve, b)
  <1> DEFINE n == Len(curve)  S == {j \in C : j <= a}  R == First(C, rk, b)
  <1>1. n \in Nat /\ n \in 0 .. n /\ Len(sums) \in Nat
    BY LenProperties DEF Climbs, Lists
  <1>2. S \cup R = C /\ S \cap R = {}
    <2>1. R = {j \in C : j > a} /\ \A j \in C : j \in Int
      BY DEF Meet, Lists
    <2>2. QED
      BY <2>1
  <1>3. IsFiniteSet(S) /\ IsFiniteSet(R) /\ Integral(v, S \cup R)
    <2>1. IsFiniteSet(C) /\ S \in SUBSET C /\ R \in SUBSET C /\ Integral(v, C)
      BY DEF Ranked, First, Climbs, Integral
    <2> HIDE DEF S, R
    <2>2. QED
      BY <1>2, <2>1, FS_Subset
  <1>4. /\ Height(curve, b) \in Int /\ Height(curve, b) = SumOver(v, R)
        /\ Height(curve, n) \in Int /\ Height(curve, n) = SumOver(v, C)
    BY <1>1, HeightIsSum, FirstOnes
  <1>5. Height(sums, a) = SumOver(v, S)
    <2>1. CASE a = 0
      <3>1. S = {}
        <4>1. \A j \in C : j \in Int /\ j >= 1
          BY DEF Lists
        <4>2. \A j \in C : ~(j <= a)
          BY <2>1, <4>1
        <4>3. QED
          BY <4>2
      <3>2. SumOver(v, {}) = 0
        BY SumOverNone
      <3> HIDE DEF S
      <3>3. QED
        BY <2>1, <3>1, <3>2 DEF Height
    <2>2. CASE a # 0
      BY <1>1, <2>2 DEF Height, Lists
    <2>3. QED
      BY <2>1, <2>2
  <1> HIDE DEF S, R, n
  <1>6. SumOver(v, S) \in Int
    BY <1>3, SumOverInt DEF Integral
  <1>7. SumOver(v, S \cup R) = SumOver(v, S) + SumOver(v, R)
    BY <1>2, <1>3, SumOverSplit
  <1>8. Height(curve, n) = SumOver(v, S) + SumOver(v, R)
    BY <1>2, <1>4, <1>7, Zenon
  <1>9. Height(sums, a) \in Int /\ Height(sums, a) = Height(curve, n) - Height(curve, b)
    <2>1. Height(curve, b) \in Int /\ Height(curve, b) = SumOver(v, R)
      BY <1>4
    <2>2. QED
      BY <1>5, <1>6, <1>8, <2>1
  <1>10. QED
    BY <1>4, <1>9 DEF n

LEMMA LinesMeet ==
  ASSUME NEW C, NEW rk, NEW r, Ranked(C, rk, r), Backwards(C, rk),
         NEW m \in Nat, C \subseteq 1 .. m
  PROVE  /\ \A a \in 0 .. m : \E b \in 0 .. r : Meet(C, rk, a, b)
         /\ \A b \in 0 .. r : \E a \in 0 .. m : Meet(C, rk, a, b)
  <1>1. /\ r \in Nat /\ \A i \in C : rk[i] \in 1 .. r /\ i \in 1 .. m
        /\ \A i, j \in C : (rk[i] = rk[j] => i = j) /\ (i < j => rk[i] > rk[j])
    BY DEF Ranked, Backwards
  <1>2. ASSUME NEW i \in C
        PROVE  Meet(C, rk, i - 1, rk[i])
    <2>1. \A j \in C : rk[j] <= rk[i] <=> j > i - 1
      <3> TAKE j \in C
      <3>1. rk[j] \in Int /\ rk[i] \in Int /\ i \in Int /\ j \in Int
        BY <1>1
      <3>2. (i < j => rk[i] > rk[j]) /\ (j < i => rk[j] > rk[i])
        BY <1>1
      <3>3. QED
        BY <3>1, <3>2
    <2>2. QED
      BY <2>1 DEF Meet, First
  <1>3. ASSUME NEW a \in 0 .. m
        PROVE  \E b \in 0 .. r : Meet(C, rk, a, b)
    <2> DEFINE L == {j \in C : j > a}
    <2>1. CASE L = {}
      <3>1. First(C, rk, 0) = {}
        BY FirstOnes
      <3>2. Meet(C, rk, a, 0)
        BY <2>1, <3>1 DEF Meet
      <3>3. QED
        BY <1>1, <3>2
    <2>2. CASE L # {}
      <3>1. L \subseteq Nat
        <4>1. \A j \in C : j \in Nat
          BY <1>1
        <4>2. QED
          BY <4>1
      <3> HIDE DEF L
      <3>2. PICK i \in L : \A j \in L : i <= j
        BY <2>2, <3>1, LeastNatural
      <3>3. i \in C /\ i > a /\ \A j \in C : j > a => i <= j
        BY <3>2 DEF L
      <3>4. \A j \in C : j > a <=> j > i - 1
        BY <1>1, <3>3
      <3>5. Meet(C, rk, a, rk[i])
        BY <1>2, <3>3, <3>4 DEF Meet
      <3>6. rk[i] \in 0 .. r
        BY <1>1, <3>3
      <3>7. QED
        BY <3>5, <3>6
    <2>3. QED
      BY <2>1, <2>2
  <1>4. ASSUME NEW b \in 0 .. r
        PROVE  \E a \in 0 .. m : Meet(C, rk, a, b)
    <2>1. CASE b = 0
      <3>1. First(C, rk, 0) = {} /\ {j \in C : j > m} = {}
        <4>1. \A j \in C : ~(j > m)
          BY <1>1
        <4>2. QED
          BY <4>1, FirstOnes
      <3>2. Meet(C, rk, m, b)
        BY <2>1, <3>1 DEF Meet
      <3>3. QED
        BY <3>2
    <2>2. CASE b # 0
      <3>1. b \in 1 .. r
        BY <1>1, <2>2
      <3>2. PICK i \in C : rk[i] = b
        BY <3>1 DEF Ranked
      <3>3. i - 1 \in 0 .. m
        BY <1>1
      <3>4. QED
        BY <1>2, <3>2, <3>3
    <2>3. QED
      BY <2>1, <2>2
  <1>5. QED
    BY <1>3, <1>4

LEMMA FallBackwards ==
  ASSUME NEW C, NEW rk, NEW v, NEW curve, Climbs(curve, C, rk, v), Ranked(C, rk, Len(curve)),
         NEW sums, Lists(sums, C, v), Backwards(C, rk)
  PROVE  Fall(sums) = Fall(curve)
  <1> DEFINE n == Len(curve)  m == Len(sums)
  <1>1. /\ n \in Nat /\ curve \in Seq(Int) /\ m \in Nat /\ sums \in Seq(Int) /\ C \subseteq 1 .. m
    BY LenProperties DEF Climbs, Lists
  <1>2. /\ \A a \in 0 .. m : \E b \in 0 .. n : Meet(C, rk, a, b)
        /\ \A b \in 0 .. n : \E a \in 0 .. m : Meet(C, rk, a, b)
    BY <1>1, LinesMeet
  <1>3. \A a \in 0 .. m, b \in 0 .. n : Meet(C, rk, a, b) =>
            /\ Height(sums, a) \in Int /\ Height(curve, b) \in Int
            /\ Height(sums, a) = Height(curve, n) - Height(curve, b)
    BY ListedHeight
  <1>4. Height(curve, n) \in Int
    BY <1>1, HeightIsSum
  <1>10. \A j \in C : j \in Int /\ rk[j] \in Int
    BY DEF Lists, Ranked
  <1> HIDE DEF n, m
  <1>5. ASSUME NEW a \in 0 .. m, NEW x \in 0 .. m, NEW b \in 0 .. n, NEW y \in 0 .. n,
               Meet(C, rk, a, b), Meet(C, rk, x, y)
        PROVE  Height(sums, a) - Height(sums, x) = Height(curve, y) - Height(curve, b)
    BY <1>3, <1>4, <1>5
  <1>6. ASSUME NEW a \in 0 .. m, NEW x \in 0 .. m, a <= x
        PROVE  \E y, b \in 0 .. n :
                  y <= b /\ Height(sums, a) - Height(sums, x) = Height(curve, y) - Height(curve, b)
    <2>1. PICK b \in 0 .. n : Meet(C, rk, a, b)
      BY <1>2
    <2>2. PICK y \in 0 .. n : Meet(C, rk, x, y)
      BY <1>2
    <2>3. CASE y <= b
      BY <1>5, <2>1, <2>2, <2>3
    <2>4. CASE b < y
      <3>1. First(C, rk, y) \subseteq First(C, rk, b)
        BY <1>6, <1>10, <2>1, <2>2 DEF Meet
      <3>2. Meet(C, rk, x, b)
        <4>1. First(C, rk, b) \subseteq First(C, rk, y)
          <5>1. b \in Int /\ y \in Int /\ b <= y
            BY <1>1, <2>4
          <5>2. \A j \in C : rk[j] <= b => rk[j] <= y
            BY <1>10, <5>1
          <5>3. QED
            BY <5>2 DEF First
        <4>2. QED
          BY <2>2, <3>1, <4>1 DEF Meet
      <3>3. b <= b
        OBVIOUS
      <3>4. QED
        BY <1>5, <2>1, <3>2, <3>3
    <2>5. QED
      BY <1>1, <2>3, <2>4
  <1>7. ASSUME NEW y \in 0 .. n, NEW b \in 0 .. n, y <= b
        PROVE  \E a, x \in 0 .. m :
                  a <= x /\ Height(sums, a) - Height(sums, x) = Height(curve, y) - Height(curve, b)
    <2>1. PICK a \in 0 .. m : Meet(C, rk, a, b)
      BY <1>2
    <2>2. PICK x \in 0 .. m : Meet(C, rk, x, y)
      BY <1>2
    <2>3. CASE a <= x
      BY <1>5, <2>1, <2>2, <2>3
    <2>4. CASE x < a
      <3>1. First(C, rk, b) \subseteq First(C, rk, y)
        BY <1>10, <2>1, <2>2, <2>4 DEF Meet
      <3>2. Meet(C, rk, x, b)
        <4>1. First(C, rk, y) \subseteq First(C, rk, b)
          <5>1. y \in Int /\ b \in Int /\ y <= b
            BY <1>1, <1>7
          <5>2. \A j \in C : rk[j] <= y => rk[j] <= b
            BY <1>10, <5>1
          <5>3. QED
            BY <5>2 DEF First
        <4>2. QED
          BY <2>2, <3>1, <4>1 DEF Meet
      <3>3. x <= x
        OBVIOUS
      <3>4. QED
        BY <1>5, <2>2, <3>2, <3>3
    <2>5. QED
      BY <1>1, <2>3, <2>4
  <1>8. IsFall(Fall(sums), sums, m) /\ IsFall(Fall(curve), curve, n)
    BY <1>1, FallIsDeepest DEF n, m
  <1>9. FallsAlike(sums, m, curve, n) /\ FallsAlike(curve, n, sums, m)
    <2>1. FallsAlike(sums, m, curve, n)
      BY <1>6 DEF FallsAlike
    <2>2. FallsAlike(curve, n, sums, m)
      <3> SUFFICES ASSUME NEW y \in 0 .. n, NEW b \in 0 .. n, y <= b
                   PROVE  \E a, x \in 0 .. m : a <= x /\
                             Height(curve, y) - Height(curve, b) = Height(sums, a) - Height(sums, x)
        BY DEF FallsAlike
      <3>1. QED
        BY <1>7
    <2>3. QED
      BY <2>1, <2>2
  <1>11. QED
    BY <1>1, <1>8, <1>9, FallIsOne

(* As many steps up as values above 0.                                     *)
Rises(curve) == {k \in 1 .. Len(curve) : Height(curve, k) > Height(curve, k - 1)}
Sinks(curve) == {k \in 1 .. Len(curve) : Height(curve, k) < Height(curve, k - 1)}

LEMMA StepsAreValues ==
  ASSUME NEW C, NEW rk, NEW v, NEW curve, Climbs(curve, C, rk, v), Ranked(C, rk, Len(curve))
  PROVE  /\ Cardinality({i \in C : v[i] > 0}) = Cardinality(Rises(curve))
         /\ {i \in C : v[i] < 0} # {} <=> Sinks(curve) # {}
  <1> DEFINE n == Len(curve)  U == {i \in C : v[i] > 0}
             f == [i \in U |-> rk[i]]
  <1>1. n \in Nat
    BY LenProperties DEF Climbs
  <1>2. ASSUME NEW i \in C
        PROVE  /\ rk[i] \in 1 .. n /\ v[i] \in Int
               /\ v[i] > 0 <=> rk[i] \in Rises(curve)
               /\ v[i] < 0 <=> rk[i] \in Sinks(curve)
    <2>1. rk[i] \in 1 .. n /\ v[i] \in Int /\ rk[i] - 1 \in 0 .. n /\ rk[i] \in 0 .. n
      BY <1>1 DEF Ranked, Climbs
    <2>2. Height(curve, rk[i]) \in Int /\ Height(curve, rk[i] - 1) \in Int
      BY <2>1, HeightIsSum
    <2>3. Height(curve, rk[i]) = Height(curve, rk[i] - 1) + v[i]
      BY <1>1, <2>1 DEF Climbs
    <2>4. v[i] > 0 <=> Height(curve, rk[i]) > Height(curve, rk[i] - 1)
      BY <2>1, <2>2, <2>3
    <2>5. v[i] < 0 <=> Height(curve, rk[i]) < Height(curve, rk[i] - 1)
      BY <2>1, <2>2, <2>3
    <2>6. QED
      BY <2>1, <2>4, <2>5 DEF Rises, Sinks
  <1>3. \A k \in 1 .. n : \E i \in C : rk[i] = k
    BY DEF Ranked
  <1>4. \A i, j \in C : rk[i] = rk[j] => i = j
    BY DEF Ranked
  <1>5. f \in Bijection(U, Rises(curve))
    <2>1. f \in [U -> Rises(curve)]
      BY <1>2
    <2>2. IsInjective(f)
      <3>1. DOMAIN f = U /\ \A i \in U : f[i] = rk[i] /\ i \in C
        OBVIOUS
      <3> HIDE DEF f, U
      <3>2. \A i, j \in U : f[i] = f[j] => i = j
        BY <1>4, <3>1
      <3>3. QED
        BY <3>1, <3>2 DEF IsInjective
    <2>3. ASSUME NEW k \in Rises(curve)
          PROVE  \E i \in U : f[i] = k
      <3>1. k \in 1 .. n
        BY DEF Rises
      <3>2. PICK i \in C : rk[i] = k
        BY <1>3, <3>1
      <3>3. v[i] > 0
        BY <1>2, <3>2
      <3>4. QED
        BY <3>2, <3>3
    <2> HIDE DEF f, U
    <2>4. QED
      BY <2>1, <2>2, <2>3 DEF Bijection, Injection, Surjection
  <1>6. IsFiniteSet(U)
    <2>1. IsFiniteSet(C) /\ U \in SUBSET C
      BY DEF Ranked
    <2> HIDE DEF U
    <2>2. QED
      BY <2>1, FS_Subset
  <1> HIDE DEF f
  <1>7. Cardinality(U) = Cardinality(Rises(curve))
    <2> HIDE DEF U
    <2>1. ExistsBijection(U, Rises(curve))
      BY <1>5 DEF ExistsBijection
    <2>2. QED
      BY <1>6, <2>1, FS_Bijection
  <1>8. {i \in C : v[i] < 0} # {} <=> Sinks(curve) # {}
    <2>1. ASSUME NEW k \in Sinks(curve)
          PROVE  \E i \in C : v[i] < 0
      <3>1. k \in 1 .. n
        BY DEF Sinks
      <3>2. PICK i \in C : rk[i] = k
        BY <1>3, <3>1
      <3>3. QED
        BY <1>2, <3>2
    <2>2. ASSUME NEW i \in C, v[i] < 0
          PROVE  Sinks(curve) # {}
      BY <1>2, <2>2
    <2>3. QED
      BY <2>1, <2>2
  <1>9. QED
    BY <1>7, <1>8

(* Different ranks up to as many as there are elements are all taken.      *)
LEMMA RankedByCount ==
  ASSUME NEW C, IsFiniteSet(C), NEW rk,
         \A i \in C : rk[i] \in 1 .. Cardinality(C),
         \A i, j \in C : rk[i] = rk[j] => i = j
  PROVE  Ranked(C, rk, Cardinality(C))
  <1> DEFINE r == Cardinality(C)  f == [i \in C |-> rk[i]]
  <1>1. r \in Nat
    BY FS_CardinalityType
  <1>2. IsFiniteSet(1 .. r) /\ Cardinality(1 .. r) = r
    BY <1>1, FS_Interval
  <1>3. f \in Injection(C, 1 .. r)
    <2>1. f \in [C -> 1 .. r]
      OBVIOUS
    <2>2. DOMAIN f = C /\ \A i \in C : f[i] = rk[i]
      OBVIOUS
    <2> HIDE DEF f
    <2>3. QED
      BY <2>1, <2>2 DEF Injection, IsInjective
  <1> HIDE DEF r
  <1>4. f \in Surjection(C, 1 .. r)
    <2> HIDE DEF f
    <2>1. Cardinality(C) = Cardinality(1 .. r)
      BY <1>2 DEF r
    <2>2. QED
      BY <1>2, <1>3, <2>1, FS_Injection
  <1>5. \A k \in 1 .. r : \E i \in C : rk[i] = k
    BY <1>4 DEF Surjection
  <1>6. QED
    BY <1>1, <1>5 DEF Ranked, r

(* A sum is what its positive values make less what its negative ones do.  *)
Above(v, S) == {i \in S : v[i] > 0}
Below(v, S) == {i \in S : v[i] < 0}
LEMMA SumBySign ==
  ASSUME NEW S, IsFiniteSet(S), NEW v, Integral(v, S),
         NEW U, U = Above(v, S), NEW D, D = Below(v, S)
  PROVE  /\ SumOver(v, U) \in Int /\ SumOver(v, D) \in Int /\ IsFiniteSet(U)
         /\ SumOver(v, S) = SumOver(v, U) + SumOver(v, D)
         /\ SumOver(v, U) >= 0 /\ (U # {} => SumOver(v, U) > 0)
         /\ SumOver(v, D) <= 0 /\ (D # {} => SumOver(v, D) < 0)
         /\ (D = {} => SumOver(v, D) = 0)
  <1> DEFINE Z == {i \in S : v[i] = 0}  R == D \cup Z
  <1>1. S = U \cup R /\ U \cap R = {} /\ D \cap Z = {}
    BY DEF Integral, Above, Below
  <1>2. U \in SUBSET S /\ D \in SUBSET S /\ Z \in SUBSET S /\ R \in SUBSET S
    BY DEF Above, Below
  <1>3. /\ \A x \in U : v[x] \in Int /\ v[x] > 0
        /\ \A x \in D : v[x] \in Int /\ v[x] < 0
        /\ \A x \in Z : v[x] = 0
    BY DEF Integral, Above, Below
  <1>4. Integral(v, U \cup R) /\ Integral(v, D \cup Z)
    BY <1>1 DEF Integral
  <1> HIDE DEF Z
  <1>5. IsFiniteSet(U) /\ IsFiniteSet(D) /\ IsFiniteSet(Z)
    BY <1>2, FS_Subset
  <1>6. IsFiniteSet(R)
    BY <1>5, FS_Union
  <1>7. SumOver(v, D \cup Z) = SumOver(v, D) + SumOver(v, Z)
    BY <1>1, <1>4, <1>5, SumOverSplit
  <1>8. SumOver(v, R) = SumOver(v, D) + SumOver(v, Z)
    BY <1>7
  <1> HIDE DEF R
  <1>9. SumOver(v, U \cup R) = SumOver(v, U) + SumOver(v, R)
    BY <1>1, <1>4, <1>5, <1>6, SumOverSplit
  <1>10. SumOver(v, Z) = 0
    BY <1>3, <1>5, SumOverZero
  <1>11. /\ SumOver(v, U) \in Int /\ SumOver(v, U) >= 0
         /\ (U # {} => SumOver(v, U) > 0)
    BY <1>3, <1>5, SumOverUp
  <1>12. /\ SumOver(v, D) \in Int /\ SumOver(v, D) <= 0
         /\ (D # {} => SumOver(v, D) < 0)
    BY <1>3, <1>5, SumOverDown
  <1>13. D = {} => SumOver(v, D) = 0
    BY SumOverNone
  <1>14. SumOver(v, S) = SumOver(v, U) + SumOver(v, D)
    <2>1. SumOver(v, S) = SumOver(v, U) + (SumOver(v, D) + SumOver(v, Z))
      BY <1>1, <1>8, <1>9, Zenon
    <2>2. QED
      BY <1>10, <1>11, <1>12, <2>1
  <1>15. QED
    BY <1>5, <1>11, <1>12, <1>13, <1>14

-----------------------------------------------------------------------------
(* Whole division.                                                         *)

LEMMA Products ==
  ASSUME NEW p \in Nat, NEW a \in Int, NEW b \in Int, a <= b
  PROVE  p * a \in Int /\ p * b \in Int /\ p * a <= p * b
  OBVIOUS

LEMMA DivRule ==
  ASSUME NEW y \in Int, NEW p \in Nat \ {0}
  PROVE  y \div p \in Int /\ p * (y \div p) <= y /\ y < p * (y \div p) + p
  OBVIOUS

LEMMA DivLeast ==
  ASSUME NEW y \in Int, NEW p \in Nat \ {0}, NEW d \in Int
  PROVE  p * d <= y => d <= y \div p
  <1> DEFINE e == y \div p
  <1>1. e \in Int /\ p * e <= y /\ y < p * e + p
    BY DivRule
  <1> HIDE DEF e
  <1>2. SUFFICES ASSUME p * d <= y, d > e PROVE FALSE
    BY <1>1 DEF e
  <1>3. e + 1 \in Int /\ e + 1 <= d
    BY <1>1, <1>2
  <1>4. p * (e + 1) <= p * d
    BY <1>3, Products
  <1>5. p * (e + 1) = p * e + p
    BY <1>1
  <1>6. p * d \in Int /\ p * e \in Int
    BY <1>1
  <1>7. QED
    BY <1>1, <1>2, <1>4, <1>5, <1>6

LEMMA DivOfMore ==
  ASSUME NEW y \in Int, NEW p \in Nat \ {0}, NEW q \in Nat
  PROVE  (y + p * q) \div p = q + y \div p
  <1> DEFINE d == y \div p  z == y + p * q  e == z \div p
  <1>1. d \in Int /\ p * d <= y /\ y < p * d + p
    BY DivRule
  <1>2. z \in Int
    OBVIOUS
  <1>3. e \in Int /\ p * e <= z /\ z < p * e + p
    BY <1>2, DivRule
  <1> HIDE DEF d, e
  <1>4. p * (q + d) = p * q + p * d
    BY <1>1
  <1>5. q + d <= e
    <2>1. p * (q + d) <= z
      BY <1>1, <1>4
    <2> HIDE DEF z
    <2>2. QED
      BY <1>1, <1>2, <2>1, DivLeast DEF e
  <1>6. e - q <= d
    <2>1. p * (e - q) = p * e - p * q
      BY <1>3
    <2>2. p * (e - q) <= y
      BY <1>3, <2>1
    <2>3. e - q \in Int
      BY <1>3
    <2>4. QED
      BY <2>2, <2>3, DivLeast DEF d
  <1>7. QED
    BY <1>1, <1>3, <1>5, <1>6 DEF d, e

LEMMA DivExact ==
  ASSUME NEW p \in Nat \ {0}, NEW q \in Nat
  PROVE  (p * q) \div p = q
  <1> DEFINE zero == 0
  <1>1. zero \in Int /\ zero \div p = 0
    OBVIOUS
  <1>2. zero + p * q = p * q
    OBVIOUS
  <1> HIDE DEF zero
  <1>3. (zero + p * q) \div p = q + zero \div p
    BY <1>1, DivOfMore
  <1>4. QED
    BY <1>1, <1>2, <1>3

LEMMA DivOfSum ==
  ASSUME NEW a \in Int, NEW t \in Int, NEW p \in Nat \ {0}
  PROVE  a \div p + t \div p <= (a + t) \div p
  <1> DEFINE d == a \div p  e == t \div p
  <1>1. d \in Int /\ p * d <= a /\ e \in Int /\ p * e <= t
    BY DivRule
  <1> HIDE DEF d, e
  <1>2. p * (d + e) = p * d + p * e
    BY <1>1
  <1>3. p * (d + e) <= a + t
    BY <1>1, <1>2
  <1>4. d + e \in Int /\ a + t \in Int
    BY <1>1
  <1>5. QED
    BY <1>3, <1>4, DivLeast DEF d, e

LEMMA DivByLess ==
  ASSUME NEW y \in Nat, NEW p \in Nat \ {0}, NEW q \in Nat \ {0}, p <= q
  PROVE  y \div q <= y \div p
  <1> DEFINE e == y \div q
  <1>1. e \in Int /\ q * e <= y /\ e \in Nat
    BY DivRule
  <1> HIDE DEF e
  <1>2. e * p <= e * q
    BY <1>1, Products
  <1>3. p * e <= y
    BY <1>1, <1>2
  <1>4. QED
    BY <1>1, <1>3, DivLeast DEF e

LEMMA DivOfDebt ==
  ASSUME NEW y \in Int, y <= 0, NEW p \in Nat \ {0}, NEW q \in Nat \ {0}, p <= q
  PROVE  y \div p <= y \div q
  <1> DEFINE e == y \div p
  <1>1. e \in Int /\ p * e <= y
    BY DivRule
  <1> HIDE DEF e
  <1>2. e <= 0
    <2> SUFFICES ASSUME e > 0 PROVE FALSE
      BY <1>1
    <2>1. p * 1 <= p * e
      BY <1>1, Products
    <2>2. QED
      BY <1>1, <2>1
  <1>3. 0 - e \in Nat
    BY <1>1, <1>2
  <1>4. (0 - e) * p <= (0 - e) * q
    BY <1>3, Products
  <1>5. (0 - e) * p = 0 - p * e /\ (0 - e) * q = 0 - q * e /\ p * e \in Int /\ q * e \in Int
    BY <1>1
  <1>6. q * e <= y
    BY <1>1, <1>4, <1>5
  <1>7. QED
    BY <1>1, <1>6, DivLeast DEF e

(* Larger values make a larger sum.                                        *)
LEMMA SmallerSum ==
  ASSUME NEW S, IsFiniteSet(S), NEW v, NEW w, \A x \in S : v[x] \in Nat /\ w[x] \in Nat /\ w[x] <= v[x]
  PROVE  SumOver(w, S) <= SumOver(v, S) /\ SumOver(w, S) \in Nat /\ SumOver(v, S) \in Nat
  <1> DEFINE f == [x \in S |-> v[x]]
             g == [x \in S |-> w[x]]
             d == [x \in S |-> f[x] - g[x]]
  <1>1. \A x \in S : f[x] \in Nat /\ g[x] \in Nat /\ d[x] \in Nat /\ d[x] = f[x] - g[x]
    OBVIOUS
  <1>4. SumOver(v, S) = SumFunctionOnSet(f, S) /\ SumOver(w, S) = SumFunctionOnSet(g, S)
    BY DEF SumOver
  <1> HIDE DEF f, g, d
  <1>2. /\ SumFunctionOnSet(f, S) \in Nat /\ SumFunctionOnSet(g, S) \in Nat
        /\ SumFunctionOnSet(d, S) \in Nat
    BY <1>1, SumIsNat
  <1>3. SumFunctionOnSet(d, S) = SumFunctionOnSet(f, S) - SumFunctionOnSet(g, S)
    <2>1. Differs(d, f, g, S)
      BY <1>1 DEF Differs
    <2>2. QED
      BY <2>1, SumLess
  <1>5. QED
    BY <1>2, <1>3, <1>4

LEMMA SumUpTo ==
  ASSUME NEW v, NEW k \in Nat, \A j \in 1 .. (k + 1) : v[j] \in Int
  PROVE  SumOver(v, 1 .. (k + 1)) = SumOver(v, 1 .. k) + v[k + 1] /\ SumOver(v, 1 .. k) \in Int
  <1> DEFINE S == 1 .. k
             a == k + 1
  <1>1. 1 .. (k + 1) = S \cup {a} /\ a \notin S
    OBVIOUS
  <1>2. IsFiniteSet(S)
    BY FS_Interval
  <1>3. Integral(v, S \cup {a}) /\ Integral(v, S)
    BY <1>1 DEF Integral
  <1> HIDE DEF S, a
  <1>4. SumOver(v, S \cup {a}) = SumOver(v, S) + v[a] /\ SumOver(v, S) \in Int
    BY <1>1, <1>2, <1>3, SumOverMore, SumOverInt
  <1>5. QED
    BY <1>1, <1>4 DEF S, a

(* Taking out one value of a sequence of them takes it off the sum.        *)
LEMMA SumWithout ==
  ASSUME NEW n \in Nat, NEW i \in 1 .. (n + 1), NEW v, NEW w,
         \A k \in 1 .. (n + 1) : v[k] \in Int,
         \A k \in 1 .. n : w[k] = IF k < i THEN v[k] ELSE v[k + 1]
  PROVE  SumOver(w, 1 .. n) = SumOver(v, 1 .. (n + 1)) - v[i]
  <1> DEFINE V(k) == SumOver(v, 1 .. k)
             W(k) == SumOver(w, 1 .. k)
             T == {k \in Nat : W(k) = IF k < i THEN V(k) ELSE V(k + 1) - v[i]}
  <1>1. V(0) = 0 /\ W(0) = 0
    <2>1. 1 .. 0 = {}
      OBVIOUS
    <2>2. QED
      BY <2>1, SumOverNone
  <1>2. ASSUME NEW k \in 0 .. n
        PROVE  V(k) \in Int /\ V(k + 1) = V(k) + v[k + 1]
    <2>1. k \in Nat /\ \A j \in 1 .. (k + 1) : v[j] \in Int
      OBVIOUS
    <2>2. QED
      BY <2>1, SumUpTo
  <1>3. ASSUME NEW k \in Nat, k < n
        PROVE  W(k + 1) = W(k) + w[k + 1]
    <2>1. \A j \in 1 .. (k + 1) : w[j] \in Int
      <3>1. \A j \in 1 .. (k + 1) : j \in 1 .. n /\ j \in 1 .. (n + 1) /\ j + 1 \in 1 .. (n + 1)
        BY <1>3
      <3>2. QED
        BY <3>1
    <2>2. QED
      BY <2>1, SumUpTo
  <1> HIDE DEF V, W
  <1>4. 0 \in T
    BY <1>1
  <1>5. ASSUME NEW k \in Nat, k < n, k \in T
        PROVE  k + 1 \in T
    <2>1. /\ W(k + 1) = W(k) + w[k + 1]
          /\ w[k + 1] = IF k + 1 < i THEN v[k + 1] ELSE v[k + 2]
          /\ v[k + 1] \in Int /\ v[k + 2] \in Int /\ v[i] \in Int
      BY <1>3, <1>5
    <2>2. /\ V(k) \in Int /\ V(k + 1) = V(k) + v[k + 1]
          /\ V(k + 1) \in Int /\ V(k + 2) = V(k + 1) + v[k + 2]
      <3>1. k \in 0 .. n /\ k + 1 \in 0 .. n /\ (k + 1) + 1 = k + 2
        BY <1>5
      <3>2. QED
        BY <1>2, <3>1
    <2>3. CASE k + 1 < i
      BY <1>5, <2>1, <2>2, <2>3
    <2>4. CASE k + 1 = i
      BY <1>5, <2>1, <2>2, <2>4
    <2>5. CASE k + 1 > i
      BY <1>5, <2>1, <2>2, <2>5
    <2>6. QED
      BY <2>3, <2>4, <2>5
  <1> HIDE DEF T
  <1>6. \A k \in 0 .. n : k \in T
    BY <1>4, <1>5, BoundedInduction
  <1>7. QED
    <2>1. n \in T
      BY <1>6
    <2>2. CASE n < i
      <3>1. W(n) = V(n) /\ i = n + 1
        BY <2>1, <2>2 DEF T
      <3>2. V(n + 1) = V(n) + v[n + 1] /\ V(n) \in Int /\ v[n + 1] \in Int
        BY <1>2
      <3>3. QED
        BY <3>1, <3>2 DEF V, W
    <2>3. CASE ~(n < i)
      BY <2>1, <2>3 DEF T, V, W
    <2>4. QED
      BY <2>2, <2>3
=============================================================================
