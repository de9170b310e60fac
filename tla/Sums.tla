-------------------------------- MODULE Sums --------------------------------
(***************************************************************************)
(* What a sum over a finite set is: the facts about MapThenSumSet that      *)
(* proofs about totals (of a cart, of the orders made from it) rest on.     *)
(* They hold for every finite set, by induction on its cardinality.         *)
(***************************************************************************)
EXTENDS FiniteSetsExt, FiniteSetTheorems, TLAPS

\* The sum of f[x] for x in S.
SumOf(f, S) == MapThenSumSet(LAMBDA x : f[x], S)

(***************************************************************************)
(* Induction.  A set of numbers that holds 0, and n + 1 with n, is Nat: a   *)
(* number that is missing has a least one, since Nat is well-founded.       *)
(***************************************************************************)
LEMMA NatSetInduction ==
  ASSUME NEW T, T \subseteq Nat, 0 \in T, \A n \in T : n + 1 \in T
  PROVE  T = Nat
<1> SUFFICES ASSUME Nat \ T # {} PROVE FALSE
  OBVIOUS
<1> DEFINE R == OpToRel(<, Nat)
<1>1. \E m \in Nat \ T : \A k \in Nat \ T : <<k, m>> \notin R
  <2>1. IsWellFoundedOn(R, Nat)
    BY NatLessThanWellFounded
  <2> HIDE DEF R
  <2> QED
    BY <2>1, WFMin
<1>2. PICK m \in Nat \ T : \A k \in Nat \ T : ~(k < m)
  BY <1>1 DEF OpToRel
<1>3. m # 0 /\ m - 1 \in Nat
  OBVIOUS
<1>4. m - 1 \in T
  BY <1>2, <1>3
<1> QED
  BY <1>4

\* A set of subsets of S that holds the empty set, and every set that is one
\* of its members with one element more, is all of them.
LEMMA SubsetInduction ==
  ASSUME NEW S, IsFiniteSet(S), NEW U, {} \in U,
         \A s \in SUBSET S : s # {} /\ (\A x \in s : s \ {x} \in U) => s \in U
  PROVE  SUBSET S \subseteq U
<1> DEFINE T == {n \in Nat : \A s \in SUBSET S : Cardinality(s) = n => s \in U}
<1>1. \A s \in SUBSET S : IsFiniteSet(s) /\ Cardinality(s) \in Nat
  BY FS_Subset, FS_CardinalityType
<1>2. 0 \in T
  BY <1>1, FS_EmptySet
<1>3. \A n \in T : n + 1 \in T
  <2> SUFFICES ASSUME NEW n \in T, NEW s \in SUBSET S, Cardinality(s) = n + 1
               PROVE  s \in U
    OBVIOUS
  <2>1. s # {}
    BY <1>1, FS_EmptySet
  <2>2. \A x \in s : s \ {x} \in U
    <3> TAKE x \in s
    <3>1. Cardinality(s \ {x}) = n
      BY <1>1, FS_RemoveElement
    <3> QED
      BY <3>1
  <2> QED
    BY <2>1, <2>2
<1>4. T = Nat
  BY <1>2, <1>3, NatSetInduction
<1> QED
  BY <1>1, <1>4

(***************************************************************************)
(* The function behind the fold, and its equation.                          *)
(***************************************************************************)
Pick(s) == CHOOSE x \in s : TRUE

\* g sums f over the sets in D.
SumsOver(g, f, D) ==
    g = [s \in D |-> IF s = {} THEN 0 ELSE f[Pick(s)] + g[s \ {Pick(s)}]]

\* Its value at a set in D.
LEMMA SumsAt ==
  ASSUME NEW g, NEW f, NEW D, SumsOver(g, f, D)
  PROVE  \A s \in D : g[s] = IF s = {} THEN 0 ELSE f[Pick(s)] + g[s \ {Pick(s)}]
<1> TAKE s \in D
<1> DEFINE e(x) == IF x = {} THEN 0 ELSE f[Pick(x)] + g[x \ {Pick(x)}]
<1>1. g = [x \in D |-> e(x)]
  BY DEF SumsOver
<1> HIDE DEF e
<1>2. g[s] = e(s)
  BY <1>1
<1> QED
  BY <1>2 DEF e

\* The sum is the value at S of a function for the subsets of S.
LEMMA SumIsChosen ==
  ASSUME NEW f, NEW S
  PROVE  SumOf(f, S) = (CHOOSE g : SumsOver(g, f, SUBSET S))[S]
BY DEF SumOf, MapThenSumSet, MapThenFoldSet, SumsOver, Pick

\* What is taken out of a set was in it.
LEMMA PickIsMember == \A s : s # {} => Pick(s) \in s
BY DEF Pick

\* There is such a function: it is extended to larger and larger sets.
LEMMA SumExists ==
  ASSUME NEW S, IsFiniteSet(S), NEW f, \A x \in S : f[x] \in Nat
  PROVE  \E g \in [SUBSET S -> Nat] : SumsOver(g, f, SUBSET S)
<1> DEFINE D(n) == {s \in SUBSET S : Cardinality(s) <= n}
           T == {n \in Nat : \E g \in [D(n) -> Nat] : SumsOver(g, f, D(n))}
<1>1. \A s \in SUBSET S : IsFiniteSet(s) /\ Cardinality(s) \in Nat
  BY FS_Subset, FS_CardinalityType
<1>2. \A s \in SUBSET S : s # {} =>
         /\ Pick(s) \in s /\ s \ {Pick(s)} \in SUBSET S
         /\ Cardinality(s \ {Pick(s)}) = Cardinality(s) - 1 /\ f[Pick(s)] \in Nat
  BY <1>1, PickIsMember, FS_RemoveElement
<1>3. 0 \in T
  <2>1. D(0) = {{}}
    BY <1>1, FS_EmptySet
  <2>2. SumsOver([s \in D(0) |-> 0], f, D(0))
    BY <2>1 DEF SumsOver
  <2> QED
    BY <2>2
<1>4. \A n \in T : n + 1 \in T
  <2> SUFFICES ASSUME NEW n \in T PROVE n + 1 \in T
    OBVIOUS
  <2>1. PICK g \in [D(n) -> Nat] : SumsOver(g, f, D(n))
    OBVIOUS
  <2> DEFINE h == [s \in D(n + 1) |-> IF s = {} THEN 0 ELSE f[Pick(s)] + g[s \ {Pick(s)}]]
  <2>2. \A s \in D(n + 1) : s # {} => s \ {Pick(s)} \in D(n)
    <3> SUFFICES ASSUME NEW s \in D(n + 1), s # {} PROVE s \ {Pick(s)} \in D(n)
      OBVIOUS
    <3>1. Cardinality(s) \in Nat /\ Cardinality(s) <= n + 1
      BY <1>1
    <3>2. s \ {Pick(s)} \in SUBSET S /\ Cardinality(s \ {Pick(s)}) = Cardinality(s) - 1
      BY <1>2
    <3> QED
      BY <3>1, <3>2
  <2>3. h \in [D(n + 1) -> Nat]
    BY <1>2, <2>2
  <2>4. \A s \in D(n) : s \in D(n + 1) /\ h[s] = g[s]
    <3> TAKE s \in D(n)
    <3>1. s \in D(n + 1)
      BY <1>1
    <3>2. g[s] = IF s = {} THEN 0 ELSE f[Pick(s)] + g[s \ {Pick(s)}]
      BY <2>1, SumsAt
    <3> QED
      BY <3>1, <3>2
  <2>5. \A s \in D(n + 1) : s # {} => g[s \ {Pick(s)}] = h[s \ {Pick(s)}]
    BY <2>2, <2>4
  <2>6. SumsOver(h, f, D(n + 1))
    BY <2>5 DEF SumsOver
  <2> HIDE DEF h, D
  <2> QED
    BY <2>3, <2>6
<1>5. T = Nat
  BY <1>3, <1>4, NatSetInduction
<1>6. D(Cardinality(S)) = SUBSET S
  BY <1>1, FS_Subset
<1>7. Cardinality(S) \in T
  BY <1>1, <1>5
<1> QED
  BY <1>6, <1>7

\* Two such functions agree on the sets they are both for.
LEMMA SumsAgree ==
  ASSUME NEW S, IsFiniteSet(S), NEW R \in SUBSET S, NEW f, NEW h, NEW e, NEW g,
         \A x \in R : f[x] = h[x], SumsOver(g, f, SUBSET S), SumsOver(e, h, SUBSET R)
  PROVE  \A s \in SUBSET R : g[s] = e[s]
<1> DEFINE U == {s \in SUBSET R : g[s] = e[s]}
<1>0. \A s \in SUBSET R :
        /\ g[s] = IF s = {} THEN 0 ELSE f[Pick(s)] + g[s \ {Pick(s)}]
        /\ e[s] = IF s = {} THEN 0 ELSE h[Pick(s)] + e[s \ {Pick(s)}]
  <2>1. SUBSET R \subseteq SUBSET S
    OBVIOUS
  <2>2. \A s \in SUBSET S : g[s] = IF s = {} THEN 0 ELSE f[Pick(s)] + g[s \ {Pick(s)}]
    BY SumsAt, Zenon
  <2>3. \A s \in SUBSET R : e[s] = IF s = {} THEN 0 ELSE h[Pick(s)] + e[s \ {Pick(s)}]
    BY SumsAt, Zenon
  <2> QED
    BY <2>1, <2>2, <2>3
<1>1. {} \in U
  BY <1>0
<1>2. \A s \in SUBSET R : s # {} /\ (\A x \in s : s \ {x} \in U) => s \in U
  <2> SUFFICES ASSUME NEW s \in SUBSET R, s # {}, s \ {Pick(s)} \in U PROVE s \in U
    BY PickIsMember
  <2>1. f[Pick(s)] = h[Pick(s)]
    BY PickIsMember
  <2> QED
    BY <1>0, <2>1
<1>3. IsFiniteSet(R)
  BY FS_Subset
<1>4. SUBSET R \subseteq U
  <2> HIDE DEF U
  <2> QED BY <1>1, <1>2, <1>3, SubsetInduction
<1> QED
  BY <1>4

(***************************************************************************)
(* Facts about sums of numbers.                                             *)
(***************************************************************************)
\* The sum over a part of S is the value there of any function for S.
LEMMA SumIs ==
  ASSUME NEW S, IsFiniteSet(S), NEW f, NEW g, SumsOver(g, f, SUBSET S),
         NEW R \in SUBSET S, NEW h, \A x \in R : f[x] = h[x] /\ h[x] \in Nat
  PROVE  SumOf(h, R) = g[R]
<1>1. IsFiniteSet(R)
  BY FS_Subset
<1>2. \E e : SumsOver(e, h, SUBSET R)
  BY <1>1, SumExists
<1> DEFINE e == CHOOSE e : SumsOver(e, h, SUBSET R)
<1>3. SumsOver(e, h, SUBSET R) /\ SumOf(h, R) = e[R]
  BY <1>2, SumIsChosen
<1> HIDE DEF e
<1>4. g[R] = e[R]
  BY <1>3, SumsAgree
<1> QED
  BY <1>3, <1>4

\* A sum depends on the values over the set only.
LEMMA SumCongruence ==
  ASSUME NEW S, IsFiniteSet(S), NEW f, NEW h, \A x \in S : f[x] = h[x] /\ f[x] \in Nat
  PROVE  SumOf(f, S) = SumOf(h, S)
<1>1. PICK g : SumsOver(g, f, SUBSET S)
  BY SumExists
<1> QED
  BY <1>1, SumIs

\* Nothing sums up to 0.
LEMMA SumEmpty ==
  ASSUME NEW f
  PROVE  SumOf(f, {}) = 0
<1>1. IsFiniteSet({})
  BY FS_EmptySet
<1>2. PICK g : SumsOver(g, f, SUBSET {})
  BY <1>1, SumExists
<1>3. g[{}] = 0
  BY <1>2, SumsAt
<1>4. \A x \in {} : f[x] = f[x] /\ f[x] \in Nat
  OBVIOUS
<1>5. {} \in SUBSET {}
  OBVIOUS
<1>6. SumOf(f, {}) = g[{}]
  BY <1>1, <1>2, <1>4, <1>5, SumIs, Zenon
<1> QED
  BY <1>3, <1>6

\* A sum of numbers is a number.
LEMMA SumType ==
  ASSUME NEW S, IsFiniteSet(S), NEW f, \A x \in S : f[x] \in Nat
  PROVE  SumOf(f, S) \in Nat
<1>1. PICK g \in [SUBSET S -> Nat] : SumsOver(g, f, SUBSET S)
  BY SumExists
<1> QED
  BY <1>1, SumIs

\* Any element may be taken out first: the order of a sum does not matter.
LEMMA SumRemove ==
  ASSUME NEW S, IsFiniteSet(S), NEW f, \A x \in S : f[x] \in Nat, NEW a \in S
  PROVE  SumOf(f, S) = f[a] + SumOf(f, S \ {a})
<1>1. PICK g \in [SUBSET S -> Nat] : SumsOver(g, f, SUBSET S)
  BY SumExists
<1> DEFINE U == {s \in SUBSET S : \A x \in s : g[s] = f[x] + g[s \ {x}]}
<1>2. {} \in U
  OBVIOUS
<1>3. \A s \in SUBSET S : s # {} /\ (\A x \in s : s \ {x} \in U) => s \in U
  <2> SUFFICES ASSUME NEW s \in SUBSET S, s # {}, \A x \in s : s \ {x} \in U, NEW x \in s
               PROVE  g[s] = f[x] + g[s \ {x}]
    OBVIOUS
  <2> DEFINE p == Pick(s)
  <2>0. p \in s
    BY PickIsMember
  <2>1. g[s] = f[p] + g[s \ {p}]
    BY <1>1, SumsAt
  <2> HIDE DEF p
  <2>2. CASE p = x
    BY <2>1, <2>2
  <2>3. CASE p # x
    <3> DEFINE sp == s \ {p}
               sx == s \ {x}
               rest == sp \ {x}
    <3>1. g[sp] = f[x] + g[rest]
      BY <2>0, <2>3
    <3>2. g[sx] = f[p] + g[rest]
      <4>1. sx \ {p} = rest
        OBVIOUS
      <4>2. g[sx] = f[p] + g[sx \ {p}]
        BY <2>0, <2>3
      <4> QED
        BY <4>1, <4>2
    <3>3. f[p] \in Nat /\ f[x] \in Nat /\ g[rest] \in Nat
      BY <2>0
    <3>4. g[s] = f[p] + g[sp]
      BY <2>1
    <3> HIDE DEF sp, sx, rest
    <3>5. g[s] = f[x] + g[sx]
      BY <3>1, <3>2, <3>3, <3>4
    <3> QED
      BY <3>5 DEF sx
  <2> QED
    BY <2>2, <2>3
<1>4. SUBSET S \subseteq U
  <2> HIDE DEF U
  <2> QED
    BY <1>2, <1>3, SubsetInduction
<1>5. g[S] = f[a] + g[S \ {a}]
  BY <1>4
<1> QED
  BY <1>1, <1>5, SumIs

\* One element more.
LEMMA SumAdd ==
  ASSUME NEW S, IsFiniteSet(S), NEW f, \A x \in S : f[x] \in Nat, NEW a, a \notin S,
         f[a] \in Nat
  PROVE  SumOf(f, S \cup {a}) = SumOf(f, S) + f[a]
<1>1. IsFiniteSet(S \cup {a}) /\ (S \cup {a}) \ {a} = S
  BY FS_AddElement
<1> QED
  BY <1>1, SumRemove, SumType

\* A sum is 0 only if all its terms are.
LEMMA SumIsZero ==
  ASSUME NEW S, IsFiniteSet(S), NEW f, \A x \in S : f[x] \in Nat
  PROVE  SumOf(f, S) = 0 <=> \A x \in S : f[x] = 0
<1> DEFINE U == {s \in SUBSET S : (\A x \in s : f[x] = 0) => SumOf(f, s) = 0}
<1>0. \A s \in SUBSET S : \A x \in s :
          /\ SumOf(f, s) = f[x] + SumOf(f, s \ {x})
          /\ SumOf(f, s \ {x}) \in Nat /\ f[x] \in Nat
  <2> TAKE s \in SUBSET S
  <2>1. IsFiniteSet(s)
    BY FS_Subset
  <2> TAKE x \in s
  <2>2. IsFiniteSet(s \ {x})
    BY <2>1, FS_Subset
  <2> QED
    BY <2>1, <2>2, SumRemove, SumType
<1>1. {} \in U
  BY SumEmpty
<1>2. \A s \in SUBSET S : s # {} /\ (\A x \in s : s \ {x} \in U) => s \in U
  <2> SUFFICES ASSUME NEW s \in SUBSET S, NEW x \in s, s \ {x} \in U, \A y \in s : f[y] = 0
               PROVE  SumOf(f, s) = 0
    OBVIOUS
  <2>1. SumOf(f, s \ {x}) = 0 /\ f[x] = 0
    OBVIOUS
  <2> QED
    BY <1>0, <2>1
<1>3. SUBSET S \subseteq U
  <2> HIDE DEF U
  <2> QED
    BY <1>1, <1>2, SubsetInduction
<1>4. ASSUME NEW x \in S, SumOf(f, S) = 0 PROVE f[x] = 0
  <2>1. SumOf(f, S) = f[x] + SumOf(f, S \ {x}) /\ SumOf(f, S \ {x}) \in Nat /\ f[x] \in Nat
    BY <1>0
  <2> QED
    BY <1>4, <2>1
<1>5. S \in U
  BY <1>3
<1> QED
  BY <1>4, <1>5

\* What is taken from one term is taken from the sum.
LEMMA SumChange ==
  ASSUME NEW S, IsFiniteSet(S), NEW f, NEW h, NEW a \in S,
         \A x \in S : f[x] \in Nat /\ h[x] \in Nat,
         \A x \in S \ {a} : f[x] = h[x]
  PROVE  SumOf(f, S) - f[a] = SumOf(h, S) - h[a]
<1>1. IsFiniteSet(S \ {a})
  BY FS_Subset
<1>2. SumOf(f, S \ {a}) = SumOf(h, S \ {a}) /\ SumOf(f, S \ {a}) \in Nat
  BY <1>1, SumCongruence, SumType
<1> QED
  BY <1>2, SumRemove

\* T is made of the sets F[x], of f[x] elements each.
ArePartsOf(T, S, F, f) ==
    /\ IsFiniteSet(S) /\ \A z : z \in T <=> \E x \in S : z \in F[x]
    /\ \A x \in S : IsFiniteSet(F[x]) /\ f[x] = Cardinality(F[x])
    /\ \A x, y \in S : x # y => F[x] \cap F[y] = {}

\* Sets that are pairwise disjoint have, together, as many elements as their
\* cardinalities sum up to.
LEMMA SumOfParts ==
  ASSUME NEW S, NEW F, NEW f, NEW T, ArePartsOf(T, S, F, f)
  PROVE  IsFiniteSet(T) /\ SumOf(f, S) = Cardinality(T)
<1> USE DEF ArePartsOf
<1> DEFINE All(s) == UNION {F[x] : x \in s}
           U == {s \in SUBSET S : IsFiniteSet(All(s)) /\ SumOf(f, s) = Cardinality(All(s))}
<1>1. \A x \in S : f[x] \in Nat
  BY FS_CardinalityType
<1>2. {} \in U
  <2>1. All({}) = {}
    OBVIOUS
  <2> QED
    BY <2>1, SumEmpty, FS_EmptySet
<1>3. ASSUME NEW s \in SUBSET S, s # {}, \A x \in s : s \ {x} \in U
      PROVE  s \in U
  <2>1. PICK a \in s : TRUE
    BY <1>3
  <2>2. IsFiniteSet(s) /\ \A x \in s : f[x] \in Nat
    BY <1>1, FS_Subset
  <2>3. SumOf(f, s) = f[a] + SumOf(f, s \ {a})
    BY <2>1, <2>2, SumRemove
  <2>4. IsFiniteSet(All(s \ {a})) /\ SumOf(f, s \ {a}) = Cardinality(All(s \ {a}))
    BY <1>3, <2>1
  <2>5. IsFiniteSet(F[a]) /\ f[a] = Cardinality(F[a])
    BY <2>1
  <2>6. All(s) = F[a] \cup All(s \ {a}) /\ F[a] \cap All(s \ {a}) = {}
    BY <2>1
  <2> HIDE DEF All
  <2>7. /\ IsFiniteSet(F[a] \cup All(s \ {a})) /\ F[a] \cap All(s \ {a}) \in SUBSET F[a]
        /\ Cardinality(F[a] \cup All(s \ {a}))
             = Cardinality(F[a]) + Cardinality(All(s \ {a})) - Cardinality(F[a] \cap All(s \ {a}))
    BY <2>4, <2>5, FS_Union
  <2>8. Cardinality(F[a] \cap All(s \ {a})) = 0
    BY <2>6, FS_EmptySet
  <2>9. Cardinality(F[a]) \in Nat /\ Cardinality(All(s \ {a})) \in Nat
    BY <2>4, <2>5, FS_CardinalityType
  <2> DEFINE m == Cardinality(F[a])
             n == Cardinality(All(s \ {a}))
             k == Cardinality(F[a] \cap All(s \ {a}))
             t == Cardinality(All(s))
  <2>10. IsFiniteSet(All(s)) /\ t = m + n - k /\ k = 0 /\ m \in Nat /\ n \in Nat
    BY <2>6, <2>7, <2>8, <2>9
  <2>11. f[a] = m /\ SumOf(f, s \ {a}) = n
    BY <2>4, <2>5
  <2> HIDE DEF m, n, k, t
  <2>12. SumOf(f, s) = t
    BY <2>3, <2>10, <2>11
  <2> QED
    BY <2>10, <2>12 DEF t, All
<1> HIDE DEF U
<1>4. SUBSET S \subseteq U
  BY <1>2, <1>3, SubsetInduction
<1>5. T = All(S)
  OBVIOUS
<1> HIDE DEF All
<1>6. IsFiniteSet(All(S)) /\ SumOf(f, S) = Cardinality(All(S))
  BY <1>4 DEF U
<1> QED
  BY <1>5, <1>6

\* A sum of smaller numbers is smaller.
LEMMA SumAtMost ==
  ASSUME NEW S, IsFiniteSet(S), NEW f, NEW h,
         \A x \in S : f[x] \in Nat /\ h[x] \in Nat /\ f[x] <= h[x]
  PROVE  SumOf(f, S) <= SumOf(h, S)
<1> DEFINE U == {s \in SUBSET S : SumOf(f, s) <= SumOf(h, s)}
<1>1. {} \in U
  BY SumEmpty
<1>2. ASSUME NEW s \in SUBSET S, s # {}, \A x \in s : s \ {x} \in U
      PROVE  s \in U
  <2>1. PICK a \in s : TRUE
    BY <1>2
  <2>2. IsFiniteSet(s) /\ IsFiniteSet(s \ {a})
    BY FS_Subset
  <2>3. SumOf(f, s) = f[a] + SumOf(f, s \ {a}) /\ SumOf(h, s) = h[a] + SumOf(h, s \ {a})
    BY <2>1, <2>2, SumRemove
  <2>4. SumOf(f, s \ {a}) \in Nat /\ SumOf(h, s \ {a}) \in Nat
    BY <2>2, SumType
  <2>5. SumOf(f, s \ {a}) <= SumOf(h, s \ {a}) /\ f[a] \in Nat /\ h[a] \in Nat /\ f[a] <= h[a]
    BY <1>2, <2>1
  <2> QED
    BY <2>3, <2>4, <2>5
<1> HIDE DEF U
<1>3. SUBSET S \subseteq U
  BY <1>1, <1>2, SubsetInduction
<1> QED
  BY <1>3 DEF U

\* The sum over one element is its number.
LEMMA SumOfOne ==
  ASSUME NEW f, NEW a, f[a] \in Nat
  PROVE  SumOf(f, {a}) = f[a]
<1>1. IsFiniteSet({a})
  BY FS_Singleton
<1>2. SumOf(f, {a}) = f[a] + SumOf(f, {a} \ {a})
  BY <1>1, SumRemove
<1>3. {a} \ {a} = {}
  OBVIOUS
<1> QED
  BY <1>2, <1>3, SumEmpty
=============================================================================
