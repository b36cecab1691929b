--------------------------- MODULE InductionLemmas ---------------------------
(***************************************************************************)
(* Induction over the numbers and definition by recursion, stated with     *)
(* sets and functions in place of operators.  A recursive function is a    *)
(* CHOOSE: that one exists which satisfies its equation is proved here     *)
(* once, for every step function.                                          *)
(***************************************************************************)
EXTENDS Integers, Functions, FiniteSetTheorems, WellFoundedInduction, TLAPS

(* A set of numbers that is not empty has a least one.                     *)
LEMMA LeastNumber ==
  ASSUME NEW T, T \subseteq Nat, T # {}
  PROVE  \E m \in T : \A n \in T : m <= n
<1>. DEFINE R == {ss \in Nat \X Nat : ss[1] < ss[2]}
<1>1. IsWellFoundedOn(R, Nat)
  BY NatLessThanWellFounded DEF OpToRel
<1>2. PICK m \in T : \A n \in T : ~(<<n, m>> \in R)
  <2>. HIDE DEF R
  <2>. QED  BY <1>1, WFMin
<1>3. ASSUME NEW n \in T PROVE m <= n
  <2>1. <<n, m>> \in Nat \X Nat /\ ~(<<n, m>> \in R)
    BY <1>2
  <2>2. <<n, m>>[1] = n /\ <<n, m>>[2] = m
    OBVIOUS
  <2>3. ~(n < m)
    BY <2>1, <2>2
  <2>. QED  BY <2>3
<1>. QED  BY <1>3

(* Induction from 0.                                                       *)
LEMMA SetInduction ==
  ASSUME NEW S, 0 \in S, \A n \in Nat : n \in S => n + 1 \in S
  PROVE  \A n \in Nat : n \in S
<1>. DEFINE T == {n \in Nat : n \notin S}
<1>. SUFFICES ASSUME T # {} PROVE FALSE
  OBVIOUS
<1>1. PICK m \in T : \A n \in T : m <= n
  BY LeastNumber
<1>2. m # 0 /\ m - 1 \in Nat /\ m - 1 \notin T
  BY <1>1
<1>. QED  BY <1>2

(* c names an element of every subset of S that is not empty.              *)
Chooses(c, S) == \A s \in SUBSET S : s # {} => c[s] \in s

(* f is what a fold over the subsets of S computes, with values in V, one  *)
(* step G at each element in the order c takes them from the set.          *)
IsFold(f, S, c, V, base, G) ==
  /\ f \in [SUBSET S -> V]
  /\ f[{}] = base
  /\ \A s \in SUBSET S : s # {} => f[s] = G[<<f[s \ {c[s]}], c[s]>>]

LEMMA OneLess ==
  ASSUME NEW s, IsFiniteSet(s), NEW x \in s
  PROVE  Cardinality(s \ {x}) = Cardinality(s) - 1
BY FS_RemoveElement

(* Induction over the subsets of a finite set, one element at a time, the  *)
(* one that c names.                                                       *)
LEMMA SubsetInduction ==
  ASSUME NEW S, NEW c, NEW T, IsFiniteSet(S), Chooses(c, S), {} \in T,
         \A s \in SUBSET S : s # {} /\ s \ {c[s]} \in T => s \in T
  PROVE  \A s \in SUBSET S : s \in T
<1>. USE DEF Chooses
<1>. DEFINE K == {k \in Nat : \A s \in SUBSET S : Cardinality(s) = k => s \in T}
<1>1. 0 \in K
  BY FS_Subset, FS_EmptySet
<1>2. ASSUME NEW k \in Nat, k \in K, NEW s \in SUBSET S, Cardinality(s) = k + 1
      PROVE  s \in T
  <2>1. IsFiniteSet(s)
    BY FS_Subset
  <2>2. s # {} /\ c[s] \in s
    BY <1>2, <2>1, FS_EmptySet
  <2>3. Cardinality(s \ {c[s]}) = k
    <3>1. Cardinality(s \ {c[s]}) = Cardinality(s) - 1
      <4>. HIDE DEF K
      <4>. QED  BY <2>1, <2>2, OneLess, Zenon
    <3>. QED  BY <1>2, <3>1
  <2>. QED  BY <1>2, <2>2, <2>3
<1>3. \A k \in Nat : k \in K => k + 1 \in K
  BY <1>2
<1>. HIDE DEF K
<1>4. \A k \in Nat : k \in K
  BY <1>1, <1>3, SetInduction
<1>5. ASSUME NEW s \in SUBSET S PROVE Cardinality(s) \in Nat
  BY FS_Subset, FS_CardinalityType
<1>. QED  BY <1>4, <1>5 DEF K

(* A function on the subsets of a finite set that is given at the empty    *)
(* one, and at every other from the subset without the element c names,    *)
(* exists: what the folds of the community modules choose.                 *)
LEMMA FoldExists ==
  ASSUME NEW S, NEW c, NEW V, NEW base, NEW G,
         IsFiniteSet(S), Chooses(c, S), base \in V, G \in [V \X S -> V]
  PROVE  \E f : IsFold(f, S, c, V, base, G)
<1>. USE DEF Chooses, IsFold
<1>. DEFINE Small(k) == {s \in SUBSET S : Cardinality(s) <= k}
            Good(f, k) == /\ f[{}] = base
                          /\ \A s \in Small(k) : s # {} => f[s] = G[<<f[s \ {c[s]}], c[s]>>]
            K == {k \in Nat : \E f \in [Small(k) -> V] : Good(f, k)}
<1>0. ASSUME NEW s \in SUBSET S
      PROVE  /\ Cardinality(s) \in Nat
             /\ Cardinality(s) = 0 <=> s = {}
             /\ s # {} => s \ {c[s]} \in SUBSET S /\ Cardinality(s \ {c[s]}) = Cardinality(s) - 1
  BY FS_Subset, FS_CardinalityType, FS_EmptySet, FS_RemoveElement
<1>1. 0 \in K
  <2>. DEFINE f == [s \in Small(0) |-> base]
  <2>1. ASSUME NEW s \in Small(0) PROVE s = {}
    <3>1. Cardinality(s) <= 0 /\ Cardinality(s) \in Nat
      BY <1>0
    <3>2. Cardinality(s) = 0
      BY <3>1
    <3>. QED  BY <1>0, <3>2
  <2>2. {} \in Small(0)
    BY <1>0
  <2>3. f \in [Small(0) -> V] /\ Good(f, 0)
    BY <2>1, <2>2
  <2>. QED  BY <2>3
<1>2. ASSUME NEW k \in Nat, NEW f \in [Small(k) -> V], Good(f, k)
      PROVE  \E g \in [Small(k + 1) -> V] : Good(g, k + 1)
  <2>. DEFINE g == [s \in Small(k + 1) |->
                      IF s \in Small(k) THEN f[s] ELSE G[<<f[s \ {c[s]}], c[s]>>]]
  <2>1. ASSUME NEW s \in Small(k + 1), s # {}
        PROVE  s \ {c[s]} \in Small(k) /\ c[s] \in S
    BY <1>0, <2>1
  <2>2. ASSUME NEW s \in Small(k + 1), s \notin Small(k)
        PROVE  s # {}
    BY <1>0, <2>2
  <2>3. g \in [Small(k + 1) -> V]
    <3>1. ASSUME NEW s \in Small(k + 1) PROVE g[s] \in V
      <4>1. CASE s \in Small(k)
        BY <4>1
      <4>2. CASE s \notin Small(k)
        <5>1. <<f[s \ {c[s]}], c[s]>> \in V \X S
          BY <2>1, <2>2, <4>2
        <5>. HIDE DEF Small
        <5>. QED  BY <4>2, <5>1
      <4>. QED  BY <4>1, <4>2
    <3>. HIDE DEF Small
    <3>. QED  BY <3>1
  <2>4. g[{}] = base
    BY <1>0, <1>2
  <2>5. ASSUME NEW s \in Small(k + 1), s # {}
        PROVE  g[s] = G[<<g[s \ {c[s]}], c[s]>>]
    <3>1. s \ {c[s]} \in Small(k) /\ s \ {c[s]} \in Small(k + 1)
      BY <1>0, <2>1, <2>5
    <3>. HIDE DEF Small
    <3>2. g[s \ {c[s]}] = f[s \ {c[s]}]
      BY <3>1
    <3>3. g[s] = G[<<f[s \ {c[s]}], c[s]>>]
      BY <1>2, <2>5
    <3>. QED  BY <3>2, <3>3
  <2>. QED  BY <2>3, <2>4, <2>5
<1>3. ASSUME NEW k \in Nat, k \in K PROVE k + 1 \in K
  <2>1. PICK f \in [Small(k) -> V] : Good(f, k)
    BY <1>3
  <2>2. \E g \in [Small(k + 1) -> V] : Good(g, k + 1)
    BY <1>2, <2>1
  <2>. HIDE DEF Small, Good
  <2>. QED  BY <2>2
<1>4. Cardinality(S) \in Nat
  BY FS_CardinalityType
<1>5. Cardinality(S) \in K
  <2>. HIDE DEF K
  <2>. QED  BY <1>1, <1>3, <1>4, SetInduction
<1>6. Small(Cardinality(S)) = SUBSET S
  BY FS_Subset
<1>. QED  BY <1>5, <1>6

(* The largest number of a set, as FoldLeft chooses it.                    *)
LargestOf(s) == CHOOSE x \in s : \A y \in s : y <= x

LEMMA LargestOfRange ==
  ASSUME NEW n \in Nat, NEW s \in SUBSET (1 .. n), s # {}
  PROVE  LargestOf(s) \in s /\ \A y \in s : y <= LargestOf(s)
<1>. DEFINE T == {n - x : x \in s}
<1>1. T \subseteq Nat /\ T # {}
  <2>1. \A x \in s : n - x \in Nat
    OBVIOUS
  <2>2. PICK x \in s : TRUE
    OBVIOUS
  <2>3. n - x \in T
    OBVIOUS
  <2>. QED  BY <2>1, <2>3
<1>. HIDE DEF T
<1>2. PICK m \in T : \A k \in T : m <= k
  BY <1>1, LeastNumber
<1>3. PICK x \in s : m = n - x
  BY DEF T
<1>4. \A y \in s : y <= x
  <2>. SUFFICES ASSUME NEW y \in s PROVE y <= x
    OBVIOUS
  <2>1. n - y \in T
    BY DEF T
  <2>2. m <= n - y
    BY <1>2, <2>1
  <2>. QED  BY <1>3, <2>2
<1>. QED  BY <1>4 DEF LargestOf

LEMMA LargestOfPrefix ==
  ASSUME NEW k \in Nat, k # 0
  PROVE  LargestOf(1 .. k) = k /\ (1 .. k) \ {k} = 1 .. (k - 1)
<1>1. 1 .. k \in SUBSET (1 .. k) /\ k \in 1 .. k /\ 1 .. k # {}
  OBVIOUS
<1>2. LargestOf(1 .. k) \in 1 .. k /\ k <= LargestOf(1 .. k)
  BY <1>1, LargestOfRange
<1>. QED  BY <1>2

(* FoldLeft takes the positions of a sequence from the last to the first.  *)
LastOf(n) == [s \in SUBSET (1 .. n) |-> LargestOf(s)]

LEMMA LastOfChooses ==
  ASSUME NEW n \in Nat
  PROVE  Chooses(LastOf(n), 1 .. n) /\ IsFiniteSet(1 .. n)
<1>1. ASSUME NEW s \in SUBSET (1 .. n), s # {} PROVE LargestOf(s) \in s
  BY <1>1, LargestOfRange
<1>2. IsFiniteSet(1 .. n)
  BY FS_Interval
<1>. QED  BY <1>1, <1>2 DEF Chooses, LastOf

(* The sum of the values of a function, added up in no given order.        *)
SumOf(f) == FoldFunction(+, 0, f)

AnyOf(s) == CHOOSE x \in s : TRUE

\* it adds the values of f up over every subset of S.
Sums(it, f, S) ==
  /\ it \in [SUBSET S -> Nat]
  /\ it[{}] = 0
  /\ \A s \in SUBSET S : s # {} => it[s] = f[AnyOf(s)] + it[s \ {AnyOf(s)}]

LEMMA SumExists ==
  ASSUME NEW S, IsFiniteSet(S), NEW f \in [S -> Nat]
  PROVE  \E it : Sums(it, f, S) /\ SumOf(f) = it[S]
<1>. DEFINE c == [s \in SUBSET S |-> AnyOf(s)]
            G == [p \in Nat \X S |-> f[p[2]] + p[1]]
            Body(it) == [s \in SUBSET S |->
                           IF s = {} THEN 0 ELSE f[CHOOSE x \in s : TRUE] + it[s \ {CHOOSE x \in s : TRUE}]]
            x == CHOOSE it : it = Body(it)
<1>0. DOMAIN f = S
  OBVIOUS
<1>1. SumOf(f) = x[S]
  BY <1>0, Zenon DEF SumOf, FoldFunction, FoldFunctionOnSet, MapThenFoldSet
<1>2. Chooses(c, S)
  BY DEF Chooses, AnyOf
<1>3. G \in [Nat \X S -> Nat]
  OBVIOUS
<1>4. PICK g : IsFold(g, S, c, Nat, 0, G)
  <2>. HIDE DEF G, c
  <2>. QED  BY <1>2, <1>3, FoldExists
<1>5. ASSUME NEW s \in SUBSET S, s # {}
      PROVE  g[s] = f[CHOOSE y \in s : TRUE] + g[s \ {CHOOSE y \in s : TRUE}]
  <2>1. c[s] = (CHOOSE y \in s : TRUE) /\ c[s] \in S /\ s \ {c[s]} \in SUBSET S
    BY <1>2, <1>5 DEF AnyOf, Chooses
  <2>2. g[s] = G[<<g[s \ {c[s]}], c[s]>>] /\ g[s \ {c[s]}] \in Nat
    BY <1>4, <1>5, <2>1 DEF IsFold
  <2>3. g[s] = f[c[s]] + g[s \ {c[s]}]
    <3>. HIDE DEF c
    <3>. QED  BY <2>1, <2>2
  <2>. QED  BY <2>1, <2>3
<1>6. g = Body(g)
  BY <1>4, <1>5 DEF IsFold
<1>7. x = Body(x)
  <2>. HIDE DEF Body
  <2>. QED  BY <1>6
<1>. HIDE DEF x
<1>8. ASSUME NEW s \in SUBSET S PROVE x[s] = g[s]
  <2>. DEFINE Q == {q \in SUBSET S : x[q] = g[q]}
  <2>1. {} \in Q
    BY <1>4, <1>7 DEF IsFold
  <2>2. ASSUME NEW q \in SUBSET S, q # {}, q \ {c[q]} \in Q
        PROVE  q \in Q
    <3>1. c[q] = (CHOOSE y \in q : TRUE)
      BY DEF AnyOf
    <3>2. x[q] = f[CHOOSE y \in q : TRUE] + x[q \ {CHOOSE y \in q : TRUE}]
      BY <1>7, <2>2
    <3>. HIDE DEF c
    <3>. QED  BY <1>5, <2>2, <3>1, <3>2
  <2>. HIDE DEF Q, c
  <2>3. \A q \in SUBSET S : q # {} /\ q \ {c[q]} \in Q => q \in Q
    BY <2>2, Zenon
  <2>4. \A q \in SUBSET S : q \in Q
    BY <1>2, <2>1, <2>3, SubsetInduction, ZenonT(40)
  <2>. QED  BY <2>4 DEF Q
<1>9. Sums(g, f, S)
  BY <1>4, <1>5 DEF Sums, IsFold, AnyOf
<1>. QED  BY <1>1, <1>8, <1>9

(* The order does not matter.                                              *)
LEMMA SumsInAnyOrder ==
  ASSUME NEW S, IsFiniteSet(S), NEW f \in [S -> Nat], NEW it, Sums(it, f, S)
  PROVE  \A s \in SUBSET S : \A x \in s : it[s] = f[x] + it[s \ {x}]
<1>. DEFINE Free(s) == \A x \in s : it[s] = f[x] + it[s \ {x}]
            K == {k \in Nat : \A s \in SUBSET S : Cardinality(s) = k => Free(s)}
<1>0. ASSUME NEW s \in SUBSET S, NEW x \in s
      PROVE  /\ IsFiniteSet(s) /\ Cardinality(s) \in Nat /\ s # {}
             /\ s \ {x} \in SUBSET S /\ Cardinality(s \ {x}) = Cardinality(s) - 1
  BY FS_Subset, FS_CardinalityType, FS_RemoveElement
<1>1. 0 \in K
  <2>1. ASSUME NEW s \in SUBSET S, Cardinality(s) = 0 PROVE s = {}
    BY <2>1, FS_Subset, FS_EmptySet
  <2>. QED  BY <2>1
<1>2. ASSUME NEW k \in Nat, k \in K, NEW s \in SUBSET S, Cardinality(s) = k + 1, NEW x \in s
      PROVE  it[s] = f[x] + it[s \ {x}]
  <2>. DEFINE y == AnyOf(s)
  <2>0. y \in s
    BY DEF AnyOf
  <2>1. it[s] = f[y] + it[s \ {y}]
    BY <1>0 DEF Sums
  <2>. HIDE DEF y
  <2>2. CASE x = y
    BY <2>1, <2>2
  <2>3. CASE x # y
    <3>1. Cardinality(s \ {y}) = k /\ Cardinality(s \ {x}) = k
      BY <1>0, <1>2, <2>0
    <3>2. s \ {x} \in SUBSET S /\ s \ {y} \in SUBSET S /\ y \in s \ {x} /\ x \in s \ {y}
      BY <2>0, <2>3
    <3>3. it[s \ {y}] = f[x] + it[(s \ {y}) \ {x}]
      BY <1>2, <3>1, <3>2
    <3>4. it[s \ {x}] = f[y] + it[(s \ {x}) \ {y}]
      BY <1>2, <3>1, <3>2
    <3>5. (s \ {y}) \ {x} = (s \ {x}) \ {y} /\ (s \ {x}) \ {y} \in SUBSET S
      OBVIOUS
    <3>6. f[x] \in Nat /\ f[y] \in Nat /\ it[(s \ {x}) \ {y}] \in Nat
      BY <2>0, <3>5 DEF Sums
    <3>7. it[(s \ {y}) \ {x}] = it[(s \ {x}) \ {y}]
      BY <3>5, Zenon
    <3>. HIDE DEF K, Free
    <3>. QED  BY <2>1, <3>3, <3>4, <3>6, <3>7
  <2>. QED  BY <2>2, <2>3
<1>3. ASSUME NEW k \in Nat, k \in K PROVE k + 1 \in K
  <2>1. \A s \in SUBSET S : Cardinality(s) = k + 1 => Free(s)
    BY <1>2, <1>3
  <2>. QED  BY <2>1
<1>. HIDE DEF K
<1>4. \A k \in Nat : k \in K
  BY <1>1, <1>3, SetInduction
<1>. QED  BY <1>0, <1>4 DEF K

(* What the values outside a set are does not matter in it.                *)
LEMMA SumsAgree ==
  ASSUME NEW S, NEW f, NEW it, Sums(it, f, S),
         NEW T, T \subseteq S, IsFiniteSet(T), NEW g, NEW jt, Sums(jt, g, T),
         \A y \in T : g[y] = f[y]
  PROVE  \A s \in SUBSET T : it[s] = jt[s]
<1>. DEFINE c == [s \in SUBSET T |-> AnyOf(s)]
            Q == {q \in SUBSET T : it[q] = jt[q]}
<1>1. {} \in Q
  BY DEF Sums
<1>2. Chooses(c, T)
  BY DEF Chooses, AnyOf
<1>3. ASSUME NEW q \in SUBSET T, q # {}, q \ {c[q]} \in Q
      PROVE  q \in Q
  <2>1. AnyOf(q) \in T /\ c[q] = AnyOf(q) /\ q \in SUBSET S
    BY <1>3 DEF AnyOf
  <2>2. it[q] = f[AnyOf(q)] + it[q \ {AnyOf(q)}] /\ jt[q] = g[AnyOf(q)] + jt[q \ {AnyOf(q)}]
    BY <1>3, <2>1 DEF Sums
  <2>. QED  BY <1>3, <2>1, <2>2
<1>. HIDE DEF Q, c
<1>4. \A s \in SUBSET T : s \in Q
  BY <1>1, <1>2, <1>3, SubsetInduction
<1>. QED  BY <1>4 DEF Q

\* g is f without x.
AllBut(g, f, S, x) == g \in [S \ {x} -> Nat] /\ \A y \in S \ {x} : g[y] = f[y]

(* One value aside, the rest adds up to the sum of the rest.               *)
LEMMA SumTakesOneOut ==
  ASSUME NEW S, IsFiniteSet(S), NEW f \in [S -> Nat], NEW x \in S,
         NEW g, AllBut(g, f, S, x)
  PROVE  SumOf(f) = f[x] + SumOf(g)
<1>. USE DEF AllBut
<1>. DEFINE T == S \ {x}
<1>1. IsFiniteSet(T)
  BY FS_Subset
<1>2. PICK it : Sums(it, f, S) /\ SumOf(f) = it[S]
  BY SumExists
<1>3. PICK jt : Sums(jt, g, T) /\ SumOf(g) = jt[T]
  <2>. HIDE DEF T
  <2>. QED  BY <1>1, SumExists DEF T
<1>4. it[S] = f[x] + it[T]
  BY <1>2, SumsInAnyOrder
<1>5. it[T] = jt[T]
  <2>1. T \subseteq S /\ \A y \in T : g[y] = f[y]
    OBVIOUS
  <2>. HIDE DEF T
  <2>2. \A s \in SUBSET T : it[s] = jt[s]
    BY <1>1, <1>2, <1>3, <2>1, SumsAgree
  <2>. QED  BY <2>2
<1>. QED  BY <1>2, <1>3, <1>4, <1>5

LEMMA SumIsNat ==
  ASSUME NEW S, IsFiniteSet(S), NEW f \in [S -> Nat]
  PROVE  SumOf(f) \in Nat
<1>1. PICK it : Sums(it, f, S) /\ SumOf(f) = it[S]
  BY SumExists
<1>. QED  BY <1>1 DEF Sums

LEMMA SumOfNothing ==
  ASSUME NEW f \in [{} -> Nat]
  PROVE  SumOf(f) = 0
BY FS_EmptySet, SumExists DEF Sums

(* A sum grows with its values.                                            *)
LEMMA SumGrows ==
  ASSUME NEW S, IsFiniteSet(S), NEW f \in [S -> Nat], NEW g \in [S -> Nat],
         \A x \in S : f[x] <= g[x]
  PROVE  SumOf(f) <= SumOf(g)
<1>1. PICK it : Sums(it, f, S) /\ SumOf(f) = it[S]
  BY SumExists
<1>2. PICK jt : Sums(jt, g, S) /\ SumOf(g) = jt[S]
  BY SumExists
<1>. DEFINE Q == {q \in SUBSET S : it[q] <= jt[q]}
            c == [q \in SUBSET S |-> AnyOf(q)]
<1>3. Chooses(c, S)
  BY DEF Chooses, AnyOf
<1>4. {} \in Q
  BY <1>1, <1>2 DEF Sums
<1>5. ASSUME NEW q \in SUBSET S, q # {}, q \ {c[q]} \in Q
      PROVE  q \in Q
  <2>1. PICK x \in q : x = c[q] /\ x = AnyOf(q)
    BY <1>3, <1>5 DEF Chooses
  <2>2. it[q] = f[x] + it[q \ {x}] /\ jt[q] = g[x] + jt[q \ {x}]
    BY <1>1, <1>2, <1>5, <2>1 DEF Sums
  <2>3. it[q \ {x}] \in Nat /\ jt[q \ {x}] \in Nat /\ it[q \ {x}] <= jt[q \ {x}]
    BY <1>1, <1>2, <1>5, <2>1 DEF Sums
  <2>4. f[x] \in Nat /\ g[x] \in Nat /\ f[x] <= g[x]
    BY <2>1
  <2> QED
    BY <2>2, <2>3, <2>4
<1>. HIDE DEF Q, c
<1>6. \A q \in SUBSET S : q \in Q
  BY <1>3, <1>4, <1>5, SubsetInduction
<1> QED
  BY <1>1, <1>2, <1>6 DEF Q

(* Values that are 0 may be left out.                                      *)
LEMMA SumOfPart ==
  ASSUME NEW S, IsFiniteSet(S), NEW f \in [S -> Nat],
         NEW T \in SUBSET S, NEW g \in [T -> Nat],
         \A x \in T : g[x] = f[x], \A x \in S \ T : f[x] = 0
  PROVE  SumOf(f) = SumOf(g)
<1>0. IsFiniteSet(T)
  BY FS_Subset
<1>1. PICK it : Sums(it, f, S) /\ SumOf(f) = it[S]
  BY SumExists
<1>2. PICK jt : Sums(jt, g, T) /\ SumOf(g) = jt[T]
  BY <1>0, SumExists
<1>3. ASSUME NEW s \in SUBSET T, NEW x \in s
      PROVE  jt[s] = g[x] + jt[s \ {x}]
  <2>1. Sums(jt, g, T)
    BY <1>2
  <2> QED
    BY <1>0, <2>1, SumsInAnyOrder
<1>. DEFINE Q == {q \in SUBSET S : it[q] = jt[q \cap T]}
            c == [q \in SUBSET S |-> AnyOf(q)]
<1>4. Chooses(c, S)
  BY DEF Chooses, AnyOf
<1>5. {} \in Q
  <2>1. {} \cap T = {}
    OBVIOUS
  <2> QED
    BY <1>1, <1>2, <2>1 DEF Sums
<1>6. ASSUME NEW q \in SUBSET S, q # {}, q \ {c[q]} \in Q
      PROVE  q \in Q
  <2>1. PICK x \in q : x = c[q] /\ x = AnyOf(q)
    BY <1>4, <1>6 DEF Chooses
  <2>2. it[q] = f[x] + it[q \ {x}] /\ it[q \ {x}] = jt[(q \ {x}) \cap T]
    BY <1>1, <1>6, <2>1 DEF Sums
  <2>3. it[q \ {x}] \in Nat
    BY <1>1 DEF Sums
  <2>4. CASE x \in T
    <3>1. (q \ {x}) \cap T = (q \cap T) \ {x}
      OBVIOUS
    <3>2. jt[q \cap T] = g[x] + jt[(q \cap T) \ {x}]
      BY <1>3, <2>1, <2>4
    <3>3. it[q] = jt[q \cap T]
      BY <2>2, <2>4, <3>1, <3>2
    <3> QED
      BY <3>3
  <2>5. CASE x \notin T
    <3>1. (q \ {x}) \cap T = q \cap T
      BY <2>5
    <3>2. it[q] = jt[q \cap T]
      BY <2>1, <2>2, <2>3, <2>5, <3>1
    <3> QED
      BY <3>2
  <2> QED
    BY <2>4, <2>5
<1>. HIDE DEF Q, c
<1>7. \A q \in SUBSET S : q \in Q
  BY <1>4, <1>5, <1>6, SubsetInduction
<1>8. S \cap T = T
  OBVIOUS
<1> QED
  BY <1>1, <1>2, <1>7, <1>8 DEF Q
=============================================================================
