----------------------------- MODULE SumProofs ------------------------------
(***************************************************************************)
(* Sums over finite sets, as MapThenSumSet of FiniteSetsExt defines them:  *)
(* by removing one element after the other. What a sum is for every set is *)
(* shown by the smallest counterexample: of the finite sets for which a    *)
(* fact fails one has the fewest elements, and removing an element from it *)
(* gives a smaller one. OrderBookProofs adds up the volumes of an order's  *)
(* matches with these lemmas.                                              *)
(***************************************************************************)
EXTENDS Integers, FiniteSets, FiniteSetsExt, FiniteSetTheorems, WellFoundedInduction, TLAPS

\* Among finite sets there is a smallest one.
LEMMA SmallestSet ==
    ASSUME NEW B, B # {}, \A s \in B : IsFiniteSet(s)
    PROVE  \E s \in B : \A t \in B : Cardinality(s) <= Cardinality(t)
<1>. DEFINE N == {Cardinality(s) : s \in B}
<1>1. N \subseteq Nat /\ N # {}
    BY FS_CardinalityType
<1>2. PICK n \in N : \A m \in N : ~(<<m, n>> \in OpToRel(<, Nat))
    BY <1>1, NatLessThanWellFounded, WFMin, Zenon
<1>3. \A m \in Nat : m < n => <<m, n>> \in OpToRel(<, Nat)
  <2>1. OpToRel(<, Nat) = {ss \in Nat \X Nat : ss[1] < ss[2]}
    BY Zenon DEF OpToRel
  <2>2. \A m \in Nat : m < n => <<m, n>> \in {ss \in Nat \X Nat : ss[1] < ss[2]}
    BY <1>1
  <2>. QED
    BY <2>1, <2>2, Zenon
<1>4. \A m \in N : n <= m
  <2>1. \A m \in N : ~(m < n)
    BY <1>1, <1>2, <1>3, Zenon
  <2>. QED
    BY <1>1, <2>1
<1>. QED
    BY <1>4

-----------------------------------------------------------------------------
(* One way of adding up. *)

\* The element of a set that is added first.
Any(s) == CHOOSE x \in s : TRUE

\* The function g gives, for the subsets of S, the sum of the weights w of their elements.
IsSum(w, S, g) ==
    g = [s \in SUBSET S |-> IF s = {} THEN 0 ELSE w[Any(s)] + g[s \ {Any(s)}]]

\* An element of a set, and what is left of it.
LEMMA AnyFacts ==
    ASSUME NEW s, s # {}
    PROVE  /\ Any(s) \in s
           /\ IsFiniteSet(s) => /\ IsFiniteSet(s \ {Any(s)})
                                /\ Cardinality(s \ {Any(s)}) < Cardinality(s)
<1>1. Any(s) \in s
    BY DEF Any
<1>2. ASSUME IsFiniteSet(s)
      PROVE  IsFiniteSet(s \ {Any(s)}) /\ Cardinality(s \ {Any(s)}) < Cardinality(s)
  <2>1. IsFiniteSet(s \ {Any(s)}) /\ Cardinality(s \ {Any(s)}) = Cardinality(s) - 1
    BY <1>1, <1>2, FS_RemoveElement, Zenon
  <2>2. Cardinality(s) \in Nat
    BY <1>2, FS_CardinalityType
  <2>. QED
    BY <2>1, <2>2
<1>. QED
    BY <1>1, <1>2

\* Weights that agree on S, and sums that agree on what is both in S and in T.
SameWeights(w, v, S) == \A x \in S : w[x] = v[x]
SameSums(g, h, S, T) == \A s \in SUBSET S : s \subseteq T => g[s] = h[s]

\* Two sums agree where their domains and weights do.
LEMMA SumUnique ==
    ASSUME NEW S, NEW T, IsFiniteSet(S), NEW w, NEW v, NEW g, NEW h,
           IsSum(w, S, g), IsSum(v, T, h), SameWeights(w, v, S)
    PROVE  SameSums(g, h, S, T)
<1>. DEFINE B == {s \in SUBSET S : s \subseteq T /\ g[s] # h[s]}
<1>. SUFFICES ASSUME B # {} PROVE FALSE
    BY DEF SameSums
<1>1. \A s \in B : IsFiniteSet(s)
    BY FS_Subset
<1>2. PICK s \in B : \A t \in B : Cardinality(s) <= Cardinality(t)
    BY <1>1, SmallestSet
<1>3. s # {}
    BY <1>2 DEF IsSum
<1>4. s \ {Any(s)} \notin B
    BY <1>1, <1>2, <1>3, AnyFacts, FS_CardinalityType
<1>5. g[s] = w[Any(s)] + g[s \ {Any(s)}] /\ h[s] = v[Any(s)] + h[s \ {Any(s)}]
    BY <1>2, <1>3 DEF IsSum
<1>. QED
    BY <1>2, <1>3, <1>4, <1>5, AnyFacts DEF SameWeights

\* There is a sum.
LEMMA SumExists ==
    ASSUME NEW S, IsFiniteSet(S), NEW w
    PROVE  \E g : IsSum(w, S, g)
<1>. DEFINE B == {s \in SUBSET S : ~\E g : IsSum(w, s, g)}
<1>. SUFFICES ASSUME B # {} PROVE FALSE
    OBVIOUS
<1>1. \A s \in B : IsFiniteSet(s)
    BY FS_Subset
<1>2. PICK T \in B : \A t \in B : Cardinality(T) <= Cardinality(t)
    BY <1>1, SmallestSet
<1>. DEFINE Sm(s) == CHOOSE g : IsSum(w, s, g)
            G(s)  == IF s = {} THEN 0 ELSE w[Any(s)] + Sm(s \ {Any(s)})[s \ {Any(s)}]
            H     == [s \in SUBSET T |-> G(s)]
<1>3. \A s \in SUBSET T : s # T => IsSum(w, s, Sm(s))
  <2>. SUFFICES ASSUME NEW s \in SUBSET T, s # T PROVE IsSum(w, s, Sm(s))
    OBVIOUS
  <2>0. IsFiniteSet(T)
    BY <1>1, <1>2
  <2>1. /\ IsFiniteSet(s) /\ Cardinality(s) <= Cardinality(T) /\ Cardinality(s) # Cardinality(T)
        /\ Cardinality(s) \in Nat /\ Cardinality(T) \in Nat
    BY <2>0, FS_Subset, FS_CardinalityType
  <2>2. s \notin B
    <3>. HIDE DEF B
    <3>. QED
      BY <1>2, <2>1
  <2>3. \E g : IsSum(w, s, g)
    BY <2>2
  <2>. QED
    BY <2>3, Zenon
<1>4. ASSUME NEW s \in SUBSET T, s # {} PROVE H[s \ {Any(s)}] = Sm(s \ {Any(s)})[s \ {Any(s)}]
  <2>. DEFINE u == s \ {Any(s)}
  <2>1. u \in SUBSET T /\ u # T /\ IsFiniteSet(u)
    BY <1>1, <1>2, <1>4, AnyFacts, FS_Subset
  <2>2. IsSum(w, u, Sm(u))
    BY <1>3, <2>1
  <2>. HIDE DEF u, Sm
  <2>3. CASE u = {}
    <3>1. Sm(u)[u] = 0
      BY <2>2, <2>3 DEF IsSum
    <3>2. H[u] = 0
      BY <2>1, <2>3
    <3>. QED
      BY <3>1, <3>2 DEF u
  <2>4. CASE u # {}
    <3>. DEFINE v == u \ {Any(u)}
    <3>1. v \in SUBSET T /\ v # T /\ v \subseteq u /\ IsFiniteSet(v)
      BY <2>1, <2>4, AnyFacts, FS_Subset
    <3>2. IsSum(w, v, Sm(v))
      BY <1>3, <3>1
    <3>3. Sm(u)[v] = Sm(v)[v]
      <4>1. SameWeights(w, w, u)
        BY DEF SameWeights
      <4>2. SameSums(Sm(u), Sm(v), u, v)
        BY <2>1, <2>2, <3>2, <4>1, SumUnique
      <4>. QED
        BY <3>1, <4>2 DEF SameSums
    <3>4. Sm(u)[u] = w[Any(u)] + Sm(u)[v]
      BY <2>2, <2>4 DEF IsSum
    <3>5. H[u] = w[Any(u)] + Sm(v)[v]
      BY <2>1, <2>4
    <3>. QED
      BY <3>3, <3>4, <3>5 DEF u
  <2>. QED
    BY <2>3, <2>4 DEF u
<1>5. H = [s \in SUBSET T |-> IF s = {} THEN 0 ELSE w[Any(s)] + H[s \ {Any(s)}]]
  <2>. HIDE DEF H, Sm
  <2>1. ASSUME NEW s \in SUBSET T
        PROVE  G(s) = IF s = {} THEN 0 ELSE w[Any(s)] + H[s \ {Any(s)}]
    <3>1. CASE s # {}
      BY <1>4, <2>1, <3>1, Zenon
    <3>. QED
      BY <3>1
  <2>. HIDE DEF G
  <2>. QED
    BY <2>1, Zenon DEF H
<1>6. IsSum(w, T, H)
    BY <1>5 DEF IsSum
<1>. QED
    BY <1>2, <1>6

Sum(w, S) == (CHOOSE g : IsSum(w, S, g))[S]

\* Every sum over the set is that sum.
LEMMA SumIs ==
    ASSUME NEW S, IsFiniteSet(S), NEW w, NEW v, NEW g, IsSum(v, S, g), \A x \in S : w[x] = v[x]
    PROVE  g[S] = Sum(w, S)
<1>. DEFINE h == CHOOSE k : IsSum(w, S, k)
<1>1. IsSum(w, S, h)
    BY SumExists, Zenon
<1>2. Sum(w, S) = h[S]
    BY DEF Sum
<1>. HIDE DEF h
<1>3. SameSums(h, g, S, S)
    BY <1>1, SumUnique DEF SameWeights
<1>. QED
    BY <1>2, <1>3 DEF SameSums

\* The recursion.
LEMMA SumStep ==
    ASSUME NEW S, IsFiniteSet(S), NEW w
    PROVE  /\ S = {} => Sum(w, S) = 0
           /\ S # {} => Sum(w, S) = w[Any(S)] + Sum(w, S \ {Any(S)})
<1>1. PICK g : IsSum(w, S, g)
    BY SumExists
<1>2. Sum(w, S) = g[S]
    BY <1>1, SumIs
<1>3. CASE S = {}
    BY <1>1, <1>2, <1>3 DEF IsSum
<1>4. CASE S # {}
  <2>. DEFINE T == S \ {Any(S)}
  <2>1. IsFiniteSet(T) /\ T \subseteq S
    BY <1>4, AnyFacts
  <2>2. PICK h : IsSum(w, T, h)
    BY <2>1, SumExists
  <2>3. h[T] = Sum(w, T)
    BY <2>1, <2>2, SumIs
  <2>4. g[T] = h[T]
    <3>. HIDE DEF T
    <3>1. SameSums(g, h, S, T)
      BY <1>1, <2>2, SumUnique DEF SameWeights
    <3>. QED
      BY <2>1, <3>1 DEF SameSums
  <2>5. g[S] = w[Any(S)] + g[T]
    BY <1>1, <1>4 DEF IsSum
  <2>. QED
    BY <1>2, <1>4, <2>3, <2>4, <2>5
<1>. QED
    BY <1>3, <1>4

\* Only the weights of the elements count.
LEMMA SumSame ==
    ASSUME NEW S, IsFiniteSet(S), NEW w, NEW v, \A x \in S : w[x] = v[x]
    PROVE  Sum(w, S) = Sum(v, S)
<1>1. PICK g : IsSum(v, S, g)
    BY SumExists
<1>. QED
    BY <1>1, SumIs

\* A sum of natural numbers is one.
LEMMA SumNat ==
    ASSUME NEW S, IsFiniteSet(S), NEW w, \A x \in S : w[x] \in Nat
    PROVE  Sum(w, S) \in Nat
<1>. DEFINE B == {s \in SUBSET S : Sum(w, s) \notin Nat}
<1>. SUFFICES ASSUME B # {} PROVE FALSE
    OBVIOUS
<1>1. \A s \in B : IsFiniteSet(s)
    BY FS_Subset
<1>2. PICK s \in B : \A t \in B : Cardinality(s) <= Cardinality(t)
    BY <1>1, SmallestSet
<1>3. s # {}
  <2>1. Sum(w, s) \notin Nat /\ IsFiniteSet(s)
    BY <1>1, <1>2
  <2>2. s = {} => Sum(w, s) = 0
    BY <2>1, SumStep
  <2>. QED
    BY <2>1, <2>2
<1>4. s \ {Any(s)} \notin B
    BY <1>1, <1>2, <1>3, AnyFacts, FS_CardinalityType
<1>5. Sum(w, s) = w[Any(s)] + Sum(w, s \ {Any(s)}) /\ Any(s) \in S
    BY <1>1, <1>2, <1>3, SumStep, AnyFacts
<1>. QED
    BY <1>2, <1>3, <1>4, <1>5

\* An element more adds its weight, whatever element the recursion begins with.
LEMMA SumAdd ==
    ASSUME NEW S, IsFiniteSet(S), NEW z, z \notin S, NEW w, \A x \in S \cup {z} : w[x] \in Nat
    PROVE  Sum(w, S \cup {z}) = Sum(w, S) + w[z]
<1>. DEFINE A == S \cup {z}
            B == {s \in SUBSET A : \E x \in A \ s : Sum(w, s \cup {x}) # Sum(w, s) + w[x]}
<1>0. IsFiniteSet(A)
    BY FS_AddElement
<1>. SUFFICES ASSUME B # {} PROVE FALSE
    OBVIOUS
<1>1. \A s \in SUBSET A : IsFiniteSet(s) /\ Sum(w, s) \in Nat
    BY <1>0, FS_Subset, SumNat
<1>2. PICK s \in B : \A t \in B : Cardinality(s) <= Cardinality(t)
    BY <1>1, SmallestSet
<1>3. PICK x \in A \ s : Sum(w, s \cup {x}) # Sum(w, s) + w[x]
    BY <1>2
<1>. DEFINE y == Any(s \cup {x})
            t == s \ {y}
<1>4. y \in s \cup {x}
    BY AnyFacts
<1>5. Sum(w, s \cup {x}) = w[y] + Sum(w, (s \cup {x}) \ {y})
    BY <1>1, <1>2, <1>3, SumStep
<1>. HIDE DEF y
<1>6. w[x] \in Nat /\ w[y] \in Nat /\ Sum(w, s) \in Nat
    BY <1>1, <1>2, <1>3, <1>4
<1>7. y # x
  <2>. SUFFICES ASSUME y = x PROVE FALSE
    OBVIOUS
  <2>1. (s \cup {x}) \ {y} = s
    BY <1>3
  <2>. QED
    BY <1>3, <1>5, <1>6, <2>1
<1>8. y \in s /\ t \in SUBSET A /\ y \in A \ t /\ x \in A \ t
    BY <1>2, <1>3, <1>4, <1>7
<1>9. t \notin B
  <2>1. Cardinality(t) = Cardinality(s) - 1 /\ Cardinality(s) \in Nat
    BY <1>1, <1>2, <1>8, FS_RemoveElement, FS_CardinalityType
  <2>. HIDE DEF B
  <2>. QED
    BY <1>2, <2>1
<1>10. Sum(w, t \cup {x}) = Sum(w, t) + w[x] /\ Sum(w, t \cup {y}) = Sum(w, t) + w[y]
    BY <1>8, <1>9
<1>11. t \cup {y} = s /\ t \cup {x} = (s \cup {x}) \ {y}
    BY <1>7, <1>8
<1>12. Sum(w, t) \in Nat
    BY <1>1, <1>8
<1>. HIDE DEF t, B, A
<1>. QED
    BY <1>3, <1>5, <1>6, <1>10, <1>11, <1>12

\* Fewer elements sum up to less.
LEMMA SumMonotone ==
    ASSUME NEW S, IsFiniteSet(S), NEW T \in SUBSET S, NEW w, \A x \in S : w[x] \in Nat
    PROVE  Sum(w, T) <= Sum(w, S)
<1>. DEFINE B == {s \in SUBSET S : T \subseteq s /\ ~(Sum(w, T) <= Sum(w, s))}
<1>. SUFFICES ASSUME B # {} PROVE FALSE
    OBVIOUS
<1>1. \A s \in SUBSET S : IsFiniteSet(s) /\ Sum(w, s) \in Nat
    BY FS_Subset, SumNat
<1>2. PICK s \in B : \A t \in B : Cardinality(s) <= Cardinality(t)
    BY <1>1, SmallestSet
<1>3. PICK x \in s : x \notin T
    BY <1>1, <1>2
<1>. DEFINE t == s \ {x}
<1>4. t \notin B
  <2>1. Cardinality(t) = Cardinality(s) - 1 /\ Cardinality(s) \in Nat
    BY <1>1, <1>2, <1>3, FS_RemoveElement, FS_CardinalityType
  <2>. HIDE DEF B
  <2>. QED
    BY <1>2, <2>1
<1>5. Sum(w, T) <= Sum(w, t)
    BY <1>2, <1>3, <1>4
<1>6. Sum(w, t \cup {x}) = Sum(w, t) + w[x]
    BY <1>1, <1>2, <1>3, SumAdd
<1>7. t \cup {x} = s
    BY <1>3
<1>8. w[x] \in Nat /\ Sum(w, t) \in Nat /\ Sum(w, T) \in Nat /\ Sum(w, s) \in Nat
    BY <1>1, <1>2, <1>3
<1>9. ~(Sum(w, T) <= Sum(w, s))
    BY <1>2
<1>. HIDE DEF t, B
<1>. QED
    BY <1>5, <1>6, <1>7, <1>8, <1>9

\* Elements that stand for different ones of another set, with their weights, sum up to less.
LEMMA SumInjective ==
    ASSUME NEW S, IsFiniteSet(S), NEW T, IsFiniteSet(T), NEW f, NEW w, NEW i,
           \A x \in S : i[x] \in T /\ f[x] = w[i[x]],
           \A x, y \in S : i[x] = i[y] => x = y,
           \A x \in T : w[x] \in Nat
    PROVE  Sum(f, S) <= Sum(w, T)
<1>. DEFINE Im(s) == {i[x] : x \in s}
            B == {s \in SUBSET S : Sum(f, s) # Sum(w, Im(s))}
<1>0. \A s \in SUBSET S : Im(s) \in SUBSET T /\ IsFiniteSet(s) /\ IsFiniteSet(Im(s))
    BY FS_Subset
<1>1. S \notin B
  <2>. SUFFICES ASSUME B # {} PROVE FALSE
    OBVIOUS
  <2>1. PICK s \in B : \A t \in B : Cardinality(s) <= Cardinality(t)
    BY <1>0, SmallestSet
  <2>2. s # {}
    <3>. SUFFICES ASSUME s = {} PROVE FALSE
      OBVIOUS
    <3>1. Im(s) = {} /\ IsFiniteSet({})
      BY FS_EmptySet
    <3>. QED
      BY <2>1, <3>1, SumStep
  <2>. DEFINE x == Any(s)
              t == s \ {x}
  <2>3. x \in s /\ IsFiniteSet(s)
    BY <1>0, <2>1, <2>2, AnyFacts
  <2>4. Sum(f, s) = f[x] + Sum(f, t)
    BY <2>2, <2>3, SumStep
  <2>. HIDE DEF x
  <2>5. t \in SUBSET S /\ t \notin B
    <3>1. Cardinality(t) = Cardinality(s) - 1 /\ Cardinality(s) \in Nat
      BY <2>3, FS_RemoveElement, FS_CardinalityType
    <3>2. t \notin B
      <4>. HIDE DEF B
      <4>. QED
        BY <2>1, <3>1
    <3>. QED
      BY <2>1, <3>2
  <2>6. Sum(f, t) = Sum(w, Im(t))
    BY <2>5
  <2>7. Im(s) = Im(t) \cup {i[x]} /\ i[x] \notin Im(t)
    BY <2>1, <2>3
  <2>8. IsFiniteSet(Im(t)) /\ \A y \in Im(t) \cup {i[x]} : w[y] \in Nat
    BY <1>0, <2>1, <2>3, <2>5
  <2>9. Sum(w, Im(t) \cup {i[x]}) = Sum(w, Im(t)) + w[i[x]]
    <3>. HIDE DEF Im
    <3>. QED
      BY <2>7, <2>8, SumAdd
  <2>10. Sum(w, Im(t)) \in Nat /\ w[i[x]] \in Nat /\ f[x] = w[i[x]]
    <3>1. Sum(w, Im(t)) \in Nat
      <4>. HIDE DEF Im
      <4>. QED
        BY <2>8, SumNat
    <3>. QED
      BY <2>1, <2>3, <2>8, <3>1
  <2>11. Sum(f, s) # Sum(w, Im(s))
    BY <2>1
  <2>. HIDE DEF Im, t, B
  <2>. QED
    BY <2>4, <2>6, <2>7, <2>9, <2>10, <2>11
<1>2. Sum(f, S) = Sum(w, Im(S))
    BY <1>1
<1>3. Im(S) \in SUBSET T
    OBVIOUS
<1>. HIDE DEF Im, B
<1>. QED
    BY <1>2, <1>3, SumMonotone

\* MapThenSumSet of a field of a function's values is such a sum.
LEMMA SumOfBases ==
    ASSUME NEW S, IsFiniteSet(S), NEW w
    PROVE  MapThenSumSet(LAMBDA r : w[r].base, S) = Sum([r \in S |-> w[r].base], S)
<1>. DEFINE v == [r \in S |-> w[r].base]
            F(g) == g = [s \in SUBSET S |-> IF s = {} THEN 0 ELSE w[Any(s)].base + g[s \ {Any(s)}]]
<1>1. PICK g : IsSum(v, S, g)
    BY SumExists
<1>2. \A h : IsSum(v, S, h) <=> F(h)
  <2>. SUFFICES ASSUME NEW h PROVE IsSum(v, S, h) <=> F(h)
    OBVIOUS
  <2>1. \A s \in SUBSET S : s # {} => v[Any(s)] = w[Any(s)].base
    BY AnyFacts
  <2>. HIDE DEF v
  <2>2. [s \in SUBSET S |-> IF s = {} THEN 0 ELSE v[Any(s)] + h[s \ {Any(s)}]]
        = [s \in SUBSET S |-> IF s = {} THEN 0 ELSE w[Any(s)].base + h[s \ {Any(s)}]]
    BY <2>1
  <2>. QED
    BY <2>2 DEF IsSum
<1>. HIDE DEF v, F
<1>3. F(CHOOSE h : F(h))
    BY <1>1, <1>2
<1>4. (CHOOSE h : F(h))[S] = Sum(v, S)
    BY <1>2, <1>3, SumIs, Zenon
<1>5. MapThenSumSet(LAMBDA r : w[r].base, S) = (CHOOSE h : F(h))[S]
    BY Zenon DEF MapThenSumSet, MapThenFoldSet, F, Any
<1>. QED
    BY <1>4, <1>5 DEF v

\* ... and so is that of a field of the elements.
LEMMA SumOfOwnBases ==
    ASSUME NEW S, IsFiniteSet(S)
    PROVE  MapThenSumSet(LAMBDA r : r.base, S) = Sum([r \in S |-> r.base], S)
<1>. DEFINE v == [r \in S |-> r.base]
            F(g) == g = [s \in SUBSET S |-> IF s = {} THEN 0 ELSE Any(s).base + g[s \ {Any(s)}]]
<1>1. PICK g : IsSum(v, S, g)
    BY SumExists
<1>2. \A h : IsSum(v, S, h) <=> F(h)
  <2>. SUFFICES ASSUME NEW h PROVE IsSum(v, S, h) <=> F(h)
    OBVIOUS
  <2>1. \A s \in SUBSET S : s # {} => v[Any(s)] = Any(s).base
    BY AnyFacts
  <2>. HIDE DEF v
  <2>2. [s \in SUBSET S |-> IF s = {} THEN 0 ELSE v[Any(s)] + h[s \ {Any(s)}]]
        = [s \in SUBSET S |-> IF s = {} THEN 0 ELSE Any(s).base + h[s \ {Any(s)}]]
    BY <2>1
  <2>. QED
    BY <2>2 DEF IsSum
<1>. HIDE DEF v, F
<1>3. F(CHOOSE h : F(h))
    BY <1>1, <1>2
<1>4. (CHOOSE h : F(h))[S] = Sum(v, S)
    BY <1>2, <1>3, SumIs, Zenon
<1>5. MapThenSumSet(LAMBDA r : r.base, S) = (CHOOSE h : F(h))[S]
    BY Zenon DEF MapThenSumSet, MapThenFoldSet, F, Any
<1>. QED
    BY <1>4, <1>5 DEF v

=============================================================================
