---------------------------- MODULE SumTheorems -----------------------------
(***************************************************************************)
(* What SumFunctionOnSet of the community modules computes, for every      *)
(* finite set of indices.  The payments and the publication are stated     *)
(* with sums; their proofs need to know how a sum changes when one term    *)
(* does.                                                                   *)
(*                                                                         *)
(* The library's induction theorems take an operator, which the provers    *)
(* do not instantiate: each induction below is the argument of the least   *)
(* counterexample, with the set of the counterexamples' cardinalities.     *)
(***************************************************************************)
EXTENDS Integers, FiniteSets, Functions, FiniteSetTheorems,
        WellFoundedInduction, TLAPS

\* The element the fold takes first.
Pick(s) == CHOOSE x \in s : TRUE

\* One step of the fold over s with the results g for smaller sets.
SumStep(f, g, s) == IF s = {} THEN 0 ELSE f[Pick(s)] + g[s \ {Pick(s)}]

\* The function the fold computes, on the subsets of S.
IsSum(f, g, S) == g = [s \in SUBSET S |-> SumStep(f, g, s)]

\* A set of natural numbers has a least element.
LEMMA LeastNatural ==
  ASSUME NEW T \in SUBSET Nat, T # {}
  PROVE  \E x \in T : \A y \in T : x <= y
<1>1. PICK x \in T : \A y \in T : ~(<<y, x>> \in OpToRel(<, Nat))
  BY WFMin, NatLessThanWellFounded
<1>2. ASSUME NEW y \in T, y < x PROVE FALSE
  <2>1. <<y, x>> \in Nat \X Nat /\ <<y, x>>[1] < <<y, x>>[2]
    BY <1>2
  <2>2. <<y, x>> \in OpToRel(<, Nat)
    BY <2>1 DEF OpToRel
  <2>3. QED
    BY <1>1, <2>2
<1>3. QED
  BY <1>2

\* Taking out the picked element makes a finite set smaller.
LEMMA PickSmaller ==
  ASSUME NEW s, IsFiniteSet(s), s # {}
  PROVE  /\ Pick(s) \in s
         /\ IsFiniteSet(s \ {Pick(s)})
         /\ Cardinality(s) \in Nat /\ Cardinality(s \ {Pick(s)}) \in Nat
         /\ Cardinality(s \ {Pick(s)}) = Cardinality(s) - 1
<1>1. Pick(s) \in s
  BY DEF Pick
<1>2. QED
  BY <1>1, FS_RemoveElement, FS_CardinalityType

\* The recursive function behind a sum exists.
LEMMA SumFunctionExists ==
  ASSUME NEW f, NEW S, IsFiniteSet(S)
  PROVE  \E g : IsSum(f, g, S)
<1> DEFINE Low(n) == {s \in SUBSET S : Cardinality(s) <= n}
           Good(n) == \E g : g = [s \in Low(n) |-> SumStep(f, g, s)]
           Bad == {n \in Nat : ~Good(n)}
<1>fin. \A s \in SUBSET S : IsFiniteSet(s) /\ Cardinality(s) \in Nat
  BY FS_Subset, FS_CardinalityType
<1>1. Bad = {}
  <2> SUFFICES ASSUME Bad # {} PROVE FALSE
    OBVIOUS
  <2>1. PICK n \in Bad : \A m \in Bad : n <= m
    BY LeastNatural
  <2>2. CASE n = 0
    <3> DEFINE g == [s \in Low(0) |-> 0]
    <3>1. \A s \in Low(0) : s = {}
      BY <1>fin, FS_EmptySet
    <3>2. g = [s \in Low(0) |-> SumStep(f, g, s)]
      BY <3>1 DEF SumStep
    <3>3. QED
      BY <2>2, <3>2
  <2>3. CASE n # 0
    <3> HIDE DEF Good
    <3>1. n - 1 \in Nat /\ n - 1 \notin Bad
      BY <2>1, <2>3
    <3> USE DEF Good
    <3>2. PICK g : g = [s \in Low(n - 1) |-> SumStep(f, g, s)]
      BY <3>1
    <3> DEFINE h == [s \in Low(n) |-> SumStep(f, g, s)]
    <3>3. ASSUME NEW s \in Low(n), s # {}
          PROVE  h[s \ {Pick(s)}] = g[s \ {Pick(s)}]
      <4> DEFINE t == s \ {Pick(s)}
      <4>1. t \in Low(n - 1) /\ t \in Low(n)
        BY <1>fin, <3>3, PickSmaller
      <4> HIDE DEF t
      <4>2. g[t] = SumStep(f, g, t)
        BY <3>2, <4>1, Zenon
      <4>3. h[t] = SumStep(f, g, t)
        BY <4>1
      <4>4. QED
        BY <4>2, <4>3 DEF t
    <3>4. \A s \in Low(n) : SumStep(f, g, s) = SumStep(f, h, s)
      BY <3>3 DEF SumStep
    <3>5. h = [s \in Low(n) |-> SumStep(f, h, s)]
      BY <3>4
    <3>6. QED
      BY <3>5, <2>1
  <2>4. QED
    BY <2>2, <2>3
<1>2. Cardinality(S) \in Nat /\ Low(Cardinality(S)) = SUBSET S
  BY <1>fin, FS_Subset, FS_CardinalityType
<1>3. Good(Cardinality(S))
  BY <1>1, <1>2
<1>4. QED
  BY <1>2, <1>3 DEF IsSum

\* Two such functions agree on the sets both are defined on.
LEMMA SumFunctionUnique ==
  ASSUME NEW f, NEW S, NEW T, IsFiniteSet(S), T \subseteq S,
         NEW g, IsSum(f, g, S), NEW h, IsSum(f, h, T)
  PROVE  g[T] = h[T]
<1> DEFINE Bad == {s \in SUBSET T : g[s] # h[s]}
           Sizes == {Cardinality(s) : s \in Bad}
<1>fin. \A s \in SUBSET T : IsFiniteSet(s) /\ Cardinality(s) \in Nat
  BY FS_Subset, FS_CardinalityType
<1>val. \A s \in SUBSET T : g[s] = SumStep(f, g, s) /\ h[s] = SumStep(f, h, s)
  <2>1. \A s \in SUBSET T : s \in SUBSET S
    OBVIOUS
  <2>2. QED
    BY <2>1, Zenon DEF IsSum
<1>1. Bad = {}
  <2> SUFFICES ASSUME Bad # {} PROVE FALSE
    OBVIOUS
  <2>1. Sizes \subseteq Nat /\ Sizes # {}
    BY <1>fin
  <2>2. PICK n \in Sizes : \A m \in Sizes : n <= m
    BY <2>1, LeastNatural
  <2>3. PICK s \in Bad : n = Cardinality(s)
    BY <2>2
  <2>4. CASE s = {}
    BY <2>3, <2>4, <1>val DEF SumStep
  <2>5. CASE s # {}
    <3>1. s \ {Pick(s)} \in SUBSET T /\ Cardinality(s \ {Pick(s)}) < n
      BY <2>3, <2>5, <1>fin, PickSmaller
    <3>2. g[s \ {Pick(s)}] = h[s \ {Pick(s)}]
      <4> HIDE DEF Bad
      <4>1. s \ {Pick(s)} \in Bad => Cardinality(s \ {Pick(s)}) \in Sizes
        OBVIOUS
      <4>2. s \ {Pick(s)} \notin Bad
        BY <3>1, <4>1, <2>1, <2>2
      <4> USE DEF Bad
      <4>3. QED
        BY <3>1, <4>2
    <3>3. QED
      BY <2>3, <2>5, <3>2, <1>val DEF SumStep
  <2>6. QED
    BY <2>4, <2>5
<1>2. QED
  BY <1>1

\* A sum is taken element by element, in the order of the fold.
LEMMA SumFold ==
  ASSUME NEW f, NEW S, IsFiniteSet(S)
  PROVE  SumFunctionOnSet(f, S) =
           IF S = {} THEN 0
           ELSE f[Pick(S)] + SumFunctionOnSet(f, S \ {Pick(S)})
<1> DEFINE Fun(T) == CHOOSE g : IsSum(f, g, T)
<1>1. ASSUME NEW T, IsFiniteSet(T)
      PROVE  IsSum(f, Fun(T), T) /\ SumFunctionOnSet(f, T) = Fun(T)[T]
  <2>1. \E g : IsSum(f, g, T)
    BY <1>1, SumFunctionExists
  <2>2. SumFunctionOnSet(f, T) = Fun(T)[T]
    BY Zenon
    DEF SumFunctionOnSet, FoldFunctionOnSet, MapThenFoldSet, IsSum, SumStep, Pick
  <2>3. QED
    BY <2>1, <2>2
<1>2. Fun(S)[S] = SumStep(f, Fun(S), S)
  <2>1. ASSUME NEW g, IsSum(f, g, S) PROVE g[S] = SumStep(f, g, S)
    BY <2>1, Zenon DEF IsSum
  <2>2. IsSum(f, Fun(S), S)
    BY <1>1
  <2> HIDE DEF Fun
  <2>3. QED
    BY <2>1, <2>2
<1>3. CASE S = {}
  BY <1>1, <1>2, <1>3 DEF SumStep
<1>4. CASE S # {}
  <2> DEFINE T == S \ {Pick(S)}
  <2>1. IsFiniteSet(T) /\ T \subseteq S
    BY <1>4, PickSmaller
  <2>2. Fun(S)[T] = Fun(T)[T]
    <3>1. IsSum(f, Fun(S), S) /\ IsSum(f, Fun(T), T)
      BY <1>1, <2>1
    <3> HIDE DEF Fun, T
    <3>2. QED
      BY <2>1, <3>1, SumFunctionUnique
  <2>3. QED
    BY <1>1, <1>2, <1>4, <2>1, <2>2 DEF SumStep
<1>5. QED
  BY <1>3, <1>4

-----------------------------------------------------------------------------
(***************************************************************************)
(* Sums of natural numbers.                                                *)
(***************************************************************************)
\* The sum over nothing is zero.
LEMMA SumEmpty == ASSUME NEW f PROVE SumFunctionOnSet(f, {}) = 0
  BY FS_EmptySet, SumFold

\* The sum of natural numbers is one.
THEOREM SumIsNat ==
  ASSUME NEW f, NEW S, IsFiniteSet(S), \A x \in S : f[x] \in Nat
  PROVE  SumFunctionOnSet(f, S) \in Nat
<1> DEFINE Bad == {s \in SUBSET S : SumFunctionOnSet(f, s) \notin Nat}
           Sizes == {Cardinality(s) : s \in Bad}
<1>fin. \A s \in SUBSET S : IsFiniteSet(s) /\ Cardinality(s) \in Nat
  BY FS_Subset, FS_CardinalityType
<1>1. Bad = {}
  <2> SUFFICES ASSUME Bad # {} PROVE FALSE
    OBVIOUS
  <2>1. Sizes \subseteq Nat /\ Sizes # {}
    BY <1>fin
  <2>2. PICK n \in Sizes : \A m \in Sizes : n <= m
    BY <2>1, LeastNatural
  <2>3. PICK s \in Bad : n = Cardinality(s)
    BY <2>2
  <2> DEFINE t == s \ {Pick(s)}
  <2>4. CASE s = {}
    BY <2>3, <2>4, SumEmpty
  <2>5. CASE s # {}
    <3>1. /\ t \in SUBSET S /\ Cardinality(t) < n /\ Pick(s) \in S
          /\ Cardinality(t) \in Nat /\ n \in Nat
      BY <2>3, <2>5, <1>fin, PickSmaller
    <3>2. t \in Bad => Cardinality(t) \in Sizes
      OBVIOUS
    <3>3. SumFunctionOnSet(f, t) \in Nat
      BY <3>1, <3>2, <2>2
    <3>4. SumFunctionOnSet(f, s) = f[Pick(s)] + SumFunctionOnSet(f, t)
      BY <2>3, <2>5, <1>fin, SumFold
    <3>5. QED
      BY <2>3, <3>1, <3>3, <3>4
  <2>6. QED
    BY <2>4, <2>5
<1>2. QED
  BY <1>1

\* Any term can be taken out of a sum first.
THEOREM SumTakeOut ==
  ASSUME NEW f, NEW S, IsFiniteSet(S), \A x \in S : f[x] \in Nat, NEW x \in S
  PROVE  SumFunctionOnSet(f, S) = f[x] + SumFunctionOnSet(f, S \ {x})
<1> DEFINE Holds(s, y) ==
             SumFunctionOnSet(f, s) = f[y] + SumFunctionOnSet(f, s \ {y})
           Bad == {s \in SUBSET S : \E y \in s : ~Holds(s, y)}
           Sizes == {Cardinality(s) : s \in Bad}
<1>fin. \A s \in SUBSET S : IsFiniteSet(s) /\ Cardinality(s) \in Nat
  BY FS_Subset, FS_CardinalityType
<1>1. Bad = {}
  <2> SUFFICES ASSUME Bad # {} PROVE FALSE
    OBVIOUS
  <2>1. Sizes \subseteq Nat /\ Sizes # {}
    <3> HIDE DEF Holds
    <3>1. QED
      BY <1>fin
  <2>2. PICK n \in Sizes : \A m \in Sizes : n <= m
    BY <2>1, LeastNatural
  <2>3. PICK s \in Bad : n = Cardinality(s)
    BY <2>2
  <2>4. PICK y \in s : ~Holds(s, y)
    BY <2>3
  <2> DEFINE p == Pick(s)
             u == s \ {p, y}
  <2>5. /\ s # {} /\ p \in s /\ IsFiniteSet(s) /\ s \subseteq S
        /\ SumFunctionOnSet(f, s) = f[p] + SumFunctionOnSet(f, s \ {p})
    BY <2>3, <2>4, <1>fin, PickSmaller, SumFold
  <2>6. p # y
    BY <2>4, <2>5
  <2>7. ASSUME NEW t, NEW z, t \subseteq s, z \in t, t # s
        PROVE  Holds(t, z)
    <3>1. Cardinality(t) \in Nat /\ Cardinality(t) < n
      BY <2>3, <2>5, <2>7, <1>fin, FS_Subset
    <3>2. t \in Bad => Cardinality(t) \in Sizes
      OBVIOUS
    <3>3. t \notin Bad
      <4> HIDE DEF Bad, Sizes
      <4>1. n \in Nat
        BY <2>1
      <4>2. QED
        BY <3>1, <3>2, <4>1, <2>2
    <3>4. QED
      BY <2>5, <2>7, <3>3
  <2>8. /\ SumFunctionOnSet(f, s \ {p}) = f[y] + SumFunctionOnSet(f, u)
        /\ SumFunctionOnSet(f, s \ {y}) = f[p] + SumFunctionOnSet(f, u)
    <3>1. Holds(s \ {p}, y) /\ Holds(s \ {y}, p)
      <4> HIDE DEF Holds
      <4>1. QED
        BY <2>4, <2>5, <2>6, <2>7
    <3>2. (s \ {p}) \ {y} = u /\ (s \ {y}) \ {p} = u
      OBVIOUS
    <3>3. QED
      BY <3>1, <3>2
  <2>9. f[p] \in Nat /\ f[y] \in Nat /\ SumFunctionOnSet(f, u) \in Nat
    BY <2>4, <2>5, <1>fin, SumIsNat
  <2>10. QED
    BY <2>4, <2>5, <2>8, <2>9
<1>2. QED
  BY <1>1

\* A sum of larger terms is larger, by at least the number of terms that are.
THEOREM SumBelow ==
  ASSUME NEW f, NEW g, NEW S, IsFiniteSet(S), NEW U \in SUBSET S,
         \A x \in S : f[x] \in Nat /\ g[x] \in Nat /\ f[x] <= g[x],
         \A x \in U : f[x] < g[x]
  PROVE  SumFunctionOnSet(f, S) + Cardinality(U) <= SumFunctionOnSet(g, S)
<1> DEFINE Holds(s) ==
             SumFunctionOnSet(f, s) + Cardinality(s \cap U) <= SumFunctionOnSet(g, s)
           Bad == {s \in SUBSET S : ~Holds(s)}
           Sizes == {Cardinality(s) : s \in Bad}
<1>fin. \A s \in SUBSET S : IsFiniteSet(s) /\ Cardinality(s) \in Nat
  BY FS_Subset, FS_CardinalityType
<1>1. Bad = {}
  <2> SUFFICES ASSUME Bad # {} PROVE FALSE
    OBVIOUS
  <2>1. Sizes \subseteq Nat /\ Sizes # {}
    BY <1>fin
  <2>2. PICK n \in Sizes : \A m \in Sizes : n <= m
    BY <2>1, LeastNatural
  <2>3. PICK s \in Bad : n = Cardinality(s)
    BY <2>2
  <2> DEFINE p == Pick(s)
             t == s \ {p}
  <2>4. CASE s = {}
    <3>1. s \cap U = {}
      BY <2>4
    <3>2. QED
      BY <2>3, <2>4, <3>1, SumEmpty, FS_EmptySet
  <2>5. CASE s # {}
    <3>1. /\ t \in SUBSET S /\ Cardinality(t) < n /\ p \in S /\ p \in s
          /\ Cardinality(t) \in Nat /\ n \in Nat
      BY <2>3, <2>5, <1>fin, PickSmaller
    <3>2. t \in Bad => Cardinality(t) \in Sizes
      OBVIOUS
    <3>3. Holds(t)
      <4>1. t \notin Bad
        <5> HIDE DEF Bad, Sizes, t
        <5>1. QED
          BY <3>1, <3>2, <2>2
      <4>2. QED
        BY <3>1, <4>1
    <3>4. /\ SumFunctionOnSet(f, s) = f[p] + SumFunctionOnSet(f, t)
          /\ SumFunctionOnSet(g, s) = g[p] + SumFunctionOnSet(g, t)
      BY <2>3, <2>5, <1>fin, SumFold
    <3>5. SumFunctionOnSet(f, t) \in Nat /\ SumFunctionOnSet(g, t) \in Nat
      BY <3>1, <1>fin, SumIsNat
    <3>6. /\ IsFiniteSet(t \cap U) /\ Cardinality(t \cap U) \in Nat
          /\ Cardinality(s \cap U) = Cardinality(t \cap U) + (IF p \in U THEN 1 ELSE 0)
      <4>1. IsFiniteSet(t \cap U) /\ Cardinality(t \cap U) \in Nat
        BY <3>1, <1>fin
      <4>2. CASE p \in U
        <5>1. s \cap U = (t \cap U) \cup {p} /\ p \notin t \cap U
          BY <3>1, <4>2
        <5>2. QED
          BY <4>1, <4>2, <5>1, FS_AddElement
      <4>3. CASE p \notin U
        <5>1. s \cap U = t \cap U
          BY <4>3
        <5>2. PICK k \in Nat : k = Cardinality(t \cap U)
          BY <4>1
        <5>3. Cardinality(s \cap U) = k
          BY <5>1, <5>2, Zenon
        <5>4. QED
          BY <4>1, <4>3, <5>2, <5>3
      <4>4. QED
        BY <4>1, <4>2, <4>3
    <3>7. f[p] \in Nat /\ g[p] \in Nat /\ f[p] + (IF p \in U THEN 1 ELSE 0) <= g[p]
      BY <3>1
    <3>8. Holds(s)
      BY <3>3, <3>4, <3>5, <3>6, <3>7
    <3>9. QED
      BY <2>3, <3>8
  <2>6. QED
    BY <2>4, <2>5
<1>2. Holds(S) /\ S \cap U = U
  BY <1>1
<1>3. QED
  BY <1>2

\* A sum of larger terms is larger.
THEOREM SumMonotone ==
  ASSUME NEW f, NEW g, NEW S, IsFiniteSet(S),
         \A x \in S : f[x] \in Nat /\ g[x] \in Nat /\ f[x] <= g[x]
  PROVE  SumFunctionOnSet(f, S) <= SumFunctionOnSet(g, S)
<1>1. SumFunctionOnSet(f, S) + Cardinality({}) <= SumFunctionOnSet(g, S)
  BY SumBelow
<1>2. SumFunctionOnSet(f, S) \in Nat /\ SumFunctionOnSet(g, S) \in Nat
  BY SumIsNat
<1>3. QED
  BY <1>1, <1>2, FS_EmptySet

\* Equal terms have equal sums.
THEOREM SumEqual ==
  ASSUME NEW f, NEW g, NEW S, IsFiniteSet(S),
         \A x \in S : f[x] \in Nat /\ g[x] = f[x]
  PROVE  SumFunctionOnSet(g, S) = SumFunctionOnSet(f, S)
<1>1. /\ SumFunctionOnSet(f, S) <= SumFunctionOnSet(g, S)
      /\ SumFunctionOnSet(g, S) <= SumFunctionOnSet(f, S)
  BY SumMonotone
<1>2. SumFunctionOnSet(f, S) \in Nat /\ SumFunctionOnSet(g, S) \in Nat
  BY SumIsNat
<1>3. QED
  BY <1>1, <1>2

\* A sum of zeros is zero.
THEOREM SumZero ==
  ASSUME NEW f, NEW S, IsFiniteSet(S), \A x \in S : f[x] = 0
  PROVE  SumFunctionOnSet(f, S) = 0
<1> DEFINE Bad == {s \in SUBSET S : SumFunctionOnSet(f, s) # 0}
           Sizes == {Cardinality(s) : s \in Bad}
<1>fin. \A s \in SUBSET S : IsFiniteSet(s) /\ Cardinality(s) \in Nat
  BY FS_Subset, FS_CardinalityType
<1>1. Bad = {}
  <2> SUFFICES ASSUME Bad # {} PROVE FALSE
    OBVIOUS
  <2>1. Sizes \subseteq Nat /\ Sizes # {}
    BY <1>fin
  <2>2. PICK n \in Sizes : \A m \in Sizes : n <= m
    BY <2>1, LeastNatural
  <2>3. PICK s \in Bad : n = Cardinality(s)
    BY <2>2
  <2> DEFINE t == s \ {Pick(s)}
  <2>4. s # {}
    BY <2>3, SumEmpty
  <2>5. /\ t \in SUBSET S /\ Cardinality(t) < n /\ Pick(s) \in S
        /\ Cardinality(t) \in Nat /\ n \in Nat
    BY <2>3, <2>4, <1>fin, PickSmaller
  <2>6. t \in Bad => Cardinality(t) \in Sizes
    OBVIOUS
  <2>7. SumFunctionOnSet(f, t) = 0
    BY <2>5, <2>6, <2>2
  <2>8. SumFunctionOnSet(f, s) = f[Pick(s)] + SumFunctionOnSet(f, t)
    BY <2>3, <2>4, <1>fin, SumFold
  <2>9. QED
    BY <2>3, <2>5, <2>7, <2>8
<1>2. QED
  BY <1>1

\* Changing one term changes the sum by as much.
THEOREM SumChange ==
  ASSUME NEW f, NEW g, NEW S, IsFiniteSet(S), NEW x \in S,
         \A y \in S : f[y] \in Nat /\ g[y] \in Nat,
         \A y \in S \ {x} : g[y] = f[y]
  PROVE  SumFunctionOnSet(g, S) = SumFunctionOnSet(f, S) - f[x] + g[x]
<1>1. IsFiniteSet(S \ {x})
  BY FS_RemoveElement
<1>2. /\ SumFunctionOnSet(f, S) = f[x] + SumFunctionOnSet(f, S \ {x})
      /\ SumFunctionOnSet(g, S) = g[x] + SumFunctionOnSet(g, S \ {x})
  BY SumTakeOut
<1>3. SumFunctionOnSet(g, S \ {x}) = SumFunctionOnSet(f, S \ {x})
  BY <1>1, SumEqual
<1>4. SumFunctionOnSet(f, S \ {x}) \in Nat
  BY <1>1, SumIsNat
<1>5. QED
  BY <1>2, <1>3, <1>4

\* Summing over the values of an index function counts a repeated value once.
THEOREM SumImage ==
  ASSUME NEW f, NEW g, NEW h, NEW D, IsFiniteSet(D),
         \A n \in D : g[n] \in Nat /\ f[h[n]] = g[n]
  PROVE  SumFunctionOnSet(f, {h[n] : n \in D}) <= SumFunctionOnSet(g, D)
<1> DEFINE Image(s) == {h[n] : n \in s}
           Bad == {s \in SUBSET D :
                     ~(SumFunctionOnSet(f, Image(s)) <= SumFunctionOnSet(g, s))}
           Sizes == {Cardinality(s) : s \in Bad}
<1>fin. \A s \in SUBSET D : IsFiniteSet(s) /\ Cardinality(s) \in Nat
  BY FS_Subset, FS_CardinalityType
<1>img. \A s \in SUBSET D : IsFiniteSet(Image(s))
  <2>1. ASSUME NEW s \in SUBSET D PROVE IsFiniteSet(Image(s))
    <3> DEFINE k == [n \in s |-> h[n]]
    <3>1. k \in Surjection(s, Image(s))
      BY DEF Surjection
    <3>2. QED
      BY <1>fin, <3>1, FS_Surjection
  <2>2. QED
    BY <2>1
<1>nat. \A s \in SUBSET D : /\ SumFunctionOnSet(g, s) \in Nat
                            /\ SumFunctionOnSet(f, Image(s)) \in Nat
  BY <1>fin, <1>img, SumIsNat
<1>1. Bad = {}
  <2> SUFFICES ASSUME Bad # {} PROVE FALSE
    OBVIOUS
  <2>1. Sizes \subseteq Nat /\ Sizes # {}
    BY <1>fin
  <2>2. PICK n \in Sizes : \A m \in Sizes : n <= m
    BY <2>1, LeastNatural
  <2>3. PICK s \in Bad : n = Cardinality(s)
    BY <2>2
  <2> DEFINE p == Pick(s)
             t == s \ {p}
  <2>4. CASE s = {}
    <3>1. Image(s) = {}
      BY <2>4
    <3>2. QED
      BY <2>3, <2>4, <3>1, SumEmpty
  <2>5. CASE s # {}
    <3>1. /\ t \in SUBSET D /\ Cardinality(t) < n /\ p \in D /\ p \in s
          /\ Cardinality(t) \in Nat /\ n \in Nat
      <4>1. s \in SUBSET D /\ IsFiniteSet(s)
        BY <2>3, <1>fin
      <4> HIDE DEF Bad, Sizes, Image
      <4>2. QED
        BY <2>3, <2>5, <4>1, PickSmaller
    <3>2. t \in Bad => Cardinality(t) \in Sizes
      OBVIOUS
    <3>3. SumFunctionOnSet(f, Image(t)) <= SumFunctionOnSet(g, t)
      <4>1. t \notin Bad
        <5> HIDE DEF Bad, Sizes
        <5>1. QED
          BY <3>1, <3>2, <2>2
      <4>2. QED
        BY <3>1, <4>1
    <3>4. SumFunctionOnSet(g, s) = g[p] + SumFunctionOnSet(g, t)
      BY <2>3, <2>5, <1>fin, SumFold
    <3>5. Image(s) = Image(t) \cup {h[p]}
      BY <3>1
    <3>6. CASE h[p] \in Image(t)
      <4>1. Image(s) = Image(t)
        BY <3>5, <3>6
      <4>2. g[p] \in Nat /\ SumFunctionOnSet(g, t) \in Nat /\ SumFunctionOnSet(f, Image(t)) \in Nat
        BY <3>1, <1>nat
      <4>3. SumFunctionOnSet(f, Image(s)) <= SumFunctionOnSet(g, s)
        <5> HIDE DEF Image
        <5>1. QED
          BY <3>3, <3>4, <4>1, <4>2
      <4>4. QED
        BY <2>3, <4>3
    <3>7. CASE h[p] \notin Image(t)
      <4>1. Image(s) \ {h[p]} = Image(t) /\ h[p] \in Image(s)
        BY <3>5, <3>7
      <4>2. \A x \in Image(s) : f[x] \in Nat
        BY <2>3
      <4>3. SumFunctionOnSet(f, Image(s)) = f[h[p]] + SumFunctionOnSet(f, Image(t))
        <5> HIDE DEF Image
        <5>1. SumFunctionOnSet(f, Image(s)) = f[h[p]] + SumFunctionOnSet(f, Image(s) \ {h[p]})
          BY <2>3, <4>1, <4>2, <1>img, SumTakeOut
        <5>2. QED
          BY <5>1, <4>1
      <4>4. QED
        BY <2>3, <3>1, <3>3, <3>4, <4>3, <1>nat
    <3>8. QED
      BY <3>6, <3>7
  <2>6. QED
    BY <2>4, <2>5
<1>2. QED
  BY <1>1
=============================================================================
