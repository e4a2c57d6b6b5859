----------------------------- MODULE FiniteSums -----------------------------
(***************************************************************************)
(* Facts about sums over finite sets (SumFunctionOnSet) and about the      *)
(* least element of a set of numbers, which the proofs about the           *)
(* components share.  A recursive function is a CHOOSE: that the one of    *)
(* the sum exists is proved first.                                         *)
(***************************************************************************)
EXTENDS FiniteSetsExt, FiniteSetTheorems, TLAPS

\* The order of the natural numbers as a relation.
Below == {ss \in Nat \X Nat : ss[1] < ss[2]}

\* That order is well-founded.
LEMMA BelowIsWellFounded == IsWellFoundedOn(Below, Nat)
<1>1. OpToRel(<, Nat) = Below
  BY Zenon DEF OpToRel, Below
<1> QED
  BY Zenon, <1>1, NatLessThanWellFounded

\* A set of natural numbers that is not empty has a least element.
LEMMA Least ==
  ASSUME NEW S, S \subseteq Nat, S # {}
  PROVE  \E n \in S : \A m \in S : n <= m
<1>1. PICK n \in S : \A m \in S : <<m, n>> \notin Below
  BY BelowIsWellFounded, WFMin
<1>2. ASSUME NEW m \in S PROVE n <= m
  <2>1. m \in Nat /\ n \in Nat
    OBVIOUS
  <2>2. <<m, n>> \in Nat \X Nat /\ <<m, n>>[1] = m /\ <<m, n>>[2] = n
    BY <2>1
  <2>3. ~(m < n)
    BY Zenon, <1>1, <2>2 DEF Below
  <2> QED
    BY <2>1, <2>3
<1> QED
  BY <1>2

\* Min of FiniteSetsExt is that element.
LEMMA MinIsLeast ==
  ASSUME NEW S, S \subseteq Nat, S # {}
  PROVE  Min(S) \in S /\ \A m \in S : Min(S) <= m
BY Least DEF Min

\* A set of subsets of a finite set that is not empty has a smallest element.
LEMMA Smallest ==
  ASSUME NEW S, IsFiniteSet(S), NEW T, T \subseteq SUBSET S, T # {}
  PROVE  \E s \in T : \A r \in T : r \subseteq s => r = s
<1> DEFINE R == StrictSubsetOrdering(S)
<1>1. IsWellFoundedOn(R, FiniteSubsetsOf(S))
  BY FS_StrictSubsetOrderingWellFounded
<1>2. T \subseteq FiniteSubsetsOf(S)
  BY FS_FiniteSubsetsOfFinite
<1> HIDE DEF R
<1>3. PICK s \in T : \A r \in T : <<r, s>> \notin R
  BY <1>1, <1>2, WFMin
<1>4. ASSUME NEW r \in T, r \subseteq s PROVE r = s
  <2>1. <<r, s>> \notin R
    BY <1>3
  <2>2. r \in SUBSET S /\ s \in SUBSET S
    OBVIOUS
  <2> QED
    BY <1>4, <2>1, <2>2 DEF R, StrictSubsetOrdering
<1> QED
  BY <1>4

-----------------------------------------------------------------------------
\* What the sum of f over a set picks first.
First(s) == CHOOSE x \in s : TRUE

\* What the recursion of the sum of f over S demands of a function.
SumRec(f, S, g) ==
  g = [s \in SUBSET S |-> IF s = {} THEN 0 ELSE f[First(s)] + g[s \ {First(s)}]]

\* The sum in terms of its recursion.
LEMMA SumDef ==
  ASSUME NEW f, NEW S
  PROVE  SumFunctionOnSet(f, S) = (CHOOSE g : SumRec(f, S, g))[S]
BY DEF SumFunctionOnSet, FoldFunctionOnSet, MapThenFoldSet, SumRec, First

\* What is picked first is in the set.
LEMMA FirstIn ==
  ASSUME NEW s, s # {}
  PROVE  First(s) \in s
BY DEF First

\* One step of the recursion.
LEMMA SumRecValue ==
  ASSUME NEW f, NEW S, NEW g, SumRec(f, S, g), NEW s \in SUBSET S
  PROVE  g[s] = IF s = {} THEN 0 ELSE f[First(s)] + g[s \ {First(s)}]
BY DEF SumRec

\* The recursion has one solution at most.
LEMMA SumRecUnique ==
  ASSUME NEW f, NEW S, IsFiniteSet(S), NEW g, SumRec(f, S, g), NEW h, SumRec(f, S, h)
  PROVE  g = h
<1> DEFINE T == {s \in SUBSET S : g[s] # h[s]}
<1>1. ASSUME T # {} PROVE FALSE
  <2>1. PICK s \in T : \A r \in T : r \subseteq s => r = s
    <3>1. T \subseteq SUBSET S
      OBVIOUS
    <3> HIDE DEF T
    <3> QED
      BY <1>1, <3>1, Smallest
  <2>2. s # {}
    BY SumRecValue
  <2>3. First(s) \in s
    BY <2>2, FirstIn
  <2>4. g[s \ {First(s)}] = h[s \ {First(s)}]
    BY <2>1, <2>3
  <2> QED
    BY <2>2, <2>4, SumRecValue
<1> QED
  BY <1>1 DEF SumRec

\* A solution for a set is one for its subsets.
LEMMA SumRecRestrict ==
  ASSUME NEW f, NEW S, NEW g, SumRec(f, S, g), NEW T \in SUBSET S
  PROVE  SumRec(f, T, [s \in SUBSET T |-> g[s]])
<1> DEFINE h == [s \in SUBSET T |-> g[s]]
<1>1. ASSUME NEW s \in SUBSET T
      PROVE  h[s] = IF s = {} THEN 0 ELSE f[First(s)] + h[s \ {First(s)}]
  <2>1. s \in SUBSET S /\ s \ {First(s)} \in SUBSET T
    OBVIOUS
  <2> QED
    BY <2>1, SumRecValue
<1> QED
  BY <1>1 DEF SumRec

\* The recursion has a solution.
LEMMA SumRecExists ==
  ASSUME NEW f, NEW S, IsFiniteSet(S)
  PROVE  \E g : SumRec(f, S, g)
<1> DEFINE Bad == {s \in SUBSET S : ~\E g : SumRec(f, s, g)}
<1>1. ASSUME Bad # {} PROVE FALSE
  <2>1. PICK T \in Bad : \A r \in Bad : r \subseteq T => r = T
    <3>1. Bad \subseteq SUBSET S
      OBVIOUS
    <3> HIDE DEF Bad
    <3> QED
      BY <1>1, <3>1, Smallest
  <2> DEFINE G(s) == CHOOSE g : SumRec(f, s, g)
             g == [s \in SUBSET T |-> IF s = {} THEN 0
                     ELSE f[First(s)] + G(s \ {First(s)})[s \ {First(s)}]]
  <2>2. ASSUME NEW r \in SUBSET T, r # T PROVE SumRec(f, r, G(r))
    <3>1. \E h : SumRec(f, r, h)
      BY <2>1, <2>2
    <3> QED
      BY <3>1
  <2>3. IsFiniteSet(T)
    BY <2>1, FS_Subset
  <2> HIDE DEF G
  <2>4. ASSUME NEW r \in SUBSET T, r # T PROVE g[r] = G(r)[r]
    <3>1. r \in SUBSET r /\ G(r)[r] = IF r = {} THEN 0 ELSE f[First(r)] + G(r)[r \ {First(r)}]
      BY <2>2, <2>4, SumRecValue
    <3>2. CASE r # {}
      <4> DEFINE q == r \ {First(r)}
      <4>1. q \in SUBSET r /\ q \in SUBSET T /\ q # T
        BY <2>4, <3>2, FirstIn
      <4>2. SumRec(f, q, [s \in SUBSET q |-> G(r)[s]]) /\ SumRec(f, q, G(q))
        <5>1. SumRec(f, r, G(r))
          BY <2>2, <2>4
        <5>2. SumRec(f, q, G(q))
          BY <2>2, <4>1
        <5> HIDE DEF q
        <5> QED
          BY ZenonT(60), <4>1, <5>1, <5>2, SumRecRestrict
      <4>3. IsFiniteSet(q)
        BY <2>3, <4>1, FS_Subset
      <4> HIDE DEF q
      <4>4. [s \in SUBSET q |-> G(r)[s]] = G(q)
        BY <4>2, <4>3, SumRecUnique
      <4>5. G(r)[q] = G(q)[q]
        BY <4>4
      <4> QED
        BY <2>4, <3>1, <3>2, <4>5 DEF q
    <3> QED
      BY <3>1, <3>2
  <2>5. SumRec(f, T, g)
    <3>1. ASSUME NEW s \in SUBSET T
          PROVE  g[s] = IF s = {} THEN 0 ELSE f[First(s)] + g[s \ {First(s)}]
      <4>1. CASE s # {}
        <5>1. s \ {First(s)} \in SUBSET T /\ s \ {First(s)} # T
          BY <4>1, FirstIn
        <5>2. g[s \ {First(s)}] = G(s \ {First(s)})[s \ {First(s)}]
          BY <2>4, <5>1
        <5> QED
          BY <4>1, <5>2
      <4> QED
        BY <4>1
    <3>2. g = [s \in SUBSET T |-> g[s]]
      OBVIOUS
    <3> HIDE DEF g
    <3> QED
      BY <3>1, <3>2 DEF SumRec
  <2> QED
    BY <2>1, <2>5
<1>2. S \in SUBSET S
  OBVIOUS
<1> QED
  BY <1>1, <1>2

-----------------------------------------------------------------------------
\* The sum over the empty set.
LEMMA SumEmpty ==
  ASSUME NEW f
  PROVE  SumFunctionOnSet(f, {}) = 0
<1>1. SumRec(f, {}, CHOOSE g : SumRec(f, {}, g))
  BY SumRecExists, FS_EmptySet
<1> QED
  BY <1>1, SumRecValue, SumDef

\* The sum without the element picked first.
LEMMA SumFirst ==
  ASSUME NEW f, NEW S, IsFiniteSet(S), S # {}
  PROVE  SumFunctionOnSet(f, S) = f[First(S)] + SumFunctionOnSet(f, S \ {First(S)})
<1> DEFINE G(s) == CHOOSE g : SumRec(f, s, g)
           q == S \ {First(S)}
<1>1. SumRec(f, S, G(S)) /\ SumRec(f, q, G(q)) /\ IsFiniteSet(q)
  BY SumRecExists, FS_Subset
<1>2. SumFunctionOnSet(f, S) = G(S)[S] /\ SumFunctionOnSet(f, q) = G(q)[q]
  BY SumDef
<1>3. q \in SUBSET S /\ q \in SUBSET q /\ S \in SUBSET S
  OBVIOUS
<1> HIDE DEF G
<1>4. [s \in SUBSET q |-> G(S)[s]] = G(q)
  <2> HIDE DEF q
  <2>1. SumRec(f, q, [s \in SUBSET q |-> G(S)[s]])
    BY <1>1, <1>3, SumRecRestrict
  <2> QED
    BY <1>1, <2>1, SumRecUnique
<1>5. G(S)[q] = G(q)[q]
  BY <1>3, <1>4
<1>6. G(S)[S] = f[First(S)] + G(S)[q]
  BY <1>1, <1>3, SumRecValue
<1> QED
  BY <1>2, <1>5, <1>6

\* Sums of integers are integers, and it does not matter which element is
\* taken first.
LEMMA SumType ==
  ASSUME NEW S, IsFiniteSet(S), NEW f, \A x \in S : f[x] \in Int
  PROVE  SumFunctionOnSet(f, S) \in Int
<1> DEFINE Bad == {s \in SUBSET S : SumFunctionOnSet(f, s) \notin Int}
<1>1. ASSUME Bad # {} PROVE FALSE
  <2>1. PICK s \in Bad : \A r \in Bad : r \subseteq s => r = s
    <3>1. Bad \subseteq SUBSET S
      OBVIOUS
    <3> HIDE DEF Bad
    <3> QED
      BY <1>1, <3>1, Smallest
  <2>2. IsFiniteSet(s) /\ s # {}
    <3>1. IsFiniteSet(s)
      BY FS_Subset
    <3> QED
      BY <3>1, SumEmpty
  <2>3. First(s) \in s
    BY <2>2, FirstIn
  <2>4. SumFunctionOnSet(f, s \ {First(s)}) \in Int
    BY <2>1, <2>3
  <2> QED
    BY <2>2, <2>3, <2>4, SumFirst
<1> QED
  BY <1>1

\* The sum without any of its elements.
LEMMA SumRemove ==
  ASSUME NEW S, IsFiniteSet(S), NEW f, \A x \in S : f[x] \in Int, NEW y \in S
  PROVE  SumFunctionOnSet(f, S) = f[y] + SumFunctionOnSet(f, S \ {y})
<1> DEFINE Sum(s) == SumFunctionOnSet(f, s)
           Bad == {s \in SUBSET S : \E x \in s : Sum(s) # f[x] + Sum(s \ {x})}
<1>1. ASSUME Bad # {} PROVE FALSE
  <2>1. PICK s \in Bad : \A r \in Bad : r \subseteq s => r = s
    <3>1. Bad \subseteq SUBSET S
      OBVIOUS
    <3> HIDE DEF Bad
    <3> QED
      BY <1>1, <3>1, Smallest
  <2>2. PICK x \in s : Sum(s) # f[x] + Sum(s \ {x})
    OBVIOUS
  <2> DEFINE z == First(s)
             r == s \ {z}
  <2>3. z \in s /\ IsFiniteSet(s) /\ Sum(s) = f[z] + Sum(s \ {z})
    BY FirstIn, SumFirst, FS_Subset
  <2>4. x # z
    BY <2>2, <2>3
  <2>5. x \in r /\ r \in SUBSET S /\ r # s /\ r \subseteq s
    BY <2>3, <2>4
  <2>6. Sum(r) = f[x] + Sum(r \ {x})
    BY <2>1, <2>5
  <2>7. s \ {x} \in SUBSET S /\ s \ {x} # s /\ s \ {x} \subseteq s /\ z \in s \ {x}
    BY <2>3, <2>4
  <2>8. Sum(s \ {x}) = f[z] + Sum((s \ {x}) \ {z})
    BY <2>1, <2>7
  <2>9. (s \ {x}) \ {z} = r \ {x} /\ r \ {x} \in SUBSET S
    OBVIOUS
  <2>10. Sum(r \ {x}) \in Int /\ f[x] \in Int /\ f[z] \in Int
    BY <2>3, <2>9, SumType, FS_Subset
  <2> HIDE DEF Sum, z
  <2> QED
    BY <2>2, <2>3, <2>6, <2>8, <2>9, <2>10
<1> QED
  BY <1>1

\* The sum with a new element.
LEMMA SumAdd ==
  ASSUME NEW S, IsFiniteSet(S), NEW y, y \notin S, NEW f, \A x \in S \cup {y} : f[x] \in Int
  PROVE  SumFunctionOnSet(f, S \cup {y}) = f[y] + SumFunctionOnSet(f, S)
<1>1. IsFiniteSet(S \cup {y}) /\ (S \cup {y}) \ {y} = S
  BY FS_AddElement
<1> QED
  BY <1>1, SumRemove

\* A sum depends on the values that are summed only.
LEMMA SumSame ==
  ASSUME NEW S, IsFiniteSet(S), NEW f, NEW g, \A x \in S : f[x] = g[x]
  PROVE  SumFunctionOnSet(f, S) = SumFunctionOnSet(g, S)
<1> DEFINE Bad == {s \in SUBSET S : SumFunctionOnSet(f, s) # SumFunctionOnSet(g, s)}
<1>1. ASSUME Bad # {} PROVE FALSE
  <2>1. PICK s \in Bad : \A r \in Bad : r \subseteq s => r = s
    <3>1. Bad \subseteq SUBSET S
      OBVIOUS
    <3> HIDE DEF Bad
    <3> QED
      BY <1>1, <3>1, Smallest
  <2>2. IsFiniteSet(s) /\ s # {}
    <3>1. IsFiniteSet(s)
      BY FS_Subset
    <3> QED
      BY <3>1, SumEmpty
  <2>3. First(s) \in s
    BY <2>2, FirstIn
  <2>4. SumFunctionOnSet(f, s \ {First(s)}) = SumFunctionOnSet(g, s \ {First(s)})
    BY <2>1, <2>3
  <2> QED
    BY <2>2, <2>3, <2>4, SumFirst
<1> QED
  BY <1>1

\* A sum of larger values is not smaller; a sum of natural numbers is one, and is
\* not below any of them.
LEMMA SumMonotone ==
  ASSUME NEW S, IsFiniteSet(S), NEW f, NEW g,
         \A x \in S : f[x] \in Int /\ g[x] \in Int /\ f[x] <= g[x]
  PROVE  SumFunctionOnSet(f, S) <= SumFunctionOnSet(g, S)
<1> DEFINE Bad == {s \in SUBSET S : ~(SumFunctionOnSet(f, s) <= SumFunctionOnSet(g, s))}
<1>1. ASSUME Bad # {} PROVE FALSE
  <2>1. PICK s \in Bad : \A r \in Bad : r \subseteq s => r = s
    <3>1. Bad \subseteq SUBSET S
      OBVIOUS
    <3> HIDE DEF Bad
    <3> QED
      BY <1>1, <3>1, Smallest
  <2>2. IsFiniteSet(s) /\ s # {}
    <3>1. IsFiniteSet(s)
      BY FS_Subset
    <3> QED
      BY <3>1, SumEmpty
  <2>3. First(s) \in s
    BY <2>2, FirstIn
  <2> DEFINE r == s \ {First(s)}
  <2>4. SumFunctionOnSet(f, r) <= SumFunctionOnSet(g, r)
    BY <2>1, <2>3
  <2>5. SumFunctionOnSet(f, r) \in Int /\ SumFunctionOnSet(g, r) \in Int
    BY <2>2, SumType, FS_Subset
  <2>6. /\ SumFunctionOnSet(f, s) = f[First(s)] + SumFunctionOnSet(f, r)
        /\ SumFunctionOnSet(g, s) = g[First(s)] + SumFunctionOnSet(g, r)
    BY <2>2, SumFirst
  <2>7. f[First(s)] \in Int /\ g[First(s)] \in Int /\ f[First(s)] <= g[First(s)]
    BY <2>3
  <2> HIDE DEF r
  <2>8. SumFunctionOnSet(f, s) <= SumFunctionOnSet(g, s)
    BY <2>4, <2>5, <2>6, <2>7
  <2> QED
    BY <2>8
<1> QED
  BY <1>1

\* A sum of natural numbers is at least each of them.
LEMMA SumNat ==
  ASSUME NEW S, IsFiniteSet(S), NEW f, \A x \in S : f[x] \in Nat
  PROVE  /\ SumFunctionOnSet(f, S) \in Nat
         /\ \A x \in S : f[x] <= SumFunctionOnSet(f, S)
<1>1. ASSUME NEW s \in SUBSET S PROVE SumFunctionOnSet(f, s) \in Nat
  <2> DEFINE zero == [x \in s |-> 0]
  <2>1. IsFiniteSet(s)
    BY FS_Subset
  <2>2. SumFunctionOnSet(zero, s) \in Int /\ SumFunctionOnSet(f, s) \in Int
    BY <2>1, SumType
  <2>3. SumFunctionOnSet(zero, s) <= SumFunctionOnSet(f, s)
    BY <2>1, SumMonotone
  <2>4. SumFunctionOnSet(zero, s) = 0
    <3> DEFINE Bad == {r \in SUBSET s : SumFunctionOnSet(zero, r) # 0}
    <3>1. ASSUME Bad # {} PROVE FALSE
      <4>1. PICK r \in Bad : \A q \in Bad : q \subseteq r => q = r
        <5>1. Bad \subseteq SUBSET s
          OBVIOUS
        <5> HIDE DEF Bad
        <5> QED
          BY <2>1, <3>1, <5>1, Smallest
      <4>2. IsFiniteSet(r) /\ r # {}
        BY <2>1, SumEmpty, FS_Subset
      <4>3. First(r) \in r
        BY <4>2, FirstIn
      <4>4. SumFunctionOnSet(zero, r \ {First(r)}) = 0
        BY <4>1, <4>3
      <4> QED
        BY <4>2, <4>3, <4>4, SumFirst
    <3> QED
      BY <3>1
  <2> QED
    BY <2>2, <2>3, <2>4
<1>2. ASSUME NEW x \in S PROVE f[x] <= SumFunctionOnSet(f, S)
  <2>1. SumFunctionOnSet(f, S) = f[x] + SumFunctionOnSet(f, S \ {x})
    BY SumRemove
  <2>2. SumFunctionOnSet(f, S \ {x}) \in Nat /\ f[x] \in Nat
    BY <1>1
  <2> QED
    BY <2>1, <2>2
<1> QED
  BY <1>1, <1>2

\* One value changes: the sum changes with it.
LEMMA SumChange ==
  ASSUME NEW S, IsFiniteSet(S), NEW f, NEW g, NEW y \in S,
         \A x \in S : f[x] \in Int /\ g[x] \in Int, \A x \in S : x # y => f[x] = g[x]
  PROVE  SumFunctionOnSet(g, S) = SumFunctionOnSet(f, S) - f[y] + g[y]
<1> DEFINE r == S \ {y}
<1>1. /\ SumFunctionOnSet(f, S) = f[y] + SumFunctionOnSet(f, r)
      /\ SumFunctionOnSet(g, S) = g[y] + SumFunctionOnSet(g, r)
  BY SumRemove
<1>2. SumFunctionOnSet(f, r) = SumFunctionOnSet(g, r) /\ SumFunctionOnSet(f, r) \in Int
  BY SumSame, SumType, FS_Subset
<1> HIDE DEF r
<1> QED
  BY <1>1, <1>2

\* A part of a sum of natural numbers.
LEMMA SumSubset ==
  ASSUME NEW S, IsFiniteSet(S), NEW f, \A x \in S : f[x] \in Nat, NEW T, T \subseteq S
  PROVE  SumFunctionOnSet(f, T) <= SumFunctionOnSet(f, S)
<1> DEFINE Bad == {s \in SUBSET S : T \subseteq s /\ ~(SumFunctionOnSet(f, T) <= SumFunctionOnSet(f, s))}
<1>1. ASSUME Bad # {} PROVE FALSE
  <2>1. PICK s \in Bad : \A r \in Bad : r \subseteq s => r = s
    <3>1. Bad \subseteq SUBSET S
      OBVIOUS
    <3> HIDE DEF Bad
    <3> QED
      BY <1>1, <3>1, Smallest
  <2>2. IsFiniteSet(s) /\ IsFiniteSet(T)
    BY FS_Subset
  <2>3. SumFunctionOnSet(f, s) \in Nat /\ SumFunctionOnSet(f, T) \in Nat
    BY <2>2, SumNat
  <2>4. PICK x \in s : x \notin T
    BY <2>3
  <2>5. SumFunctionOnSet(f, T) <= SumFunctionOnSet(f, s \ {x})
    BY <2>1, <2>4
  <2>6. SumFunctionOnSet(f, s) = f[x] + SumFunctionOnSet(f, s \ {x})
    BY <2>2, SumRemove
  <2>7. SumFunctionOnSet(f, s \ {x}) \in Nat /\ f[x] \in Nat
    <3>1. IsFiniteSet(s \ {x})
      BY <2>2, FS_Subset
    <3> QED
      BY <3>1, SumNat
  <2> QED
    BY <2>3, <2>5, <2>6, <2>7
<1> QED
  BY <1>1

\* The sum of zeros.
LEMMA SumZero ==
  ASSUME NEW S, IsFiniteSet(S), NEW f, \A x \in S : f[x] = 0
  PROVE  SumFunctionOnSet(f, S) = 0
<1> DEFINE Bad == {s \in SUBSET S : SumFunctionOnSet(f, s) # 0}
<1>1. ASSUME Bad # {} PROVE FALSE
  <2>1. PICK s \in Bad : \A r \in Bad : r \subseteq s => r = s
    <3>1. Bad \subseteq SUBSET S
      OBVIOUS
    <3> HIDE DEF Bad
    <3> QED
      BY <1>1, <3>1, Smallest
  <2>2. IsFiniteSet(s) /\ s # {}
    <3>1. IsFiniteSet(s)
      BY FS_Subset
    <3> QED
      BY <3>1, SumEmpty
  <2>3. First(s) \in s
    BY <2>2, FirstIn
  <2>4. SumFunctionOnSet(f, s \ {First(s)}) = 0
    BY <2>1, <2>3
  <2> QED
    BY <2>2, <2>3, <2>4, SumFirst
<1> QED
  BY <1>1

\* The sum of equal values.
LEMMA SumConstant ==
  ASSUME NEW S, IsFiniteSet(S), NEW k \in Nat, NEW f, \A x \in S : f[x] = k
  PROVE  SumFunctionOnSet(f, S) = Cardinality(S) * k
<1> DEFINE Bad == {s \in SUBSET S : SumFunctionOnSet(f, s) # Cardinality(s) * k}
<1>1. ASSUME Bad # {} PROVE FALSE
  <2>1. PICK s \in Bad : \A r \in Bad : r \subseteq s => r = s
    <3>1. Bad \subseteq SUBSET S
      OBVIOUS
    <3> HIDE DEF Bad
    <3> QED
      BY <1>1, <3>1, Smallest
  <2>2. IsFiniteSet(s) /\ s # {}
    <3>1. IsFiniteSet(s)
      BY FS_Subset
    <3>2. Cardinality({}) * k = 0
      BY FS_EmptySet
    <3> QED
      BY <3>1, <3>2, SumEmpty
  <2> DEFINE x == First(s)
             r == s \ {x}
  <2>3. x \in s
    BY <2>2, FirstIn
  <2>4. SumFunctionOnSet(f, r) = Cardinality(r) * k
    BY <2>1, <2>3
  <2>5. SumFunctionOnSet(f, s) = k + SumFunctionOnSet(f, r)
    BY <2>2, <2>3, SumFirst
  <2>6. Cardinality(s) = Cardinality(r) + 1 /\ Cardinality(r) \in Nat
    <3> HIDE DEF x
    <3>1. IsFiniteSet(r) /\ Cardinality(r) = Cardinality(s) - 1
      BY <2>2, <2>3, FS_RemoveElement
    <3>2. Cardinality(r) \in Nat /\ Cardinality(s) \in Nat
      BY <2>2, <3>1, FS_CardinalityType
    <3> QED
      BY <3>1, <3>2
  <2>7. \A m \in Nat : (m + 1) * k = k + m * k
    OBVIOUS
  <2>8. Cardinality(s) * k = k + Cardinality(r) * k
    BY <2>6, <2>7
  <2>9. SumFunctionOnSet(f, s) # Cardinality(s) * k
    BY <2>1
  <2> QED
    BY <2>4, <2>5, <2>8, <2>9
<1> QED
  BY <1>1
=============================================================================
