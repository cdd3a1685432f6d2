----------------------------- MODULE SumTheorems -----------------------------
(***************************************************************************)
(* What the sum of a function over a finite set is, for the proofs of the  *)
(* modules whose books are such sums: adding and taking away an index,     *)
(* changing one value, bounds.                                             *)
(*                                                                         *)
(* SumFunctionOnSet is defined by a recursive function over the subsets of *)
(* its set of indices.  That this function exists, and everything else     *)
(* here, is shown by taking a smallest counterexample, which exists        *)
(* because the finite subsets of a set are well-founded under inclusion.   *)
(***************************************************************************)
EXTENDS Integers, FiniteSets, Functions, FiniteSetTheorems, TLAPS

\* Some subsets of a finite set, if any: one of them contains no other.
LEMMA SmallestSet ==
    ASSUME NEW S, IsFiniteSet(S), NEW Family, Family \subseteq SUBSET S, Family # {}
    PROVE  \E T \in Family : \A U \in Family : U \subseteq T => U = T
<1>1. IsWellFoundedOn(StrictSubsetOrdering(S), FiniteSubsetsOf(S))
  BY FS_StrictSubsetOrderingWellFounded
<1>2. Family \subseteq FiniteSubsetsOf(S)
  BY FS_Subset DEF FiniteSubsetsOf
<1>3. PICK T \in Family : \A U \in Family : <<U, T>> \notin StrictSubsetOrdering(S)
  BY <1>1, <1>2, WFMin
<1> QED
  BY <1>3 DEF StrictSubsetOrdering

\* The element the fold takes next.
nextIndex(s) == CHOOSE x \in s : TRUE

\* iter computes the sums of f over the subsets of S.
IsSum(iter, f, S) ==
    iter = [s \in SUBSET S |-> IF s = {} THEN 0 ELSE f[nextIndex(s)] + iter[s \ {nextIndex(s)}]]

LEMMA SumDefinition ==
    ASSUME NEW f, NEW S
    PROVE  SumFunctionOnSet(f, S) = (CHOOSE iter : IsSum(iter, f, S))[S]
BY DEF SumFunctionOnSet, FoldFunctionOnSet, MapThenFoldSet, IsSum, nextIndex

LEMMA SumsAgree ==
    ASSUME NEW f, NEW S, NEW T, IsFiniteSet(S), S \subseteq T,
           NEW g, IsSum(g, f, S), NEW h, IsSum(h, f, T)
    PROVE  \A s \in SUBSET S : g[s] = h[s]
<1> DEFINE Bad == {s \in SUBSET S : g[s] # h[s]}
<1> SUFFICES ASSUME Bad # {} PROVE FALSE
  OBVIOUS
<1>1. Bad \subseteq SUBSET S
  OBVIOUS
<1>2. PICK s \in Bad : \A u \in Bad : u \subseteq s => u = s
  <2> HIDE DEF Bad
  <2> QED
    BY <1>1, SmallestSet
<1>3. CASE s = {}
  BY <1>2, <1>3 DEF IsSum
<1>4. CASE s # {}
  <2>1. nextIndex(s) \in s
    BY <1>4 DEF nextIndex
  <2>2. g[s \ {nextIndex(s)}] = h[s \ {nextIndex(s)}]
    BY <1>2, <2>1
  <2>3. g[s] = f[nextIndex(s)] + g[s \ {nextIndex(s)}] /\ h[s] = f[nextIndex(s)] + h[s \ {nextIndex(s)}]
    BY <1>2, <1>4 DEF IsSum
  <2> QED
    BY <1>2, <2>2, <2>3
<1> QED
  BY <1>3, <1>4

LEMMA SumExists ==
    ASSUME NEW f, NEW S, IsFiniteSet(S)
    PROVE  \E iter : IsSum(iter, f, S)
<1> DEFINE Bad == {s \in SUBSET S : ~\E iter : IsSum(iter, f, s)}
<1> SUFFICES ASSUME Bad # {} PROVE FALSE
  OBVIOUS
<1>1. Bad \subseteq SUBSET S
  OBVIOUS
<1>2. PICK s \in Bad : \A u \in Bad : u \subseteq s => u = s
  <2> HIDE DEF Bad
  <2> QED
    BY <1>1, SmallestSet
<1> DEFINE sum(u) == (CHOOSE iter : IsSum(iter, f, u))
           rest(u) == u \ {nextIndex(u)}
           g == [u \in SUBSET s |-> IF u = {} THEN 0 ELSE f[nextIndex(u)] + sum(rest(u))[rest(u)]]
<1>3. ASSUME NEW u \in SUBSET s, u # s
      PROVE  IsSum(sum(u), f, u) /\ IsFiniteSet(u)
  <2>1. \E iter : IsSum(iter, f, u)
    BY <1>2, <1>3
  <2> QED
    BY <2>1, <1>2, <1>3, FS_Subset
<1>4. ASSUME NEW u \in SUBSET s, u # s
      PROVE  g[u] = sum(u)[u]
  <2>1. CASE u = {}
    <3>1. IsSum(sum({}), f, {})
      BY <2>1, <1>3, <1>4
    <3> HIDE DEF sum
    <3> QED
      BY <2>1, <3>1 DEF IsSum
  <2>2. CASE u # {}
    <3>1. nextIndex(u) \in u
      BY <2>2 DEF nextIndex
    <3>2. rest(u) \in SUBSET s /\ rest(u) # s /\ rest(u) \subseteq u
      BY <1>4, <3>1
    <3>3. IsSum(sum(u), f, u) /\ IsSum(sum(rest(u)), f, rest(u)) /\ IsFiniteSet(rest(u))
      BY <1>3, <1>4, <3>2
    <3> HIDE DEF sum, rest
    <3>4. sum(rest(u))[rest(u)] = sum(u)[rest(u)]
      BY <3>2, <3>3, SumsAgree
    <3>5. sum(u)[u] = f[nextIndex(u)] + sum(u)[rest(u)]
      BY <2>2, <3>3 DEF IsSum, rest
    <3> QED
      BY <2>2, <3>4, <3>5
  <2> QED
    BY <2>1, <2>2
<1>5. ASSUME NEW u \in SUBSET s
      PROVE  g[u] = IF u = {} THEN 0 ELSE f[nextIndex(u)] + g[rest(u)]
  <2>1. CASE u = {}
    BY <2>1
  <2>2. CASE u # {}
    <3>1. rest(u) \in SUBSET s /\ rest(u) # s
      BY <2>2 DEF nextIndex
    <3>2. g[rest(u)] = sum(rest(u))[rest(u)]
      BY <3>1, <1>4
    <3> HIDE DEF sum, rest
    <3> QED
      BY <2>2, <3>2
  <2> QED
    BY <2>1, <2>2
<1>6. IsSum(g, f, s)
  <2> HIDE DEF sum
  <2> QED
    BY <1>5 DEF IsSum
<1> QED
  BY <1>2, <1>6

-----------------------------------------------------------------------------
(* The fold, one element at a time. *)

LEMMA SumOfNothing ==
    ASSUME NEW f
    PROVE  SumFunctionOnSet(f, {}) = 0
<1> DEFINE iter == CHOOSE g : IsSum(g, f, {})
<1>1. IsSum(iter, f, {})
  BY SumExists, FS_EmptySet
<1> QED
  BY <1>1, SumDefinition DEF IsSum

LEMMA SumTakesNext ==
    ASSUME NEW f, NEW S, IsFiniteSet(S), S # {}
    PROVE  SumFunctionOnSet(f, S) = f[nextIndex(S)] + SumFunctionOnSet(f, S \ {nextIndex(S)})
<1> DEFINE T == S \ {nextIndex(S)}
           g == CHOOSE h : IsSum(h, f, T)
           iter == CHOOSE h : IsSum(h, f, S)
<1>1. IsFiniteSet(T) /\ T \in SUBSET S
  BY FS_Subset
<1>2. IsSum(iter, f, S) /\ IsSum(g, f, T)
  BY <1>1, SumExists
<1>3. SumFunctionOnSet(f, S) = iter[S] /\ SumFunctionOnSet(f, T) = g[T]
  BY SumDefinition
<1> HIDE DEF iter, g
<1>4. g[T] = iter[T]
  <2> HIDE DEF T
  <2> SUFFICES ASSUME NEW U, U = T, NEW h, h = g, NEW k, k = iter PROVE h[U] = k[U]
    OBVIOUS
  <2>1. IsFiniteSet(U) /\ U \subseteq S /\ IsSum(h, f, U) /\ IsSum(k, f, S)
    BY <1>1, <1>2
  <2>2. \A s \in SUBSET U : h[s] = k[s]
    BY <2>1, SumsAgree
  <2> QED
    BY <2>2
<1>5. iter[S] = f[nextIndex(S)] + iter[T]
  BY <1>2 DEF IsSum
<1> QED
  BY <1>3, <1>4, <1>5

\* A sum of integers is an integer.
LEMMA SumIsInt ==
    ASSUME NEW f, NEW S, IsFiniteSet(S), \A x \in S : f[x] \in Int
    PROVE  SumFunctionOnSet(f, S) \in Int
<1> DEFINE Bad == {s \in SUBSET S : SumFunctionOnSet(f, s) \notin Int}
<1> SUFFICES ASSUME Bad # {} PROVE FALSE
  OBVIOUS
<1>1. Bad \subseteq SUBSET S
  OBVIOUS
<1>2. PICK s \in Bad : \A u \in Bad : u \subseteq s => u = s
  <2> HIDE DEF Bad
  <2> QED
    BY <1>1, SmallestSet
<1>3. s # {}
  <2>1. SumFunctionOnSet(f, {}) \in Int
    BY SumOfNothing
  <2> QED
    BY <1>2, <2>1
<1>4. nextIndex(s) \in s /\ IsFiniteSet(s)
  BY <1>2, <1>3, FS_Subset DEF nextIndex
<1>5. SumFunctionOnSet(f, s \ {nextIndex(s)}) \in Int
  BY <1>2, <1>4
<1> QED
  BY <1>2, <1>3, <1>4, <1>5, SumTakesNext

\* Any index may be taken out of a sum.
THEOREM SumWithout ==
    ASSUME NEW f, NEW S, IsFiniteSet(S), \A x \in S : f[x] \in Int, NEW x \in S
    PROVE  SumFunctionOnSet(f, S) = SumFunctionOnSet(f, S \ {x}) + f[x]
<1> DEFINE Sum(s) == SumFunctionOnSet(f, s)
           Bad == {s \in SUBSET S : \E y \in s : Sum(s) # Sum(s \ {y}) + f[y]}
<1> SUFFICES ASSUME Bad # {} PROVE FALSE
  OBVIOUS
<1>1. Bad \subseteq SUBSET S
  OBVIOUS
<1>2. PICK s \in Bad : \A u \in Bad : u \subseteq s => u = s
  <2> HIDE DEF Bad
  <2> QED
    BY <1>1, SmallestSet
<1>3. PICK y \in s : Sum(s) # Sum(s \ {y}) + f[y]
  BY <1>2
<1> DEFINE z == nextIndex(s)
<1>4. z \in s
  BY DEF nextIndex
<1>5. IsFiniteSet(s) /\ IsFiniteSet(s \ {y}) /\ IsFiniteSet(s \ {z}) /\ IsFiniteSet((s \ {y}) \ {z})
  BY <1>2, FS_Subset
<1>6. Sum(s) = f[z] + Sum(s \ {z})
  BY <1>4, <1>5, SumTakesNext
<1> HIDE DEF z
<1>7. f[y] \in Int /\ f[z] \in Int
  BY <1>2, <1>3, <1>4
<1>8. /\ Sum(s \ {y}) \in Int /\ Sum(s \ {z}) \in Int
      /\ Sum((s \ {y}) \ {z}) \in Int
  BY <1>2, <1>5, SumIsInt
<1>9. CASE y = z
  BY <1>3, <1>6, <1>7, <1>8, <1>9
<1>10. CASE y # z
  <2>1. s \ {y} \notin Bad /\ s \ {z} \notin Bad
    BY <1>2, <1>3, <1>4
  <2>2. y \in s \ {z} /\ z \in s \ {y} /\ s \ {y} \in SUBSET S /\ s \ {z} \in SUBSET S
    BY <1>2, <1>4, <1>10
  <2>3. Sum(s \ {y}) = Sum((s \ {y}) \ {z}) + f[z]
    BY <2>1, <2>2
  <2>4. Sum(s \ {z}) = Sum((s \ {z}) \ {y}) + f[y]
    BY <2>1, <2>2
  <2>5. Sum((s \ {z}) \ {y}) = Sum((s \ {y}) \ {z})
    <3>1. (s \ {z}) \ {y} = (s \ {y}) \ {z}
      OBVIOUS
    <3> QED
      BY <3>1
  <2> HIDE DEF Sum, Bad
  <2> QED
    BY <1>3, <1>6, <1>7, <1>8, <2>3, <2>4, <2>5
<1> QED
  BY <1>9, <1>10

-----------------------------------------------------------------------------
(* What the proofs about the books use. *)

\* An index is added to a sum.
THEOREM SumWith ==
    ASSUME NEW f, NEW S, IsFiniteSet(S), NEW x, x \notin S, \A y \in S \cup {x} : f[y] \in Int
    PROVE  SumFunctionOnSet(f, S \cup {x}) = SumFunctionOnSet(f, S) + f[x]
<1>1. IsFiniteSet(S \cup {x}) /\ x \in S \cup {x}
  BY FS_AddElement
<1>2. (S \cup {x}) \ {x} = S
  OBVIOUS
<1>3. SumFunctionOnSet(f, S \cup {x}) = SumFunctionOnSet(f, (S \cup {x}) \ {x}) + f[x]
  BY <1>1, SumWithout
<1> QED
  BY <1>2, <1>3

\* A sum depends on the values at its indices only.
THEOREM SumOfEqual ==
    ASSUME NEW f, NEW g, NEW S, IsFiniteSet(S), \A x \in S : f[x] = g[x]
    PROVE  SumFunctionOnSet(f, S) = SumFunctionOnSet(g, S)
<1> DEFINE Bad == {s \in SUBSET S : SumFunctionOnSet(f, s) # SumFunctionOnSet(g, s)}
<1> SUFFICES ASSUME Bad # {} PROVE FALSE
  OBVIOUS
<1>1. Bad \subseteq SUBSET S
  OBVIOUS
<1>2. PICK s \in Bad : \A u \in Bad : u \subseteq s => u = s
  <2> HIDE DEF Bad
  <2> QED
    BY <1>1, SmallestSet
<1>3. s # {}
  <2>1. SumFunctionOnSet(f, {}) = SumFunctionOnSet(g, {})
    BY SumOfNothing
  <2> QED
    BY <1>2, <2>1
<1>4. nextIndex(s) \in s /\ IsFiniteSet(s)
  BY <1>2, <1>3, FS_Subset DEF nextIndex
<1>5. SumFunctionOnSet(f, s \ {nextIndex(s)}) = SumFunctionOnSet(g, s \ {nextIndex(s)})
  BY <1>2, <1>4
<1>6. f[nextIndex(s)] = g[nextIndex(s)]
  BY <1>2, <1>4
<1>7. /\ SumFunctionOnSet(f, s) = f[nextIndex(s)] + SumFunctionOnSet(f, s \ {nextIndex(s)})
      /\ SumFunctionOnSet(g, s) = g[nextIndex(s)] + SumFunctionOnSet(g, s \ {nextIndex(s)})
  BY <1>3, <1>4, SumTakesNext
<1> QED
  BY <1>2, <1>5, <1>6, <1>7

\* One value of a sum changes.
THEOREM SumChanged ==
    ASSUME NEW f, NEW g, NEW S, IsFiniteSet(S), NEW x \in S,
           \A y \in S : f[y] \in Int /\ g[y] \in Int,
           \A y \in S \ {x} : g[y] = f[y]
    PROVE  SumFunctionOnSet(g, S) = SumFunctionOnSet(f, S) - f[x] + g[x]
<1>1. IsFiniteSet(S \ {x})
  BY FS_RemoveElement
<1>2. SumFunctionOnSet(f, S \ {x}) = SumFunctionOnSet(g, S \ {x})
  BY <1>1, SumOfEqual
<1>3. SumFunctionOnSet(f, S \ {x}) \in Int
  BY <1>1, SumIsInt
<1>4. SumFunctionOnSet(f, S) = SumFunctionOnSet(f, S \ {x}) + f[x]
  BY SumWithout
<1>5. SumFunctionOnSet(g, S) = SumFunctionOnSet(g, S \ {x}) + g[x]
  BY SumWithout
<1>6. f[x] \in Int /\ g[x] \in Int
  OBVIOUS
<1> QED
  BY <1>2, <1>3, <1>4, <1>5, <1>6

\* A sum of naturals is a natural.
THEOREM SumIsNat ==
    ASSUME NEW f, NEW S, IsFiniteSet(S), \A x \in S : f[x] \in Nat
    PROVE  SumFunctionOnSet(f, S) \in Nat
<1> DEFINE Bad == {s \in SUBSET S : SumFunctionOnSet(f, s) \notin Nat}
<1> SUFFICES ASSUME Bad # {} PROVE FALSE
  OBVIOUS
<1>1. Bad \subseteq SUBSET S
  OBVIOUS
<1>2. PICK s \in Bad : \A u \in Bad : u \subseteq s => u = s
  <2> HIDE DEF Bad
  <2> QED
    BY <1>1, SmallestSet
<1>3. s # {}
  <2>1. SumFunctionOnSet(f, {}) \in Nat
    BY SumOfNothing
  <2> QED
    BY <1>2, <2>1
<1>4. nextIndex(s) \in s /\ IsFiniteSet(s)
  BY <1>2, <1>3, FS_Subset DEF nextIndex
<1>5. SumFunctionOnSet(f, s \ {nextIndex(s)}) \in Nat
  BY <1>2, <1>4
<1> QED
  BY <1>2, <1>3, <1>4, <1>5, SumTakesNext

\* No value exceeds a sum of naturals it is part of.
THEOREM PartOfSum ==
    ASSUME NEW f, NEW S, IsFiniteSet(S), \A y \in S : f[y] \in Nat, NEW x \in S
    PROVE  f[x] <= SumFunctionOnSet(f, S)
<1>1. IsFiniteSet(S \ {x})
  BY FS_RemoveElement
<1>2. SumFunctionOnSet(f, S \ {x}) \in Nat
  BY <1>1, SumIsNat
<1>3. SumFunctionOnSet(f, S) = SumFunctionOnSet(f, S \ {x}) + f[x]
  BY SumWithout
<1>4. f[x] \in Nat
  OBVIOUS
<1> QED
  BY <1>2, <1>3, <1>4

\* A sum of zeros is zero.
THEOREM SumOfZeros ==
    ASSUME NEW f, NEW S, IsFiniteSet(S), \A x \in S : f[x] = 0
    PROVE  SumFunctionOnSet(f, S) = 0
<1> DEFINE Bad == {s \in SUBSET S : SumFunctionOnSet(f, s) # 0}
<1> SUFFICES ASSUME Bad # {} PROVE FALSE
  OBVIOUS
<1>1. Bad \subseteq SUBSET S
  OBVIOUS
<1>2. PICK s \in Bad : \A u \in Bad : u \subseteq s => u = s
  <2> HIDE DEF Bad
  <2> QED
    BY <1>1, SmallestSet
<1>3. s # {}
  <2>1. SumFunctionOnSet(f, {}) = 0
    BY SumOfNothing
  <2> QED
    BY <1>2, <2>1
<1>4. nextIndex(s) \in s /\ IsFiniteSet(s)
  BY <1>2, <1>3, FS_Subset DEF nextIndex
<1>5. SumFunctionOnSet(f, s \ {nextIndex(s)}) = 0
  BY <1>2, <1>4
<1> QED
  BY <1>2, <1>3, <1>4, <1>5, SumTakesNext

\* Indices that weigh nothing may be left out.
THEOREM SumOfPart ==
    ASSUME NEW f, NEW g, NEW S, NEW T, IsFiniteSet(T), S \subseteq T,
           \A x \in S : f[x] \in Int /\ g[x] = f[x],
           \A x \in T \ S : g[x] = 0
    PROVE  SumFunctionOnSet(g, T) = SumFunctionOnSet(f, S)
<1> DEFINE Bad == {s \in SUBSET T : SumFunctionOnSet(g, s) # SumFunctionOnSet(f, s \cap S)}
<1>1. Bad = {}
  <2> SUFFICES ASSUME Bad # {} PROVE FALSE
    OBVIOUS
  <2>1. Bad \subseteq SUBSET T
    OBVIOUS
  <2>2. PICK s \in Bad : \A u \in Bad : u \subseteq s => u = s
    <3> HIDE DEF Bad
    <3> QED
      BY <2>1, SmallestSet
  <2>3. s # {}
    <3>1. {} \cap S = {}
      OBVIOUS
    <3> QED
      BY <3>1, SumOfNothing
  <2>4. PICK x \in s : TRUE
    BY <2>3
  <2>5. s \ {x} \notin Bad
    BY <2>2
  <2>6. SumFunctionOnSet(g, s \ {x}) = SumFunctionOnSet(f, (s \ {x}) \cap S)
    BY <2>5
  <2>7. IsFiniteSet(s) /\ IsFiniteSet(s \cap S) /\ \A y \in s : g[y] \in Int
    BY FS_Subset
  <2>8. SumFunctionOnSet(g, s) = SumFunctionOnSet(g, s \ {x}) + g[x]
    BY <2>7, SumWithout
  <2>9. CASE x \in S
    <3>1. (s \ {x}) \cap S = (s \cap S) \ {x} /\ x \in s \cap S
      BY <2>9
    <3>2. SumFunctionOnSet(f, s \cap S) = SumFunctionOnSet(f, (s \cap S) \ {x}) + f[x]
      BY <2>7, <3>1, SumWithout
    <3> QED
      BY <2>6, <2>8, <2>9, <3>1, <3>2
  <2>10. CASE x \notin S
    <3>1. (s \ {x}) \cap S = s \cap S /\ g[x] = 0
      BY <2>10
    <3>2. SumFunctionOnSet(f, s \cap S) \in Int
      BY <2>7, SumIsInt
    <3> QED
      BY <2>6, <2>8, <3>1, <3>2
  <2> QED
    BY <2>9, <2>10
<1>2. T \cap S = S /\ T \notin Bad
  BY <1>1
<1> QED
  BY <1>2

\* A sum of ones counts.
THEOREM SumCounts ==
    ASSUME NEW f, NEW S, IsFiniteSet(S), \A x \in S : f[x] = 1
    PROVE  SumFunctionOnSet(f, S) = Cardinality(S)
<1> DEFINE Bad == {s \in SUBSET S : SumFunctionOnSet(f, s) # Cardinality(s)}
<1> SUFFICES ASSUME Bad # {} PROVE FALSE
  OBVIOUS
<1>1. Bad \subseteq SUBSET S
  OBVIOUS
<1>2. PICK s \in Bad : \A u \in Bad : u \subseteq s => u = s
  <2> HIDE DEF Bad
  <2> QED
    BY <1>1, SmallestSet
<1>3. s # {}
  BY <1>2, SumOfNothing, FS_EmptySet
<1>4. PICK x \in s : TRUE
  BY <1>3
<1>5. IsFiniteSet(s) /\ \A y \in s : f[y] \in Int
  BY <1>2, FS_Subset
<1>6. SumFunctionOnSet(f, s \ {x}) = Cardinality(s \ {x})
  BY <1>2, <1>4
<1>7. SumFunctionOnSet(f, s) = SumFunctionOnSet(f, s \ {x}) + 1
  BY <1>2, <1>5, SumWithout
<1>8. Cardinality(s) \in Nat /\ Cardinality(s \ {x}) = Cardinality(s) - 1
  BY <1>5, FS_RemoveElement, FS_CardinalityType
<1> QED
  BY <1>2, <1>6, <1>7, <1>8
=============================================================================
