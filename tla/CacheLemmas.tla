---------------------------- MODULE CacheLemmas ----------------------------
(***************************************************************************)
(* What the proofs of both caches need: facts about sums over finite sets, *)
(* by which the byte budgets are stated, and about the LRU lists, which    *)
(* hold every entry once.                                                  *)
(*                                                                         *)
(* The facts about SumFunctionOnSet are shown by a smallest                *)
(* counterexample: among the subsets of a finite set that violate a fact   *)
(* one is minimal, because strict inclusion is well-founded on them.       *)
(***************************************************************************)
EXTENDS SequencesExt, Integers, FiniteSetTheorems, SequenceTheorems,
        WellFoundedInduction, TLAPS

Pick(s) == CHOOSE x \in s : TRUE

(* g[s] is the sum of f over s, for the subsets s of S: the function by    *)
(* which the library defines the sum.                                      *)
IsSum(g, f, S) ==
    g = [s \in SUBSET S |-> IF s = {} THEN 0 ELSE f[Pick(s)] + g[s \ {Pick(s)}]]

HasSum(f, S) == \E g : IsSum(g, f, S)

-----------------------------------------------------------------------------
(* A collection of subsets of a finite set has a minimal member.           *)
LEMMA Minimal ==
    ASSUME NEW S, IsFiniteSet(S), NEW F \in SUBSET SUBSET S, F # {}
    PROVE  \E X \in F : \A Y \in F : Y \subseteq X => Y = X
<1>1. IsWellFoundedOn(StrictSubsetOrdering(S), FiniteSubsetsOf(S))
  BY FS_StrictSubsetOrderingWellFounded
<1>2. FiniteSubsetsOf(S) = SUBSET S
  BY FS_FiniteSubsetsOfFinite
<1>3. PICK X \in F : \A Y \in F : ~(<<Y, X>> \in StrictSubsetOrdering(S))
  BY <1>1, <1>2, WFMin
<1> QED
  BY <1>3 DEF StrictSubsetOrdering

(* The library's definition.                                               *)
LEMMA SumDef ==
    ASSUME NEW f, NEW S
    PROVE  SumFunctionOnSet(f, S) = (CHOOSE g : IsSum(g, f, S))[S]
BY DEF SumFunctionOnSet, FoldFunctionOnSet, MapThenFoldSet, IsSum, Pick

(* The sums over S determine those over its subsets.                       *)
LEMMA Restricted ==
    ASSUME NEW f, NEW S, NEW T \in SUBSET S, NEW g, IsSum(g, f, S)
    PROVE  IsSum([s \in SUBSET T |-> g[s]], f, T)
<1> DEFINE h == [s \in SUBSET T |-> g[s]]
<1>1. \A s \in SUBSET S : g[s] = IF s = {} THEN 0 ELSE f[Pick(s)] + g[s \ {Pick(s)}]
  BY DEF IsSum
<1>2. \A s \in SUBSET T : h[s] = IF s = {} THEN 0 ELSE f[Pick(s)] + h[s \ {Pick(s)}]
  BY <1>1
<1>3. h = [s \in SUBSET T |-> IF s = {} THEN 0 ELSE f[Pick(s)] + h[s \ {Pick(s)}]]
  BY <1>2
<1> QED
  BY <1>3 DEF IsSum

(* There is one such function at most.                                     *)
LEMMA Unique ==
    ASSUME NEW f, NEW S, IsFiniteSet(S), NEW g, NEW h, IsSum(g, f, S), IsSum(h, f, S)
    PROVE  g = h
<1> DEFINE F == {s \in SUBSET S : g[s] # h[s]}
<1>1. /\ \A s \in SUBSET S : g[s] = IF s = {} THEN 0 ELSE f[Pick(s)] + g[s \ {Pick(s)}]
      /\ \A s \in SUBSET S : h[s] = IF s = {} THEN 0 ELSE f[Pick(s)] + h[s \ {Pick(s)}]
  BY DEF IsSum
<1>2. F = {}
  <2> SUFFICES ASSUME F # {} PROVE FALSE
    OBVIOUS
  <2>1. PICK X \in F : \A Y \in F : Y \subseteq X => Y = X
    <3>1. F \in SUBSET SUBSET S
      OBVIOUS
    <3> HIDE DEF F
    <3> QED
      BY <3>1, Minimal
  <2>2. X # {}
    BY <1>1
  <2>3. Pick(X) \in X
    BY <2>2 DEF Pick
  <2>4. X \ {Pick(X)} \in SUBSET S /\ X \ {Pick(X)} \notin F
    BY <2>1, <2>3
  <2> QED
    BY <1>1, <2>2, <2>4
<1>3. g = [s \in SUBSET S |-> g[s]] /\ h = [s \in SUBSET S |-> h[s]]
  BY DEF IsSum
<1> QED
  BY <1>2, <1>3

(* Where there is one, the sum follows the definition's recursion.         *)
LEMMA Unfolded ==
    ASSUME NEW f, NEW S, IsFiniteSet(S), HasSum(f, S)
    PROVE  /\ \A T \in SUBSET S : HasSum(f, T)
           /\ SumFunctionOnSet(f, S) =
                IF S = {} THEN 0 ELSE f[Pick(S)] + SumFunctionOnSet(f, S \ {Pick(S)})
<1> DEFINE g == CHOOSE h : IsSum(h, f, S)
<1>1. IsSum(g, f, S)
  BY DEF HasSum
<1> HIDE DEF g
<1>2. \A s \in SUBSET S : g[s] = IF s = {} THEN 0 ELSE f[Pick(s)] + g[s \ {Pick(s)}]
  BY <1>1 DEF IsSum
<1>3. ASSUME NEW T \in SUBSET S PROVE HasSum(f, T) /\ SumFunctionOnSet(f, T) = g[T]
  <2> DEFINE h == CHOOSE k : IsSum(k, f, T)
  <2>1. IsSum([s \in SUBSET T |-> g[s]], f, T)
    BY <1>1, Restricted
  <2>2. HasSum(f, T) /\ IsSum(h, f, T)
    BY <2>1 DEF HasSum
  <2> HIDE DEF h
  <2>3. IsFiniteSet(T)
    BY FS_Subset
  <2>4. h = [s \in SUBSET T |-> g[s]]
    BY <2>1, <2>2, <2>3, Unique
  <2>5. h[T] = g[T]
    BY <2>4
  <2> QED
    BY <2>2, <2>5, SumDef DEF h
<1> QED
  BY <1>2, <1>3

(* Every function has a sum over every finite set.                         *)
LEMMA Exists ==
    ASSUME NEW f, NEW S, IsFiniteSet(S)
    PROVE  HasSum(f, S)
<1> DEFINE F == {T \in SUBSET S : ~HasSum(f, T)}
<1> SUFFICES ASSUME F # {} PROVE FALSE
  OBVIOUS
<1>1. PICK X \in F : \A Y \in F : Y \subseteq X => Y = X
  <2>1. F \in SUBSET SUBSET S
    OBVIOUS
  <2> HIDE DEF F
  <2> QED
    BY <2>1, Minimal
<1> DEFINE rest(s) == SumFunctionOnSet(f, s \ {Pick(s)})
           g == [s \in SUBSET X |-> IF s = {} THEN 0 ELSE f[Pick(s)] + rest(s)]
<1>2. ASSUME NEW T \in SUBSET X, T # X PROVE g[T] = SumFunctionOnSet(f, T)
  <2>1. IsFiniteSet(T) /\ HasSum(f, T)
    BY <1>1, <1>2, FS_Subset
  <2> QED
    BY <2>1, Unfolded
<1>3. \A s \in SUBSET X : s # {} => g[s \ {Pick(s)}] = rest(s)
  <2> SUFFICES ASSUME NEW s \in SUBSET X, s # {} PROVE g[s \ {Pick(s)}] = rest(s)
    OBVIOUS
  <2>1. Pick(s) \in s
    BY DEF Pick
  <2>2. s \ {Pick(s)} \in SUBSET X /\ s \ {Pick(s)} # X
    BY <2>1
  <2> HIDE DEF g
  <2> QED
    BY <1>2, <2>2
<1>4. g = [s \in SUBSET X |-> IF s = {} THEN 0 ELSE f[Pick(s)] + g[s \ {Pick(s)}]]
  BY <1>3
<1> QED
  BY <1>1, <1>4 DEF IsSum, HasSum

-----------------------------------------------------------------------------
(* The sum of nothing.                                                     *)
LEMMA SumEmpty == ASSUME NEW f PROVE SumFunctionOnSet(f, {}) = 0
BY Exists, Unfolded, FS_EmptySet

(* One element after the other, in the order the library picks them.       *)
LEMMA SumPick ==
    ASSUME NEW f, NEW S, IsFiniteSet(S), S # {}
    PROVE  /\ Pick(S) \in S
           /\ SumFunctionOnSet(f, S) = f[Pick(S)] + SumFunctionOnSet(f, S \ {Pick(S)})
<1>1. Pick(S) \in S
  BY DEF Pick
<1> QED
  BY <1>1, Exists, Unfolded

(* Sums of natural numbers are natural numbers.                            *)
LEMMA SumNat ==
    ASSUME NEW f, NEW S, IsFiniteSet(S), \A x \in S : f[x] \in Nat
    PROVE  SumFunctionOnSet(f, S) \in Nat
<1> DEFINE F == {T \in SUBSET S : SumFunctionOnSet(f, T) \notin Nat}
<1> SUFFICES ASSUME F # {} PROVE FALSE
  OBVIOUS
<1>1. PICK X \in F : \A Y \in F : Y \subseteq X => Y = X
  <2>1. F \in SUBSET SUBSET S
    OBVIOUS
  <2> HIDE DEF F
  <2> QED
    BY <2>1, Minimal
<1>2. X # {}
  <2>1. SumFunctionOnSet(f, {}) \in Nat
    BY SumEmpty
  <2> QED
    BY <1>1, <2>1
<1>3. IsFiniteSet(X)
  BY <1>1, FS_Subset
<1>4. /\ Pick(X) \in X
      /\ SumFunctionOnSet(f, X) = f[Pick(X)] + SumFunctionOnSet(f, X \ {Pick(X)})
  BY <1>2, <1>3, SumPick
<1>5. SumFunctionOnSet(f, X \ {Pick(X)}) \in Nat
  BY <1>1, <1>4
<1> QED
  BY <1>1, <1>4, <1>5

(* Any element may be taken out first.                                     *)
LEMMA SumTake ==
    ASSUME NEW f, NEW S, IsFiniteSet(S), \A x \in S : f[x] \in Nat, NEW x \in S
    PROVE  SumFunctionOnSet(f, S) = f[x] + SumFunctionOnSet(f, S \ {x})
<1> DEFINE F == {T \in SUBSET S :
                   \E y \in T : SumFunctionOnSet(f, T) # f[y] + SumFunctionOnSet(f, T \ {y})}
<1> SUFFICES ASSUME F # {} PROVE FALSE
  OBVIOUS
<1>1. PICK X \in F : \A Y \in F : Y \subseteq X => Y = X
  <2>1. F \in SUBSET SUBSET S
    OBVIOUS
  <2> HIDE DEF F
  <2> QED
    BY <2>1, Minimal
<1>2. PICK y \in X : SumFunctionOnSet(f, X) # f[y] + SumFunctionOnSet(f, X \ {y})
  BY <1>1
<1> DEFINE p == Pick(X)
           rest == X \ {p}
           both == rest \ {y}
<1>3. IsFiniteSet(X) /\ X # {}
  BY <1>1, <1>2, FS_Subset
<1>4. p \in X /\ SumFunctionOnSet(f, X) = f[p] + SumFunctionOnSet(f, rest)
  BY <1>3, SumPick
<1> HIDE DEF p
<1>5. p # y
  BY <1>2, <1>4
<1>6. SumFunctionOnSet(f, rest) = f[y] + SumFunctionOnSet(f, both)
  BY <1>1, <1>4, <1>5
<1>7. SumFunctionOnSet(f, X \ {y}) = f[p] + SumFunctionOnSet(f, both)
  <2>1. (X \ {y}) \ {p} = both
    OBVIOUS
  <2>2. X \ {y} \notin F /\ X \ {y} \in SUBSET S /\ p \in X \ {y}
    BY <1>1, <1>4, <1>5
  <2> QED
    BY <2>1, <2>2
<1>8. f[p] \in Nat /\ f[y] \in Nat /\ SumFunctionOnSet(f, both) \in Nat
  <2>1. IsFiniteSet(both) /\ \A z \in both : f[z] \in Nat
    BY <1>1, <1>3, FS_Subset
  <2> QED
    BY <1>1, <1>4, <2>1, SumNat
<1> HIDE DEF rest, both
<1> QED
  BY <1>2, <1>4, <1>6, <1>7, <1>8

(* One element more.                                                       *)
LEMMA SumAdd ==
    ASSUME NEW f, NEW S, IsFiniteSet(S), NEW x, x \notin S, \A y \in S \cup {x} : f[y] \in Nat
    PROVE  SumFunctionOnSet(f, S \cup {x}) = f[x] + SumFunctionOnSet(f, S)
<1>1. IsFiniteSet(S \cup {x}) /\ (S \cup {x}) \ {x} = S
  BY FS_AddElement
<1> QED
  BY <1>1, SumTake

(* The sum depends on the values on the set only.                          *)
LEMMA SumSame ==
    ASSUME NEW f, NEW g, NEW S, IsFiniteSet(S), \A x \in S : f[x] = g[x]
    PROVE  SumFunctionOnSet(f, S) = SumFunctionOnSet(g, S)
<1> DEFINE F == {T \in SUBSET S : SumFunctionOnSet(f, T) # SumFunctionOnSet(g, T)}
<1> SUFFICES ASSUME F # {} PROVE FALSE
  OBVIOUS
<1>1. PICK X \in F : \A Y \in F : Y \subseteq X => Y = X
  <2>1. F \in SUBSET SUBSET S
    OBVIOUS
  <2> HIDE DEF F
  <2> QED
    BY <2>1, Minimal
<1>2. IsFiniteSet(X) /\ X # {}
  BY <1>1, FS_Subset, SumEmpty
<1>3. /\ Pick(X) \in X
      /\ SumFunctionOnSet(f, X) = f[Pick(X)] + SumFunctionOnSet(f, X \ {Pick(X)})
      /\ SumFunctionOnSet(g, X) = g[Pick(X)] + SumFunctionOnSet(g, X \ {Pick(X)})
  BY <1>2, SumPick
<1>4. SumFunctionOnSet(f, X \ {Pick(X)}) = SumFunctionOnSet(g, X \ {Pick(X)})
  BY <1>1, <1>3
<1> QED
  BY <1>1, <1>3, <1>4

(* Values of at most b each.                                               *)
LEMMA SumBound ==
    ASSUME NEW f, NEW S, IsFiniteSet(S), NEW b \in Nat,
           \A x \in S : f[x] \in Nat /\ f[x] <= b
    PROVE  SumFunctionOnSet(f, S) <= Cardinality(S) * b
<1> DEFINE F == {T \in SUBSET S : ~(SumFunctionOnSet(f, T) <= Cardinality(T) * b)}
<1> SUFFICES ASSUME F # {} PROVE FALSE
  OBVIOUS
<1>1. PICK X \in F : \A Y \in F : Y \subseteq X => Y = X
  <2>1. F \in SUBSET SUBSET S
    OBVIOUS
  <2> HIDE DEF F
  <2> QED
    BY <2>1, Minimal
<1>2. X # {}
  <2>1. SumFunctionOnSet(f, {}) = 0 /\ Cardinality({}) = 0
    BY SumEmpty, FS_EmptySet
  <2>2. 0 <= 0 * b
    OBVIOUS
  <2> QED
    BY <1>1, <2>1, <2>2
<1>3. IsFiniteSet(X)
  BY <1>1, FS_Subset
<1> DEFINE p == Pick(X)
           Y == X \ {p}
           n == Cardinality(Y)
           t == SumFunctionOnSet(f, Y)
<1>4. p \in X /\ SumFunctionOnSet(f, X) = f[p] + t
  BY <1>2, <1>3, SumPick
<1>5. IsFiniteSet(Y) /\ Cardinality(X) = n + 1 /\ n \in Nat
  <2>1. IsFiniteSet(Y) /\ n = Cardinality(X) - 1
    BY <1>3, <1>4, FS_RemoveElement
  <2>2. Cardinality(X) \in Nat /\ n \in Nat
    BY <1>3, <2>1, FS_CardinalityType
  <2> QED
    BY <2>1, <2>2
<1>6. t \in Nat /\ t <= n * b
  BY <1>1, <1>4, <1>5, SumNat
<1>7. f[p] \in Nat /\ f[p] <= b
  BY <1>1, <1>4
<1> HIDE DEF p, Y, n, t
<1>8. (n + 1) * b = n * b + b /\ n * b \in Nat
  BY <1>5
<1>9. f[p] + t <= n * b + b
  BY <1>6, <1>7, <1>8
<1> QED
  BY <1>1, <1>4, <1>5, <1>8, <1>9

(* The sum over two disjoint sets.                                         *)
LEMMA SumUnion ==
    ASSUME NEW f, NEW S, NEW T, IsFiniteSet(S), IsFiniteSet(T), S \cap T = {},
           \A x \in S \cup T : f[x] \in Nat
    PROVE  SumFunctionOnSet(f, S \cup T) = SumFunctionOnSet(f, S) + SumFunctionOnSet(f, T)
<1> DEFINE F == {U \in SUBSET S : SumFunctionOnSet(f, U \cup T)
                                    # SumFunctionOnSet(f, U) + SumFunctionOnSet(f, T)}
<1> SUFFICES ASSUME F # {} PROVE FALSE
  OBVIOUS
<1>1. PICK X \in F : \A Y \in F : Y \subseteq X => Y = X
  <2>1. F \in SUBSET SUBSET S
    OBVIOUS
  <2> HIDE DEF F
  <2> QED
    BY <2>1, Minimal
<1>2. SumFunctionOnSet(f, T) \in Nat
  BY SumNat
<1>3. X # {}
  <2>1. {} \cup T = T
    OBVIOUS
  <2>2. SumFunctionOnSet(f, {}) = 0
    BY SumEmpty
  <2>3. SumFunctionOnSet(f, {} \cup T) = SumFunctionOnSet(f, {}) + SumFunctionOnSet(f, T)
    BY <1>2, <2>1, <2>2
  <2> QED
    BY <1>1, <2>3
<1>4. PICK x : x \in X
  BY <1>3
<1> DEFINE Y == X \ {x}
<1>5. IsFiniteSet(X) /\ IsFiniteSet(X \cup T) /\ IsFiniteSet(Y)
  BY <1>1, FS_Subset, FS_Union
<1>6. SumFunctionOnSet(f, X) = f[x] + SumFunctionOnSet(f, Y)
  BY <1>1, <1>4, <1>5, SumTake
<1>7. SumFunctionOnSet(f, X \cup T) = f[x] + SumFunctionOnSet(f, Y \cup T)
  <2>1. (X \cup T) \ {x} = Y \cup T
    BY <1>1, <1>4
  <2>2. \A y \in X \cup T : f[y] \in Nat
    BY <1>1
  <2> QED
    BY <1>4, <1>5, <2>1, <2>2, SumTake
<1>8. SumFunctionOnSet(f, Y \cup T) = SumFunctionOnSet(f, Y) + SumFunctionOnSet(f, T)
  BY <1>1, <1>4
<1>9. SumFunctionOnSet(f, Y) \in Nat /\ f[x] \in Nat
  BY <1>1, <1>4, <1>5, SumNat
<1> HIDE DEF Y
<1> QED
  BY <1>1, <1>2, <1>6, <1>7, <1>8, <1>9

-----------------------------------------------------------------------------
(* A list without duplicates has as many entries as elements.              *)
LEMMA ListCount ==
    ASSUME NEW S, NEW s \in Seq(S), IsInjective(s)
    PROVE  IsFiniteSet(Range(s)) /\ Cardinality(Range(s)) = Len(s)
<1>1. Len(s) \in Nat /\ DOMAIN s = 1..Len(s) /\ s = [i \in 1..Len(s) |-> s[i]]
  BY LenProperties
<1>2. s \in Bijection(1..Len(s), Range(s))
  BY <1>1 DEF Bijection, Injection, Surjection, IsInjective, Range
<1>3. IsFiniteSet(1..Len(s)) /\ Cardinality(1..Len(s)) = Len(s)
  <2>1. PICK n \in Nat : n = Len(s)
    BY <1>1
  <2>2. 1 \in Int /\ n \in Int
    BY <2>1
  <2>3. IsFiniteSet(1..n) /\ Cardinality(1..n) = IF 1 > n THEN 0 ELSE n - 1 + 1
    BY <2>2, FS_Interval
  <2>4. (IF 1 > n THEN 0 ELSE n - 1 + 1) = n
    BY <2>1
  <2> QED
    BY <2>1, <2>3, <2>4
<1> QED
  BY <1>2, <1>3, FS_Bijection DEF ExistsBijection

(* Taking the element at i out of a list.                                  *)
LEMMA RemoveAtFacts ==
    ASSUME NEW S, NEW s \in Seq(S), NEW i \in DOMAIN s
    PROVE  /\ RemoveAt(s, i) \in Seq(S)
           /\ Len(RemoveAt(s, i)) = Len(s) - 1
           /\ \A j \in 1..Len(s) - 1 : RemoveAt(s, i)[j] = IF j < i THEN s[j] ELSE s[j + 1]
<1>1. Len(s) \in Nat /\ i \in 1..Len(s) /\ \A j \in 1..Len(s) : s[j] \in S
  BY LenProperties
<1>2. /\ SubSeq(s, 1, i - 1) \in Seq(S) /\ Len(SubSeq(s, 1, i - 1)) = i - 1
      /\ \A j \in 1..i - 1 : SubSeq(s, 1, i - 1)[j] = s[j]
  <2>1. \A j \in 1..(i - 1) : s[j] \in S
    BY <1>1
  <2> QED
    BY <1>1, <2>1, SubSeqProperties, Z3
<1>3. /\ SubSeq(s, i + 1, Len(s)) \in Seq(S)
      /\ Len(SubSeq(s, i + 1, Len(s))) = Len(s) - i
      /\ \A j \in 1..Len(s) - i : SubSeq(s, i + 1, Len(s))[j] = s[i + j]
  <2>1. \A j \in (i + 1)..Len(s) : s[j] \in S
    BY <1>1
  <2> QED
    BY <1>1, <2>1, SubSeqProperties, Z3
<1> DEFINE front == SubSeq(s, 1, i - 1)
           back == SubSeq(s, i + 1, Len(s))
<1>4. RemoveAt(s, i) = front \o back
  BY DEF RemoveAt
<1>5. /\ front \in Seq(S) /\ back \in Seq(S) /\ Len(front) = i - 1 /\ Len(back) = Len(s) - i
      /\ \A j \in 1..i - 1 : front[j] = s[j]
      /\ \A j \in 1..Len(s) - i : back[j] = s[i + j]
  BY <1>2, <1>3
<1> HIDE DEF front, back
<1>6. /\ front \o back \in Seq(S) /\ Len(front \o back) = Len(front) + Len(back)
      /\ \A j \in 1..Len(front) + Len(back) :
           (front \o back)[j] = IF j <= Len(front) THEN front[j] ELSE back[j - Len(front)]
  BY <1>5, ConcatProperties
<1>7. ASSUME NEW j \in 1..Len(s) - 1
      PROVE  (front \o back)[j] = IF j < i THEN s[j] ELSE s[j + 1]
  <2>1. j \in 1..Len(front) + Len(back) /\ Len(front) = i - 1
    BY <1>1, <1>5
  <2>2. CASE j < i
    <3>1. j \in 1..i - 1 /\ j <= i - 1
      BY <1>1, <2>2
    <3>2. (front \o back)[j] = front[j]
      BY <1>6, <2>1, <3>1
    <3> QED
      BY <1>5, <2>2, <3>1, <3>2
  <2>3. CASE ~(j < i)
    <3>1. j - (i - 1) \in 1..Len(s) - i /\ i + (j - (i - 1)) = j + 1 /\ ~(j <= i - 1)
      BY <1>1, <2>3
    <3>2. (front \o back)[j] = back[j - (i - 1)]
      BY <1>6, <2>1, <3>1
    <3>3. back[j - (i - 1)] = s[i + (j - (i - 1))]
      BY <1>5, <3>1
    <3> QED
      BY <2>3, <3>1, <3>2, <3>3
  <2> QED
    BY <2>2, <2>3
<1>8. RemoveAt(s, i) \in Seq(S)
  BY <1>4, <1>6
<1>9. Len(RemoveAt(s, i)) = Len(s) - 1
  BY <1>1, <1>4, <1>5, <1>6
<1> QED
  BY <1>4, <1>7, <1>8, <1>9

(* What is left of a list without duplicates.                              *)
LEMMA RemoveAtRange ==
    ASSUME NEW S, NEW s \in Seq(S), NEW i \in DOMAIN s, IsInjective(s)
    PROVE  /\ Range(RemoveAt(s, i)) = Range(s) \ {s[i]}
           /\ IsInjective(RemoveAt(s, i))
<1> DEFINE t == RemoveAt(s, i)
<1>1. Len(s) \in Nat /\ i \in 1..Len(s) /\ DOMAIN s = 1..Len(s)
  BY LenProperties
<1>2. /\ t \in Seq(S) /\ Len(t) = Len(s) - 1
      /\ \A j \in 1..Len(s) - 1 : t[j] = IF j < i THEN s[j] ELSE s[j + 1]
  BY RemoveAtFacts
<1> HIDE DEF t
<1>3. DOMAIN t = 1..Len(s) - 1
  BY <1>2, LenProperties
<1>4. \A j \in DOMAIN t : \E m \in DOMAIN s : m # i /\ t[j] = s[m] /\ (m = IF j < i THEN j ELSE j + 1)
  <2> SUFFICES ASSUME NEW j \in 1..Len(s) - 1
               PROVE  \E m \in 1..Len(s) : m # i /\ t[j] = s[m] /\ (m = IF j < i THEN j ELSE j + 1)
    BY <1>1, <1>3
  <2>1. CASE j < i
    BY <1>1, <1>2, <2>1
  <2>2. CASE ~(j < i)
    <3>1. j + 1 \in 1..Len(s) /\ j + 1 # i /\ t[j] = s[j + 1]
      BY <1>1, <1>2, <2>2
    <3> QED
      BY <2>2, <3>1
  <2> QED
    BY <2>1, <2>2
<1>5. \A m \in DOMAIN s : m # i => \E j \in DOMAIN t : t[j] = s[m]
  <2> SUFFICES ASSUME NEW m \in 1..Len(s), m # i PROVE \E j \in 1..Len(s) - 1 : t[j] = s[m]
    BY <1>1, <1>3
  <2>1. CASE m < i
    BY <1>1, <1>2, <2>1
  <2>2. CASE ~(m < i)
    <3>1. m - 1 \in 1..Len(s) - 1 /\ ~(m - 1 < i) /\ (m - 1) + 1 = m
      BY <1>1, <2>2
    <3> QED
      BY <1>2, <3>1
  <2> QED
    BY <2>1, <2>2
<1>6. Range(t) = Range(s) \ {s[i]}
  <2>1. \A x \in Range(t) : x \in Range(s) /\ x # s[i]
    BY <1>1, <1>4 DEF Range, IsInjective
  <2>2. \A x \in Range(s) : x # s[i] => x \in Range(t)
    BY <1>5 DEF Range
  <2> QED
    BY <2>1, <2>2
<1>7. IsInjective(t)
  <2> SUFFICES ASSUME NEW a \in DOMAIN t, NEW b \in DOMAIN t, t[a] = t[b] PROVE a = b
    BY DEF IsInjective
  <2>1. a \in Int /\ b \in Int
    BY <1>1, <1>3
  <2>2. (IF a < i THEN a ELSE a + 1) = (IF b < i THEN b ELSE b + 1)
    BY <1>4 DEF IsInjective
  <2> QED
    BY <1>1, <2>1, <2>2
<1> QED
  BY <1>6, <1>7 DEF t

(* Putting an element in front.                                            *)
LEMMA PushFacts ==
    ASSUME NEW S, NEW s \in Seq(S), NEW x \in S
    PROVE  /\ <<x>> \o s \in Seq(S)
           /\ Len(<<x>> \o s) = Len(s) + 1
           /\ Range(<<x>> \o s) = Range(s) \cup {x}
           /\ IsInjective(s) /\ x \notin Range(s) => IsInjective(<<x>> \o s)
<1> DEFINE t == <<x>> \o s
<1>1. Len(s) \in Nat /\ DOMAIN s = 1..Len(s)
  BY LenProperties
<1>2. t \in Seq(S) /\ Len(t) = Len(s) + 1
  OBVIOUS
<1>3. t[1] = x /\ \A j \in 1..Len(s) : t[j + 1] = s[j]
  OBVIOUS
<1> HIDE DEF t
<1>4. DOMAIN t = 1..Len(s) + 1
  BY <1>2, LenProperties
<1>5. \A j \in 1..Len(s) + 1 : j = 1 \/ (j - 1 \in 1..Len(s) /\ (j - 1) + 1 = j)
  BY <1>1
<1>6. \A j \in 1..Len(s) + 1 : j # 1 => j - 1 \in 1..Len(s) /\ t[j] = s[j - 1]
  BY <1>3, <1>5
<1>7. Range(t) = Range(s) \cup {x}
  <2>1. \A y \in Range(t) : y = x \/ y \in Range(s)
    BY <1>1, <1>3, <1>4, <1>6 DEF Range
  <2>2. \A j \in 1..Len(s) : j + 1 \in 1..Len(s) + 1
    BY <1>1
  <2>3. 1 \in 1..Len(s) + 1
    BY <1>1
  <2>4. \A y \in Range(s) : y \in Range(t)
    BY <1>1, <1>3, <1>4, <2>2 DEF Range
  <2>5. x \in Range(t)
    BY <1>3, <1>4, <2>3 DEF Range
  <2> QED
    BY <2>1, <2>4, <2>5
<1>8. ASSUME IsInjective(s), x \notin Range(s) PROVE IsInjective(t)
  <2> SUFFICES ASSUME NEW a \in 1..Len(s) + 1, NEW b \in 1..Len(s) + 1, t[a] = t[b]
               PROVE  a = b
    BY <1>4 DEF IsInjective
  <2>1. \A j \in 1..Len(s) : s[j] # x
    BY <1>1, <1>8 DEF Range
  <2>2. CASE a = 1 \/ b = 1
    BY <1>3, <1>6, <2>1, <2>2
  <2>3. CASE a # 1 /\ b # 1
    <3>1. a - 1 = b - 1
      BY <1>1, <1>6, <1>8, <2>3 DEF IsInjective
    <3> QED
      BY <1>1, <3>1
  <2> QED
    BY <2>2, <2>3
<1> QED
  BY <1>2, <1>7, <1>8 DEF t

(* A list without duplicates cut after its n-th element.                   *)
LEMMA CutFacts ==
    ASSUME NEW S, NEW s \in Seq(S), NEW n \in 0..Len(s), IsInjective(s)
    PROVE  LET front == SubSeq(s, 1, n)
               back == SubSeq(s, n + 1, Len(s))
           IN  /\ front \in Seq(S) /\ Len(front) = n /\ IsInjective(front)
               /\ Range(s) = Range(front) \cup Range(back)
               /\ Range(front) \cap Range(back) = {}
<1> DEFINE front == SubSeq(s, 1, n)
           back == SubSeq(s, n + 1, Len(s))
<1>1. Len(s) \in Nat /\ DOMAIN s = 1..Len(s) /\ \A j \in 1..Len(s) : s[j] \in S
  BY LenProperties
<1>n. n \in Int /\ 0 <= n /\ n <= Len(s)
  BY <1>1
<1>2. /\ front \in Seq(S) /\ Len(front) = n
      /\ \A j \in 1..n : front[j] = s[j]
  <2>0. \A a \in Int, b \in Nat : a <= b => 1..a \subseteq 1..b
    OBVIOUS
  <2>1. \A j \in 1..n : s[j] \in S
    BY <1>1, <1>n, <2>0, Zenon
  <2> QED
    BY <1>1, <2>1, SubSeqProperties, Z3
<1>3. /\ back \in Seq(S) /\ Len(back) = Len(s) - n
      /\ \A j \in 1..Len(s) - n : back[j] = s[n + j]
  <2>1. \A j \in (n + 1)..Len(s) : s[j] \in S
    BY <1>1
  <2>2. n + 1 \in Int /\ Len(s) \in Int /\ Len(s) - (n + 1) + 1 = Len(s) - n
    BY <1>1
  <2> HIDE DEF back
  <2>3. /\ back \in Seq(S)
        /\ Len(back) = IF n + 1 <= Len(s) THEN Len(s) - (n + 1) + 1 ELSE 0
        /\ \A j \in 1..Len(s) - (n + 1) + 1 : back[j] = s[n + 1 + j - 1]
    BY <2>1, <2>2, SubSeqProperties DEF back
  <2>4. Len(back) = Len(s) - n
    <3>1. PICK l \in Int : l = Len(s)
      BY <2>2
    <3>2. CASE n + 1 <= Len(s)
      BY <2>2, <2>3, <3>2
    <3>3. CASE ~(n + 1 <= Len(s))
      <4>1. ~(n + 1 <= l)
        BY <3>1, <3>3
      <4>2. l - n = 0
        BY <1>n, <3>1, <4>1
      <4> QED
        BY <2>3, <3>1, <3>3, <4>2
    <3> QED
      BY <3>2, <3>3, Zenon
  <2>5. \A j \in 1..Len(s) - n : n + 1 + j - 1 = n + j
    BY <1>1
  <2> QED
    BY <2>2, <2>3, <2>4, <2>5
<1> HIDE DEF front, back
<1>4. DOMAIN front = 1..n /\ DOMAIN back = 1..Len(s) - n
  BY <1>2, <1>3, LenProperties
<1>5. IsInjective(front)
  BY <1>1, <1>2, <1>4 DEF IsInjective
<1>6. /\ \A j \in 1..n : j \in 1..Len(s)
      /\ \A j \in 1..Len(s) - n : n + j \in 1..Len(s)
      /\ \A j \in 1..n, m \in 1..Len(s) - n : j # n + m
  BY <1>1
<1>7. \A j \in 1..Len(s) : j \in 1..n \/ (j - n \in 1..Len(s) - n /\ n + (j - n) = j)
  BY <1>1
<1>8. Range(front) \cap Range(back) = {}
  <2> SUFFICES ASSUME NEW j \in 1..n, NEW m \in 1..Len(s) - n, front[j] = back[m] PROVE FALSE
    BY <1>4 DEF Range
  <2>1. s[j] = s[n + m] /\ j \in DOMAIN s /\ n + m \in DOMAIN s
    BY <1>1, <1>2, <1>3, <1>6
  <2> QED
    BY <1>6, <2>1 DEF IsInjective
<1>9. Range(s) = Range(front) \cup Range(back)
  <2>1. ASSUME NEW j \in 1..Len(s) PROVE s[j] \in Range(front) \cup Range(back)
    <3>1. CASE j \in 1..n
      BY <1>2, <1>4, <3>1 DEF Range
    <3>2. CASE j \notin 1..n
      <4>1. j - n \in 1..Len(s) - n /\ s[j] = s[n + (j - n)]
        BY <1>7, <3>2
      <4>2. back[j - n] = s[n + (j - n)]
        BY <1>3, <4>1
      <4> QED
        BY <1>4, <4>1, <4>2 DEF Range
    <3> QED
      BY <3>1, <3>2
  <2>2. \A x \in Range(front) : x \in Range(s)
    BY <1>1, <1>2, <1>4, <1>6 DEF Range
  <2>3. \A x \in Range(back) : x \in Range(s)
    BY <1>1, <1>3, <1>4, <1>6 DEF Range
  <2>4. \A x \in Range(s) : x \in Range(front) \cup Range(back)
    BY <1>1, <2>1 DEF Range
  <2> QED
    BY <2>2, <2>3, <2>4
<1> QED
  BY <1>2, <1>5, <1>8, <1>9 DEF front, back

(* A set of positions of a list that is not empty has a last one.          *)
LEMMA Largest ==
    ASSUME NEW l \in Nat, NEW F \in SUBSET (0..l), F # {}
    PROVE  \E n \in F : \A m \in F : m <= n
<1> DEFINE D == {d \in Nat : \E n \in F : d = l - n}
<1>1. D \subseteq Nat /\ D # {}
  <2>1. PICK n : n \in F
    OBVIOUS
  <2>2. l - n \in Nat
    BY <2>1
  <2> QED
    BY <2>1, <2>2
<1>2. PICK d \in D : \A e \in D : ~(<<e, d>> \in OpToRel(<, Nat))
  <2> HIDE DEF D
  <2> QED
    BY <1>1, NatLessThanWellFounded, WFMin
<1>3. \A e \in D : d <= e
  <2> SUFFICES ASSUME NEW e \in D PROVE ~(e < d)
    OBVIOUS
  <2>1. ~(<<e, d>> \in OpToRel(<, Nat)) /\ <<e, d>> \in Nat \X Nat
    BY <1>2
  <2> QED
    BY <2>1 DEF OpToRel
<1>4. PICK n \in F : d = l - n
  OBVIOUS
<1>5. ASSUME NEW m \in F PROVE m <= n
  <2>1. m \in Int /\ n \in Int /\ l - m \in Nat
    OBVIOUS
  <2>2. l - m \in D
    BY <2>1
  <2> QED
    BY <1>3, <1>4, <2>1, <2>2
<1> QED
  BY <1>5
=============================================================================
