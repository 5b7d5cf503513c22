--------------------- MODULE IntegerKeyComparisonLemmas ---------------------
(***************************************************************************)
(* What the operators of IntegerKeyComparison compute, for any two         *)
(* relations, any fingerprints and any budgets: the lemmas of              *)
(* IntegerKeyComparisonProofs.                                             *)
(*                                                                         *)
(* Sums over finite sets and the ascending order of keys and ranges come   *)
(* first, then ranges and their fingerprints: the root holds every key,    *)
(* halves share no key and lose none, and the merge of two ascending       *)
(* reads finds exactly the keys that differ.                               *)
(*                                                                         *)
(* Then progress. ProgressIsTrue is what the comparison knows of the       *)
(* progress it yields: its ranges tile the keys and are numbered in the    *)
(* order of their creation (TreeIsSound, HoldsEveryKey), every record      *)
(* carries its range's fingerprints and a state that agrees with them      *)
(* (RecordsAreTrue), a difference that fingerprints showed is counted or   *)
(* in a pending range (DifferenceIsKept), the counts and the evidence are  *)
(* those of the keys in the ranges settled (CountsAreTrue,                 *)
(* EvidenceIsTrue), and ranges are settled row by row in key order         *)
(* (ExactComesFirst). The last lemmas: the first progress is true, and     *)
(* pruning, splitting, settling and fingerprinting keep a progress true.   *)
(***************************************************************************)
EXTENDS IntegerKeyComparison, TLAPS, FiniteSetTheorems, WellFoundedInduction, FunctionTheorems

-----------------------------------------------------------------------------
(* Induction over finite sets and naturals, for a set of them instead of a *)
(* predicate.                                                              *)

(* A set of naturals that is not empty has a smallest element.             *)
LEMMA SmallestNumber ==
    ASSUME NEW S \in SUBSET Nat, S # {}
    PROVE  \E low \in S : \A n \in S : low <= n
<1> DEFINE Less == {pair \in Nat \X Nat : pair[1] < pair[2]}
<1>1. IsWellFoundedOn(Less, Nat)
  BY NatLessThanWellFounded, Zenon DEF OpToRel
<1> HIDE DEF Less
<1>2. PICK low \in S : \A n \in S : <<n, low>> \notin Less
  BY <1>1, WFMin
<1>3. ASSUME NEW n \in S
      PROVE  low <= n
  <2>1. n \in Nat /\ low \in Nat /\ <<n, low>> \in Nat \X Nat
    OBVIOUS
  <2>2. ~(<<n, low>>[1] < <<n, low>>[2])
    BY <1>2, <2>1 DEF Less
  <2> QED
    BY <2>1, <2>2
<1> QED
  BY <1>3

(* A set with 0 and the successor of each of its naturals has them all.    *)
LEMMA NaturalsAreIn ==
    ASSUME NEW G, 0 \in G, \A n \in Nat : n \in G => n + 1 \in G
    PROVE  \A n \in Nat : n \in G
<1>1. SUFFICES ASSUME Nat \ G # {} PROVE FALSE
  OBVIOUS
<1>2. PICK low \in Nat \ G : \A n \in Nat \ G : low <= n
  BY <1>1, SmallestNumber
<1>3. low - 1 \in Nat /\ low - 1 \in G
  BY <1>2
<1>4. (low - 1) + 1 \in G
  BY <1>3
<1> QED
  BY <1>2, <1>4

(* Of the finite sets outside G one is minimal: what it has fewer of is in G. *)
LEMMA SmallestSet ==
    ASSUME NEW G, NEW S, IsFiniteSet(S), S \notin G
    PROVE  \E T \in SUBSET S :
              /\ IsFiniteSet(T) /\ T \notin G
              /\ \A U \in SUBSET T : U # T => U \in G /\ IsFiniteSet(U)
<1> DEFINE Bad == {T \in FiniteSubsetsOf(S) : T \notin G}
<1>1. Bad # {} /\ Bad \subseteq FiniteSubsetsOf(S)
  BY DEF FiniteSubsetsOf
<1>2. PICK T \in Bad : \A U \in Bad : <<U, T>> \notin StrictSubsetOrdering(S)
  BY <1>1, WFMin, FS_StrictSubsetOrderingWellFounded
<1>3. T \in SUBSET S /\ IsFiniteSet(T) /\ T \notin G
  BY DEF FiniteSubsetsOf
<1>4. ASSUME NEW U \in SUBSET T, U # T
      PROVE  U \in G /\ IsFiniteSet(U)
  <2>1. IsFiniteSet(U)
    BY <1>3, FS_Subset
  <2>2. <<U, T>> \in StrictSubsetOrdering(S)
    BY <1>3, <1>4 DEF StrictSubsetOrdering
  <2>3. U \notin Bad
    BY <1>2, <2>2
  <2>4. U \in FiniteSubsetsOf(S)
    BY <1>3, <2>1 DEF FiniteSubsetsOf
  <2> QED
    BY <2>1, <2>3, <2>4
<1> QED
  BY <1>3, <1>4

(* A set with {} and, with a finite set, the set with one element more,    *)
(* has every finite set.                                                   *)
LEMMA FiniteSetsAreIn ==
    ASSUME NEW G, NEW S, IsFiniteSet(S), {} \in G,
           \A T \in SUBSET S : \A x \in S \ T : IsFiniteSet(T) /\ T \in G => T \cup {x} \in G
    PROVE  S \in G
<1>1. SUFFICES ASSUME S \notin G PROVE FALSE
  OBVIOUS
<1>2. PICK T \in SUBSET S :
         T \notin G /\ \A U \in SUBSET T : U # T => U \in G /\ IsFiniteSet(U)
  BY <1>1, SmallestSet
<1>3. PICK x \in T : TRUE
  BY <1>2
<1>4. T \ {x} \in G /\ IsFiniteSet(T \ {x})
  BY <1>2
<1>5. T \ {x} \in SUBSET S /\ x \in S \ (T \ {x}) /\ (T \ {x}) \cup {x} = T
  OBVIOUS
<1> QED
  BY <1>2, <1>4, <1>5

(* A finite set of integers that is not empty has a largest and a smallest *)
(* element.                                                                *)
LEMMA Extremes ==
    ASSUME NEW S, IsFiniteSet(S), S \subseteq Int, S # {}
    PROVE  /\ Max(S) \in S /\ \A y \in S : Max(S) >= y
           /\ Min(S) \in S /\ \A y \in S : Min(S) <= y
<1> DEFINE Bounded(T) == /\ \E x \in T : \A y \in T : x >= y
                         /\ \E x \in T : \A y \in T : x <= y
           G == {T \in SUBSET S : T # {} => Bounded(T)}
<1>1. {} \in G
  OBVIOUS
<1>2. ASSUME NEW T \in SUBSET S, NEW x \in S \ T, T \in G
      PROVE  T \cup {x} \in G
  <2>1. x \in Int /\ T \subseteq Int
    OBVIOUS
  <2>2. CASE T = {}
    <3>1. T \cup {x} = {x}
      BY <2>2
    <3> QED
      BY <2>1, <3>1
  <2>3. CASE T # {}
    <3>1. PICK a \in T, b \in T : \A y \in T : a >= y /\ b <= y
      BY <1>2, <2>3
    <3>2. \E c \in T \cup {x} : \A y \in T \cup {x} : c >= y
      <4>1. CASE x >= a
        BY <2>1, <3>1, <4>1
      <4>2. CASE ~ x >= a
        BY <2>1, <3>1, <4>2
      <4> QED
        BY <4>1, <4>2
    <3>3. \E c \in T \cup {x} : \A y \in T \cup {x} : c <= y
      <4>1. CASE x <= b
        BY <2>1, <3>1, <4>1
      <4>2. CASE ~ x <= b
        BY <2>1, <3>1, <4>2
      <4> QED
        BY <4>1, <4>2
    <3> QED
      BY <3>2, <3>3
  <2> QED
    BY <2>2, <2>3
<1>3. S \in G
  <2> HIDE DEF G
  <2> QED
    BY <1>1, <1>2, FiniteSetsAreIn
<1>4. Bounded(S)
  BY <1>3
<1> QED
  BY <1>4 DEF Max, Min

(* The larger of two numbers.                                              *)
LEMMA LargerOfTwo ==
    ASSUME NEW a \in Int, NEW b \in Int
    PROVE  /\ Max({a, b}) = IF a >= b THEN a ELSE b
           /\ Max({a, b}) \in Int /\ Max({a, b}) >= a /\ Max({a, b}) >= b
<1>1. \E x \in {a, b} : \A y \in {a, b} : x >= y
  OBVIOUS
<1>2. Max({a, b}) \in {a, b} /\ \A y \in {a, b} : Max({a, b}) >= y
  BY <1>1 DEF Max
<1> QED
  BY <1>2

-----------------------------------------------------------------------------
(* Sums                                                                    *)

(* The recursion that defines a sum.                                       *)
AddsUp(w, S, sum) ==
    sum = [s \in SUBSET S |-> IF s = {} THEN 0
              ELSE w[CHOOSE x \in s : TRUE] + sum[s \ {CHOOSE x \in s : TRUE}]]

(* It has a solution: solved up to a size, it is solved for one more.      *)
LEMMA SumExists ==
    ASSUME NEW w, NEW S, IsFiniteSet(S)
    PROVE  \E sum : AddsUp(w, S, sum)
<1> DEFINE One(s) == CHOOSE x \in s : TRUE
           Body(s, sum) == IF s = {} THEN 0 ELSE w[One(s)] + sum[s \ {One(s)}]
           Solved(sum, n) == \A s \in SUBSET S : Cardinality(s) <= n => sum[s] = Body(s, sum)
           G == {n \in Nat : \E sum : Solved(sum, n)}
<1>0. \A s \in SUBSET S : /\ IsFiniteSet(s) /\ Cardinality(s) \in Nat
                          /\ Cardinality(s) <= Cardinality(S)
  BY FS_Subset, FS_CardinalityType
<1>1. 0 \in G
  <2> DEFINE zero == [s \in SUBSET S |-> 0]
  <2>1. Solved(zero, 0)
    <3>1. ASSUME NEW s \in SUBSET S, Cardinality(s) <= 0
          PROVE  zero[s] = Body(s, zero)
      <4>1. s = {}
        BY <1>0, <3>1, FS_EmptySet
      <4> QED
        BY <4>1
    <3> QED
      BY <3>1
  <2> QED
    BY <2>1
<1>2. ASSUME NEW n \in Nat, n \in G
      PROVE  n + 1 \in G
  <2>1. PICK sum : Solved(sum, n)
    BY <1>2
  <2> DEFINE more == [s \in SUBSET S |-> IF Cardinality(s) <= n THEN sum[s] ELSE Body(s, sum)]
  <2>2. \A s \in SUBSET S : Cardinality(s) <= n => more[s] = sum[s]
    OBVIOUS
  <2>3. \A s \in SUBSET S : Cardinality(s) <= n + 1 => more[s] = Body(s, sum)
    BY <2>1
  <2>4. ASSUME NEW s \in SUBSET S, Cardinality(s) <= n + 1
        PROVE  Body(s, sum) = Body(s, more)
    <3>1. CASE s = {}
      BY <3>1
    <3>2. CASE s # {}
      <4>1. One(s) \in s
        BY <3>2
      <4>2. Cardinality(s \ {One(s)}) = Cardinality(s) - 1
        BY <1>0, <4>1, FS_RemoveElement
      <4>3. s \ {One(s)} \in SUBSET S /\ Cardinality(s \ {One(s)}) <= n
        BY <1>0, <2>4, <4>2
      <4>4. more[s \ {One(s)}] = sum[s \ {One(s)}]
        BY <2>2, <4>3
      <4> HIDE DEF more
      <4> QED
        BY <4>4
    <3> QED
      BY <3>1, <3>2
  <2>5. Solved(more, n + 1)
    BY <2>3, <2>4
  <2>6. \E f : Solved(f, n + 1)
    <3> HIDE DEF more, Solved
    <3> QED
      BY <2>5
  <2> HIDE DEF Solved
  <2> QED
    BY <2>6
<1>3. Cardinality(S) \in G
  <2> HIDE DEF G
  <2> QED
    BY <1>0, <1>1, <1>2, NaturalsAreIn
<1>4. PICK sum : Solved(sum, Cardinality(S))
  BY <1>3
<1> DEFINE all == [s \in SUBSET S |-> sum[s]]
<1>5. ASSUME NEW s \in SUBSET S
      PROVE  all[s] = Body(s, all)
  <2>1. sum[s] = Body(s, sum)
    BY <1>0, <1>4
  <2>2. s \ {One(s)} \in SUBSET S
    OBVIOUS
  <2>3. all[s] = sum[s] /\ all[s \ {One(s)}] = sum[s \ {One(s)}]
    BY <2>2
  <2> HIDE DEF all
  <2> QED
    BY <2>1, <2>3
<1>6. all = [s \in SUBSET S |-> Body(s, all)]
  <2>1. all = [s \in SUBSET S |-> all[s]]
    OBVIOUS
  <2> HIDE DEF all
  <2> QED
    BY <1>5, <2>1, Zenon
<1>7. AddsUp(w, S, all)
  BY <1>6 DEF AddsUp
<1> QED
  BY <1>7

(* Two solutions agree.                                                    *)
LEMMA SumUnique ==
    ASSUME NEW w, NEW S, NEW T \in SUBSET S, IsFiniteSet(T),
           NEW a, AddsUp(w, S, a), NEW b, AddsUp(w, T, b)
    PROVE  a[T] = b[T]
<1> DEFINE G == {s \in SUBSET T : a[s] = b[s]}
           One(s) == CHOOSE x \in s : TRUE
<1>1. ASSUME NEW s \in SUBSET T
      PROVE  /\ a[s] = IF s = {} THEN 0 ELSE w[One(s)] + a[s \ {One(s)}]
             /\ b[s] = IF s = {} THEN 0 ELSE w[One(s)] + b[s \ {One(s)}]
  BY Zenon DEF AddsUp
<1>2. SUFFICES ASSUME T \notin G PROVE FALSE
  OBVIOUS
<1>3. PICK s \in SUBSET T : s \notin G /\ \A U \in SUBSET s : U # s => U \in G
  <2> HIDE DEF G
  <2> QED
    BY <1>2, SmallestSet
<1>4. s # {}
  BY <1>1, <1>3
<1>5. One(s) \in s
  BY <1>4
<1>6. s \ {One(s)} \in G
  BY <1>3, <1>5
<1>7. a[s \ {One(s)}] = b[s \ {One(s)}]
  BY <1>6
<1> QED
  BY ONLY <1>1, <1>3, <1>7

(* A sum is one term and the sum of the others.                            *)
LEMMA SumUnfolds ==
    ASSUME NEW w, NEW S, IsFiniteSet(S)
    PROVE  SumFunctionOnSet(w, S) =
              IF S = {} THEN 0
              ELSE w[CHOOSE x \in S : TRUE] + SumFunctionOnSet(w, S \ {CHOOSE x \in S : TRUE})
<1>1. ASSUME NEW T, IsFiniteSet(T)
      PROVE  \E sum : AddsUp(w, T, sum) /\ SumFunctionOnSet(w, T) = sum[T]
  <2> DEFINE sum == CHOOSE f : f = [s \in SUBSET T |-> IF s = {} THEN 0
                ELSE w[CHOOSE x \in s : TRUE] + f[s \ {CHOOSE x \in s : TRUE}]]
  <2>1. SumFunctionOnSet(w, T) = sum[T]
    BY DEF SumFunctionOnSet, FoldFunctionOnSet, MapThenFoldSet
  <2>2. AddsUp(w, T, sum)
    <3>1. PICK f : AddsUp(w, T, f)
      BY <1>1, SumExists
    <3> QED
      BY <3>1, Zenon DEF AddsUp
  <2> QED
    BY <2>1, <2>2
<1> DEFINE rest == S \ {CHOOSE x \in S : TRUE}
<1>2. IsFiniteSet(rest) /\ rest \in SUBSET S
  BY FS_Subset
<1>3. PICK a : AddsUp(w, S, a) /\ SumFunctionOnSet(w, S) = a[S]
  BY <1>1
<1>4. PICK b : AddsUp(w, rest, b) /\ SumFunctionOnSet(w, rest) = b[rest]
  BY <1>1, <1>2
<1>5. a[rest] = b[rest]
  BY <1>2, <1>3, <1>4, SumUnique
<1>6. a[S] = IF S = {} THEN 0 ELSE w[CHOOSE x \in S : TRUE] + a[rest]
  BY <1>3, S \in SUBSET S, Zenon DEF AddsUp
<1> QED
  BY <1>3, <1>4, <1>5, <1>6

(* A sum of naturals is a natural.                                         *)
LEMMA SumIsNatural ==
    ASSUME NEW S, IsFiniteSet(S), NEW w, \A x \in S : w[x] \in Nat
    PROVE  SumFunctionOnSet(w, S) \in Nat
<1> DEFINE G == {T \in SUBSET S : SumFunctionOnSet(w, T) \in Nat}
<1>1. SUFFICES ASSUME S \notin G PROVE FALSE
  OBVIOUS
<1>2. PICK T \in SUBSET S :
         T \notin G /\ IsFiniteSet(T) /\ \A U \in SUBSET T : U # T => U \in G
  <2> HIDE DEF G
  <2> QED
    BY <1>1, SmallestSet
<1> DEFINE c == CHOOSE x \in T : TRUE
<1>3. SumFunctionOnSet(w, T) =
         IF T = {} THEN 0 ELSE w[c] + SumFunctionOnSet(w, T \ {c})
  BY <1>2, SumUnfolds
<1>4. CASE T = {}
  BY <1>2, <1>3, <1>4
<1>5. CASE T # {}
  <2>1. c \in T /\ c \in S
    BY <1>5
  <2>2. T \ {c} \in G
    BY <1>2, <2>1
  <2> QED
    BY <1>2, <1>3, <1>5, <2>1, <2>2
<1> QED
  BY <1>4, <1>5

(* Any term may be taken out of a sum.                                     *)
LEMMA SumTakesOut ==
    ASSUME NEW S, IsFiniteSet(S), NEW w, \A x \in S : w[x] \in Nat, NEW e \in S
    PROVE  SumFunctionOnSet(w, S) = w[e] + SumFunctionOnSet(w, S \ {e})
<1> DEFINE Sum(T) == SumFunctionOnSet(w, T)
           G == {T \in SUBSET S : \A x \in T : Sum(T) = w[x] + Sum(T \ {x})}
<1>1. SUFFICES ASSUME S \notin G PROVE FALSE
  OBVIOUS
<1>2. PICK T \in SUBSET S :
         T \notin G /\ IsFiniteSet(T) /\ \A U \in SUBSET T : U # T => U \in G /\ IsFiniteSet(U)
  <2> HIDE DEF G
  <2> QED
    BY <1>1, SmallestSet
<1> DEFINE c == CHOOSE x \in T : TRUE
<1>3. PICK x \in T : Sum(T) # w[x] + Sum(T \ {x})
  BY <1>2
<1>4. c \in T
  BY <1>3
<1>5. Sum(T) = w[c] + Sum(T \ {c})
  BY <1>2, <1>4, SumUnfolds
<1>6. x # c
  BY <1>3, <1>5
<1>7. T \ {c} \in G /\ T \ {x} \in G /\ x \in T \ {c} /\ c \in T \ {x}
  BY <1>2, <1>4, <1>6
<1>8. (T \ {c}) \ {x} = (T \ {x}) \ {c}
  OBVIOUS
<1>9. /\ Sum(T \ {c}) = w[x] + Sum((T \ {x}) \ {c})
      /\ Sum(T \ {x}) = w[c] + Sum((T \ {x}) \ {c})
  BY <1>7, <1>8
<1>10. w[c] \in Nat /\ w[x] \in Nat
  BY <1>4
<1>11. Sum((T \ {x}) \ {c}) \in Nat
  <2>1. IsFiniteSet((T \ {x}) \ {c})
    BY <1>2, FS_RemoveElement
  <2> QED
    BY <2>1, SumIsNatural
<1> HIDE DEF Sum, c
<1> QED
  BY <1>3, <1>5, <1>9, <1>10, <1>11

(* The sum over two sets without a common element.                         *)
LEMMA SumOfUnion ==
    ASSUME NEW A, NEW B, IsFiniteSet(A), IsFiniteSet(B), A \cap B = {},
           NEW w, \A x \in A \cup B : w[x] \in Nat
    PROVE  SumFunctionOnSet(w, A \cup B) = SumFunctionOnSet(w, A) + SumFunctionOnSet(w, B)
<1> DEFINE Sum(T) == SumFunctionOnSet(w, T)
           G == {T \in SUBSET B : Sum(A \cup T) = Sum(A) + Sum(T)}
<1>1. {} \in G
  <2>1. Sum({}) = 0
    BY SumUnfolds, FS_EmptySet
  <2>2. Sum(A) \in Nat
    BY SumIsNatural
  <2>3. A \cup {} = A
    OBVIOUS
  <2> HIDE DEF Sum
  <2> QED
    BY <2>1, <2>2, <2>3
<1>2. ASSUME NEW T \in SUBSET B, NEW x \in B \ T, IsFiniteSet(T), T \in G
      PROVE  T \cup {x} \in G
  <2>1. IsFiniteSet(T \cup {x}) /\ IsFiniteSet(A \cup (T \cup {x})) /\ IsFiniteSet(A \cup T)
    BY <1>2, FS_AddElement, FS_Union
  <2>2. /\ (T \cup {x}) \ {x} = T
        /\ (A \cup (T \cup {x})) \ {x} = A \cup T
    OBVIOUS
  <2>3. Sum(T \cup {x}) = w[x] + Sum(T)
    BY <2>1, <2>2, SumTakesOut
  <2>4. Sum(A \cup (T \cup {x})) = w[x] + Sum(A \cup T)
    BY <2>1, <2>2, SumTakesOut
  <2>5. Sum(A) \in Nat /\ Sum(T) \in Nat /\ w[x] \in Nat
    BY <1>2, SumIsNatural
  <2> HIDE DEF Sum
  <2> QED
    BY <1>2, <2>3, <2>4, <2>5
<1>3. B \in G
  <2> HIDE DEF G
  <2> QED
    BY <1>1, <1>2, FiniteSetsAreIn
<1> QED
  BY <1>3

(* Sums of equal terms are equal.                                          *)
LEMMA SumOfEqual ==
    ASSUME NEW S, IsFiniteSet(S), NEW w, NEW v, \A x \in S : w[x] = v[x]
    PROVE  SumFunctionOnSet(w, S) = SumFunctionOnSet(v, S)
<1> DEFINE G == {T \in SUBSET S : SumFunctionOnSet(w, T) = SumFunctionOnSet(v, T)}
<1>1. SUFFICES ASSUME S \notin G PROVE FALSE
  OBVIOUS
<1>2. PICK T \in SUBSET S :
         T \notin G /\ IsFiniteSet(T) /\ \A U \in SUBSET T : U # T => U \in G
  <2> HIDE DEF G
  <2> QED
    BY <1>1, SmallestSet
<1> DEFINE c == CHOOSE x \in T : TRUE
<1>3. /\ SumFunctionOnSet(w, T) = IF T = {} THEN 0 ELSE w[c] + SumFunctionOnSet(w, T \ {c})
      /\ SumFunctionOnSet(v, T) = IF T = {} THEN 0 ELSE v[c] + SumFunctionOnSet(v, T \ {c})
  BY <1>2, SumUnfolds
<1>4. T # {}
  BY <1>2, <1>3
<1>5. c \in T
  BY <1>4
<1>6. T \ {c} \in G /\ w[c] = v[c]
  BY <1>2, <1>5
<1> QED
  BY <1>2, <1>3, <1>4, <1>6

(* Disjoint sets have as many elements as both together.                   *)
LEMMA SizeOfUnion ==
    ASSUME NEW A, NEW B, IsFiniteSet(A), IsFiniteSet(B), A \cap B = {}
    PROVE  /\ IsFiniteSet(A \cup B) /\ Cardinality(A \cup B) = Cardinality(A) + Cardinality(B)
           /\ Cardinality(A) \in Nat /\ Cardinality(B) \in Nat
<1>1. Cardinality(A \cap B) = 0
  BY FS_EmptySet
<1>2. Cardinality(A) \in Nat /\ Cardinality(B) \in Nat
  BY FS_CardinalityType
<1>3. /\ IsFiniteSet(A \cup B)
      /\ Cardinality(A \cup B) = Cardinality(A) + Cardinality(B) - Cardinality(A \cap B)
  BY FS_Union
<1> QED
  BY <1>1, <1>2, <1>3

\* w counts the elements of the disjoint finite sets K.
CountsDisjoint(S, K, w) ==
    /\ \A x \in S : IsFiniteSet(K[x]) /\ w[x] = Cardinality(K[x])
    /\ \A x, y \in S : x # y => K[x] \cap K[y] = {}

\* All the elements of the sets K.
UnionOf(S, K) == UNION {K[x] : x \in S}

(* Counting is adding up: the sizes of disjoint sets.                      *)
LEMMA SumOfSizes ==
    ASSUME NEW S, IsFiniteSet(S), NEW K, NEW w, CountsDisjoint(S, K, w)
    PROVE  /\ IsFiniteSet(UnionOf(S, K))
           /\ SumFunctionOnSet(w, S) = Cardinality(UnionOf(S, K))
<1>0. /\ \A x \in S : IsFiniteSet(K[x]) /\ w[x] = Cardinality(K[x])
      /\ \A x, y \in S : x # y => K[x] \cap K[y] = {}
  BY DEF CountsDisjoint
<1> DEFINE All(T) == UNION {K[x] : x \in T}
           G == {T \in SUBSET S : /\ IsFiniteSet(All(T))
                                /\ SumFunctionOnSet(w, T) = Cardinality(All(T))}
<1>1. {} \in G
  <2>1. All({}) = {}
    OBVIOUS
  <2>2. SumFunctionOnSet(w, {}) = 0
    BY SumUnfolds, FS_EmptySet
  <2> HIDE DEF All
  <2> QED
    BY <2>1, <2>2, FS_EmptySet
<1>2. ASSUME NEW T \in SUBSET S, NEW x \in S \ T, IsFiniteSet(T), T \in G
      PROVE  T \cup {x} \in G
  <2>1. All(T \cup {x}) = All(T) \cup K[x]
    OBVIOUS
  <2>2. All(T) \cap K[x] = {}
    BY <1>0
  <2>3. IsFiniteSet(K[x]) /\ w[x] = Cardinality(K[x]) /\ IsFiniteSet(All(T))
    BY <1>0, <1>2
  <2>4. \A y \in T \cup {x} : w[y] \in Nat
    BY <1>0, FS_CardinalityType
  <2>5. IsFiniteSet(T \cup {x}) /\ (T \cup {x}) \ {x} = T
    BY <1>2, FS_AddElement
  <2>6. SumFunctionOnSet(w, T \cup {x}) = w[x] + SumFunctionOnSet(w, T)
    BY <2>4, <2>5, SumTakesOut
  <2>7. Cardinality(All(T)) \in Nat /\ Cardinality(K[x]) \in Nat
    BY <2>3, FS_CardinalityType
  <2> HIDE DEF All
  <2>8. /\ IsFiniteSet(All(T) \cup K[x])
        /\ Cardinality(All(T) \cup K[x]) = Cardinality(All(T)) + Cardinality(K[x])
    BY <2>2, <2>3, SizeOfUnion
  <2>9. SumFunctionOnSet(w, T \cup {x}) = Cardinality(All(T)) + Cardinality(K[x])
    <3>1. SumFunctionOnSet(w, T) = Cardinality(All(T)) /\ w[x] = Cardinality(K[x])
      BY <1>2, <2>3 DEF All
    <3> QED
      BY <2>6, <2>7, <3>1
  <2> QED
    BY <2>1, <2>8, <2>9
<1>3. S \in G
  <2> HIDE DEF G
  <2> QED
    BY <1>1, <1>2, FiniteSetsAreIn
<1> QED
  BY <1>3 DEF UnionOf

\* The elements of S numbered lower than x.
Below(S, v, x) == {y \in S : v[y] < v[x]}

(* The places of the elements of a finite set in the order of their        *)
(* numbers are 0 and up, each taken once.                                  *)
LEMMA Places ==
    ASSUME NEW S, IsFiniteSet(S), NEW v, \A x \in S : v[x] \in Int,
           \A x, y \in S : v[x] = v[y] => x = y,
           NEW place, \A x \in S : place[x] = Cardinality(Below(S, v, x))
    PROVE  /\ Cardinality(S) \in Nat
           /\ \A x \in S : place[x] \in 0 .. Cardinality(S) - 1
           /\ \A x, y \in S : v[x] < v[y] <=> place[x] < place[y]
           /\ \A x, y \in S : place[x] = place[y] => x = y
           /\ \A i \in 0 .. Cardinality(S) - 1 : \E x \in S : place[x] = i
<1>1. ASSUME NEW x \in S
      PROVE  /\ place[x] = Cardinality(Below(S, v, x))
             /\ IsFiniteSet(Below(S, v, x)) /\ place[x] \in Nat
             /\ place[x] < Cardinality(S) /\ Cardinality(S) \in Nat
  <2>1. Below(S, v, x) \in SUBSET S /\ x \notin Below(S, v, x) /\ v[x] \in Int
    BY DEF Below
  <2>2. Below(S, v, x) # S
    BY <2>1
  <2>3. IsFiniteSet(Below(S, v, x)) /\ Cardinality(Below(S, v, x)) <= Cardinality(S)
        /\ Cardinality(Below(S, v, x)) # Cardinality(S)
    BY <2>1, <2>2, FS_Subset
  <2>4. Cardinality(Below(S, v, x)) \in Nat /\ Cardinality(S) \in Nat
    BY <2>3, FS_CardinalityType
  <2>5. place[x] = Cardinality(Below(S, v, x))
    OBVIOUS
  <2> QED
    BY <2>3, <2>4, <2>5
<1>2. ASSUME NEW x \in S, NEW y \in S, v[x] < v[y]
      PROVE  place[x] < place[y]
  <2>1. v[x] \in Int /\ v[y] \in Int
    OBVIOUS
  <2>2. \A z \in S : v[z] < v[x] => v[z] < v[y]
    BY <1>2, <2>1
  <2>3. Below(S, v, x) \in SUBSET Below(S, v, y) /\ x \in Below(S, v, y) /\ x \notin Below(S, v, x)
    BY <1>2, <2>1, <2>2 DEF Below
  <2>4. Cardinality(Below(S, v, x)) <= Cardinality(Below(S, v, y))
          /\ Cardinality(Below(S, v, x)) # Cardinality(Below(S, v, y))
    BY <1>1, <2>3, FS_Subset
  <2> QED
    BY <1>1, <2>4
<1>3. ASSUME NEW x \in S, NEW y \in S
      PROVE  /\ v[x] < v[y] <=> place[x] < place[y]
             /\ place[x] = place[y] => x = y
  <2>1. v[x] \in Int /\ v[y] \in Int /\ place[x] \in Nat /\ place[y] \in Nat
    BY <1>1
  <2>2. CASE v[x] < v[y]
    BY <1>2, <2>1, <2>2
  <2>3. CASE v[y] < v[x]
    BY <1>2, <2>1, <2>3
  <2>4. CASE v[x] = v[y]
    BY <2>1, <2>4
  <2> QED
    BY <2>1, <2>2, <2>3, <2>4
<1>4. Cardinality(S) \in Nat
  BY FS_CardinalityType
<1>5. ASSUME NEW x \in S
      PROVE  place[x] \in 0 .. Cardinality(S) - 1
  <2>1. place[x] \in Nat /\ place[x] < Cardinality(S)
    BY <1>1
  <2> QED
    BY <1>4, <2>1
<1> DEFINE f == [x \in S |-> place[x]]
<1>6. f \in Injection(S, 0 .. Cardinality(S) - 1)
  <2>1. f \in [S -> 0 .. Cardinality(S) - 1]
    BY <1>5
  <2>2. \A x, y \in S : f[x] = f[y] => x = y
    BY <1>3
  <2> HIDE DEF f
  <2> QED
    BY <2>1, <2>2, Fun_IsInj
<1>7. IsFiniteSet(0 .. Cardinality(S) - 1) /\ Cardinality(0 .. Cardinality(S) - 1) = Cardinality(S)
  <2> DEFINE n == Cardinality(S)
  <2>1. n \in Nat
    BY <1>4
  <2> HIDE DEF n
  <2>2. n - 1 \in Int /\ (0 > n - 1 => n = 0) /\ (n - 1) - 0 + 1 = n
    BY ONLY <2>1
  <2>3. /\ IsFiniteSet(0 .. n - 1)
        /\ Cardinality(0 .. n - 1) = IF 0 > n - 1 THEN 0 ELSE (n - 1) - 0 + 1
    BY ONLY <2>2, FS_Interval
  <2>4. IsFiniteSet(0 .. n - 1) /\ Cardinality(0 .. n - 1) = n
    BY ONLY <2>2, <2>3
  <2> QED
    BY ONLY <2>4 DEF n
<1>8. f \in Surjection(S, 0 .. Cardinality(S) - 1)
  <2> HIDE DEF f
  <2> QED
    BY <1>6, <1>7, FS_Injection
<1>9. ASSUME NEW i \in 0 .. Cardinality(S) - 1
      PROVE  \E x \in S : place[x] = i
  <2>1. \A j \in 0 .. Cardinality(S) - 1 : \E x \in S : f[x] = j
    <3> HIDE DEF f
    <3> QED
      BY <1>8, Zenon DEF Surjection
  <2>2. PICK x \in S : f[x] = i
    <3> HIDE DEF f
    <3> QED
      BY <2>1
  <2> QED
    BY <2>2
<1> HIDE DEF f
<1> QED
  BY <1>3, <1>4, <1>5, <1>9

-----------------------------------------------------------------------------
(* The arguments of a comparison *)

(* A step leaves the arguments alone, and whatever depends on nothing else. *)
LEMMA ArgumentsStay ==
    ASSUME input' = input
    PROVE  /\ relation' = relation /\ budgets' = budgets
           /\ \A s, g : KeysIn(s, g)' = KeysIn(s, g)
           /\ \A s : Digest(s)' = Digest(s)
           /\ \A s, g : Fingerprint(s, g)' = Fingerprint(s, g)
           /\ \A g : FingerprintNode(g)' = FingerprintNode(g)
           /\ RootSegment' = RootSegment
           /\ \A s : Summary(s)' = Summary(s)
           /\ (ContractHolds' <=> ContractHolds)
           /\ AllKeys' = AllKeys
           /\ \A k : TrueKind(k)' = TrueKind(k)
<1>1. relation' = relation /\ budgets' = budgets
  BY DEF relation, budgets
<1>2. \A s, g : KeysIn(s, g)' = KeysIn(s, g)
  BY <1>1 DEF KeysIn
<1>3. \A s : Digest(s)' = Digest(s)
  BY <1>1 DEF Digest
<1>4. \A s, g : Fingerprint(s, g)' = Fingerprint(s, g)
  BY <1>2, <1>3 DEF Fingerprint
<1>5. \A g : FingerprintNode(g)' = FingerprintNode(g)
  BY <1>4 DEF FingerprintNode
<1>6. \A s : Summary(s)' = Summary(s)
  BY <1>1 DEF Summary
<1>7. RootSegment' = RootSegment
  BY <1>6 DEF RootSegment
<1>8. ContractHolds' <=> ContractHolds
  BY <1>6 DEF ContractHolds
<1>9. AllKeys' = AllKeys
  BY <1>1 DEF AllKeys, ReferenceRows, TargetRows
<1>10. \A k : TrueKind(k)' = TrueKind(k)
  BY <1>1 DEF TrueKind, ReferenceRows, TargetRows
<1> QED
  BY <1>1, <1>2, <1>3, <1>4, <1>5, <1>6, <1>7, <1>8, <1>9, <1>10

(* Of every argument: the types the proofs use.                            *)
LEMMA Arguments ==
    ASSUME input \in Inputs
    PROVE  /\ \A s \in Sides : /\ DOMAIN relation[s].rows \subseteq Key
                               /\ IsFiniteSet(DOMAIN relation[s].rows)
                               /\ \A k \in DOMAIN relation[s].rows : relation[s].rows[k] \in Values
                               /\ relation[s].null_keys \in Nat
                               /\ relation[s].invalid_keys \in Nat
                               /\ relation[s].duplicate_keys \in Nat
                               /\ relation[s].physical_scans \in Nat \ {0}
           /\ \A s \in Sides : relation[s].duplicate_keys > 0 => DOMAIN relation[s].rows # {}
           /\ \A s \in Sides : \A k \in DOMAIN relation[s].rows : Digest(s)[k] \in Nat
           /\ budgets.max_queries \in Nat /\ budgets.max_fetched_records \in Nat
           /\ budgets.max_full_scans_per_side \in Nat /\ budgets.max_depth \in Nat
           /\ budgets.max_fingerprint_nodes \in Nat /\ budgets.max_evidence_rows \in Nat
           /\ budgets.max_evidence_bytes \in Nat
           /\ input.charged \in [queries : 0 .. budgets.max_queries,
                                 fetched_records : 0 .. budgets.max_fetched_records,
                                 full_scans : [Sides -> 0 .. budgets.max_full_scans_per_side]]
<1>1. \A s \in Sides : IsRelation(relation[s])
  BY ComparisonInputs DEF relation
<1>2. IsFiniteSet(Key) /\ Key \subseteq Int
  BY KeyAssumption, FS_Interval DEF Key
<1>3. ASSUME NEW s \in Sides
      PROVE  /\ DOMAIN relation[s].rows \subseteq Key
             /\ IsFiniteSet(DOMAIN relation[s].rows)
             /\ \A k \in DOMAIN relation[s].rows : relation[s].rows[k] \in Values
             /\ relation[s].null_keys \in Nat
             /\ relation[s].invalid_keys \in Nat
             /\ relation[s].duplicate_keys \in Nat
             /\ relation[s].physical_scans \in Nat \ {0}
             /\ relation[s].duplicate_keys > 0 => DOMAIN relation[s].rows # {}
  <2>1. IsRelation(relation[s])
    BY <1>1
  <2>2. PICK keys \in SUBSET Key : relation[s].rows \in [keys -> Values]
    BY <2>1 DEF IsRelation
  <2>3. DOMAIN relation[s].rows = keys /\ IsFiniteSet(keys)
    BY <1>2, <2>2, FS_Subset
  <2> QED
    BY <2>1, <2>2, <2>3 DEF IsRelation
<1>4. ASSUME NEW s \in Sides, NEW k \in DOMAIN relation[s].rows
      PROVE  Digest(s)[k] \in Nat
  <2>1. input.hash \in [Key \X Values -> Nat]
    BY ComparisonInputs
  <2>2. <<k, relation[s].rows[k]>> \in Key \X Values
    BY <1>3
  <2>3. input.hash[<<k, relation[s].rows[k]>>] \in Nat
    BY <2>1, <2>2
  <2>4. Digest(s)[k] = input.hash[<<k, relation[s].rows[k]>>]
    BY Zenon DEF Digest
  <2> QED
    BY <2>3, <2>4
<1> QED
  BY <1>3, <1>4, ComparisonInputs DEF budgets

-----------------------------------------------------------------------------
(* Ranges *)

\* A range the comparison may create.
SoundSegment(g) ==
    /\ g \in SegmentType
    /\ g.lower_inclusive < MathematicalUpper(g)
    /\ g.parent = None <=> g.depth = 0
    /\ g.parent # None => g.parent < g.segment_sequence

\* Two ranges without a common key.
Apart(g, h) ==
    \/ MathematicalUpper(g) <= h.lower_inclusive
    \/ MathematicalUpper(h) <= g.lower_inclusive

(* The bounds of a range.                                                  *)
LEMMA Bounds ==
    ASSUME NEW g \in SegmentType
    PROVE  /\ g.lower_inclusive \in Key /\ g.lower_inclusive \in Int
           /\ MathematicalUpper(g) \in Int
           /\ MathematicalUpper(g) <= INT64_MAX + 1
           /\ INT64_MIN <= g.lower_inclusive
           /\ g.segment_sequence \in Nat /\ g.depth \in Nat
  BY KeyAssumption, NoneAssumption DEF SegmentType, MathematicalUpper, Key

(* The rows of a range on one side.                                        *)
LEMMA KeysOfRange ==
    ASSUME input \in Inputs, NEW s \in Sides, NEW g
    PROVE  /\ KeysIn(s, g) \subseteq DOMAIN relation[s].rows
           /\ KeysIn(s, g) \subseteq Key /\ KeysIn(s, g) \subseteq Int
           /\ IsFiniteSet(KeysIn(s, g)) /\ Cardinality(KeysIn(s, g)) \in Nat
           /\ \A k \in KeysIn(s, g) : Digest(s)[k] \in Nat
<1>1. KeysIn(s, g) \subseteq DOMAIN relation[s].rows
  BY DEF KeysIn
<1>2. IsFiniteSet(KeysIn(s, g))
  BY <1>1, Arguments, FS_Subset
<1>3. Cardinality(KeysIn(s, g)) \in Nat
  BY <1>2, FS_CardinalityType
<1>4. Key \subseteq Int
  BY KeyAssumption DEF Key
<1> QED
  BY <1>1, <1>2, <1>3, <1>4, Arguments

\* A range and the fingerprints of its two sides.
NodeType ==
    [segment : SegmentType, fingerprint : [Sides -> [count : Nat, limb_sum : Nat]]]

(* The fingerprint node of a range.                                        *)
LEMMA NodeOfRange ==
    ASSUME input \in Inputs, NEW g \in SegmentType
    PROVE  /\ FingerprintNode(g) \in NodeType
           /\ FingerprintNode(g).segment = g
           /\ \A s \in Sides : /\ FingerprintNode(g).fingerprint[s] = Fingerprint(s, g)
                               /\ Fingerprint(s, g).count = Cardinality(KeysIn(s, g))
                               /\ Fingerprint(s, g).limb_sum =
                                     SumFunctionOnSet(Digest(s), KeysIn(s, g))
                               /\ Fingerprint(s, g).count \in Nat
                               /\ Fingerprint(s, g).limb_sum \in Nat
<1>1. ASSUME NEW s \in Sides
      PROVE  /\ Fingerprint(s, g).count = Cardinality(KeysIn(s, g))
             /\ Fingerprint(s, g).limb_sum = SumFunctionOnSet(Digest(s), KeysIn(s, g))
             /\ Fingerprint(s, g) \in [count : Nat, limb_sum : Nat]
  <2>1. Cardinality(KeysIn(s, g)) \in Nat
    BY KeysOfRange
  <2>2. SumFunctionOnSet(Digest(s), KeysIn(s, g)) \in Nat
    BY KeysOfRange, SumIsNatural
  <2> QED
    BY <2>1, <2>2 DEF Fingerprint
<1> QED
  BY <1>1 DEF FingerprintNode, NodeType

(* Both halves of a range lie in it, have no common key, and hold every    *)
(* key it holds.                                                           *)
LEMMA HalvesOfRange ==
    ASSUME NEW g, SoundSegment(g), NEW n \in Nat, n > g.segment_sequence,
           SplitSegment(g, n) # None
    PROVE  LET half == SplitSegment(g, n)
           IN  /\ half = <<half[1], half[2]>>
               /\ \A i \in 1 .. 2 : /\ SoundSegment(half[i])
                                    /\ half[i].segment_sequence = n + i - 1
                                    /\ half[i].parent = g.segment_sequence
                                    /\ half[i].depth = g.depth + 1
                                    /\ g.lower_inclusive <= half[i].lower_inclusive
                                    /\ MathematicalUpper(half[i]) <= MathematicalUpper(g)
               /\ half[1].lower_inclusive = g.lower_inclusive
               /\ half[1].upper_exclusive # None
               /\ half[2].lower_inclusive = half[1].upper_exclusive
               /\ half[2].upper_exclusive = g.upper_exclusive
               /\ half[1].upper_exclusive = MathematicalUpper(half[1])
<1> DEFINE width == MathematicalUpper(g) - g.lower_inclusive
           midpoint == g.lower_inclusive + (width \div 2)
<1>1. /\ g \in SegmentType /\ g.lower_inclusive < MathematicalUpper(g)
      /\ g.lower_inclusive \in Int /\ MathematicalUpper(g) \in Int
      /\ MathematicalUpper(g) <= INT64_MAX + 1 /\ INT64_MIN <= g.lower_inclusive
      /\ g.segment_sequence \in Nat /\ g.depth \in Nat
  BY Bounds DEF SoundSegment
<1>2. width \in Int /\ ~ width <= 1
  BY <1>1, NoneAssumption DEF SplitSegment
<1>3. midpoint \in Int /\ g.lower_inclusive < midpoint /\ midpoint < MathematicalUpper(g)
  BY <1>1, <1>2
<1>4. midpoint \in Key /\ midpoint # None
  BY <1>1, <1>3, KeyAssumption, NoneAssumption DEF Key
<1> DEFINE child == [g EXCEPT !.parent = g.segment_sequence, !.depth = @ + 1]
           first == [child EXCEPT !.segment_sequence = n, !.upper_exclusive = midpoint]
           second == [child EXCEPT !.segment_sequence = n + 1, !.lower_inclusive = midpoint]
<1>5. SplitSegment(g, n) = <<first, second>>
  BY <1>2 DEF SplitSegment
<1>6. /\ child \in SegmentType
      /\ child.parent = g.segment_sequence /\ child.depth = g.depth + 1
      /\ child.lower_inclusive = g.lower_inclusive /\ child.upper_exclusive = g.upper_exclusive
  <2>1. PICK number \in Nat, deeper \in Nat : number = g.segment_sequence /\ deeper = g.depth + 1
    BY <1>1
  <2>2. child = [g EXCEPT !.parent = number, !.depth = deeper]
    BY <2>1
  <2> HIDE DEF child
  <2>3. g \in SegmentType
    BY <1>1
  <2>4. /\ child \in SegmentType
        /\ child.parent = number /\ child.depth = deeper
        /\ child.lower_inclusive = g.lower_inclusive /\ child.upper_exclusive = g.upper_exclusive
    BY ONLY <2>1, <2>2, <2>3 DEF SegmentType
  <2> QED
    BY <2>1, <2>4
<1>7. /\ first \in SegmentType /\ second \in SegmentType
      /\ first.segment_sequence = n /\ second.segment_sequence = n + 1
      /\ first.parent = g.segment_sequence /\ second.parent = g.segment_sequence
      /\ first.depth = g.depth + 1 /\ second.depth = g.depth + 1
      /\ first.lower_inclusive = g.lower_inclusive /\ first.upper_exclusive = midpoint
      /\ second.lower_inclusive = midpoint /\ second.upper_exclusive = g.upper_exclusive
  <2>1. PICK middle \in Key, next \in Nat : middle = midpoint /\ next = n + 1
    BY <1>4
  <2>2. /\ first = [child EXCEPT !.segment_sequence = n, !.upper_exclusive = middle]
        /\ second = [child EXCEPT !.segment_sequence = next, !.lower_inclusive = middle]
    BY <2>1
  <2> HIDE DEF child, first, second, midpoint
  <2>3. child \in SegmentType /\ n \in Nat /\ middle \in Key /\ next \in Nat
    BY <1>6
  <2>4. /\ first \in SegmentType /\ second \in SegmentType
        /\ first.segment_sequence = n /\ second.segment_sequence = next
        /\ first.parent = child.parent /\ second.parent = child.parent
        /\ first.depth = child.depth /\ second.depth = child.depth
        /\ first.lower_inclusive = child.lower_inclusive /\ first.upper_exclusive = middle
        /\ second.lower_inclusive = middle /\ second.upper_exclusive = child.upper_exclusive
    BY ONLY <2>2, <2>3 DEF SegmentType
  <2> QED
    BY <1>6, <2>1, <2>4
<1> HIDE DEF first, second
<1>12. MathematicalUpper(first) = midpoint /\ MathematicalUpper(second) = MathematicalUpper(g)
  BY <1>4, <1>7 DEF MathematicalUpper
<1>8. g.segment_sequence # None /\ g.depth + 1 # 0
  BY <1>1, NoneAssumption
<1>9. SoundSegment(first) /\ SoundSegment(second)
  BY <1>1, <1>3, <1>7, <1>8, <1>12 DEF SoundSegment
<1> HIDE DEF midpoint
<1> QED
  BY <1>1, <1>3, <1>4, <1>5, <1>7, <1>9, <1>12

-----------------------------------------------------------------------------
(* The yielded progress *)

\* What progress and its parts are made of.
Counts == [Kinds \cup {"matched"} -> Nat]

\* A range that was settled or split, and the fingerprints that settled it.
RecordType ==
    [segment : SegmentType, state : TerminalStates \cup {"split"},
     fingerprint : [Sides -> [count : Nat, limb_sum : Nat]]]

\* A difference kept as evidence.
AnomalyType == [sequence : Nat, kind : Kinds, key : Key, segment_sequence : Nat]

\* The progress that the comparison yields.
ProgressType ==
    [pending : SUBSET SegmentType, topology : SUBSET RecordType, exact_counts : Counts,
     pruned_matched : Nat, pruned_segments : Nat, exact_segments : Nat,
     summaries_verified : BOOLEAN, mismatch_witnesses : SUBSET NodeType,
     fingerprint_nodes : Nat, anomalies : Seq(AnomalyType), found_records : Nat,
     found_bytes : Nat, retained_bytes : Nat, retention_open : BOOLEAN]

\* The ranges that together hold every key: the pending and the resolved ones.
Resolved(p) == {t.segment : t \in {u \in p.topology : u.state \in TerminalStates}}
\* The ranges that are not split.
Frontier(p) == p.pending \cup Resolved(p)
\* All ranges, and the numbers of some.
Segments(p) == p.pending \cup {t.segment : t \in p.topology}
NumbersOf(segments) == {g.segment_sequence : g \in segments}

\* Ranges are numbered from 0, each with a number of its own; those that are
\* not split have no common key, and those that are pending are numbered in
\* the order of their keys.
TreeIsSound(p) ==
    /\ IsFiniteSet(p.pending) /\ IsFiniteSet(p.topology)
    /\ \A g \in Segments(p) : SoundSegment(g)
    /\ \A g, h \in p.pending : g.segment_sequence = h.segment_sequence => g = h
    /\ \A t, u \in p.topology : t.segment.segment_sequence = u.segment.segment_sequence => t = u
    /\ \A g \in p.pending, t \in p.topology : g.segment_sequence # t.segment.segment_sequence
    /\ NumbersOf(Segments(p)) = 0 .. Cardinality(p.pending) + Cardinality(p.topology) - 1
    /\ \A g, h \in Frontier(p) : g # h => Apart(g, h)
    /\ \A g, h \in p.pending :
          g.segment_sequence < h.segment_sequence => MathematicalUpper(g) <= h.lower_inclusive

\* Every key with a row is in a range of the frontier.
HoldsEveryKey(p) == \A k \in AllKeys : \E g \in Frontier(p) : InRange(k, g)

\* A range of the topology has its own fingerprints, and its state tells
\* whether they agree; so has a witness, and they do not.
RecordsAreTrue(p) ==
    /\ \A t \in p.topology :
          /\ t = SegmentRecord(FingerprintNode(t.segment), t.state)
          /\ t.state \in {"fingerprint_match", "exact_match"} <=> Matches(t)
          /\ t.state # "exact_match"
    /\ \A w \in p.mismatch_witnesses :
          /\ w = FingerprintNode(w.segment)
          /\ w.segment \in p.pending
          /\ Mismatches(w)

\* A range of the topology that differs, or the root, was split into one that
\* differs, or its difference was counted; a root that does not differ is not
\* split; and the range numbered 0 is the root.
DifferenceIsKept(p) ==
    /\ \/ \E t \in p.topology : Mismatches(t)
       \/ p.summaries_verified /\ Mismatches(FingerprintNode(RootSegment))
       => \/ DifferenceCount(p.exact_counts) > 0
          \/ \E g \in p.pending : Mismatches(FingerprintNode(g))
    /\ p.summaries_verified /\ Matches(FingerprintNode(RootSegment)) =>
          Segments(p) = {RootSegment}
    /\ p.summaries_verified =>
          \A g \in Segments(p) : g.segment_sequence = 0 => g = RootSegment

(* The narrowest range that holds every key is sound and does hold them.   *)
LEMMA RootHoldsEveryKey ==
    ASSUME input \in Inputs
    PROVE  /\ SoundSegment(RootSegment)
           /\ RootSegment.segment_sequence = 0 /\ RootSegment.depth = 0
           /\ RootSegment.parent = None
           /\ \A k \in AllKeys : InRange(k, RootSegment)
<1> DEFINE keys(s) == DOMAIN relation[s].rows
           minimums == {Summary(s).minimum_key : s \in Sides} \ {None}
           maximums == {Summary(s).maximum_key : s \in Sides} \ {None}
           maximum == Max(maximums)
<1>1. ASSUME NEW s \in Sides
      PROVE  /\ keys(s) \subseteq Key /\ keys(s) \subseteq Int /\ IsFiniteSet(keys(s))
             /\ keys(s) = {} => Summary(s).minimum_key = None /\ Summary(s).maximum_key = None
             /\ keys(s) # {} => /\ Summary(s).minimum_key \in keys(s)
                                /\ Summary(s).maximum_key \in keys(s)
                                /\ \A k \in keys(s) : /\ Summary(s).minimum_key <= k
                                                      /\ k <= Summary(s).maximum_key
  <2>1. keys(s) \subseteq Key /\ keys(s) \subseteq Int /\ IsFiniteSet(keys(s))
    BY Arguments, KeyAssumption DEF Key
  <2>2. /\ Summary(s).minimum_key = IF keys(s) = {} THEN None ELSE Min(keys(s))
        /\ Summary(s).maximum_key = IF keys(s) = {} THEN None ELSE Max(keys(s))
    BY DEF Summary
  <2> HIDE DEF keys
  <2>3. keys(s) # {} => /\ Max(keys(s)) \in keys(s) /\ \A k \in keys(s) : Max(keys(s)) >= k
                        /\ Min(keys(s)) \in keys(s) /\ \A k \in keys(s) : Min(keys(s)) <= k
    BY <2>1, Extremes
  <2>4. keys(s) # {} => \A k \in keys(s) : k <= Max(keys(s))
    <3>1. \A k \in keys(s) : k \in Int
      BY <2>1
    <3> QED
      BY <2>3, <3>1
  <2> QED
    BY <2>1, <2>2, <2>3, <2>4
<1>2. /\ minimums \subseteq Key /\ maximums \subseteq Key
      /\ minimums = {} <=> \A s \in Sides : keys(s) = {}
      /\ maximums = {} <=> \A s \in Sides : keys(s) = {}
  <2>1. None \notin Key
    BY NoneAssumption, KeyAssumption DEF Key
  <2> HIDE DEF keys
  <2> QED
    BY <1>1, <2>1
<1>3. /\ minimums # {} => Min(minimums) \in minimums /\ \A m \in minimums : Min(minimums) <= m
      /\ maximums # {} => maximum \in maximums /\ \A m \in maximums : maximum >= m
  <2>1. IsFiniteSet(Key) /\ Key \subseteq Int
    BY KeyAssumption, FS_Interval DEF Key
  <2>2. IsFiniteSet(minimums) /\ IsFiniteSet(maximums)
    BY <1>2, <2>1, FS_Subset
  <2> HIDE DEF minimums, maximums
  <2> QED
    BY <1>2, <2>1, <2>2, Extremes
<1>4. \A k \in AllKeys : \E s \in Sides : k \in keys(s)
  BY DEF AllKeys, ReferenceRows, TargetRows, Sides
<1>5. /\ RootSegment.segment_sequence = 0 /\ RootSegment.depth = 0 /\ RootSegment.parent = None
      /\ RootSegment.lower_inclusive = IF minimums = {} THEN INT64_MIN ELSE Min(minimums)
      /\ RootSegment.upper_exclusive =
            IF minimums = {} \/ maximum = INT64_MAX THEN None ELSE maximum + 1
      /\ RootSegment = [segment_sequence |-> 0, parent |-> None, depth |-> 0,
                        lower_inclusive |-> RootSegment.lower_inclusive,
                        upper_exclusive |-> RootSegment.upper_exclusive]
  BY DEF RootSegment
<1> HIDE DEF keys, minimums, maximums, maximum
<1>6. CASE minimums = {}
  <2>1. AllKeys = {}
    BY <1>2, <1>4, <1>6
  <2>2. RootSegment.lower_inclusive = INT64_MIN /\ RootSegment.upper_exclusive = None
    BY <1>5, <1>6
  <2>3. INT64_MIN \in Key
    BY KeyAssumption DEF Key
  <2>4. RootSegment \in SegmentType
    BY <1>5, <2>2, <2>3 DEF SegmentType
  <2>5. MathematicalUpper(RootSegment) = INT64_MAX + 1
    BY <2>2 DEF MathematicalUpper
  <2>6. INT64_MIN < INT64_MAX + 1
    BY KeyAssumption
  <2> QED
    BY <1>5, <2>1, <2>2, <2>4, <2>5, <2>6 DEF SoundSegment
<1>7. CASE minimums # {}
  <2>1. maximums # {}
    BY <1>2, <1>7
  <2>2. Min(minimums) \in Key /\ maximum \in Key
    BY <1>2, <1>3, <1>7, <2>1
  <2>3. \A k \in AllKeys : k \in Int /\ Min(minimums) <= k /\ k <= maximum
    <3>1. SUFFICES ASSUME NEW k \in AllKeys
                   PROVE  k \in Int /\ Min(minimums) <= k /\ k <= maximum
      OBVIOUS
    <3>2. PICK s \in Sides : k \in keys(s)
      BY <1>4
    <3>3. /\ Summary(s).minimum_key \in Key /\ Summary(s).maximum_key \in Key
          /\ Summary(s).minimum_key <= k /\ k <= Summary(s).maximum_key /\ k \in Int
      BY <1>1, <3>2
    <3>4. Summary(s).minimum_key \in minimums /\ Summary(s).maximum_key \in maximums
      BY <3>3, NoneAssumption, KeyAssumption DEF minimums, maximums, Key
    <3>5. Min(minimums) <= Summary(s).minimum_key /\ maximum >= Summary(s).maximum_key
      BY <1>3, <3>4
    <3> QED
      BY <2>2, <3>3, <3>5, KeyAssumption DEF Key
  <2>4. Min(minimums) <= maximum
    <3>1. PICK s \in Sides : keys(s) # {}
      BY <1>2, <1>7
    <3>2. PICK k \in keys(s) : k \in AllKeys
      BY <3>1 DEF keys, AllKeys, ReferenceRows, TargetRows, Sides
    <3> QED
      BY <2>2, <2>3, <3>2, KeyAssumption DEF Key
  <2>5. MathematicalUpper(RootSegment) = maximum + 1
    <3>1. maximum + 1 # None
      BY <2>2, NoneAssumption, KeyAssumption DEF Key
    <3> QED
      BY <1>5, <1>7, <3>1 DEF MathematicalUpper
  <2>6. RootSegment \in SegmentType
    <3>1. RootSegment.upper_exclusive \in Key \cup {None}
      BY <1>5, <1>7, <2>2, KeyAssumption DEF Key
    <3>2. RootSegment.lower_inclusive \in Key
      BY <1>5, <1>7, <2>2
    <3> QED
      BY <1>5, <3>1, <3>2 DEF SegmentType
  <2>7. RootSegment.lower_inclusive < MathematicalUpper(RootSegment)
    BY <1>5, <1>7, <2>2, <2>4, <2>5, KeyAssumption DEF Key
  <2>8. \A k \in AllKeys : InRange(k, RootSegment)
    BY <1>5, <1>7, <2>2, <2>3, <2>5, KeyAssumption DEF InRange, Key
  <2> QED
    BY <1>5, <2>6, <2>7, <2>8 DEF SoundSegment
<1> QED
  BY <1>6, <1>7

(* Two finite sets whose elements correspond have as many.                 *)
LEMMA SameSize ==
    ASSUME NEW S, IsFiniteSet(S), NEW T, NEW f \in [S -> T],
           \A x, y \in S : f[x] = f[y] => x = y, \A z \in T : \E x \in S : f[x] = z
    PROVE  IsFiniteSet(T) /\ Cardinality(T) = Cardinality(S) /\ Cardinality(S) \in Nat
<1>1. f \in Injection(S, T)
  BY Fun_IsInj
<1>2. f \in Surjection(S, T)
  BY Fun_IsSurj
<1>3. f \in Bijection(S, T)
  BY <1>1, <1>2, Zenon DEF Bijection
<1>4. ExistsBijection(S, T)
  BY <1>3, Zenon DEF ExistsBijection
<1> QED
  BY <1>4, FS_Bijection, FS_CardinalityType, FS_SameCardinalityBij

(* Numbers are told apart by the range they number.                        *)
LEMMA PendingLeaves ==
    ASSUME NEW p \in ProgressType, TreeIsSound(p), NEW batch,
           \A n \in batch : n.segment \in p.pending
    PROVE  WithoutPendingSequence(p.pending, SequenceNumbers(batch))
              = p.pending \ {n.segment : n \in batch}
<1>1. ASSUME NEW g \in p.pending
      PROVE  g.segment_sequence \in SequenceNumbers(batch) <=> g \in {n.segment : n \in batch}
  <2>1. g.segment_sequence \in SequenceNumbers(batch)
           <=> \E n \in batch : g.segment_sequence = n.segment.segment_sequence
    BY DEF SequenceNumbers
  <2>2. \A n \in batch : g.segment_sequence = n.segment.segment_sequence <=> g = n.segment
    BY DEF TreeIsSound
  <2> QED
    BY <2>1, <2>2
<1> QED
  BY <1>1 DEF WithoutPendingSequence

\* q is p with the pending ranges of some nodes resolved.
ResolvesTo(p, q, batch, state) ==
    /\ batch \in SUBSET NodeType
    /\ \A n \in batch : n.segment \in p.pending
    /\ \A n, m \in batch : n.segment = m.segment => n = m
    /\ state \in TerminalStates
    /\ q.topology = p.topology \cup {SegmentRecord(n, state) : n \in batch}
    /\ q.pending = WithoutPendingSequence(p.pending, SequenceNumbers(batch))

(* Resolved ranges move from the pending ones to the topology: the         *)
(* frontier, and the ranges there are, stay the same.                      *)
LEMMA ResolveKeepsTree ==
    ASSUME NEW p \in ProgressType, TreeIsSound(p), NEW q \in ProgressType, NEW batch, NEW state,
           ResolvesTo(p, q, batch, state)
    PROVE  /\ TreeIsSound(q) /\ Frontier(q) = Frontier(p)
           /\ q.pending = p.pending \ {n.segment : n \in batch}
           /\ IsFiniteSet(batch) /\ Cardinality(batch) \in Nat
           /\ Cardinality(q.topology) = Cardinality(p.topology) + Cardinality(batch)
           /\ Cardinality(q.topology) + Cardinality(q.pending)
                 = Cardinality(p.topology) + Cardinality(p.pending)
           /\ Segments(q) = Segments(p)
<1> DEFINE gone == {n.segment : n \in batch}
           records == {SegmentRecord(n, state) : n \in batch}
<1>0. /\ batch \in SUBSET NodeType
      /\ \A n \in batch : n.segment \in p.pending
      /\ \A n, m \in batch : n.segment = m.segment => n = m
      /\ state \in TerminalStates
      /\ q.topology = p.topology \cup {SegmentRecord(n, state) : n \in batch}
      /\ q.pending = WithoutPendingSequence(p.pending, SequenceNumbers(batch))
  BY DEF ResolvesTo
<1> USE <1>0
<1>1. q.pending = p.pending \ gone /\ gone \subseteq p.pending
  BY PendingLeaves
<1>2. \A n \in batch : /\ SegmentRecord(n, state).segment = n.segment
                       /\ SegmentRecord(n, state).state = state
                       /\ SegmentRecord(n, state).fingerprint = n.fingerprint
  BY DEF SegmentRecord
<1>3. IsFiniteSet(p.pending) /\ IsFiniteSet(p.topology) /\ IsFiniteSet(gone)
        /\ IsFiniteSet(q.pending)
  BY <1>1, FS_Subset DEF TreeIsSound
<1>4. /\ IsFiniteSet(batch) /\ Cardinality(batch) = Cardinality(gone)
      /\ IsFiniteSet(records) /\ Cardinality(records) = Cardinality(gone)
      /\ Cardinality(gone) \in Nat
  <2> DEFINE f == [g \in gone |-> CHOOSE n \in batch : n.segment = g]
  <2>1. \A g \in gone : f[g] \in batch /\ f[g].segment = g
    OBVIOUS
  <2>2. \A n \in batch : n.segment \in gone /\ f[n.segment] = n
    BY <2>1
  <2>3. f \in [gone -> batch]
    BY <2>1
  <2>4. \A g, h \in gone : f[g] = f[h] => g = h
    BY <2>1
  <2>5. \A n \in batch : \E g \in gone : f[g] = n
    BY <2>2
  <2>6. IsFiniteSet(batch) /\ Cardinality(batch) = Cardinality(gone) /\ Cardinality(gone) \in Nat
    <3> HIDE DEF f, gone
    <3> QED
      BY ONLY <1>3, <2>3, <2>4, <2>5, SameSize
  <2> DEFINE r == [n \in batch |-> SegmentRecord(n, state)]
  <2>7. /\ r \in [batch -> records] /\ \A n, m \in batch : r[n] = r[m] => n = m
        /\ \A z \in records : \E n \in batch : r[n] = z
    <3>1. \A n, m \in batch : SegmentRecord(n, state) = SegmentRecord(m, state) => n = m
      BY <1>2
    <3> QED
      BY <3>1
  <2>8. IsFiniteSet(records) /\ Cardinality(records) = Cardinality(batch)
    <3> HIDE DEF r, records
    <3> QED
      BY ONLY <2>6, <2>7, SameSize
  <2> QED
    BY <2>6, <2>8
<1>5. records \cap p.topology = {}
  <2>1. \A n \in batch, t \in p.topology : n.segment.segment_sequence # t.segment.segment_sequence
    BY DEF TreeIsSound
  <2> QED
    BY <1>2, <2>1
<1>6. /\ IsFiniteSet(q.topology)
      /\ Cardinality(q.topology) = Cardinality(p.topology) + Cardinality(records)
      /\ Cardinality(p.topology) \in Nat
  <2>1. q.topology = p.topology \cup records /\ p.topology \cap records = {}
    BY <1>5
  <2> HIDE DEF records, gone
  <2>2. /\ IsFiniteSet(p.topology \cup records)
        /\ Cardinality(p.topology \cup records) = Cardinality(p.topology) + Cardinality(records)
        /\ Cardinality(p.topology) \in Nat
    BY ONLY <1>3, <1>4, <2>1, SizeOfUnion
  <2> QED
    BY <2>1, <2>2
<1>7. /\ Cardinality(p.pending) = Cardinality(q.pending) + Cardinality(gone)
      /\ Cardinality(q.pending) \in Nat
  <2>1. p.pending = q.pending \cup gone /\ q.pending \cap gone = {}
    BY <1>1
  <2> HIDE DEF gone
  <2> QED
    BY <1>3, <2>1, SizeOfUnion
<1>8. Cardinality(q.topology) + Cardinality(q.pending)
         = Cardinality(p.topology) + Cardinality(p.pending)
  BY <1>4, <1>6, <1>7
<1>9. Segments(q) = Segments(p)
  BY <1>1, <1>2 DEF Segments
<1>10. Resolved(q) = Resolved(p) \cup gone
  BY <1>2 DEF Resolved
<1>11. Frontier(q) = Frontier(p)
  BY <1>1, <1>10 DEF Frontier
<1>12. /\ \A t, u \in q.topology :
             t.segment.segment_sequence = u.segment.segment_sequence => t = u
       /\ \A g \in q.pending, t \in q.topology :
             g.segment_sequence # t.segment.segment_sequence
  <2>1. \A n, m \in batch : n.segment.segment_sequence = m.segment.segment_sequence => n = m
    BY DEF TreeIsSound
  <2>2. \A t \in records : \E n \in batch : t = SegmentRecord(n, state) /\ t.segment = n.segment
    BY <1>2
  <2>3. \A n \in batch, t \in p.topology : n.segment.segment_sequence # t.segment.segment_sequence
    BY DEF TreeIsSound
  <2>4. \A g \in q.pending, n \in batch : g.segment_sequence # n.segment.segment_sequence
    BY <1>1 DEF TreeIsSound
  <2>5. ASSUME NEW t \in q.topology, NEW u \in q.topology,
               t.segment.segment_sequence = u.segment.segment_sequence
        PROVE  t = u
    <3>1. CASE t \in p.topology /\ u \in p.topology
      BY <2>5, <3>1 DEF TreeIsSound
    <3>2. CASE t \in records /\ u \in records
      BY <2>1, <2>2, <2>5, <3>2
    <3>3. CASE t \in records /\ u \in p.topology
      BY <2>2, <2>3, <2>5, <3>3
    <3>4. CASE t \in p.topology /\ u \in records
      BY <2>2, <2>3, <2>5, <3>4
    <3> QED
      BY <3>1, <3>2, <3>3, <3>4
  <2>6. ASSUME NEW g \in q.pending, NEW t \in q.topology
        PROVE  g.segment_sequence # t.segment.segment_sequence
    <3>1. CASE t \in p.topology
      BY <1>1, <3>1 DEF TreeIsSound
    <3>2. CASE t \in records
      BY <2>2, <2>4, <3>2
    <3> QED
      BY <3>1, <3>2
  <2> QED
    BY <2>5, <2>6
<1>13. TreeIsSound(q)
  <2>1. \A g \in q.pending : g \in p.pending
    BY <1>1
  <2>2. NumbersOf(Segments(q)) = 0 .. Cardinality(q.pending) + Cardinality(q.topology) - 1
    <3>1. NumbersOf(Segments(p)) = 0 .. Cardinality(p.pending) + Cardinality(p.topology) - 1
      BY DEF TreeIsSound
    <3>2. /\ Cardinality(gone) \in Nat /\ Cardinality(q.pending) \in Nat
          /\ Cardinality(p.topology) \in Nat
          /\ Cardinality(p.pending) = Cardinality(q.pending) + Cardinality(gone)
          /\ Cardinality(q.topology) = Cardinality(p.topology) + Cardinality(gone)
      BY <1>4, <1>6, <1>7
    <3> HIDE DEF gone, records
    <3>3. Cardinality(p.pending) + Cardinality(p.topology) - 1
             = Cardinality(q.pending) + Cardinality(q.topology) - 1
      BY ONLY <3>2
    <3> QED
      BY <1>9, <3>1, <3>3, Zenon
  <2> HIDE DEF gone, records
  <2> QED
    BY <1>3, <1>6, <1>9, <1>11, <1>12, <2>1, <2>2 DEF TreeIsSound
<1> QED
  BY <1>1, <1>4, <1>6, <1>8, <1>9, <1>11, <1>13

(* A number is twice its half, or one more.                                *)
LEMMA HalfOf ==
    ASSUME NEW C \in Nat, NEW y \in 0 .. 2 * C - 1
    PROVE  \E d \in 0 .. C - 1, r \in 0 .. 1 : y = 2 * d + r
<1>1. y \in Nat /\ y <= 2 * C - 1
  OBVIOUS
<1>2. y \div 2 \in Nat /\ 2 * (y \div 2) <= y /\ y <= 2 * (y \div 2) + 1
  BY <1>1
<1>3. y \div 2 \in 0 .. C - 1 /\ y - 2 * (y \div 2) \in 0 .. 1
      /\ y = 2 * (y \div 2) + (y - 2 * (y \div 2))
  BY <1>1, <1>2
<1> QED
  BY <1>3

\* q is p with every pending range, M are their nodes, halved.
SplitsInto(p, q, M, N, half) ==
    /\ M \in SUBSET NodeType
    /\ p.pending = {n.segment : n \in M}
    /\ \A n, m \in M : n.segment = m.segment => n = m
    /\ N = Cardinality(p.topology) + Cardinality(p.pending)
    /\ \A n \in M : half[n] = SplitSegment(n.segment, N + 2 * Rank(n, M)) /\ half[n] # None
    /\ q.pending = {half[n][i] : n \in M, i \in 1 .. 2}
    /\ q.topology = p.topology \cup {SegmentRecord(n, "split") : n \in M}

(* Every pending range is halved: the halves are numbered on, and take the *)
(* place of their parents in the frontier.                                 *)
LEMMA SplitKeepsTree ==
    ASSUME input \in Inputs,
           NEW p \in ProgressType, TreeIsSound(p), NEW q \in ProgressType,
           NEW M, NEW N, NEW half, SplitsInto(p, q, M, N, half)
    PROVE  /\ TreeIsSound(q)
           /\ HoldsEveryKey(p) => HoldsEveryKey(q)
           /\ Cardinality(q.topology) = N
           /\ IsFiniteSet(M) /\ Cardinality(M) = Cardinality(p.pending)
           /\ Cardinality(p.pending) \in Nat /\ N \in Nat
           /\ Cardinality(q.pending) = 2 * Cardinality(p.pending)
           /\ \A n \in M : \A i \in 1 .. 2 :
                 /\ half[n][i].parent = n.segment.segment_sequence
                 /\ half[n][i].depth = n.segment.depth + 1
           /\ \A n \in M : /\ half[n][1].lower_inclusive = n.segment.lower_inclusive
                           /\ half[n][1].upper_exclusive # None
                           /\ half[n][1].upper_exclusive = MathematicalUpper(half[n][1])
                           /\ half[n][2].lower_inclusive = half[n][1].upper_exclusive
                           /\ half[n][2].upper_exclusive = n.segment.upper_exclusive
           /\ \A n, m \in M : \A i, j \in 1 .. 2 : half[n][i] = half[m][j] => n = m /\ i = j
<1> DEFINE place == [n \in M |-> Rank(n, M)]
           v == [n \in M |-> n.segment.segment_sequence]
           C == Cardinality(M)
           rows == {SegmentRecord(n, "split") : n \in M}
<1>0. M \in SUBSET NodeType
  BY DEF SplitsInto
<1> USE <1>0
<1>1. /\ \A n \in M : /\ n.segment \in p.pending /\ n.segment \in SegmentType
                      /\ SoundSegment(n.segment) /\ v[n] \in Nat
                      /\ n.segment.segment_sequence \in Nat
                      /\ n.segment.lower_inclusive \in Int
                      /\ MathematicalUpper(n.segment) \in Int
      /\ \A n, m \in M : v[n] = v[m] => n = m
  <2>1. \A n \in M : n.segment \in p.pending
    BY DEF SplitsInto
  <2>2. \A n \in M : SoundSegment(n.segment)
    BY <2>1 DEF TreeIsSound, Segments
  <2>3. \A n \in M : n.segment \in SegmentType
    BY <2>2 DEF SoundSegment
  <2>4. \A n \in M : /\ n.segment.segment_sequence \in Nat /\ n.segment.lower_inclusive \in Int
                     /\ MathematicalUpper(n.segment) \in Int
    BY <2>3, Bounds
  <2>5. \A n, m \in M : n.segment.segment_sequence = m.segment.segment_sequence => n = m
    BY <2>1 DEF TreeIsSound, SplitsInto
  <2> QED
    BY <2>1, <2>2, <2>3, <2>4, <2>5
<1>2. /\ IsFiniteSet(p.pending) /\ IsFiniteSet(p.topology)
      /\ Cardinality(p.pending) \in Nat /\ Cardinality(p.topology) \in Nat /\ N \in Nat
      /\ N = Cardinality(p.topology) + Cardinality(p.pending)
  <2>1. IsFiniteSet(p.pending) /\ IsFiniteSet(p.topology)
    BY DEF TreeIsSound
  <2>2. Cardinality(p.pending) \in Nat /\ Cardinality(p.topology) \in Nat
    BY <2>1, FS_CardinalityType
  <2>3. N = Cardinality(p.topology) + Cardinality(p.pending)
    BY DEF SplitsInto
  <2> QED
    BY <2>1, <2>2, <2>3
<1>3. IsFiniteSet(M) /\ C = Cardinality(p.pending) /\ C \in Nat
  <2> DEFINE f == [g \in p.pending |-> CHOOSE n \in M : n.segment = g]
  <2>1. \A g \in p.pending : f[g] \in M /\ f[g].segment = g
    BY DEF SplitsInto
  <2>2. \A n \in M : n.segment \in p.pending /\ f[n.segment] = n
    BY <1>1, <2>1 DEF SplitsInto
  <2>3. f \in [p.pending -> M]
    BY <2>1
  <2>4. \A g, h \in p.pending : f[g] = f[h] => g = h
    BY <2>1
  <2>5. \A n \in M : \E g \in p.pending : f[g] = n
    BY <2>2
  <2> HIDE DEF f
  <2> QED
    BY <1>2, <2>3, <2>4, <2>5, SameSize
<1>4. /\ \A n \in M : place[n] \in 0 .. C - 1
      /\ \A n, m \in M : v[n] < v[m] <=> place[n] < place[m]
      /\ \A n, m \in M : place[n] = place[m] => n = m
      /\ \A i \in 0 .. C - 1 : \E n \in M : place[n] = i
  <2>1. \A n \in M : {m \in M : v[m] < v[n]}
                        = {m \in M : m.segment.segment_sequence < n.segment.segment_sequence}
    OBVIOUS
  <2>2. \A n \in M : v[n] \in Int
    BY <1>1
  <2>3. \A n, m \in M : v[n] = v[m] => n = m
    BY <1>1
  <2>4. \A n \in M : place[n] = Cardinality(Below(M, v, n))
    BY <2>1 DEF Rank, Below
  <2> HIDE DEF place, v
  <2> QED
    BY <1>3, <2>2, <2>3, <2>4, Places
<1>5. \A n \in M : Rank(n, M) = place[n] /\ place[n] \in Nat /\ place[n] <= C - 1
  BY <1>3, <1>4
<1> HIDE DEF place, v, C
<1>6. \A n \in M : n.segment.segment_sequence < N
  <2>1. \A n \in M : n.segment.segment_sequence \in NumbersOf(Segments(p))
    BY <1>1 DEF NumbersOf, Segments
  <2>2. NumbersOf(Segments(p)) = 0 .. Cardinality(p.pending) + Cardinality(p.topology) - 1
    BY DEF TreeIsSound
  <2>3. N = Cardinality(p.pending) + Cardinality(p.topology)
    BY <1>2
  <2> QED
    BY <1>1, <1>2, <2>1, <2>2, <2>3
<1>7. ASSUME NEW n \in M
      PROVE  /\ half[n] = <<half[n][1], half[n][2]>>
             /\ \A i \in 1 .. 2 : /\ SoundSegment(half[n][i])
                                  /\ half[n][i].segment_sequence = N + 2 * place[n] + i - 1
                                  /\ half[n][i].parent = n.segment.segment_sequence
                                  /\ half[n][i].depth = n.segment.depth + 1
                                  /\ n.segment.lower_inclusive <= half[n][i].lower_inclusive
                                  /\ MathematicalUpper(half[n][i]) <= MathematicalUpper(n.segment)
             /\ half[n][1].lower_inclusive = n.segment.lower_inclusive
             /\ half[n][1].upper_exclusive # None
             /\ half[n][2].lower_inclusive = half[n][1].upper_exclusive
             /\ half[n][2].upper_exclusive = n.segment.upper_exclusive
             /\ half[n][1].upper_exclusive = MathematicalUpper(half[n][1])
  <2>1. PICK k \in Nat : k = N + 2 * place[n]
    BY <1>2, <1>5
  <2>2. half[n] = SplitSegment(n.segment, k) /\ half[n] # None /\ k > n.segment.segment_sequence
    BY <1>1, <1>2, <1>5, <1>6, <2>1 DEF SplitsInto
  <2>3. SoundSegment(n.segment)
    BY <1>1
  <2>4. \A i \in 1 .. 2 : k + i - 1 = N + 2 * place[n] + i - 1
    BY <2>1
  <2> QED
    BY <2>2, <2>3, <2>4, HalvesOfRange
<1>8. /\ \A g \in q.pending : \E n \in M, i \in 1 .. 2 : g = half[n][i]
      /\ \A n \in M, i \in 1 .. 2 : half[n][i] \in q.pending
  BY DEF SplitsInto
<1>9. \A n \in M, i \in 1 .. 2 : /\ half[n][i] \in q.pending
                                 /\ half[n][i] \in SegmentType
                                 /\ half[n][i].segment_sequence \in N .. N + 2 * C - 1
                                 /\ half[n][i].lower_inclusive \in Int
                                 /\ MathematicalUpper(half[n][i]) \in Int
  <2> SUFFICES ASSUME NEW n \in M, NEW i \in 1 .. 2
               PROVE  /\ half[n][i] \in q.pending
                      /\ half[n][i] \in SegmentType
                      /\ half[n][i].segment_sequence \in N .. N + 2 * C - 1
                      /\ half[n][i].lower_inclusive \in Int
                      /\ MathematicalUpper(half[n][i]) \in Int
    OBVIOUS
  <2>1. half[n][i] \in SegmentType
    BY <1>7 DEF SoundSegment
  <2>2. N + 2 * place[n] + i - 1 \in N .. N + 2 * C - 1
    BY <1>2, <1>3, <1>5
  <2> QED
    BY <1>7, <1>8, <2>1, <2>2, Bounds
<1>10. ASSUME NEW n \in M, NEW m \in M, NEW i \in 1 .. 2, NEW j \in 1 .. 2,
              half[n][i].segment_sequence = half[m][j].segment_sequence
       PROVE  n = m /\ i = j
  <2>1. N + 2 * place[n] + i - 1 = N + 2 * place[m] + j - 1
    BY <1>7, <1>10
  <2>2. place[n] = place[m] /\ i = j
    BY <1>2, <1>5, <2>1
  <2> QED
    BY <1>4, <2>2
<1>20. ASSUME NEW g \in q.pending, NEW h \in q.pending, g.segment_sequence = h.segment_sequence
       PROVE  g = h
  <2>1. PICK n \in M, i \in 1 .. 2 : g = half[n][i]
    BY <1>8
  <2>2. PICK m \in M, j \in 1 .. 2 : h = half[m][j]
    BY <1>8
  <2> QED
    BY <1>10, <1>20, <2>1, <2>2
<1>21. ASSUME NEW g \in q.pending
       PROVE  /\ g.segment_sequence \in N .. N + 2 * C - 1
              /\ g.segment_sequence \in Nat
  <2>1. PICK n \in M, i \in 1 .. 2 : g = half[n][i]
    BY <1>8
  <2> QED
    BY <1>2, <1>9, <2>1
<1>11. \A x \in N .. N + 2 * C - 1 : \E g \in q.pending : g.segment_sequence = x
  <2> SUFFICES ASSUME NEW x \in N .. N + 2 * C - 1
               PROVE  \E g \in q.pending : g.segment_sequence = x
    OBVIOUS
  <2>1. PICK d \in 0 .. C - 1, i \in 1 .. 2 : x = N + 2 * d + i - 1
    <3>1. PICK y \in 0 .. 2 * C - 1 : y = x - N
      BY <1>2, <1>3
    <3>3. PICK d \in 0 .. C - 1, r \in 0 .. 1 : y = 2 * d + r
      BY <1>3, HalfOf
    <3>4. r + 1 \in 1 .. 2 /\ x = N + 2 * d + (r + 1) - 1
      BY <1>2, <1>3, <3>1, <3>3
    <3> QED
      BY <3>4
  <2>2. PICK n \in M : place[n] = d
    BY <1>4
  <2> QED
    BY <1>7, <1>9, <2>1, <2>2
<1>12. IsFiniteSet(q.pending) /\ Cardinality(q.pending) = 2 * C
  <2> DEFINE f == [x \in N .. N + 2 * C - 1 |-> CHOOSE g \in q.pending : g.segment_sequence = x]
  <2>1. \A x \in N .. N + 2 * C - 1 : f[x] \in q.pending /\ f[x].segment_sequence = x
    BY <1>11
  <2>2. f \in [N .. N + 2 * C - 1 -> q.pending]
    BY <2>1
  <2>3. \A x, y \in N .. N + 2 * C - 1 : f[x] = f[y] => x = y
    BY <2>1
  <2>4. \A g \in q.pending : g.segment_sequence \in N .. N + 2 * C - 1
    BY <1>21
  <2>5. \A g, h \in q.pending : g.segment_sequence = h.segment_sequence => g = h
    BY <1>20
  <2>6. \A g \in q.pending : f[g.segment_sequence] = g
    BY <2>1, <2>4, <2>5
  <2>7. \A g \in q.pending : \E x \in N .. N + 2 * C - 1 : f[x] = g
    BY <2>4, <2>6
  <2>8. /\ IsFiniteSet(N .. N + 2 * C - 1)
        /\ Cardinality(N .. N + 2 * C - 1) = 2 * C
    <3>1. PICK a \in Int, b \in Int : a = N /\ b = N + 2 * C - 1
      BY <1>2, <1>3
    <3>2. IsFiniteSet(a .. b) /\ Cardinality(a .. b) = IF a > b THEN 0 ELSE b - a + 1
      BY FS_Interval
    <3>3. (IF a > b THEN 0 ELSE b - a + 1) = 2 * C
      BY <1>2, <1>3, <3>1
    <3> QED
      BY <3>1, <3>2, <3>3
  <2> DEFINE numbers == N .. N + 2 * C - 1
  <2>9. /\ f \in [numbers -> q.pending] /\ \A x, y \in numbers : f[x] = f[y] => x = y
        /\ \A g \in q.pending : \E x \in numbers : f[x] = g
        /\ IsFiniteSet(numbers) /\ Cardinality(numbers) = 2 * C
    BY <2>2, <2>3, <2>7, <2>8
  <2> HIDE DEF f, numbers
  <2> QED
    BY <2>9, SameSize
<1>13. /\ IsFiniteSet(q.topology) /\ Cardinality(q.topology) = N
  <2>1. \A n \in M : SegmentRecord(n, "split").segment = n.segment
    BY DEF SegmentRecord
  <2>2. IsFiniteSet(rows) /\ Cardinality(rows) = C
    <3> DEFINE r == [n \in M |-> SegmentRecord(n, "split")]
    <3>1. /\ r \in [M -> rows] /\ \A n, m \in M : r[n] = r[m] => n = m
          /\ \A z \in rows : \E n \in M : r[n] = z
      <4>1. \A n, m \in M : SegmentRecord(n, "split") = SegmentRecord(m, "split") => n = m
        BY <2>1 DEF SplitsInto
      <4> QED
        BY <4>1
    <3> HIDE DEF r, rows
    <3> QED
      BY <1>3, <3>1, SameSize DEF C
  <2>3. rows \cap p.topology = {}
    <3>1. \A n \in M, t \in p.topology : n.segment.segment_sequence # t.segment.segment_sequence
      BY <1>1 DEF TreeIsSound
    <3> QED
      BY <2>1, <3>1
  <2> HIDE DEF rows
  <2>4. IsFiniteSet(p.topology \cup rows)
        /\ Cardinality(p.topology \cup rows) = Cardinality(p.topology) + Cardinality(rows)
    BY <1>2, <2>2, <2>3, SizeOfUnion
  <2>5. q.topology = p.topology \cup rows
    BY DEF rows, SplitsInto
  <2> QED
    BY <1>2, <1>3, <2>2, <2>4, <2>5
<1>14. /\ Resolved(q) = Resolved(p)
       /\ {t.segment : t \in q.topology} = Segments(p)
  <2>1. \A n \in M : /\ SegmentRecord(n, "split").segment = n.segment
                     /\ SegmentRecord(n, "split").state = "split"
    BY DEF SegmentRecord
  <2>2. "split" \notin TerminalStates
    BY DEF TerminalStates
  <2> QED
    BY <2>1, <2>2 DEF Resolved, Segments, SplitsInto
<1>15. \A g \in q.pending : SoundSegment(g)
  BY <1>7, <1>8
<1>16. ASSUME NEW g \in q.pending, NEW h \in q.pending,
              g.segment_sequence < h.segment_sequence
       PROVE  MathematicalUpper(g) <= h.lower_inclusive
  <2>1. PICK n \in M, i \in 1 .. 2 : g = half[n][i]
    BY <1>8
  <2>2. PICK m \in M, j \in 1 .. 2 : h = half[m][j]
    BY <1>8
  <2>3. N + 2 * place[n] + i - 1 < N + 2 * place[m] + j - 1
    BY <1>7, <1>16, <2>1, <2>2
  <2>4. CASE n = m
    <3>1. i = 1 /\ j = 2
      BY <1>2, <1>5, <2>3, <2>4
    <3>2. MathematicalUpper(g) = h.lower_inclusive
      BY <1>7, <2>1, <2>2, <2>4, <3>1
    <3> QED
      BY <1>9, <2>1, <2>2, <3>2
  <2>5. CASE n # m
    <3>1. place[n] < place[m]
      BY <1>2, <1>4, <1>5, <2>3, <2>5
    <3>2. n.segment.segment_sequence < m.segment.segment_sequence
      BY <1>4, <3>1 DEF v
    <3>3. MathematicalUpper(n.segment) <= m.segment.lower_inclusive
      BY <1>1, <3>2 DEF TreeIsSound
    <3>4. MathematicalUpper(g) <= MathematicalUpper(n.segment)
          /\ m.segment.lower_inclusive <= h.lower_inclusive
      BY <1>7, <2>1, <2>2
    <3> QED
      BY <1>1, <1>9, <2>1, <2>2, <3>3, <3>4
  <2> QED
    BY <2>4, <2>5
<1>17. ASSUME NEW g \in Frontier(q), NEW h \in Frontier(q), g # h
       PROVE  Apart(g, h)
  <2>1. CASE g \in q.pending /\ h \in q.pending
    <3>1. g.segment_sequence # h.segment_sequence
      BY <1>17, <1>20, <2>1
    <3>2. g.segment_sequence \in Nat /\ h.segment_sequence \in Nat
      BY <1>21, <2>1
    <3>3. g.segment_sequence < h.segment_sequence \/ h.segment_sequence < g.segment_sequence
      BY <3>1, <3>2
    <3> QED
      BY <1>16, <2>1, <3>3 DEF Apart
  <2>2. ASSUME NEW a \in q.pending, NEW b \in Resolved(p)
        PROVE  Apart(a, b) /\ Apart(b, a)
    <3>1. PICK n \in M, i \in 1 .. 2 : a = half[n][i]
      BY <1>8
    <3>2. n.segment \in p.pending /\ n.segment # b
      <4>1. PICK t \in p.topology : b = t.segment
        BY DEF Resolved
      <4> QED
        BY <1>1, <4>1 DEF TreeIsSound
    <3>3. Apart(n.segment, b) /\ b \in Segments(p)
      BY <3>2 DEF TreeIsSound, Frontier, Segments, Resolved
    <3>4. b.lower_inclusive \in Int /\ MathematicalUpper(b) \in Int
      <4>1. b \in SegmentType
        BY <3>3 DEF TreeIsSound, SoundSegment
      <4> QED
        BY <4>1, Bounds
    <3>5. /\ n.segment.lower_inclusive <= a.lower_inclusive
          /\ MathematicalUpper(a) <= MathematicalUpper(n.segment)
      BY <1>7, <3>1
    <3> QED
      BY <1>1, <1>9, <3>1, <3>3, <3>4, <3>5 DEF Apart
  <2>3. CASE g \in Resolved(p) /\ h \in Resolved(p)
    BY <1>17, <2>3 DEF TreeIsSound, Frontier
  <2> QED
    BY <1>14, <2>1, <2>2, <2>3 DEF Frontier
<1>18. ASSUME HoldsEveryKey(p)
       PROVE  HoldsEveryKey(q)
  <2> SUFFICES ASSUME NEW k \in AllKeys
               PROVE  \E g \in Frontier(q) : InRange(k, g)
    BY DEF HoldsEveryKey
  <2>1. PICK g \in Frontier(p) : InRange(k, g)
    BY <1>18 DEF HoldsEveryKey
  <2>2. CASE g \in Resolved(p)
    BY <1>14, <2>1, <2>2 DEF Frontier
  <2>3. CASE g \in p.pending
    <3>1. PICK n \in M : g = n.segment
      BY <2>3 DEF SplitsInto
    <3>2. InRange(k, half[n][1]) \/ InRange(k, half[n][2])
      <4>1. /\ half[n][1].lower_inclusive = g.lower_inclusive
            /\ half[n][2].lower_inclusive = MathematicalUpper(half[n][1])
            /\ MathematicalUpper(half[n][2]) = MathematicalUpper(g)
        BY <1>7, <3>1 DEF MathematicalUpper
      <4>2. g.lower_inclusive <= k /\ k < MathematicalUpper(g)
        BY <2>1 DEF InRange
      <4>3. MathematicalUpper(half[n][1]) \in Int
        BY <1>9
      <4>4. CASE k < MathematicalUpper(half[n][1])
        BY <4>1, <4>2, <4>4 DEF InRange
      <4>5. CASE ~ k < MathematicalUpper(half[n][1])
        <5>1. k \in Int
          BY Arguments, KeyAssumption DEF AllKeys, ReferenceRows, TargetRows, Sides, Key
        <5> QED
          BY <4>1, <4>2, <4>3, <4>5, <5>1 DEF InRange
      <4> QED
        BY <4>4, <4>5
    <3> QED
      BY <1>9, <3>2 DEF Frontier
  <2> QED
    BY <2>1, <2>2, <2>3 DEF Frontier
<1>19. TreeIsSound(q)
  <2>1. \A g \in Segments(q) : SoundSegment(g)
    BY <1>14, <1>15 DEF TreeIsSound, Segments
  <2>2. \A g, h \in q.pending : g.segment_sequence = h.segment_sequence => g = h
    BY <1>20
  <2>3. \A t \in q.topology : t \in p.topology \/ \E n \in M : t = SegmentRecord(n, "split")
    BY DEF SplitsInto
  <2>4. \A n \in M : SegmentRecord(n, "split").segment = n.segment
    BY DEF SegmentRecord
  <2>5. \A t, u \in q.topology : t.segment.segment_sequence = u.segment.segment_sequence => t = u
    <3>1. \A n, m \in M : n.segment.segment_sequence = m.segment.segment_sequence => n = m
      BY <1>1 DEF v
    <3>2. \A n \in M, t \in p.topology : n.segment.segment_sequence # t.segment.segment_sequence
      BY <1>1 DEF TreeIsSound
    <3>3. \A t, u \in p.topology : t.segment.segment_sequence = u.segment.segment_sequence => t = u
      BY DEF TreeIsSound
    <3> QED
      BY <2>3, <2>4, <3>1, <3>2, <3>3
  <2>6. \A t \in q.topology : t.segment.segment_sequence \in 0 .. N - 1
    <3>1. \A t \in q.topology : t.segment.segment_sequence \in NumbersOf(Segments(p))
      BY <1>14 DEF NumbersOf
    <3>2. NumbersOf(Segments(p)) = 0 .. Cardinality(p.pending) + Cardinality(p.topology) - 1
      BY DEF TreeIsSound
    <3>3. Cardinality(p.pending) + Cardinality(p.topology) - 1 = N - 1
      BY <1>2
    <3> QED
      BY <3>1, <3>2, <3>3
  <2>7. \A g \in q.pending : g.segment_sequence \in N .. N + 2 * C - 1
    BY <1>21
  <2>8. \A g \in q.pending, t \in q.topology : g.segment_sequence # t.segment.segment_sequence
    <3> SUFFICES ASSUME NEW g \in q.pending, NEW t \in q.topology
                 PROVE  g.segment_sequence # t.segment.segment_sequence
      OBVIOUS
    <3> QED
      BY <1>2, <1>3, <2>6, <2>7
  <2>9. NumbersOf(Segments(q)) = 0 .. Cardinality(q.pending) + Cardinality(q.topology) - 1
    <3>1. NumbersOf({t.segment : t \in q.topology}) = 0 .. N - 1
      <4>1. NumbersOf(Segments(p)) = 0 .. Cardinality(p.pending) + Cardinality(p.topology) - 1
        BY DEF TreeIsSound
      <4>2. Cardinality(p.pending) + Cardinality(p.topology) - 1 = N - 1
        BY <1>2
      <4> QED
        BY <1>14, <4>1, <4>2
    <3>2. NumbersOf(q.pending) = N .. N + 2 * C - 1
      BY <1>11, <2>7 DEF NumbersOf
    <3>3. NumbersOf(Segments(q))
            = NumbersOf(q.pending) \cup NumbersOf({t.segment : t \in q.topology})
      BY DEF NumbersOf, Segments
    <3>4. (N .. N + 2 * C - 1) \cup (0 .. N - 1) = 0 .. N + 2 * C - 1
      BY <1>2, <1>3
    <3>5. Cardinality(q.pending) + Cardinality(q.topology) - 1 = N + 2 * C - 1
      BY <1>2, <1>3, <1>12, <1>13
    <3> QED
      BY <3>1, <3>2, <3>3, <3>4, <3>5
  <2> QED
    BY <1>12, <1>13, <1>16, <1>17, <2>1, <2>2, <2>5, <2>8, <2>9 DEF TreeIsSound
<1> QED
  BY <1>2, <1>3, <1>7, <1>10, <1>12, <1>13, <1>18, <1>19 DEF C

(* The fields of a progress.                                               *)
LEMMA ProgressFields ==
    ASSUME NEW p \in ProgressType
    PROVE  DOMAIN p = {"pending", "topology", "exact_counts", "pruned_matched", "pruned_segments",
                       "exact_segments", "summaries_verified", "mismatch_witnesses",
                       "fingerprint_nodes", "anomalies", "found_records", "found_bytes",
                       "retained_bytes", "retention_open"}
  BY DEF ProgressType

\* One batch pruned.
PrunedTo(p, q, t, g, m, c) ==
    /\ p \in ProgressType
    /\ t \in SUBSET RecordType /\ g \in SUBSET SegmentType
    /\ m \in Nat /\ c \in Nat
    /\ q = [p EXCEPT !.topology = t, !.pending = g, !.pruned_matched = m,
                      !.pruned_segments = c]

(* One batch pruned.                                                       *)
LEMMA PrunedFields ==
    ASSUME NEW p, NEW q, NEW t, NEW g, NEW m, NEW c, PrunedTo(p, q, t, g, m, c)
    PROVE  /\ q \in ProgressType
           /\ q.topology = t /\ q.pending = g /\ q.pruned_matched = m /\ q.pruned_segments = c
           /\ q.exact_counts = p.exact_counts /\ q.exact_segments = p.exact_segments
           /\ q.summaries_verified = p.summaries_verified
           /\ q.mismatch_witnesses = p.mismatch_witnesses
           /\ q.fingerprint_nodes = p.fingerprint_nodes /\ q.anomalies = p.anomalies
           /\ q.found_records = p.found_records /\ q.found_bytes = p.found_bytes
           /\ q.retained_bytes = p.retained_bytes /\ q.retention_open = p.retention_open
<1>1. /\ p \in ProgressType
      /\ t \in SUBSET RecordType /\ g \in SUBSET SegmentType
      /\ m \in Nat /\ c \in Nat
      /\ q = [p EXCEPT !.topology = t, !.pending = g, !.pruned_matched = m,
                        !.pruned_segments = c]
  BY DEF PrunedTo
<1> QED
  BY <1>1 DEF ProgressType

\* The pending ranges split.
SplitTo(p, q, t, g, w) ==
    /\ p \in ProgressType
    /\ t \in SUBSET RecordType /\ g \in SUBSET SegmentType
    /\ w \in SUBSET NodeType
    /\ q = [p EXCEPT !.topology = t, !.pending = g, !.mismatch_witnesses = w]

(* The pending ranges split.                                               *)
LEMMA SplitFields ==
    ASSUME NEW p, NEW q, NEW t, NEW g, NEW w, SplitTo(p, q, t, g, w)
    PROVE  /\ q \in ProgressType
           /\ q.topology = t /\ q.pending = g /\ q.mismatch_witnesses = w
           /\ q.exact_counts = p.exact_counts /\ q.exact_segments = p.exact_segments
           /\ q.pruned_matched = p.pruned_matched /\ q.pruned_segments = p.pruned_segments
           /\ q.summaries_verified = p.summaries_verified
           /\ q.fingerprint_nodes = p.fingerprint_nodes /\ q.anomalies = p.anomalies
           /\ q.found_records = p.found_records /\ q.found_bytes = p.found_bytes
           /\ q.retained_bytes = p.retained_bytes /\ q.retention_open = p.retention_open
<1>1. /\ p \in ProgressType
      /\ t \in SUBSET RecordType /\ g \in SUBSET SegmentType
      /\ w \in SUBSET NodeType
      /\ q = [p EXCEPT !.topology = t, !.pending = g, !.mismatch_witnesses = w]
  BY DEF SplitTo
<1> QED
  BY <1>1 DEF ProgressType

\* A leaf compared row by row.
LeafTo(p, q, x, c, t, g, w) ==
    /\ p \in ProgressType
    /\ x \in Counts /\ c \in Nat
    /\ t \in SUBSET RecordType /\ g \in SUBSET SegmentType
    /\ w \in SUBSET NodeType
    /\ q = [p EXCEPT !.exact_counts = x, !.exact_segments = c, !.topology = t,
                      !.pending = g, !.mismatch_witnesses = w]

(* A leaf compared row by row.                                             *)
LEMMA LeafFields ==
    ASSUME NEW p, NEW q, NEW x, NEW c, NEW t, NEW g, NEW w, LeafTo(p, q, x, c, t, g, w)
    PROVE  /\ q \in ProgressType
           /\ q.exact_counts = x /\ q.exact_segments = c
           /\ q.topology = t /\ q.pending = g /\ q.mismatch_witnesses = w
           /\ q.pruned_matched = p.pruned_matched /\ q.pruned_segments = p.pruned_segments
           /\ q.summaries_verified = p.summaries_verified
           /\ q.fingerprint_nodes = p.fingerprint_nodes /\ q.anomalies = p.anomalies
           /\ q.found_records = p.found_records /\ q.found_bytes = p.found_bytes
           /\ q.retained_bytes = p.retained_bytes /\ q.retention_open = p.retention_open
<1>1. /\ p \in ProgressType
      /\ x \in Counts /\ c \in Nat
      /\ t \in SUBSET RecordType /\ g \in SUBSET SegmentType
      /\ w \in SUBSET NodeType
      /\ q = [p EXCEPT !.exact_counts = x, !.exact_segments = c, !.topology = t,
                        !.pending = g, !.mismatch_witnesses = w]
  BY DEF LeafTo
<1> QED
  BY <1>1 DEF ProgressType

\* Its differences retained.
RetainedTo(p, q, r, b, o, a, k) ==
    /\ p \in ProgressType
    /\ r \in Nat /\ b \in Nat /\ o \in BOOLEAN
    /\ a \in Seq(AnomalyType) /\ k \in Nat
    /\ q = [p EXCEPT !.found_records = r, !.found_bytes = b, !.retention_open = o,
                      !.anomalies = a, !.retained_bytes = k]

(* Its differences retained.                                               *)
LEMMA RetainedFields ==
    ASSUME NEW p, NEW q, NEW r, NEW b, NEW o, NEW a, NEW k, RetainedTo(p, q, r, b, o, a, k)
    PROVE  /\ q \in ProgressType
           /\ q.found_records = r /\ q.found_bytes = b /\ q.retention_open = o
           /\ q.anomalies = a /\ q.retained_bytes = k
           /\ q.exact_counts = p.exact_counts /\ q.exact_segments = p.exact_segments
           /\ q.topology = p.topology /\ q.pending = p.pending
           /\ q.mismatch_witnesses = p.mismatch_witnesses
           /\ q.pruned_matched = p.pruned_matched /\ q.pruned_segments = p.pruned_segments
           /\ q.summaries_verified = p.summaries_verified
           /\ q.fingerprint_nodes = p.fingerprint_nodes
<1>1. /\ p \in ProgressType
      /\ r \in Nat /\ b \in Nat /\ o \in BOOLEAN
      /\ a \in Seq(AnomalyType) /\ k \in Nat
      /\ q = [p EXCEPT !.found_records = r, !.found_bytes = b, !.retention_open = o,
                        !.anomalies = a, !.retained_bytes = k]
  BY DEF RetainedTo
<1> QED
  BY <1>1 DEF ProgressType

-----------------------------------------------------------------------------
(* Keys in ascending order *)

(* A finite set of keys in ascending order: each key has its rank.         *)
LEMMA AscendingOrder ==
    ASSUME NEW S, IsFiniteSet(S), S \subseteq Int
    PROVE  /\ Cardinality(S) \in Nat
           /\ DOMAIN Ascending(S) = 1 .. Cardinality(S)
           /\ Ascending(S) \in [1 .. Cardinality(S) -> S]
           /\ Ascending(S) \in Seq(S) /\ Len(Ascending(S)) = Cardinality(S)
           /\ \A i \in 1 .. Cardinality(S) :
                 Cardinality({m \in S : m < Ascending(S)[i]}) = i - 1
           /\ \A i, j \in 1 .. Cardinality(S) : i < j <=> Ascending(S)[i] < Ascending(S)[j]
           /\ \A k \in S : \E i \in 1 .. Cardinality(S) : Ascending(S)[i] = k
           /\ \A f \in [1 .. Cardinality(S) -> S] :
                 (\A i \in 1 .. Cardinality(S) : Cardinality({m \in S : m < f[i]}) = i - 1)
                    => f = Ascending(S)
<1> DEFINE C == Cardinality(S)
           v == [k \in S |-> k]
           place == [k \in S |-> Cardinality({m \in S : m < k})]
           asc == Ascending(S)
<1>1. /\ C \in Nat
      /\ \A k \in S : place[k] \in 0 .. C - 1
      /\ \A x, y \in S : x < y <=> place[x] < place[y]
      /\ \A x, y \in S : place[x] = place[y] => x = y
      /\ \A i \in 0 .. C - 1 : \E x \in S : place[x] = i
  <2>1. \A x \in S : v[x] \in Int
    OBVIOUS
  <2>2. \A x, y \in S : v[x] = v[y] => x = y
    OBVIOUS
  <2>3. \A x \in S : place[x] = Cardinality(Below(S, v, x))
    <3>1. \A x \in S : Below(S, v, x) = {m \in S : m < x}
      BY DEF Below
    <3> QED
      BY <3>1
  <2>4. /\ Cardinality(S) \in Nat
        /\ \A x \in S : place[x] \in 0 .. Cardinality(S) - 1
        /\ \A x, y \in S : v[x] < v[y] <=> place[x] < place[y]
        /\ \A x, y \in S : place[x] = place[y] => x = y
        /\ \A i \in 0 .. Cardinality(S) - 1 : \E x \in S : place[x] = i
    <3> HIDE DEF place, v, C, asc
    <3>0. IsFiniteSet(S)
      OBVIOUS
    <3>1. Cardinality(S) \in Nat /\ \A x \in S : place[x] \in 0 .. Cardinality(S) - 1
      BY ONLY <2>1, <2>2, <2>3, <3>0, Places
    <3>2. \A x, y \in S : v[x] < v[y] <=> place[x] < place[y]
      BY ONLY <2>1, <2>2, <2>3, <3>0, Places
    <3>3. \A x, y \in S : place[x] = place[y] => x = y
      BY ONLY <2>1, <2>2, <2>3, <3>0, Places
    <3>4. \A i \in 0 .. Cardinality(S) - 1 : \E x \in S : place[x] = i
      BY ONLY <2>1, <2>2, <2>3, <3>0, Places
    <3> QED
      BY <3>1, <3>2, <3>3, <3>4
  <2>5. \A x, y \in S : x < y <=> place[x] < place[y]
    <3> SUFFICES ASSUME NEW x \in S, NEW y \in S
                 PROVE  x < y <=> place[x] < place[y]
      OBVIOUS
    <3>1. v[x] = x /\ v[y] = y
      OBVIOUS
    <3>2. v[x] < v[y] <=> place[x] < place[y]
      <4> HIDE DEF place, v
      <4>1. \A a, b \in S : v[a] < v[b] <=> place[a] < place[b]
        BY <2>4
      <4> QED
        BY <4>1, Zenon
    <3>3. x < y <=> v[x] < v[y]
      BY <3>1
    <3> HIDE DEF place, v
    <3> QED
      BY <3>2, <3>3
  <2> HIDE DEF place
  <2> QED
    BY <2>4, <2>5
<1>2. asc = [i \in 1 .. C |-> CHOOSE k \in S : place[k] = i - 1]
  <2>1. \A i \in 1 .. C : (CHOOSE k \in S : place[k] = i - 1)
                            = CHOOSE k \in S : Cardinality({m \in S : m < k}) = i - 1
    OBVIOUS
  <2> QED
    BY <2>1 DEF Ascending
<1>3. \A i \in 1 .. C : asc[i] \in S /\ place[asc[i]] = i - 1
  <2> SUFFICES ASSUME NEW i \in 1 .. C
               PROVE  asc[i] \in S /\ place[asc[i]] = i - 1
    OBVIOUS
  <2> HIDE DEF place, C
  <2>1. i - 1 \in 0 .. C - 1
    BY <1>1
  <2>2. \E k \in S : place[k] = i - 1
    BY <1>1, <2>1
  <2> HIDE DEF asc
  <2> QED
    BY <1>2, <2>2
<1>4. /\ DOMAIN asc = 1 .. C /\ asc \in [1 .. C -> S]
      /\ asc \in Seq(S) /\ Len(asc) = C
  <2>1. DOMAIN asc = 1 .. C /\ asc \in [1 .. C -> S]
    <3> HIDE DEF asc, place, C
    <3> QED
      BY <1>2, <1>3
  <2> HIDE DEF asc, C
  <2> QED
    BY <1>1, <2>1
<1>5. \A i \in 1 .. C : Cardinality({m \in S : m < asc[i]}) = i - 1
  <2>1. \A k \in S : place[k] = Cardinality({m \in S : m < k})
    OBVIOUS
  <2> HIDE DEF asc, place, C
  <2> QED
    BY <1>3, <2>1
<1>6. \A i, j \in 1 .. C : i < j <=> asc[i] < asc[j]
  <2> SUFFICES ASSUME NEW i \in 1 .. C, NEW j \in 1 .. C
               PROVE  i < j <=> asc[i] < asc[j]
    OBVIOUS
  <2> HIDE DEF asc, place, C
  <2>1. asc[i] \in S /\ asc[j] \in S /\ place[asc[i]] = i - 1 /\ place[asc[j]] = j - 1
    BY <1>3
  <2>2. asc[i] < asc[j] <=> place[asc[i]] < place[asc[j]]
    BY <1>1, <2>1
  <2>3. i \in Int /\ j \in Int
    BY <1>1
  <2> QED
    BY <2>1, <2>2, <2>3
<1>7. \A k \in S : \E i \in 1 .. C : asc[i] = k
  <2> HIDE DEF asc, place, C
  <2> SUFFICES ASSUME NEW k \in S
               PROVE  \E i \in 1 .. C : asc[i] = k
    OBVIOUS
  <2>1. place[k] + 1 \in 1 .. C /\ place[k] \in Int
    BY <1>1
  <2>2. place[asc[place[k] + 1]] = place[k] /\ asc[place[k] + 1] \in S
    BY <1>3, <2>1
  <2>3. asc[place[k] + 1] = k
    BY <1>1, <2>2
  <2> QED
    BY <2>1, <2>3
<1>8. ASSUME NEW f \in [1 .. C -> S],
             \A i \in 1 .. C : Cardinality({m \in S : m < f[i]}) = i - 1
      PROVE  f = asc
  <2>1. \A k \in S : place[k] = Cardinality({m \in S : m < k})
    OBVIOUS
  <2> HIDE DEF asc, place, C
  <2>2. \A i \in 1 .. C : f[i] \in S /\ place[f[i]] = i - 1
    BY <1>8, <2>1
  <2>3. ASSUME NEW i \in 1 .. C
        PROVE  f[i] = asc[i]
    <3>1. f[i] \in S /\ asc[i] \in S /\ place[f[i]] = place[asc[i]]
      BY <1>3, <2>2
    <3> QED
      BY <1>1, <3>1
  <2> QED
    BY <1>4, <2>3
<1> QED
  BY <1>1, <1>4, <1>5, <1>6, <1>7, <1>8

(* Keys below all others come first.                                       *)
LEMMA AscendingJoins ==
    ASSUME NEW A, IsFiniteSet(A), A \subseteq Int, NEW B, IsFiniteSet(B), B \subseteq Int,
           \A a \in A, b \in B : a < b
    PROVE  Ascending(A \cup B) = Ascending(A) \o Ascending(B)
<1> DEFINE S == A \cup B
           f == Ascending(A) \o Ascending(B)
           c == Cardinality(A)
           d == Cardinality(B)
<1>1. A \cap B = {}
  <2>1. \A x \in Int : ~ x < x
    OBVIOUS
  <2> QED
    BY <2>1
<1>2. IsFiniteSet(S) /\ S \subseteq Int /\ Cardinality(S) = c + d /\ c \in Nat /\ d \in Nat
  BY <1>1, SizeOfUnion
<1>3. /\ Ascending(A) \in Seq(A) /\ Len(Ascending(A)) = c /\ Ascending(A) \in [1 .. c -> A]
      /\ Ascending(B) \in Seq(B) /\ Len(Ascending(B)) = d /\ Ascending(B) \in [1 .. d -> B]
      /\ \A i \in 1 .. c : Cardinality({m \in A : m < Ascending(A)[i]}) = i - 1
      /\ \A i \in 1 .. d : Cardinality({m \in B : m < Ascending(B)[i]}) = i - 1
  BY AscendingOrder
<1> HIDE DEF S, c, d
<1>4. /\ DOMAIN f = 1 .. c + d
      /\ \A i \in 1 .. c : f[i] = Ascending(A)[i]
      /\ \A i \in 1 .. d : f[c + i] = Ascending(B)[i]
      /\ f \in [1 .. c + d -> S]
  <2>1. Ascending(A) \in Seq(S) /\ Ascending(B) \in Seq(S)
    BY <1>3 DEF S
  <2>2. Len(f) = c + d /\ f \in Seq(S)
    BY <1>2, <1>3, <2>1
  <2>3. DOMAIN f = 1 .. c + d /\ f \in [1 .. c + d -> S]
    <3> HIDE DEF f
    <3> QED
      BY <1>2, <2>2
  <2>4. \A i \in 1 .. c : f[i] = Ascending(A)[i]
    BY <1>2, <1>3, <2>1
  <2>5. \A i \in 1 .. d : f[c + i] = Ascending(B)[i]
    BY ONLY <1>2, <1>3, <2>1
  <2> QED
    BY <2>3, <2>4, <2>5
<1> HIDE DEF f
<1>5. ASSUME NEW i \in 1 .. c + d
      PROVE  Cardinality({m \in S : m < f[i]}) = i - 1
  <2>1. CASE i \in 1 .. c
    <3>1. f[i] = Ascending(A)[i] /\ f[i] \in A
      BY <1>3, <1>4, <2>1
    <3>2. ASSUME NEW b \in B
          PROVE  ~ b < f[i]
      <4>1. f[i] < b /\ f[i] \in Int /\ b \in Int
        BY <3>1
      <4> QED
        BY <4>1
    <3>3. {m \in S : m < f[i]} = {m \in A : m < Ascending(A)[i]}
      BY <3>1, <3>2 DEF S
    <3> QED
      BY <1>3, <2>1, <3>3
  <2>2. CASE i \notin 1 .. c
    <3>1. PICK j \in 1 .. d : i = c + j
      <4>1. i - c \in 1 .. d /\ i = c + (i - c)
        BY <1>2, <2>2
      <4> QED
        BY <4>1
    <3>2. f[i] = Ascending(B)[j] /\ f[i] \in B
      BY <1>3, <1>4, <3>1
    <3> DEFINE below == {m \in B : m < f[i]}
    <3>3. {m \in S : m < f[i]} = A \cup below
      BY <3>2 DEF S
    <3>4. below \subseteq B /\ A \cap below = {}
      BY <1>1
    <3>5. Cardinality(below) = j - 1
      BY <1>3, <3>2
    <3> HIDE DEF below
    <3>6. IsFiniteSet(below)
      BY <3>4, FS_Subset
    <3>7. Cardinality(A \cup below) = c + (j - 1)
      BY <3>4, <3>5, <3>6, SizeOfUnion DEF c
    <3>8. c + (j - 1) = i - 1
      BY <1>2, <3>1
    <3> QED
      BY <3>3, <3>7, <3>8
  <2> QED
    BY <2>1, <2>2
<1>6. f \in [1 .. Cardinality(S) -> S]
      /\ \A i \in 1 .. Cardinality(S) : Cardinality({m \in S : m < f[i]}) = i - 1
  BY <1>2, <1>4, <1>5
<1>7. f = Ascending(S)
  <2>1. \A h \in [1 .. Cardinality(S) -> S] :
           (\A i \in 1 .. Cardinality(S) : Cardinality({m \in S : m < h[i]}) = i - 1)
              => h = Ascending(S)
    BY ONLY <1>2, AscendingOrder
  <2> HIDE DEF f
  <2> QED
    BY ONLY <1>6, <2>1
<1> QED
  BY <1>7 DEF S, f

(* One key.                                                                *)
LEMMA AscendingOne ==
    ASSUME NEW k \in Int
    PROVE  Ascending({k}) = <<k>>
<1>1. IsFiniteSet({k}) /\ Cardinality({k}) = 1
  BY FS_Singleton
<1>2. Ascending({k}) \in Seq({k}) /\ Len(Ascending({k})) = 1
  BY <1>1, AscendingOrder
<1> QED
  BY <1>2

-----------------------------------------------------------------------------
(* The merge of two ascending sequences of rows *)

\* The kind of a key of A or B, the keys of either side.
KindAmong(A, B, k) ==
    IF k \notin B THEN "missing"
    ELSE IF k \notin A THEN "extra"
    ELSE IF ReferenceRows[k] = TargetRows[k] THEN "matched" ELSE "modified"

\* The keys of a kind, those that differ, and these in order.
OfKind(A, B, kind) == {k \in A \cup B : KindAmong(A, B, k) = kind}
Unequal(A, B) == {k \in A \cup B : KindAmong(A, B, k) # "matched"}
DifferencesAmong(A, B) ==
    [i \in 1 .. Cardinality(Unequal(A, B)) |->
        [kind |-> KindAmong(A, B, Ascending(Unequal(A, B))[i]),
         key |-> Ascending(Unequal(A, B))[i]]]

\* What a merge is to find: the keys of each kind counted, and those that
\* differ in ascending order.
FoundAmong(A, B) ==
    [counts |-> [kind \in Kinds \cup {"matched"} |-> Cardinality(OfKind(A, B, kind))],
     differences |-> DifferencesAmong(A, B)]

\* A difference a merge finds.
DifferenceType == [kind : Kinds, key : Int]

(* Of two finite sets of keys.                                             *)
LEMMA FoundIsTyped ==
    ASSUME NEW A, IsFiniteSet(A), A \subseteq Int, NEW B, IsFiniteSet(B), B \subseteq Int
    PROVE  /\ \A kind : IsFiniteSet(OfKind(A, B, kind)) /\ Cardinality(OfKind(A, B, kind)) \in Nat
           /\ IsFiniteSet(Unequal(A, B)) /\ Unequal(A, B) \subseteq Int
           /\ Cardinality(Unequal(A, B)) \in Nat
           /\ FoundAmong(A, B).counts \in Counts
           /\ FoundAmong(A, B).differences = DifferencesAmong(A, B)
           /\ DifferencesAmong(A, B) \in Seq(DifferenceType)
           /\ Len(DifferencesAmong(A, B)) = Cardinality(Unequal(A, B))
           /\ \A k : KindAmong(A, B, k) \in Kinds \cup {"matched"}
<1>1. IsFiniteSet(A \cup B) /\ A \cup B \subseteq Int
  BY FS_Union
<1>2. \A kind : OfKind(A, B, kind) \subseteq A \cup B
  BY DEF OfKind
<1>3. Unequal(A, B) \subseteq A \cup B
  BY DEF Unequal
<1>4. /\ \A kind : IsFiniteSet(OfKind(A, B, kind)) /\ Cardinality(OfKind(A, B, kind)) \in Nat
      /\ IsFiniteSet(Unequal(A, B)) /\ Cardinality(Unequal(A, B)) \in Nat
      /\ Unequal(A, B) \subseteq Int
  BY <1>1, <1>2, <1>3, FS_Subset, FS_CardinalityType
<1>5. FoundAmong(A, B).counts \in Counts
  BY <1>4 DEF FoundAmong, Counts
<1>6. \A k : KindAmong(A, B, k) \in Kinds \cup {"matched"}
  BY DEF KindAmong, Kinds
<1> DEFINE C == Cardinality(Unequal(A, B))
           asc == Ascending(Unequal(A, B))
           d == DifferencesAmong(A, B)
<1>7. \A i \in 1 .. C : asc[i] \in Unequal(A, B) /\ asc[i] \in Int
  <2>1. asc \in [1 .. C -> Unequal(A, B)]
    BY <1>4, AscendingOrder
  <2> HIDE DEF asc, C
  <2> QED
    BY <1>4, <2>1
<1>8. \A i \in 1 .. C : KindAmong(A, B, asc[i]) \in Kinds
  <2>1. \A k \in Unequal(A, B) : KindAmong(A, B, k) \in Kinds
    BY <1>6 DEF Unequal
  <2> HIDE DEF asc, C
  <2> QED
    BY <1>7, <2>1
<1>9. d = [i \in 1 .. C |-> [kind |-> KindAmong(A, B, asc[i]), key |-> asc[i]]]
  BY DEF DifferencesAmong
<1>10. d \in [1 .. C -> DifferenceType]
  <2> HIDE DEF asc, C, d
  <2> QED
    BY <1>7, <1>8, <1>9 DEF DifferenceType
<1>11. d \in Seq(DifferenceType) /\ Len(d) = C
  <2> HIDE DEF C, d
  <2>1. C \in Nat
    BY <1>4 DEF C
  <2> QED
    BY <1>10, <2>1
<1> QED
  BY <1>4, <1>5, <1>6, <1>11 DEF FoundAmong

\* The keys of A and B are those of A1 and B1, of the same kinds, and a smaller
\* one.
OneMore(A, B, A1, B1, r) ==
    /\ \A S \in {A, B, A1, B1} : IsFiniteSet(S) /\ S \subseteq Int
    /\ r \in Int
    /\ A \cup B = {r} \cup (A1 \cup B1)
    /\ \A k \in A1 \cup B1 : r < k
    /\ \A k \in A1 \cup B1 : KindAmong(A, B, k) = KindAmong(A1, B1, k)

(* A key below all others is counted and listed before what is found of    *)
(* them.                                                                   *)
LEMMA FoundAdds ==
    ASSUME NEW A, NEW B, NEW A1, NEW B1, NEW r, OneMore(A, B, A1, B1, r)
    PROVE  FoundAmong(A, B) =
              IF KindAmong(A, B, r) = "matched" THEN Matched(FoundAmong(A1, B1))
              ELSE Differs(KindAmong(A, B, r), r, FoundAmong(A1, B1))
<1> DEFINE K == KindAmong(A, B, r)
           c == FoundAmong(A, B).counts
           c1 == FoundAmong(A1, B1).counts
           d == DifferencesAmong(A, B)
           d1 == DifferencesAmong(A1, B1)
<1>0. /\ IsFiniteSet(A) /\ A \subseteq Int /\ IsFiniteSet(B) /\ B \subseteq Int
      /\ IsFiniteSet(A1) /\ A1 \subseteq Int /\ IsFiniteSet(B1) /\ B1 \subseteq Int
      /\ r \in Int
      /\ A \cup B = {r} \cup (A1 \cup B1)
      /\ \A k \in A1 \cup B1 : r < k
      /\ \A k \in A1 \cup B1 : KindAmong(A, B, k) = KindAmong(A1, B1, k)
  BY DEF OneMore
<1> USE <1>0
<1>1. r \notin A1 \cup B1 /\ K \in Kinds \cup {"matched"}
  <2>1. ~ r < r
    OBVIOUS
  <2> QED
    BY <2>1, FoundIsTyped
<1>2. /\ \A kind : IsFiniteSet(OfKind(A1, B1, kind)) /\ Cardinality(OfKind(A1, B1, kind)) \in Nat
      /\ IsFiniteSet(Unequal(A1, B1)) /\ Unequal(A1, B1) \subseteq Int
      /\ Cardinality(Unequal(A1, B1)) \in Nat
  BY FoundIsTyped
<1>3. ASSUME NEW kind
      PROVE  Cardinality(OfKind(A, B, kind)) =
                IF kind = K THEN Cardinality(OfKind(A1, B1, kind)) + 1
                ELSE Cardinality(OfKind(A1, B1, kind))
  <2>1. CASE kind = K
    <3>1. OfKind(A, B, kind) = OfKind(A1, B1, kind) \cup {r}
      BY <2>1 DEF OfKind
    <3>2. r \notin OfKind(A1, B1, kind)
      BY <1>1 DEF OfKind
    <3>3. Cardinality(OfKind(A1, B1, kind) \cup {r}) = Cardinality(OfKind(A1, B1, kind)) + 1
      BY <1>2, <3>2, FS_AddElement
    <3> QED
      BY <2>1, <3>1, <3>3
  <2>2. CASE kind # K
    <3>1. OfKind(A, B, kind) = OfKind(A1, B1, kind)
      BY <2>2 DEF OfKind
    <3> QED
      BY <2>2, <3>1
  <2> QED
    BY <2>1, <2>2
<1>4. c = [c1 EXCEPT ![K] = @ + 1]
  <2>1. \A kind \in Kinds \cup {"matched"} : /\ c[kind] = Cardinality(OfKind(A, B, kind))
                                             /\ c1[kind] = Cardinality(OfKind(A1, B1, kind))
    BY DEF FoundAmong
  <2>2. DOMAIN c = Kinds \cup {"matched"} /\ DOMAIN c1 = Kinds \cup {"matched"}
        /\ c = [kind \in Kinds \cup {"matched"} |-> c[kind]]
    BY DEF FoundAmong
  <2> HIDE DEF c, c1, K
  <2>3. \A kind \in Kinds \cup {"matched"} : c[kind] = IF kind = K THEN c1[kind] + 1 ELSE c1[kind]
    BY <1>3, <2>1
  <2> QED
    BY <1>1, <2>2, <2>3
<1>5. CASE K = "matched"
  <2>1. Unequal(A, B) = Unequal(A1, B1)
    BY <1>1, <1>5 DEF Unequal
  <2>2. d = d1
    <3>1. \A i \in 1 .. Cardinality(Unequal(A1, B1)) :
             Ascending(Unequal(A1, B1))[i] \in Unequal(A1, B1)
      BY <1>2, AscendingOrder
    <3>2. \A k \in Unequal(A1, B1) : KindAmong(A, B, k) = KindAmong(A1, B1, k)
      BY DEF Unequal
    <3>3. \A i \in 1 .. Cardinality(Unequal(A1, B1)) :
             KindAmong(A, B, Ascending(Unequal(A1, B1))[i])
                = KindAmong(A1, B1, Ascending(Unequal(A1, B1))[i])
      BY <3>1, <3>2
    <3> QED
      BY <2>1, <3>3 DEF DifferencesAmong
  <2>3. FoundAmong(A, B) = [counts |-> c, differences |-> d]
        /\ FoundAmong(A1, B1).differences = d1
    BY DEF FoundAmong
  <2> HIDE DEF c, c1, d, d1
  <2>4. Matched(FoundAmong(A1, B1)) = [counts |-> [c1 EXCEPT !["matched"] = @ + 1],
                                       differences |-> d1]
    BY <2>3 DEF Matched, c1
  <2> QED
    BY <1>4, <1>5, <2>2, <2>3, <2>4
<1>6. CASE K # "matched"
  <2>1. Unequal(A, B) = {r} \cup Unequal(A1, B1)
    BY <1>6 DEF Unequal
  <2> DEFINE U == Unequal(A1, B1)
             n == Cardinality(U)
             one == [kind |-> K, key |-> r]
  <2>2. \A k \in U : r < k
    BY DEF Unequal
  <2>3. /\ Ascending({r} \cup U) = <<r>> \o Ascending(U)
        /\ Ascending(U) \in Seq(U) /\ Len(Ascending(U)) = n
        /\ \A i \in 1 .. n : Ascending(U)[i] \in U
        /\ Ascending(U) \in [1 .. n -> U]
    <3>1. IsFiniteSet({r}) /\ {r} \subseteq Int
      BY FS_Singleton
    <3>2. Ascending({r}) = <<r>>
      BY AscendingOne
    <3>3. Ascending({r} \cup U) = Ascending({r}) \o Ascending(U)
      BY <1>2, <2>2, <3>1, AscendingJoins
    <3>4. /\ Ascending(U) \in Seq(U) /\ Len(Ascending(U)) = n
          /\ Ascending(U) \in [1 .. n -> U]
      BY <1>2, AscendingOrder
    <3> HIDE DEF U, n
    <3> QED
      BY <3>2, <3>3, <3>4
  <2>4. Cardinality({r} \cup U) = n + 1 /\ n \in Nat
    <3>1. {r} \cup U = U \cup {r} /\ r \notin U
      BY <1>1 DEF Unequal
    <3>2. IsFiniteSet(U) /\ n \in Nat
      BY <1>2
    <3>3. Cardinality(U \cup {r}) = Cardinality(U) + 1
      BY <3>1, <3>2, FS_AddElement
    <3> QED
      BY <3>1, <3>2, <3>3
  <2>5. /\ (<<r>> \o Ascending(U))[1] = r
        /\ \A i \in 1 .. n : (<<r>> \o Ascending(U))[i + 1] = Ascending(U)[i]
    <3> HIDE DEF U, n
    <3>1. Ascending(U) \in Seq(Int)
      <4>1. U \subseteq Int
        BY <1>2 DEF U
      <4>2. DOMAIN Ascending(U) = 1 .. n
        BY <2>3, <2>4
      <4>3. Ascending(U) \in [1 .. n -> Int]
        BY <2>3, <4>1, Zenon
      <4> QED
        BY <2>4, <4>3
    <3> QED
      BY ONLY <2>3, <2>4, <3>1
  <2>6. d = <<one>> \o d1
    <3>1. /\ d \in Seq(DifferenceType) /\ Len(d) = n + 1
          /\ d1 \in Seq(DifferenceType) /\ Len(d1) = n
      BY <2>1, <2>4, FoundIsTyped
    <3>2. /\ \A i \in 1 .. n + 1 :
                d[i] = [kind |-> KindAmong(A, B, (<<r>> \o Ascending(U))[i]),
                        key |-> (<<r>> \o Ascending(U))[i]]
          /\ \A i \in 1 .. n : d1[i] = [kind |-> KindAmong(A1, B1, Ascending(U)[i]),
                                        key |-> Ascending(U)[i]]
      BY <2>1, <2>3, <2>4 DEF DifferencesAmong
    <3> DEFINE e == <<one>> \o d1
    <3>3. one \in DifferenceType
      BY <1>1, <1>6 DEF DifferenceType
    <3>4. e \in Seq(DifferenceType) /\ Len(e) = n + 1 /\ e[1] = one
          /\ \A i \in 1 .. n : e[i + 1] = d1[i]
      <4> HIDE DEF one, d1, n
      <4> QED
        BY <2>4, <3>1, <3>3
    <3> HIDE DEF n
    <3>5. d[1] = one
      <4>1. 1 \in 1 .. n + 1
        BY <2>4
      <4>2. d[1] = [kind |-> KindAmong(A, B, (<<r>> \o Ascending(U))[1]),
                    key |-> (<<r>> \o Ascending(U))[1]]
        BY <3>2, <4>1
      <4> HIDE DEF d
      <4> QED
        BY <2>5, <4>2
    <3>6. \A i \in 1 .. n : d[i + 1] = d1[i]
      <4> SUFFICES ASSUME NEW i \in 1 .. n
                   PROVE  d[i + 1] = d1[i]
        OBVIOUS
      <4>1. i + 1 \in 1 .. n + 1
        BY <2>4
      <4>2. d[i + 1] = [kind |-> KindAmong(A, B, Ascending(U)[i]), key |-> Ascending(U)[i]]
        BY <2>5, <3>2, <4>1
      <4>3. Ascending(U)[i] \in A1 \cup B1
        BY <2>3 DEF U, Unequal
      <4>4. KindAmong(A, B, Ascending(U)[i]) = KindAmong(A1, B1, Ascending(U)[i])
        BY <4>3
      <4> QED
        BY <3>2, <4>2, <4>4
    <3> HIDE DEF d, d1, one, e, U
    <3>7. \A i \in 1 .. n + 1 : d[i] = e[i]
      <4> SUFFICES ASSUME NEW i \in 1 .. n + 1
                   PROVE  d[i] = e[i]
        OBVIOUS
      <4>1. CASE i = 1
        BY <3>4, <3>5, <4>1
      <4>2. CASE i # 1
        <5>1. i - 1 \in 1 .. n /\ (i - 1) + 1 = i
          BY <2>4, <4>2
        <5>2. d[(i - 1) + 1] = d1[i - 1] /\ e[(i - 1) + 1] = d1[i - 1]
          BY <3>4, <3>6, <5>1
        <5> QED
          BY <5>1, <5>2
      <4> QED
        BY <4>1, <4>2
    <3>8. d = e
      BY <2>4, <3>1, <3>4, <3>7
    <3> QED
      BY <3>8 DEF e
  <2>7. FoundAmong(A, B) = [counts |-> c, differences |-> d]
        /\ FoundAmong(A1, B1).differences = d1
    BY DEF FoundAmong
  <2> HIDE DEF c, c1, d, d1, K
  <2>8. Differs(K, r, FoundAmong(A1, B1)) = [counts |-> [c1 EXCEPT ![K] = @ + 1],
                                             differences |-> <<one>> \o d1]
    BY <2>7 DEF Differs, c1
  <2> QED
    BY <1>4, <1>6, <2>6, <2>7, <2>8 DEF K
<1> QED
  BY <1>5, <1>6

\* The keys of S from the i-th on.
Rest(S, i) == {Ascending(S)[x] : x \in i .. Cardinality(S)}

(* From one key on there is that key and those from the next on, which are *)
(* larger.                                                                 *)
LEMMA RestUnfolds ==
    ASSUME NEW S, IsFiniteSet(S), S \subseteq Int, NEW i \in 1 .. Cardinality(S) + 1
    PROVE  /\ Rest(S, i) \subseteq S /\ Rest(S, i) \subseteq Int /\ IsFiniteSet(Rest(S, i))
           /\ i = Cardinality(S) + 1 => Rest(S, i) = {}
           /\ i <= Cardinality(S) =>
                 /\ Ascending(S)[i] \in Int
                 /\ i + 1 \in 1 .. Cardinality(S) + 1
                 /\ Rest(S, i) = {Ascending(S)[i]} \cup Rest(S, i + 1)
                 /\ \A k \in Rest(S, i + 1) : Ascending(S)[i] < k
<1> DEFINE c == Cardinality(S)
           asc == Ascending(S)
<1>1. /\ c \in Nat /\ asc \in [1 .. c -> S]
      /\ \A x, y \in 1 .. c : x < y <=> asc[x] < asc[y]
  BY AscendingOrder
<1>2. /\ Rest(S, i) = {asc[x] : x \in i .. c}
      /\ Rest(S, i + 1) = {asc[x] : x \in i + 1 .. c}
  BY DEF Rest
<1>3. Rest(S, i) \subseteq S
  <2> HIDE DEF asc, c
  <2> QED
    BY <1>1, <1>2 DEF c
<1>4. i = c + 1 => Rest(S, i) = {}
  <2> HIDE DEF asc, c
  <2> QED
    BY <1>1, <1>2 DEF c
<1>5. ASSUME i <= c
      PROVE  /\ asc[i] \in Int
             /\ i + 1 \in 1 .. c + 1
             /\ Rest(S, i) = {asc[i]} \cup Rest(S, i + 1)
             /\ \A k \in Rest(S, i + 1) : asc[i] < k
  <2> HIDE DEF asc, c
  <2>1. i \in 1 .. c /\ i + 1 \in 1 .. c + 1
    BY <1>1, <1>5 DEF c
  <2>2. asc[i] \in Int
    BY <1>1, <2>1
  <2>3. \A x : x \in i .. c <=> x = i \/ x \in i + 1 .. c
    BY <1>1, <2>1
  <2>4. Rest(S, i) = {asc[i]} \cup Rest(S, i + 1)
    BY <1>2, <2>3
  <2>5. \A k \in Rest(S, i + 1) : asc[i] < k
    <3> SUFFICES ASSUME NEW x \in i + 1 .. c
                 PROVE  asc[i] < asc[x]
      BY <1>2
    <3>1. x \in 1 .. c /\ i < x
      BY <1>1, <2>1
    <3> QED
      BY <1>1, <2>1, <3>1
  <2> QED
    BY <2>1, <2>2, <2>4, <2>5
<1> QED
  BY <1>3, <1>4, <1>5, FS_Subset

\* What is found from the i-th key of R and the j-th of T on.
FoundBetween(R, T, i, j) == FoundAmong(Rest(R, i), Rest(T, j))

(* One step of the merge adds the next key to what is found after it.      *)
LEMMA MergeStep ==
    ASSUME input \in Inputs, NEW g, NEW R, R = KeysIn("reference", g),
           NEW T, T = KeysIn("target", g),
           NEW i \in 1 .. Cardinality(R) + 1, NEW j \in 1 .. Cardinality(T) + 1, NEW later,
           i <= Cardinality(R) => later[<<i + 1, j>>] = FoundBetween(R, T, i + 1, j),
           j <= Cardinality(T) => later[<<i, j + 1>>] = FoundBetween(R, T, i, j + 1),
           i <= Cardinality(R) /\ j <= Cardinality(T) =>
              later[<<i + 1, j + 1>>] = FoundBetween(R, T, i + 1, j + 1)
    PROVE  FoundFrom(ExactRows("reference", g), ExactRows("target", g), i, j, later)
              = FoundBetween(R, T, i, j)
<1> DEFINE m == Cardinality(R)
           n == Cardinality(T)
           A == Rest(R, i)
           B == Rest(T, j)
           A1 == Rest(R, i + 1)
           B1 == Rest(T, j + 1)
           ka == Ascending(R)[i]
           kb == Ascending(T)[j]
           reference == ExactRows("reference", g)
           target == ExactRows("target", g)
<1>1. /\ IsFiniteSet(R) /\ R \subseteq Int /\ IsFiniteSet(T) /\ T \subseteq Int
      /\ m \in Nat /\ n \in Nat
  BY KeysOfRange DEF Sides
<1>2. /\ Len(reference) = m
      /\ i <= m => reference[i] = [key |-> ka, row |-> ReferenceRows[ka]]
  <2>1. DOMAIN Ascending(R) = 1 .. m
    BY <1>1, AscendingOrder
  <2>2. reference = [x \in 1 .. m |-> [key |-> Ascending(R)[x],
                                       row |-> ReferenceRows[Ascending(R)[x]]]]
    BY <2>1 DEF ExactRows, ReferenceRows
  <2> HIDE DEF m, reference
  <2>3. Len(reference) = m
    BY <1>1, <2>2
  <2>4. i <= m => i \in 1 .. m
    BY <1>1 DEF m
  <2> QED
    BY <2>2, <2>3, <2>4
<1>3. /\ Len(target) = n
      /\ j <= n => target[j] = [key |-> kb, row |-> TargetRows[kb]]
  <2>1. DOMAIN Ascending(T) = 1 .. n
    BY <1>1, AscendingOrder
  <2>2. target = [x \in 1 .. n |-> [key |-> Ascending(T)[x],
                                    row |-> TargetRows[Ascending(T)[x]]]]
    BY <2>1 DEF ExactRows, TargetRows
  <2> HIDE DEF n, target
  <2>3. Len(target) = n
    BY <1>1, <2>2
  <2>4. j <= n => j \in 1 .. n
    BY <1>1 DEF n
  <2> QED
    BY <2>2, <2>3, <2>4
<1>4. /\ IsFiniteSet(A) /\ A \subseteq Int /\ (~ i <= m => A = {})
      /\ i <= m => /\ ka \in Int /\ A = {ka} \cup A1 /\ \A k \in A1 : ka < k
                   /\ IsFiniteSet(A1) /\ A1 \subseteq Int
  <2>1. i > m => i = m + 1
    BY <1>1
  <2>2. i <= m => i + 1 \in 1 .. m + 1
    BY <1>1
  <2>3. i <= m => IsFiniteSet(A1) /\ A1 \subseteq Int
    BY <1>1, <2>2, RestUnfolds
  <2>4. ~ i <= m => i = m + 1
    BY <1>1
  <2>5. /\ IsFiniteSet(A) /\ A \subseteq Int /\ (i = m + 1 => A = {})
        /\ i <= m => ka \in Int /\ A = {ka} \cup A1 /\ \A k \in A1 : ka < k
    BY <1>1, RestUnfolds
  <2> HIDE DEF m, A, A1, ka
  <2> QED
    BY <2>3, <2>4, <2>5
<1>5. /\ IsFiniteSet(B) /\ B \subseteq Int /\ (~ j <= n => B = {})
      /\ j <= n => /\ kb \in Int /\ B = {kb} \cup B1 /\ \A k \in B1 : kb < k
                   /\ IsFiniteSet(B1) /\ B1 \subseteq Int
  <2>2. j <= n => j + 1 \in 1 .. n + 1
    BY <1>1
  <2>3. j <= n => IsFiniteSet(B1) /\ B1 \subseteq Int
    BY <1>1, <2>2, RestUnfolds
  <2>4. ~ j <= n => j = n + 1
    BY <1>1
  <2>5. /\ IsFiniteSet(B) /\ B \subseteq Int /\ (j = n + 1 => B = {})
        /\ j <= n => kb \in Int /\ B = {kb} \cup B1 /\ \A k \in B1 : kb < k
    BY <1>1, RestUnfolds
  <2> HIDE DEF n, B, B1, kb
  <2> QED
    BY <2>3, <2>4, <2>5
<1> DEFINE found == FoundFrom(reference, target, i, j, later)
<1>6. found =
         IF ~ i <= m /\ ~ j <= n THEN NoRowsLeft
         ELSE IF i <= m /\ (~ j <= n \/ reference[i].key < target[j].key)
              THEN Differs("missing", reference[i].key, later[<<i + 1, j>>])
         ELSE IF j <= n /\ (~ i <= m \/ reference[i].key > target[j].key)
              THEN Differs("extra", target[j].key, later[<<i, j + 1>>])
         ELSE IF reference[i].row = target[j].row
              THEN Matched(later[<<i + 1, j + 1>>])
              ELSE Differs("modified", reference[i].key, later[<<i + 1, j + 1>>])
  BY <1>2, <1>3 DEF FoundFrom
<1> HIDE DEF m, n, A, B, A1, B1, ka, kb, reference, target, found
<1>7. FoundBetween(R, T, i, j) = FoundAmong(A, B)
  BY DEF FoundBetween, A, B
<1>8. CASE ~ i <= m /\ ~ j <= n
  <2>1. A = {} /\ B = {}
    BY <1>4, <1>5, <1>8
  <2>3. found = NoRowsLeft
    BY <1>6, <1>8, Zenon
  <2>2. FoundAmong({}, {}) = NoRowsLeft
    <3>1. Unequal({}, {}) = {} /\ \A kind : OfKind({}, {}, kind) = {}
      BY DEF Unequal, OfKind
    <3>2. Cardinality({}) = 0
      BY FS_EmptySet
    <3>3. DifferencesAmong({}, {}) = <<>>
      <4>1. DOMAIN DifferencesAmong({}, {}) = 1 .. 0
        BY <3>1, <3>2 DEF DifferencesAmong
      <4>2. DifferencesAmong({}, {}) = [x \in 1 .. 0 |-> DifferencesAmong({}, {})[x]]
        BY <3>1, <3>2 DEF DifferencesAmong
      <4> HIDE DEF DifferencesAmong
      <4>4. DifferencesAmong({}, {}) \in [1 .. 0 -> Int]
        <5>1. \A x \in 1 .. 0 : DifferencesAmong({}, {})[x] \in Int
          OBVIOUS
        <5> QED
          BY <4>2, <5>1
      <4>3. DifferencesAmong({}, {}) \in Seq(Int) /\ Len(DifferencesAmong({}, {})) = 0
        BY <4>4
      <4> QED
        BY <4>3
    <3>4. FoundAmong({}, {}).counts = NoCounts
      BY <3>1, <3>2 DEF FoundAmong, NoCounts
    <3>5. FoundAmong({}, {}) = [counts |-> FoundAmong({}, {}).counts,
                                differences |-> DifferencesAmong({}, {})]
      BY DEF FoundAmong
    <3> QED
      BY <3>3, <3>4, <3>5 DEF NoRowsLeft
  <2> QED
    BY <1>7, <2>1, <2>2, <2>3 DEF found, reference, target
<1>9. CASE i <= m /\ (~ j <= n \/ ka < kb)
  <2>1. found = Differs("missing", ka, FoundAmong(A1, B))
    <3>1. reference[i].key = ka
      BY <1>2, <1>9
    <3>2. j <= n => target[j].key = kb
      BY <1>3
    <3>3. later[<<i + 1, j>>] = FoundAmong(A1, B)
      BY <1>9 DEF FoundBetween, m, A1, B
    <3> QED
      BY <1>6, <1>9, <3>1, <3>2, <3>3
  <2>2. ka \in Int /\ A = {ka} \cup A1 /\ (\A k \in A1 : ka < k) /\ IsFiniteSet(A1) /\ A1 \subseteq Int
    BY <1>4, <1>9
  <2>3. \A k \in B : ka < k
    <3> SUFFICES ASSUME NEW k \in B
                 PROVE  ka < k
      OBVIOUS
    <3>2. j <= n
      BY <1>5
    <3>1. j <= n /\ kb \in Int /\ k \in Int /\ (k = kb \/ kb < k)
      BY <1>5, <3>2, Zenon
    <3> QED
      BY <1>9, <2>2, <3>1
  <2>4. A \cup B = {ka} \cup (A1 \cup B) /\ \A k \in A1 \cup B : ka < k
    BY <2>2, <2>3
  <2>5. ~ ka < ka
    BY <2>2
  <2>6. KindAmong(A, B, ka) = "missing"
    BY <2>3, <2>5 DEF KindAmong
  <2>7. \A k \in A1 \cup B : KindAmong(A, B, k) = KindAmong(A1, B, k)
    BY <2>2, <2>4, <2>5 DEF KindAmong
  <2>8. FoundAmong(A, B) = IF KindAmong(A, B, ka) = "matched" THEN Matched(FoundAmong(A1, B))
                           ELSE Differs(KindAmong(A, B, ka), ka, FoundAmong(A1, B))
    <3>1. /\ IsFiniteSet(A) /\ A \subseteq Int /\ IsFiniteSet(B) /\ B \subseteq Int
          /\ IsFiniteSet(A1) /\ A1 \subseteq Int /\ ka \in Int
      BY <1>4, <1>5, <2>2
    <3>2. OneMore(A, B, A1, B, ka)
      BY <2>4, <2>7, <3>1 DEF OneMore
    <3> QED
      BY <3>2, FoundAdds
  <2> QED
    BY <1>7, <2>1, <2>6, <2>8 DEF found, reference, target
<1>10. CASE j <= n /\ (~ i <= m \/ kb < ka)
  <2>1. i <= m => ka \in Int /\ kb \in Int /\ ~ ka < kb /\ (ka > kb)
    BY <1>4, <1>5, <1>10
  <2>2. found = Differs("extra", kb, FoundAmong(A, B1))
    <3>1. target[j].key = kb
      BY <1>3, <1>10
    <3>2. i <= m => reference[i].key = ka
      BY <1>2
    <3>3. later[<<i, j + 1>>] = FoundAmong(A, B1)
      BY <1>10 DEF FoundBetween, n, A, B1
    <3> QED
      BY <1>6, <1>10, <2>1, <3>1, <3>2, <3>3
  <2>3. kb \in Int /\ B = {kb} \cup B1 /\ (\A k \in B1 : kb < k) /\ IsFiniteSet(B1) /\ B1 \subseteq Int
    BY <1>5, <1>10
  <2>4. \A k \in A : kb < k
    <3> SUFFICES ASSUME NEW k \in A
                 PROVE  kb < k
      OBVIOUS
    <3>2. i <= m
      BY <1>4
    <3>1. i <= m /\ ka \in Int /\ k \in Int /\ (k = ka \/ ka < k)
      BY <1>4, <3>2, Zenon
    <3> QED
      BY <1>10, <2>3, <3>1
  <2>5. A \cup B = {kb} \cup (A \cup B1) /\ \A k \in A \cup B1 : kb < k
    BY <2>3, <2>4
  <2>6. ~ kb < kb
    BY <2>3
  <2>7. KindAmong(A, B, kb) = "extra"
    BY <2>3, <2>4, <2>6 DEF KindAmong
  <2>8. \A k \in A \cup B1 : KindAmong(A, B, k) = KindAmong(A, B1, k)
    BY <2>3, <2>5, <2>6 DEF KindAmong
  <2>9. FoundAmong(A, B) = IF KindAmong(A, B, kb) = "matched" THEN Matched(FoundAmong(A, B1))
                           ELSE Differs(KindAmong(A, B, kb), kb, FoundAmong(A, B1))
    <3>1. /\ IsFiniteSet(A) /\ A \subseteq Int /\ IsFiniteSet(B) /\ B \subseteq Int
          /\ IsFiniteSet(B1) /\ B1 \subseteq Int /\ kb \in Int
      BY <1>4, <1>5, <2>3
    <3>2. OneMore(A, B, A, B1, kb)
      BY <2>5, <2>8, <3>1 DEF OneMore
    <3> QED
      BY <3>2, FoundAdds
  <2> QED
    BY <1>7, <2>2, <2>7, <2>9 DEF found, reference, target
<1>11. CASE i <= m /\ j <= n /\ ~ ka < kb /\ ~ kb < ka
  <2>1. ka = kb /\ ka \in Int
    BY <1>4, <1>5, <1>11
  <2>2. /\ A = {ka} \cup A1 /\ (\A k \in A1 : ka < k) /\ IsFiniteSet(A1) /\ A1 \subseteq Int
        /\ B = {ka} \cup B1 /\ (\A k \in B1 : ka < k) /\ IsFiniteSet(B1) /\ B1 \subseteq Int
    BY <1>4, <1>5, <1>11, <2>1
  <2>3. found = IF ReferenceRows[ka] = TargetRows[ka] THEN Matched(FoundAmong(A1, B1))
                ELSE Differs("modified", ka, FoundAmong(A1, B1))
    <3>1. reference[i].key = ka /\ reference[i].row = ReferenceRows[ka]
      BY <1>2, <1>11
    <3>2. target[j].key = ka /\ target[j].row = TargetRows[ka]
      BY <1>3, <1>11, <2>1
    <3>3. later[<<i + 1, j + 1>>] = FoundAmong(A1, B1)
      BY <1>11 DEF FoundBetween, n, m, A1, B1
    <3>4. ~ ka < ka /\ ~ ka > ka
      BY <2>1
    <3> QED
      BY <1>6, <1>11, <3>1, <3>2, <3>3, <3>4
  <2>4. ~ ka < ka
    BY <2>1
  <2>5. A \cup B = {ka} \cup (A1 \cup B1) /\ \A k \in A1 \cup B1 : ka < k
    BY <2>2
  <2>6. KindAmong(A, B, ka) = IF ReferenceRows[ka] = TargetRows[ka] THEN "matched" ELSE "modified"
    BY <2>2 DEF KindAmong
  <2>7. \A k \in A1 \cup B1 : KindAmong(A, B, k) = KindAmong(A1, B1, k)
    BY <2>2, <2>4, <2>5 DEF KindAmong
  <2>8. FoundAmong(A, B) = IF KindAmong(A, B, ka) = "matched" THEN Matched(FoundAmong(A1, B1))
                           ELSE Differs(KindAmong(A, B, ka), ka, FoundAmong(A1, B1))
    <3>1. /\ IsFiniteSet(A) /\ A \subseteq Int /\ IsFiniteSet(B) /\ B \subseteq Int
          /\ IsFiniteSet(A1) /\ A1 \subseteq Int /\ IsFiniteSet(B1) /\ B1 \subseteq Int
          /\ ka \in Int
      BY <1>4, <1>5, <2>1, <2>2
    <3>2. OneMore(A, B, A1, B1, ka)
      BY <2>5, <2>7, <3>1 DEF OneMore
    <3> QED
      BY <3>2, FoundAdds
  <2> QED
    BY <1>7, <2>3, <2>6, <2>8 DEF found, reference, target
<1> QED
  BY <1>8, <1>9, <1>10, <1>11

(* All the keys of S, from the first on.                                   *)
LEMMA RestIsAll ==
    ASSUME NEW S, IsFiniteSet(S), S \subseteq Int
    PROVE  Rest(S, 1) = S
<1>1. /\ Ascending(S) \in [1 .. Cardinality(S) -> S]
      /\ \A k \in S : \E i \in 1 .. Cardinality(S) : Ascending(S)[i] = k
  BY AscendingOrder
<1> QED
  BY <1>1 DEF Rest

\* f is the function the merge is defined by.
Merges(reference, target, f) ==
    f = [at \in (1 .. Len(reference) + 1) \X (1 .. Len(target) + 1) |->
            FoundFrom(reference, target, at[1], at[2], f)]

(* The merge of the rows of a range classifies its keys: counted by kind,  *)
(* the differences in ascending order.                                     *)
LEMMA ClassifiesEveryKey ==
    ASSUME input \in Inputs, NEW g
    PROVE  ExactDifferences(g) = FoundAmong(KeysIn("reference", g), KeysIn("target", g))
<1> DEFINE R == KeysIn("reference", g)
           T == KeysIn("target", g)
           m == Cardinality(R)
           n == Cardinality(T)
           reference == ExactRows("reference", g)
           target == ExactRows("target", g)
           Places2 == (1 .. m + 1) \X (1 .. n + 1)
           F == [at \in Places2 |-> FoundBetween(R, T, at[1], at[2])]
<1>1. /\ IsFiniteSet(R) /\ R \subseteq Int /\ IsFiniteSet(T) /\ T \subseteq Int
      /\ m \in Nat /\ n \in Nat
  BY KeysOfRange DEF Sides
<1>2. Len(reference) = m
  <2>1. DOMAIN Ascending(R) = 1 .. m
    BY <1>1, AscendingOrder
  <2>2. reference = [x \in 1 .. m |-> [key |-> Ascending(R)[x],
                                       row |-> ReferenceRows[Ascending(R)[x]]]]
    BY <2>1 DEF ExactRows, ReferenceRows
  <2> HIDE DEF m, reference
  <2> QED
    BY <1>1, <2>2
<1>3. Len(target) = n
  <2>1. DOMAIN Ascending(T) = 1 .. n
    BY <1>1, AscendingOrder
  <2>2. target = [x \in 1 .. n |-> [key |-> Ascending(T)[x],
                                    row |-> TargetRows[Ascending(T)[x]]]]
    BY <2>1 DEF ExactRows, TargetRows
  <2> HIDE DEF n, target
  <2> QED
    BY <1>1, <2>2
<1>4. ASSUME NEW i \in 1 .. m + 1, NEW j \in 1 .. n + 1, NEW later,
             i <= m => later[<<i + 1, j>>] = FoundBetween(R, T, i + 1, j),
             j <= n => later[<<i, j + 1>>] = FoundBetween(R, T, i, j + 1),
             i <= m /\ j <= n => later[<<i + 1, j + 1>>] = FoundBetween(R, T, i + 1, j + 1)
      PROVE  FoundFrom(reference, target, i, j, later) = FoundBetween(R, T, i, j)
  BY <1>4, MergeStep
<1> HIDE DEF R, T, m, n, reference, target
<1>5. \A at : at \in Places2 => /\ at = <<at[1], at[2]>>
                                /\ at[1] \in 1 .. m + 1 /\ at[2] \in 1 .. n + 1
  OBVIOUS
<1>6. Merges(reference, target, F)
  <2>1. ASSUME NEW i \in 1 .. m + 1, NEW j \in 1 .. n + 1
        PROVE  F[<<i, j>>] = FoundBetween(R, T, i, j)
    OBVIOUS
  <2> HIDE DEF F
  <2>2. ASSUME NEW at \in Places2
        PROVE  FoundBetween(R, T, at[1], at[2]) = FoundFrom(reference, target, at[1], at[2], F)
    <3> DEFINE i == at[1]
               j == at[2]
    <3>1. i \in 1 .. m + 1 /\ j \in 1 .. n + 1
      BY <1>5
    <3> HIDE DEF i, j
    <3>2. i <= m => i + 1 \in 1 .. m + 1
      BY <1>1, <3>1
    <3>3. j <= n => j + 1 \in 1 .. n + 1
      BY <1>1, <3>1
    <3>4. i <= m => F[<<i + 1, j>>] = FoundBetween(R, T, i + 1, j)
      BY <2>1, <3>1, <3>2
    <3>5. j <= n => F[<<i, j + 1>>] = FoundBetween(R, T, i, j + 1)
      BY <2>1, <3>1, <3>3
    <3>6. i <= m /\ j <= n => F[<<i + 1, j + 1>>] = FoundBetween(R, T, i + 1, j + 1)
      BY <2>1, <3>2, <3>3
    <3> QED
      BY <1>4, <3>1, <3>4, <3>5, <3>6 DEF i, j
  <2>3. F = [at \in Places2 |-> FoundFrom(reference, target, at[1], at[2], F)]
    <3>1. F = [at \in Places2 |-> FoundBetween(R, T, at[1], at[2])]
      BY DEF F
    <3> HIDE DEF Places2
    <3> QED
      BY <2>2, <3>1
  <2> QED
    BY <1>2, <1>3, <2>3 DEF Merges
<1>7. ASSUME NEW f, Merges(reference, target, f)
      PROVE  f[<<1, 1>>] = FoundBetween(R, T, 1, 1)
  <2>1. ASSUME NEW i \in 1 .. m + 1, NEW j \in 1 .. n + 1
        PROVE  f[<<i, j>>] = FoundFrom(reference, target, i, j, f)
    <3>1. f = [at \in Places2 |-> FoundFrom(reference, target, at[1], at[2], f)]
      BY <1>2, <1>3, <1>7 DEF Merges
    <3>2. <<i, j>> \in Places2 /\ <<i, j>>[1] = i /\ <<i, j>>[2] = j
      OBVIOUS
    <3> HIDE DEF Places2
    <3>3. f[<<i, j>>] = FoundFrom(reference, target, <<i, j>>[1], <<i, j>>[2], f)
      BY <3>1, <3>2, Zenon
    <3> QED
      BY <3>2, <3>3
  <2> DEFINE Found(i, j) == f[<<i, j>>] = FoundBetween(R, T, i, j)
             G == {N \in Nat : \A i \in 1 .. m + 1, j \in 1 .. n + 1 :
                                  (m + 1 - i) + (n + 1 - j) <= N => Found(i, j)}
  <2>2. ASSUME NEW i \in 1 .. m + 1, NEW j \in 1 .. n + 1,
               i <= m => Found(i + 1, j), j <= n => Found(i, j + 1),
               i <= m /\ j <= n => Found(i + 1, j + 1)
        PROVE  Found(i, j)
    BY <1>4, <2>1, <2>2
  <2> HIDE DEF Found
  <2>3. 0 \in G
    <3> SUFFICES ASSUME NEW i \in 1 .. m + 1, NEW j \in 1 .. n + 1,
                        (m + 1 - i) + (n + 1 - j) <= 0
                 PROVE  Found(i, j)
      OBVIOUS
    <3>1. ~ i <= m /\ ~ j <= n
      BY <1>1
    <3> QED
      BY <2>2, <3>1
  <2>4. ASSUME NEW N \in Nat, N \in G
        PROVE  N + 1 \in G
    <3> SUFFICES ASSUME NEW i \in 1 .. m + 1, NEW j \in 1 .. n + 1,
                        (m + 1 - i) + (n + 1 - j) <= N + 1
                 PROVE  Found(i, j)
      OBVIOUS
    <3>1. \A a \in 1 .. m + 1, b \in 1 .. n + 1 : (m + 1 - a) + (n + 1 - b) <= N => Found(a, b)
      BY <2>4
    <3> HIDE DEF G
    <3>2. ASSUME i <= m
          PROVE  Found(i + 1, j)
      <4>1. i + 1 \in 1 .. m + 1 /\ (m + 1 - (i + 1)) + (n + 1 - j) <= N
        BY <1>1, <3>2
      <4> QED
        BY <3>1, <4>1
    <3>3. ASSUME j <= n
          PROVE  Found(i, j + 1)
      <4>1. j + 1 \in 1 .. n + 1 /\ (m + 1 - i) + (n + 1 - (j + 1)) <= N
        BY <1>1, <3>3
      <4> QED
        BY <3>1, <4>1
    <3>4. ASSUME i <= m, j <= n
          PROVE  Found(i + 1, j + 1)
      <4>1. i + 1 \in 1 .. m + 1 /\ j + 1 \in 1 .. n + 1
            /\ (m + 1 - (i + 1)) + (n + 1 - (j + 1)) <= N
        BY <1>1, <3>4
      <4> QED
        BY <3>1, <4>1
    <3> QED
      BY <2>2, <3>2, <3>3, <3>4
  <2>5. \A N \in Nat : N \in G
    <3> HIDE DEF G
    <3> QED
      BY <2>3, <2>4, NaturalsAreIn
  <2>6. m + n \in Nat /\ 1 \in 1 .. m + 1 /\ 1 \in 1 .. n + 1
        /\ (m + 1 - 1) + (n + 1 - 1) <= m + n
    BY <1>1
  <2>7. Found(1, 1)
    BY <2>5, <2>6
  <2> QED
    BY <2>7 DEF Found
<1>8. ClassifiedRows(reference, target) = FoundBetween(R, T, 1, 1)
  <2> DEFINE f == CHOOSE h : Merges(reference, target, h)
  <2>1. Merges(reference, target, f)
    <3> HIDE DEF F
    <3> QED
      BY <1>6
  <2>2. ClassifiedRows(reference, target) = f[<<1, 1>>]
    BY DEF ClassifiedRows, Merges
  <2> HIDE DEF f
  <2> QED
    BY <1>7, <2>1, <2>2
<1>9. FoundBetween(R, T, 1, 1) = FoundAmong(R, T)
  <2>1. Rest(R, 1) = R /\ Rest(T, 1) = T
    BY <1>1, RestIsAll
  <2> QED
    BY <2>1 DEF FoundBetween
<1> QED
  BY <1>8, <1>9 DEF ExactDifferences, reference, target, R, T

-----------------------------------------------------------------------------
(* What is counted and kept as evidence *)

\* The keys of a kind in the ranges compared row by row, those of the ranges
\* pruned, and those found to differ.
ExactKeys(p, kind) ==
    {k \in AllKeys : /\ TrueKind(k) = kind
                     /\ \E t \in Terminal(p, ExactStates) : InRange(k, t.segment)}
PrunedKeys(p) ==
    {k \in DOMAIN ReferenceRows :
        \E t \in Terminal(p, {"fingerprint_match"}) : InRange(k, t.segment)}
FoundIn(p) ==
    {k \in AllKeys : /\ TrueKind(k) # "matched"
                     /\ \E t \in Terminal(p, ExactStates) : InRange(k, t.segment)}

\* The counts are those of the keys in the ranges settled.
CountsAreTrue(p) ==
    /\ \A kind \in Kinds \cup {"matched"} : p.exact_counts[kind] = Cardinality(ExactKeys(p, kind))
    /\ p.pruned_matched = Cardinality(PrunedKeys(p))
    /\ p.pruned_segments = Cardinality(Terminal(p, {"fingerprint_match"}))
    /\ p.exact_segments = Cardinality(Terminal(p, ExactStates))

\* The evidence is the first of the differences found, all of them as long as
\* none was left out.
EvidenceIsTrue(p) ==
    /\ p.found_records = Cardinality(FoundIn(p))
    /\ Len(p.anomalies) <= p.found_records
    /\ p.retention_open => Len(p.anomalies) = p.found_records
    /\ \A i \in 1 .. Len(p.anomalies) :
          /\ p.anomalies[i].sequence = i - 1
          /\ p.anomalies[i].key = Ascending(FoundIn(p))[i]
          /\ p.anomalies[i].kind = TrueKind(Ascending(FoundIn(p))[i])
          /\ \E t \in p.topology : /\ t.segment.segment_sequence = p.anomalies[i].segment_sequence
                                   /\ t.state = "exact_mismatch"

\* The ranges compared row by row lie before those that are pending.
ExactComesFirst(p) ==
    \A t \in Terminal(p, ExactStates), g \in p.pending :
        MathematicalUpper(t.segment) <= g.lower_inclusive

\* The evidence and the ranges stay within their budgets.
ProgressFits(p) ==
    /\ Len(p.anomalies) <= budgets.max_evidence_rows
    /\ p.retained_bytes <= budgets.max_evidence_bytes
    /\ \A g \in Segments(p) : g.depth <= budgets.max_depth

\* The invariant of every progress yielded.
ProgressIsTrue(p) ==
    /\ p \in ProgressType
    /\ TreeIsSound(p)
    /\ HoldsEveryKey(p)
    /\ RecordsAreTrue(p)
    /\ DifferenceIsKept(p)
    /\ CountsAreTrue(p)
    /\ EvidenceIsTrue(p)
    /\ ExactComesFirst(p)
    /\ ProgressFits(p)

(* A step leaves what is true of a progress as it is.                      *)
LEMMA ProgressStays ==
    ASSUME input' = input
    PROVE  ProgressIsTrue(progress)' <=> ProgressIsTrue(progress')
<1>1. /\ relation' = relation /\ budgets' = budgets
      /\ \A s, g : KeysIn(s, g)' = KeysIn(s, g)
      /\ \A s, g : Fingerprint(s, g)' = Fingerprint(s, g)
      /\ \A g : FingerprintNode(g)' = FingerprintNode(g)
      /\ RootSegment' = RootSegment
      /\ AllKeys' = AllKeys
      /\ \A k : TrueKind(k)' = TrueKind(k)
  BY ArgumentsStay
<1>2. (progress \in ProgressType)' <=> progress' \in ProgressType
  BY DEF ProgressType
<1>3. TreeIsSound(progress)' <=> TreeIsSound(progress')
  BY DEF TreeIsSound
<1>4. HoldsEveryKey(progress)' <=> HoldsEveryKey(progress')
  BY <1>1 DEF HoldsEveryKey
<1>5. RecordsAreTrue(progress)' <=> RecordsAreTrue(progress')
  BY <1>1 DEF RecordsAreTrue
<1>6. DifferenceIsKept(progress)' <=> DifferenceIsKept(progress')
  BY <1>1 DEF DifferenceIsKept
<1>7. /\ \A kind : ExactKeys(progress, kind)' = ExactKeys(progress', kind)
      /\ PrunedKeys(progress)' = PrunedKeys(progress')
      /\ FoundIn(progress)' = FoundIn(progress')
  BY <1>1 DEF ExactKeys, PrunedKeys, FoundIn, ReferenceRows
<1>8. CountsAreTrue(progress)' <=> CountsAreTrue(progress')
  BY <1>7 DEF CountsAreTrue
<1>9. EvidenceIsTrue(progress)' <=> EvidenceIsTrue(progress')
  BY <1>1, <1>7 DEF EvidenceIsTrue
<1>10. ExactComesFirst(progress)' <=> ExactComesFirst(progress')
  BY DEF ExactComesFirst
<1>11. ProgressFits(progress)' <=> ProgressFits(progress')
  BY <1>1 DEF ProgressFits
<1> QED
  BY <1>2, <1>3, <1>4, <1>5, <1>6, <1>8, <1>9, <1>10, <1>11 DEF ProgressIsTrue

(* A key is in one of two ranges that are apart.                           *)
LEMMA ApartMeans ==
    ASSUME NEW g \in SegmentType, NEW h \in SegmentType, Apart(g, h), NEW k \in Int
    PROVE  ~ (InRange(k, g) /\ InRange(k, h))
<1>1. /\ g.lower_inclusive \in Int /\ MathematicalUpper(g) \in Int
      /\ h.lower_inclusive \in Int /\ MathematicalUpper(h) \in Int
  BY Bounds
<1> QED
  BY <1>1 DEF Apart, InRange

(* The keys with a row, and their kinds.                                   *)
LEMMA KeysOfBoth ==
    ASSUME input \in Inputs
    PROVE  /\ AllKeys \subseteq Key /\ AllKeys \subseteq Int /\ IsFiniteSet(AllKeys)
           /\ \A k \in AllKeys :
                 TrueKind(k) = IF k \notin DOMAIN TargetRows THEN "missing"
                               ELSE IF k \notin DOMAIN ReferenceRows THEN "extra"
                               ELSE IF ReferenceRows[k] = TargetRows[k] THEN "matched"
                               ELSE "modified"
           /\ \A k \in AllKeys : TrueKind(k) \in Kinds \cup {"matched"}
<1>1. /\ DOMAIN ReferenceRows \subseteq Key /\ IsFiniteSet(DOMAIN ReferenceRows)
      /\ DOMAIN TargetRows \subseteq Key /\ IsFiniteSet(DOMAIN TargetRows)
  BY Arguments DEF ReferenceRows, TargetRows, Sides
<1>2. Key \subseteq Int
  BY KeyAssumption DEF Key
<1>3. AllKeys \subseteq Key /\ AllKeys \subseteq Int /\ IsFiniteSet(AllKeys)
  BY <1>1, <1>2, FS_Union DEF AllKeys
<1>4. ASSUME NEW k \in AllKeys
      PROVE  TrueKind(k) = IF k \notin DOMAIN TargetRows THEN "missing"
                           ELSE IF k \notin DOMAIN ReferenceRows THEN "extra"
                           ELSE IF ReferenceRows[k] = TargetRows[k] THEN "matched"
                           ELSE "modified"
  <2>1. CASE k \notin DOMAIN TargetRows
    <3>1. k \in DOMAIN ReferenceRows
      BY <2>1 DEF AllKeys
    <3>2. TrueKind(k) = "missing"
      BY <2>1, <3>1, Zenon DEF TrueKind
    <3> QED
      BY <2>1, <3>2
  <2>2. CASE k \in DOMAIN TargetRows /\ k \notin DOMAIN ReferenceRows
    BY <2>2, Zenon DEF TrueKind
  <2>3. CASE k \in DOMAIN TargetRows /\ k \in DOMAIN ReferenceRows
    <3>1. TrueKind(k) = IF ReferenceRows[k] = TargetRows[k] THEN "matched" ELSE "modified"
      BY <2>3, Zenon DEF TrueKind
    <3> QED
      BY <2>3, <3>1
  <2> QED
    BY <2>1, <2>2, <2>3
<1> QED
  BY <1>3, <1>4 DEF Kinds

\* The keys of a kind, and those that differ, in a range.
KindIn(g, kind) == {k \in AllKeys : TrueKind(k) = kind /\ InRange(k, g)}
DifferentIn(g) == {k \in AllKeys : TrueKind(k) # "matched" /\ InRange(k, g)}

(* The rows of a range are of the kinds they are of among all rows.        *)
LEMMA KindsInRange ==
    ASSUME input \in Inputs, NEW g
    PROVE  LET A == KeysIn("reference", g)
               B == KeysIn("target", g)
           IN  /\ A \cup B = {k \in AllKeys : InRange(k, g)}
               /\ \A k \in A \cup B : KindAmong(A, B, k) = TrueKind(k)
               /\ \A kind : OfKind(A, B, kind) = KindIn(g, kind)
               /\ Unequal(A, B) = DifferentIn(g)
<1> DEFINE A == KeysIn("reference", g)
           B == KeysIn("target", g)
<1>1. /\ \A k : k \in A <=> k \in DOMAIN ReferenceRows /\ InRange(k, g)
      /\ \A k : k \in B <=> k \in DOMAIN TargetRows /\ InRange(k, g)
  BY DEF KeysIn, ReferenceRows, TargetRows
<1> HIDE DEF A, B
<1>2. A \cup B = {k \in AllKeys : InRange(k, g)}
  BY <1>1 DEF AllKeys
<1>3. ASSUME NEW k \in A \cup B
      PROVE  KindAmong(A, B, k) = TrueKind(k)
  <2>1. InRange(k, g)
    BY <1>1
  <2>2. KindAmong(A, B, k) = IF k \notin DOMAIN TargetRows THEN "missing"
                             ELSE IF k \notin DOMAIN ReferenceRows THEN "extra"
                             ELSE IF ReferenceRows[k] = TargetRows[k] THEN "matched"
                             ELSE "modified"
    BY <1>1, <2>1 DEF KindAmong
  <2>3. k \in AllKeys
    BY <1>2
  <2> QED
    BY <2>2, <2>3, KeysOfBoth
<1>4. \A kind : OfKind(A, B, kind) = KindIn(g, kind)
  BY <1>2, <1>3 DEF OfKind, KindIn
<1>5. Unequal(A, B) = DifferentIn(g)
  BY <1>2, <1>3 DEF Unequal, DifferentIn
<1> QED
  BY <1>2, <1>3, <1>4, <1>5 DEF A, B

(* A range without differences has equal fingerprints.                     *)
LEMMA NoDifferenceMatches ==
    ASSUME input \in Inputs, NEW g \in SegmentType, DifferentIn(g) = {}
    PROVE  Matches(FingerprintNode(g))
<1> DEFINE A == KeysIn("reference", g)
           B == KeysIn("target", g)
<1>1. ASSUME NEW k \in A \cup B
      PROVE  k \in A /\ k \in B /\ ReferenceRows[k] = TargetRows[k]
  <2>1. k \in AllKeys /\ InRange(k, g)
    BY KindsInRange
  <2>2. TrueKind(k) = "matched"
    BY <2>1 DEF DifferentIn
  <2>3. /\ k \in DOMAIN ReferenceRows /\ k \in DOMAIN TargetRows
        /\ ReferenceRows[k] = TargetRows[k]
    BY <2>1, <2>2, KeysOfBoth
  <2> QED
    BY <2>1, <2>3 DEF KeysIn, ReferenceRows, TargetRows
<1>2. A = B
  BY <1>1
<1>3. ASSUME NEW k \in A
      PROVE  Digest("reference")[k] = Digest("target")[k]
  <2>1. k \in DOMAIN relation["reference"].rows /\ k \in DOMAIN relation["target"].rows
    BY <1>2 DEF KeysIn
  <2>2. relation["reference"].rows[k] = relation["target"].rows[k]
    BY <1>1, <1>2 DEF ReferenceRows, TargetRows
  <2>3. Digest("reference")[k] = input.hash[k, relation["reference"].rows[k]]
    BY <2>1, Zenon DEF Digest
  <2>4. Digest("target")[k] = input.hash[k, relation["target"].rows[k]]
    BY <2>1, Zenon DEF Digest
  <2> HIDE DEF relation
  <2> QED
    BY <2>2, <2>3, <2>4, Zenon
<1>4. IsFiniteSet(A)
  BY KeysOfRange DEF Sides
<1>5. SumFunctionOnSet(Digest("reference"), A) = SumFunctionOnSet(Digest("target"), A)
  BY <1>3, <1>4, SumOfEqual
<1>6. Fingerprint("reference", g) = Fingerprint("target", g)
  BY <1>2, <1>5 DEF Fingerprint
<1> QED
  BY <1>6, NodeOfRange DEF Matches, Sides

(* What the exact comparison of a range finds is true, and adds up to its  *)
(* fingerprint counts.                                                     *)
LEMMA LeafIsTrue ==
    ASSUME input \in Inputs, NEW g \in SegmentType, NEW found, found = ExactDifferences(g)
    PROVE  /\ found.counts \in Counts
           /\ \A kind \in Kinds \cup {"matched"} :
                 found.counts[kind] = Cardinality(KindIn(g, kind))
           /\ IsFiniteSet(DifferentIn(g)) /\ DifferentIn(g) \subseteq Key
           /\ found.differences \in Seq([kind : Kinds, key : Key])
           /\ Len(found.differences) = Cardinality(DifferentIn(g))
           /\ DifferenceCount(found.counts) = Cardinality(DifferentIn(g))
           /\ \A i \in 1 .. Cardinality(DifferentIn(g)) :
                 found.differences[i] = [kind |-> TrueKind(Ascending(DifferentIn(g))[i]),
                                         key |-> Ascending(DifferentIn(g))[i]]
           /\ LeafCloses(FingerprintNode(g), found.counts)
           /\ DifferenceCount(found.counts) = 0 => Matches(FingerprintNode(g))
<1> DEFINE A == KeysIn("reference", g)
           B == KeysIn("target", g)
           D == DifferentIn(g)
           asc == Ascending(D)
<1>1. /\ IsFiniteSet(A) /\ A \subseteq Int /\ IsFiniteSet(B) /\ B \subseteq Int
  BY KeysOfRange DEF Sides
<1>2. /\ A \cup B = {k \in AllKeys : InRange(k, g)}
      /\ \A k \in A \cup B : KindAmong(A, B, k) = TrueKind(k)
      /\ \A kind : OfKind(A, B, kind) = KindIn(g, kind)
      /\ Unequal(A, B) = D
  BY KindsInRange
<1>3. found = FoundAmong(A, B)
  BY ClassifiesEveryKey
<1>4. /\ found.counts \in Counts
      /\ found.differences = DifferencesAmong(A, B)
      /\ Len(found.differences) = Cardinality(D)
      /\ IsFiniteSet(D) /\ D \subseteq Int /\ Cardinality(D) \in Nat
      /\ \A kind : IsFiniteSet(KindIn(g, kind)) /\ Cardinality(KindIn(g, kind)) \in Nat
      /\ found.differences \in Seq(DifferenceType)
  <2> HIDE DEF A, B, D
  <2> QED
    BY <1>1, <1>2, <1>3, FoundIsTyped
<1>5. \A kind \in Kinds \cup {"matched"} : found.counts[kind] = Cardinality(KindIn(g, kind))
  BY <1>2, <1>3 DEF FoundAmong
<1>6. /\ asc \in [1 .. Cardinality(D) -> D]
      /\ D \subseteq Key /\ D \subseteq A \cup B
  BY <1>2, <1>4, AscendingOrder, KeysOfBoth DEF DifferentIn
<1>7. \A i \in 1 .. Cardinality(D) :
         found.differences[i] = [kind |-> TrueKind(asc[i]), key |-> asc[i]]
  <2> SUFFICES ASSUME NEW i \in 1 .. Cardinality(D)
               PROVE  found.differences[i] = [kind |-> TrueKind(asc[i]), key |-> asc[i]]
    OBVIOUS
  <2>1. found.differences[i] = [kind |-> KindAmong(A, B, asc[i]), key |-> asc[i]]
    <3> HIDE DEF A, B, D
    <3> QED
      BY <1>2, <1>4 DEF DifferencesAmong
  <2>2. asc[i] \in A \cup B
    <3> HIDE DEF A, B, D, asc
    <3> QED
      BY <1>6
  <2> HIDE DEF A, B, D, asc
  <2> QED
    BY <1>2, <2>1, <2>2
<1>8. \A i \in 1 .. Cardinality(D) : found.differences[i] \in [kind : Kinds, key : Key]
  <2> SUFFICES ASSUME NEW i \in 1 .. Cardinality(D)
               PROVE  found.differences[i] \in [kind : Kinds, key : Key]
    OBVIOUS
  <2>1. asc[i] \in D
    <3> HIDE DEF A, B, D, asc
    <3> QED
      BY <1>6
  <2>2. TrueKind(asc[i]) # "matched" /\ TrueKind(asc[i]) \in Kinds \cup {"matched"}
    BY <2>1, KeysOfBoth DEF DifferentIn
  <2> HIDE DEF A, B, D, asc
  <2>3. TrueKind(asc[i]) \in Kinds /\ asc[i] \in Key
    BY <1>6, <2>1, <2>2
  <2>4. found.differences[i] = [kind |-> TrueKind(asc[i]), key |-> asc[i]]
    BY <1>7
  <2> QED
    BY ONLY <2>3, <2>4
<1>9. found.differences \in Seq([kind : Kinds, key : Key])
  <2> DEFINE d == found.differences
  <2>1. d \in [1 .. Cardinality(D) -> DifferenceType]
    <3> HIDE DEF D
    <3> QED
      BY <1>4
  <2>2. d \in [1 .. Cardinality(D) -> [kind : Kinds, key : Key]]
    <3> HIDE DEF D, d
    <3>1. \A i \in 1 .. Cardinality(D) : d[i] \in [kind : Kinds, key : Key]
      BY <1>8 DEF d
    <3> QED
      BY <2>1, <3>1
  <2> HIDE DEF D, d
  <2>3. d \in Seq([kind : Kinds, key : Key])
    <3>1. Cardinality(D) \in Nat
      BY <1>4
    <3> DEFINE X == [kind : Kinds, key : Key]
               n == Cardinality(D)
    <3>2. d \in [1 .. n -> X] /\ n \in Nat
      BY <2>2, <3>1
    <3> HIDE DEF X, n
    <3>3. d \in Seq(X)
      BY ONLY <3>2
    <3> QED
      BY <3>3 DEF X
  <2> QED
    BY <2>3 DEF d
<1> DEFINE M == KindIn(g, "matched")
           Mi == KindIn(g, "missing")
           Ex == KindIn(g, "extra")
           Mo == KindIn(g, "modified")
<1>10. /\ D = (Mi \cup Ex) \cup Mo
       /\ Mi \cap Ex = {} /\ (Mi \cup Ex) \cap Mo = {}
  BY KeysOfBoth DEF DifferentIn, KindIn, Kinds
<1>11. DifferenceCount(found.counts) = Cardinality(D)
  <2>1. /\ found.counts["missing"] = Cardinality(Mi) /\ found.counts["extra"] = Cardinality(Ex)
        /\ found.counts["modified"] = Cardinality(Mo)
    BY <1>5 DEF Kinds
  <2>2. IsFiniteSet(Mi) /\ IsFiniteSet(Ex) /\ IsFiniteSet(Mo)
    BY <1>4
  <2> HIDE DEF Mi, Ex, Mo, D
  <2>3. /\ IsFiniteSet(Mi \cup Ex)
        /\ Cardinality(Mi \cup Ex) = Cardinality(Mi) + Cardinality(Ex)
    BY <1>10, <2>2, SizeOfUnion
  <2>4. Cardinality((Mi \cup Ex) \cup Mo) = Cardinality(Mi \cup Ex) + Cardinality(Mo)
    BY <1>10, <2>2, <2>3, SizeOfUnion
  <2> QED
    BY <1>10, <2>1, <2>3, <2>4 DEF DifferenceCount
<1>12. /\ A = (M \cup Mi) \cup Mo /\ M \cap Mi = {} /\ (M \cup Mi) \cap Mo = {}
       /\ B = (M \cup Ex) \cup Mo /\ M \cap Ex = {} /\ (M \cup Ex) \cap Mo = {}
  <2>1. /\ \A k : k \in A <=> k \in DOMAIN ReferenceRows /\ InRange(k, g)
        /\ \A k : k \in B <=> k \in DOMAIN TargetRows /\ InRange(k, g)
    BY DEF KeysIn, ReferenceRows, TargetRows
  <2>2. \A k \in AllKeys : k \in DOMAIN ReferenceRows <=> TrueKind(k) # "extra"
    BY KeysOfBoth DEF AllKeys
  <2>3. \A k \in AllKeys : k \in DOMAIN TargetRows <=> TrueKind(k) # "missing"
    BY KeysOfBoth DEF AllKeys
  <2>4. \A k : k \in DOMAIN ReferenceRows \/ k \in DOMAIN TargetRows <=> k \in AllKeys
    BY DEF AllKeys
  <2>5. \A k \in AllKeys : TrueKind(k) = "matched" \/ TrueKind(k) = "missing" \/ TrueKind(k) = "extra"
                  \/ TrueKind(k) = "modified"
    BY KeysOfBoth DEF Kinds
  <2>6. ASSUME NEW k
        PROVE  /\ k \in A <=> k \in (M \cup Mi) \cup Mo
               /\ k \in B <=> k \in (M \cup Ex) \cup Mo
               /\ ~ (k \in M /\ k \in Mi) /\ ~ (k \in M \cup Mi /\ k \in Mo)
               /\ ~ (k \in M /\ k \in Ex) /\ ~ (k \in M \cup Ex /\ k \in Mo)
    <3>1. \A kind : k \in KindIn(g, kind) <=> k \in AllKeys /\ TrueKind(k) = kind /\ InRange(k, g)
      BY DEF KindIn
    <3>2. /\ k \in M <=> k \in AllKeys /\ TrueKind(k) = "matched" /\ InRange(k, g)
          /\ k \in Mi <=> k \in AllKeys /\ TrueKind(k) = "missing" /\ InRange(k, g)
          /\ k \in Ex <=> k \in AllKeys /\ TrueKind(k) = "extra" /\ InRange(k, g)
          /\ k \in Mo <=> k \in AllKeys /\ TrueKind(k) = "modified" /\ InRange(k, g)
      BY <3>1
    <3> HIDE DEF A, B, M, Mi, Ex, Mo
    <3>3. k \in A <=> k \in M \/ k \in Mi \/ k \in Mo
      BY <2>1, <2>2, <2>4, <2>5, <3>2
    <3>4. k \in B <=> k \in M \/ k \in Ex \/ k \in Mo
      BY <2>1, <2>3, <2>4, <2>5, <3>2
    <3>5. /\ ~ (k \in M /\ k \in Mi) /\ ~ (k \in M /\ k \in Mo) /\ ~ (k \in Mi /\ k \in Mo)
          /\ ~ (k \in M /\ k \in Ex) /\ ~ (k \in Ex /\ k \in Mo)
      BY <3>2
    <3> QED
      BY <3>3, <3>4, <3>5
  <2> HIDE DEF A, B, M, Mi, Ex, Mo
  <2> QED
    BY <2>6
<1>13. /\ found.counts["matched"] + found.counts["missing"] + found.counts["modified"]
             = Cardinality(A)
       /\ found.counts["matched"] + found.counts["extra"] + found.counts["modified"]
             = Cardinality(B)
  <2>1. /\ found.counts["missing"] = Cardinality(Mi) /\ found.counts["extra"] = Cardinality(Ex)
        /\ found.counts["modified"] = Cardinality(Mo) /\ found.counts["matched"] = Cardinality(M)
    BY <1>5 DEF Kinds
  <2>2. IsFiniteSet(Mi) /\ IsFiniteSet(Ex) /\ IsFiniteSet(Mo) /\ IsFiniteSet(M)
    BY <1>4
  <2> HIDE DEF Mi, Ex, Mo, M, A, B
  <2>3. /\ IsFiniteSet(M \cup Mi) /\ Cardinality(M \cup Mi) = Cardinality(M) + Cardinality(Mi)
        /\ IsFiniteSet(M \cup Ex) /\ Cardinality(M \cup Ex) = Cardinality(M) + Cardinality(Ex)
    BY <1>12, <2>2, SizeOfUnion
  <2>4. /\ Cardinality((M \cup Mi) \cup Mo) = Cardinality(M \cup Mi) + Cardinality(Mo)
        /\ Cardinality((M \cup Ex) \cup Mo) = Cardinality(M \cup Ex) + Cardinality(Mo)
    BY <1>12, <2>2, <2>3, SizeOfUnion
  <2> QED
    BY <1>12, <2>1, <2>3, <2>4
<1>14. DifferenceCount(found.counts) = 0 => Matches(FingerprintNode(g))
  <2>1. Cardinality(D) = 0 => D = {}
    BY <1>4, FS_EmptySet
  <2> QED
    BY <1>11, <2>1, NoDifferenceMatches
<1>15. LeafCloses(FingerprintNode(g), found.counts)
  <2>1. /\ FingerprintNode(g).fingerprint["reference"].count = Cardinality(A)
        /\ FingerprintNode(g).fingerprint["target"].count = Cardinality(B)
    BY NodeOfRange DEF Sides
  <2> QED
    BY <1>13, <1>14, <2>1 DEF LeafCloses
<1> QED
  BY <1>4, <1>5, <1>6, <1>7, <1>9, <1>11, <1>14, <1>15

\* What a partial artifact of p says "mismatch" for.
Shows(p) ==
    \/ DifferenceCount(p.exact_counts) > 0
    \/ \E t \in p.topology : Mismatches(t)
    \/ p.mismatch_witnesses # {}

(* The pending ranges with a witness are those of the witnesses.           *)
LEMMA ShownIsShown ==
    ASSUME NEW p, ProgressIsTrue(p)
    PROVE  /\ UnresolvedPending(p) = p.pending
           /\ PartialVerdict(p, FALSE) = IF Shows(p) THEN "mismatch" ELSE "inconclusive"
           /\ PartialVerdict(p, TRUE) = "mismatch"
<1>1. UnresolvedPending(p) = p.pending
  BY DEF UnresolvedPending, SequenceNumbers, ProgressIsTrue, TreeIsSound
<1>2. (\E item \in p.pending : item.segment_sequence \in SequenceNumbers(p.mismatch_witnesses))
         <=> p.mismatch_witnesses # {}
  <2>1. \A w \in p.mismatch_witnesses : w.segment \in p.pending
    BY DEF ProgressIsTrue, RecordsAreTrue
  <2> QED
    BY <2>1 DEF SequenceNumbers
<1> QED
  BY <1>1, <1>2 DEF PartialVerdict, Shows

(* The record of a node.                                                   *)
LEMMA RecordOfNode ==
    ASSUME input \in Inputs, NEW g \in SegmentType, NEW n, n = FingerprintNode(g),
           NEW state \in TerminalStates \cup {"split"}
    PROVE  /\ n \in NodeType /\ n.segment = g
           /\ SegmentRecord(n, state) \in RecordType
           /\ SegmentRecord(n, state).segment = g /\ SegmentRecord(n, state).state = state
           /\ SegmentRecord(n, state) =
                 SegmentRecord(FingerprintNode(SegmentRecord(n, state).segment),
                               SegmentRecord(n, state).state)
           /\ Matches(SegmentRecord(n, state)) <=> Matches(n)
<1>1. n \in NodeType /\ n.segment = g
  BY NodeOfRange
<1>2. /\ SegmentRecord(n, state) = [segment |-> g, state |-> state, fingerprint |-> n.fingerprint]
      /\ n.fingerprint \in [Sides -> [count : Nat, limb_sum : Nat]]
  BY <1>1 DEF SegmentRecord, NodeType
<1>3. SegmentRecord(n, state) \in RecordType
  BY <1>2 DEF RecordType
<1> QED
  BY <1>1, <1>2, <1>3 DEF Matches

\* The nodes of some pending ranges.
PendingNodes(p, batch) ==
    \A n \in batch : n.segment \in p.pending /\ n = FingerprintNode(n.segment)

(* Pruning equal ranges keeps a progress true.                             *)
LEMMA PruneKeeps ==
    ASSUME input \in Inputs, NEW p, ProgressIsTrue(p),
           NEW batch, PendingNodes(p, batch), \A n \in batch : Matches(n),
           NEW q, q = Prune(p, batch)
    PROVE  /\ ProgressIsTrue(q)
           /\ q.pending = p.pending \ {n.segment : n \in batch}
           /\ Cardinality(q.topology) + Cardinality(q.pending)
                 = Cardinality(p.topology) + Cardinality(p.pending)
           /\ q.fingerprint_nodes = p.fingerprint_nodes
           /\ q.summaries_verified = p.summaries_verified
           /\ Terminal(q, ExactStates) = Terminal(p, ExactStates)
           /\ Shows(p) => Shows(q)
<1> DEFINE records == {SegmentRecord(n, "fingerprint_match") : n \in batch}
           pruned == RowCount("reference", batch)
           left == WithoutPendingSequence(p.pending, SequenceNumbers(batch))
<1>1. /\ p \in ProgressType /\ TreeIsSound(p) /\ HoldsEveryKey(p) /\ RecordsAreTrue(p)
      /\ DifferenceIsKept(p) /\ CountsAreTrue(p) /\ EvidenceIsTrue(p) /\ ExactComesFirst(p)
      /\ ProgressFits(p)
  BY DEF ProgressIsTrue
<1>2. /\ p.pending \subseteq SegmentType /\ p.topology \subseteq RecordType
      /\ p.pruned_matched \in Nat /\ p.pruned_segments \in Nat
      /\ IsFiniteSet(p.pending) /\ IsFiniteSet(p.topology)
  BY <1>1 DEF ProgressType, TreeIsSound
<1>3. \A n \in batch : /\ n.segment \in p.pending /\ n.segment \in SegmentType
                       /\ n = FingerprintNode(n.segment)
  BY <1>2 DEF PendingNodes
<1>4. \A n, m \in batch : n.segment = m.segment => n = m
  BY <1>3
<1>5. ASSUME NEW n \in batch
      PROVE  LET r == SegmentRecord(n, "fingerprint_match")
             IN  /\ n \in NodeType /\ r \in RecordType /\ r.segment = n.segment
                 /\ r.state = "fingerprint_match"
                 /\ r = SegmentRecord(FingerprintNode(r.segment), r.state)
                 /\ Matches(r)
  BY <1>3, RecordOfNode DEF TerminalStates
<1>6. batch \in SUBSET NodeType /\ records \in SUBSET RecordType
  BY <1>5
<1>7. left \in SUBSET SegmentType
  BY <1>2 DEF WithoutPendingSequence
<1>8. IsFiniteSet(batch) /\ IsFiniteSet(records) /\ Cardinality(records) = Cardinality(batch)
      /\ Cardinality(batch) \in Nat
  <2>1. IsFiniteSet(batch)
    <3> DEFINE gone == {n.segment : n \in batch}
               f == [g \in gone |-> FingerprintNode(g)]
    <3>1. IsFiniteSet(gone)
      <4>1. gone \subseteq p.pending
        BY <1>3
      <4> QED
        BY <1>2, <4>1, FS_Subset
    <3>2. f \in [gone -> batch]
      BY <1>3
    <3>3. \A x, y \in gone : f[x] = f[y] => x = y
      <4> SUFFICES ASSUME NEW n \in batch, NEW m \in batch, f[n.segment] = f[m.segment]
                   PROVE  n.segment = m.segment
        OBVIOUS
      <4>1. f[n.segment] = n /\ f[m.segment] = m
        BY <1>3
      <4> QED
        BY <4>1
    <3>4. \A n \in batch : \E g \in gone : f[g] = n
      BY <1>3
    <3> HIDE DEF gone, f
    <3> QED
      BY <3>1, <3>2, <3>3, <3>4, SameSize
  <2> DEFINE r == [n \in batch |-> SegmentRecord(n, "fingerprint_match")]
  <2>2. r \in [batch -> records]
    OBVIOUS
  <2>3. \A x, y \in batch : r[x] = r[y] => x = y
    <3>1. \A x \in batch : r[x].segment = x.segment
      BY <1>5
    <3> HIDE DEF r
    <3> QED
      BY <1>4, <3>1
  <2>4. \A z \in records : \E n \in batch : r[n] = z
    OBVIOUS
  <2> HIDE DEF r, records
  <2> QED
    BY <2>1, <2>2, <2>3, <2>4, SameSize
<1> DEFINE rows(n) == KeysIn("reference", n.segment)
           gained == UNION {rows(n) : n \in batch}
<1>9. /\ pruned = Cardinality(gained) /\ IsFiniteSet(gained) /\ pruned \in Nat
      /\ \A k : k \in gained <=> /\ k \in DOMAIN ReferenceRows
                                 /\ \E n \in batch : InRange(k, n.segment)
  <2> DEFINE K == [n \in batch |-> rows(n)]
             w == [n \in batch |-> n.fingerprint["reference"].count]
  <2>1. \A n \in batch : IsFiniteSet(K[n]) /\ w[n] = Cardinality(K[n])
    <3> SUFFICES ASSUME NEW n \in batch
                 PROVE  IsFiniteSet(rows(n)) /\ n.fingerprint["reference"].count
                                                  = Cardinality(rows(n))
      OBVIOUS
    <3>1. n.segment \in SegmentType /\ n = FingerprintNode(n.segment)
      BY <1>3
    <3>2. FingerprintNode(n.segment).fingerprint["reference"].count = Cardinality(rows(n))
      BY <3>1, NodeOfRange DEF Sides
    <3> QED
      BY <3>1, <3>2, KeysOfRange DEF Sides
  <2>2. \A n, m \in batch : n # m => K[n] \cap K[m] = {}
    <3> SUFFICES ASSUME NEW n \in batch, NEW m \in batch, n # m,
                        NEW k, k \in rows(n), k \in rows(m)
                 PROVE  FALSE
      OBVIOUS
    <3>1. n.segment # m.segment /\ n.segment \in Frontier(p) /\ m.segment \in Frontier(p)
      BY <1>3, <1>4 DEF Frontier
    <3>2. Apart(n.segment, m.segment)
      BY <1>1, <3>1 DEF TreeIsSound
    <3>3. k \in Int /\ InRange(k, n.segment) /\ InRange(k, m.segment)
      BY KeysOfRange DEF KeysIn, Sides
    <3> QED
      BY <1>3, <3>2, <3>3, ApartMeans
  <2>3. UNION {K[n] : n \in batch} = gained
    OBVIOUS
  <2>4. pruned = SumFunctionOnSet(w, batch)
    BY DEF RowCount
  <2>5. IsFiniteSet(gained) /\ pruned = Cardinality(gained)
    <3> HIDE DEF K, w, gained, pruned
    <3> QED
      <4>1. CountsDisjoint(batch, K, w)
        BY ONLY <2>1, <2>2 DEF CountsDisjoint
      <4>2. UnionOf(batch, K) = gained
        BY ONLY <2>3 DEF UnionOf
      <4>3. /\ IsFiniteSet(UnionOf(batch, K))
            /\ SumFunctionOnSet(w, batch) = Cardinality(UnionOf(batch, K))
        BY ONLY <1>8, <4>1, SumOfSizes
      <4> QED
        BY ONLY <2>4, <4>2, <4>3
  <2>6. \A k : k \in gained <=> k \in DOMAIN ReferenceRows /\ \E n \in batch : InRange(k, n.segment)
    BY DEF KeysIn, ReferenceRows
  <2> HIDE DEF gained, pruned
  <2> QED
    BY <2>5, <2>6, FS_CardinalityType
<1>10. /\ q \in ProgressType
       /\ q.topology = p.topology \cup records /\ q.pending = left
       /\ q.pruned_matched = p.pruned_matched + pruned
       /\ q.pruned_segments = p.pruned_segments + Cardinality(batch)
       /\ q.exact_counts = p.exact_counts /\ q.exact_segments = p.exact_segments
       /\ q.summaries_verified = p.summaries_verified
       /\ q.mismatch_witnesses = p.mismatch_witnesses
       /\ q.fingerprint_nodes = p.fingerprint_nodes /\ q.anomalies = p.anomalies
       /\ q.found_records = p.found_records /\ q.found_bytes = p.found_bytes
       /\ q.retained_bytes = p.retained_bytes /\ q.retention_open = p.retention_open
  <2> DEFINE t == p.topology \cup records
             m == p.pruned_matched + pruned
             c == p.pruned_segments + Cardinality(batch)
  <2>1. t \in SUBSET RecordType /\ m \in Nat /\ c \in Nat
    <3> HIDE DEF records, pruned
    <3> QED
      BY <1>2, <1>6, <1>8, <1>9
  <2>2. q = [p EXCEPT !.topology = t, !.pending = left, !.pruned_matched = m,
                      !.pruned_segments = c]
    BY DEF Prune
  <2> HIDE DEF t, m, c, left
  <2>4. PrunedTo(p, q, t, left, m, c)
    BY <1>1, <1>7, <2>1, <2>2 DEF PrunedTo
  <2>3. /\ q \in ProgressType
        /\ q.topology = t /\ q.pending = left /\ q.pruned_matched = m /\ q.pruned_segments = c
        /\ q.exact_counts = p.exact_counts /\ q.exact_segments = p.exact_segments
        /\ q.summaries_verified = p.summaries_verified
        /\ q.mismatch_witnesses = p.mismatch_witnesses
        /\ q.fingerprint_nodes = p.fingerprint_nodes /\ q.anomalies = p.anomalies
        /\ q.found_records = p.found_records /\ q.found_bytes = p.found_bytes
        /\ q.retained_bytes = p.retained_bytes /\ q.retention_open = p.retention_open
    BY <2>4, PrunedFields
  <2> QED
    BY <2>3 DEF t, m, c
<1>11. /\ TreeIsSound(q) /\ Frontier(q) = Frontier(p)
       /\ q.pending = p.pending \ {n.segment : n \in batch}
       /\ Cardinality(q.topology) + Cardinality(q.pending)
             = Cardinality(p.topology) + Cardinality(p.pending)
       /\ Segments(q) = Segments(p)
  <2>1. "fingerprint_match" \in TerminalStates
    BY DEF TerminalStates
  <2>2. \A n \in batch : n.segment \in p.pending
    BY <1>3
  <2>3. ResolvesTo(p, q, batch, "fingerprint_match")
    BY <1>4, <1>6, <1>10, <2>1, <2>2 DEF ResolvesTo
  <2> QED
    BY <1>1, <1>10, <2>3, ResolveKeepsTree
<1>12. \A t \in records : \E n \in batch : /\ t.segment = n.segment
                                           /\ t.state = "fingerprint_match"
                                           /\ t = SegmentRecord(FingerprintNode(t.segment), t.state)
                                           /\ Matches(t)
  BY <1>5
<1>13. \A n \in batch : \E t \in records : t.segment = n.segment
  BY <1>5
<1>14. HoldsEveryKey(q)
  BY <1>1, <1>11 DEF HoldsEveryKey
<1>15. RecordsAreTrue(q)
  <2> HIDE DEF records
  <2>1. ASSUME NEW t \in q.topology
        PROVE  /\ t = SegmentRecord(FingerprintNode(t.segment), t.state)
               /\ t.state \in {"fingerprint_match", "exact_match"} <=> Matches(t)
               /\ t.state # "exact_match"
    <3>1. CASE t \in p.topology
      BY <1>1, <3>1 DEF RecordsAreTrue
    <3>2. CASE t \in records
      BY <1>12, <3>2
    <3> QED
      BY <1>10, <3>1, <3>2
  <2>2. ASSUME NEW w \in q.mismatch_witnesses
        PROVE  w = FingerprintNode(w.segment) /\ w.segment \in q.pending /\ Mismatches(w)
    <3>1. w = FingerprintNode(w.segment) /\ w.segment \in p.pending /\ Mismatches(w)
      BY <1>1, <1>10 DEF RecordsAreTrue
    <3>2. w.segment \notin {n.segment : n \in batch}
      BY <1>3, <3>1 DEF Mismatches
    <3> QED
      BY <1>11, <3>1, <3>2
  <2> QED
    BY <2>1, <2>2 DEF RecordsAreTrue
<1>16. \A t \in q.topology : Mismatches(t) => t \in p.topology
  <2> HIDE DEF records
  <2> QED
    BY <1>10, <1>12 DEF Mismatches
<1>17. DifferenceIsKept(q)
  <2>1. ASSUME NEW g \in p.pending, Mismatches(FingerprintNode(g))
        PROVE  g \in q.pending
    <3>1. g \notin {n.segment : n \in batch}
      BY <1>3, <2>1 DEF Mismatches
    <3> QED
      BY <1>11, <3>1
  <2>2. \/ \E t \in q.topology : Mismatches(t)
        \/ q.summaries_verified /\ Mismatches(FingerprintNode(RootSegment))
        => \/ DifferenceCount(q.exact_counts) > 0
           \/ \E g \in q.pending : Mismatches(FingerprintNode(g))
    BY <1>1, <1>10, <1>16, <2>1 DEF DifferenceIsKept
  <2>3. q.summaries_verified /\ Matches(FingerprintNode(RootSegment)) =>
          Segments(q) = {RootSegment}
    BY <1>1, <1>10, <1>11 DEF DifferenceIsKept
  <2>4. q.summaries_verified => \A g \in Segments(q) : g.segment_sequence = 0 => g = RootSegment
    BY <1>1, <1>10, <1>11 DEF DifferenceIsKept
  <2> QED
    BY <2>2, <2>3, <2>4 DEF DifferenceIsKept
<1>18. /\ Terminal(q, ExactStates) = Terminal(p, ExactStates)
       /\ Terminal(q, {"fingerprint_match"}) = Terminal(p, {"fingerprint_match"}) \cup records
  <2>1. \A t \in records : t.state = "fingerprint_match"
    BY <1>12
  <2> HIDE DEF records
  <2> QED
    BY <1>10, <2>1 DEF Terminal, ExactStates
<1>19. \A kind : ExactKeys(q, kind) = ExactKeys(p, kind)
  BY <1>18 DEF ExactKeys
<1>20. FoundIn(q) = FoundIn(p)
  BY <1>18 DEF FoundIn
<1>21. CountsAreTrue(q)
  <2>1. q.pruned_matched = Cardinality(PrunedKeys(q))
    <3>1. PrunedKeys(q) = PrunedKeys(p) \cup gained
      <4>1. \A k : (\E t \in records : InRange(k, t.segment))
                      <=> \E n \in batch : InRange(k, n.segment)
        <5> HIDE DEF records
        <5> QED
          BY <1>12, <1>13
      <4> HIDE DEF gained, records
      <4> QED
        BY <1>9, <1>18, <4>1 DEF PrunedKeys
    <3>2. PrunedKeys(p) \cap gained = {}
      <4> SUFFICES ASSUME NEW k, k \in PrunedKeys(p), k \in gained
                   PROVE  FALSE
        OBVIOUS
      <4>1. PICK t \in Terminal(p, {"fingerprint_match"}) : InRange(k, t.segment)
        BY DEF PrunedKeys
      <4>2. PICK n \in batch : InRange(k, n.segment)
        BY <1>9
      <4>3. t \in p.topology /\ t.state \in TerminalStates /\ t.segment \in SegmentType
        BY <1>2 DEF Terminal, TerminalStates, RecordType
      <4>4. t.segment \in Frontier(p) /\ n.segment \in Frontier(p)
        BY <1>3, <4>3 DEF Frontier, Resolved
      <4>5. t.segment # n.segment
        BY <1>1, <1>3, <4>3 DEF TreeIsSound
      <4>6. Apart(t.segment, n.segment)
        BY <1>1, <4>4, <4>5 DEF TreeIsSound
      <4>7. k \in Int
        <5>1. k \in AllKeys
          BY <1>9 DEF AllKeys
        <5> QED
          BY <5>1, KeysOfBoth
      <4> QED
        BY <1>3, <4>1, <4>2, <4>3, <4>6, <4>7, ApartMeans
    <3>3. IsFiniteSet(PrunedKeys(p))
      <4>1. PrunedKeys(p) \subseteq AllKeys
        BY DEF PrunedKeys, AllKeys
      <4> QED
        BY <4>1, KeysOfBoth, FS_Subset
    <3>4. Cardinality(PrunedKeys(p) \cup gained) = Cardinality(PrunedKeys(p)) + Cardinality(gained)
      <4> HIDE DEF gained
      <4> QED
        BY <1>9, <3>2, <3>3, SizeOfUnion
    <3> HIDE DEF gained, pruned
    <3> QED
      BY <1>1, <1>9, <1>10, <3>1, <3>4 DEF CountsAreTrue
  <2>2. q.pruned_segments = Cardinality(Terminal(q, {"fingerprint_match"}))
    <3> DEFINE old == Terminal(p, {"fingerprint_match"})
    <3>1. old \cap records = {}
      <4> HIDE DEF records
      <4>1. \A t \in old : t \in p.topology
        BY DEF Terminal
      <4>2. \A t \in records : t.segment \in p.pending
        BY <1>3, <1>12
      <4> QED
        BY <1>1, <4>1, <4>2 DEF TreeIsSound
    <3>2. IsFiniteSet(old)
      <4>1. old \subseteq p.topology
        BY DEF Terminal
      <4> QED
        BY <1>2, <4>1, FS_Subset
    <3> HIDE DEF old, records
    <3>3. Cardinality(old \cup records) = Cardinality(old) + Cardinality(records)
      BY <1>8, <3>1, <3>2, SizeOfUnion
    <3>4. p.pruned_segments = Cardinality(old)
      BY <1>1 DEF CountsAreTrue, old
    <3> QED
      BY <1>8, <1>10, <1>18, <3>3, <3>4 DEF old
  <2>3. \A kind \in Kinds \cup {"matched"} : q.exact_counts[kind] = Cardinality(ExactKeys(q, kind))
    BY <1>1, <1>10, <1>19 DEF CountsAreTrue
  <2>4. q.exact_segments = Cardinality(Terminal(q, ExactStates))
    BY <1>1, <1>10, <1>18 DEF CountsAreTrue
  <2> QED
    BY <2>1, <2>2, <2>3, <2>4 DEF CountsAreTrue
<1>22. EvidenceIsTrue(q)
  <2>1. \A i \in 1 .. Len(p.anomalies) :
          /\ p.anomalies[i].sequence = i - 1
          /\ p.anomalies[i].key = Ascending(FoundIn(p))[i]
          /\ p.anomalies[i].kind = TrueKind(Ascending(FoundIn(p))[i])
          /\ \E t \in q.topology : /\ t.segment.segment_sequence = p.anomalies[i].segment_sequence
                                   /\ t.state = "exact_mismatch"
    <3> HIDE DEF records
    <3> QED
      BY <1>1, <1>10 DEF EvidenceIsTrue
  <2>2. /\ p.found_records = Cardinality(FoundIn(p))
        /\ Len(p.anomalies) <= p.found_records
        /\ p.retention_open => Len(p.anomalies) = p.found_records
    BY <1>1 DEF EvidenceIsTrue
  <2> QED
    BY <1>10, <1>20, <2>1, <2>2 DEF EvidenceIsTrue
<1>23. ExactComesFirst(q)
  BY <1>1, <1>11, <1>18 DEF ExactComesFirst
<1>24. ProgressFits(q)
  BY <1>1, <1>10, <1>11 DEF ProgressFits
<1>25. Shows(p) => Shows(q)
  <2> HIDE DEF records
  <2> QED
    BY <1>10 DEF Shows
<1>26. ProgressIsTrue(q)
  BY <1>10, <1>11, <1>14, <1>15, <1>17, <1>21, <1>22, <1>23, <1>24 DEF ProgressIsTrue
<1> QED
  BY <1>10, <1>11, <1>18, <1>25, <1>26

\* h and i are the halves of g.
AreHalves(g, h, i) ==
    /\ h.lower_inclusive = g.lower_inclusive
    /\ i.lower_inclusive = MathematicalUpper(h)
    /\ i.upper_exclusive = g.upper_exclusive
    /\ SoundSegment(g) /\ SoundSegment(h) /\ SoundSegment(i)

(* Fingerprints are sums: the fingerprint of a range on one side is that of *)
(* both halves.                                                            *)
LEMMA HalvesSum ==
    ASSUME input \in Inputs, NEW g, NEW h, NEW i, AreHalves(g, h, i)
    PROVE  \A s \in Sides :
              /\ Fingerprint(s, g).count = Fingerprint(s, h).count + Fingerprint(s, i).count
              /\ Fingerprint(s, g).limb_sum = Fingerprint(s, h).limb_sum + Fingerprint(s, i).limb_sum
<1>1. /\ g \in SegmentType /\ h \in SegmentType /\ i \in SegmentType
      /\ h.lower_inclusive = g.lower_inclusive
      /\ i.lower_inclusive = MathematicalUpper(h)
      /\ MathematicalUpper(i) = MathematicalUpper(g)
      /\ h.lower_inclusive < MathematicalUpper(h) /\ i.lower_inclusive < MathematicalUpper(i)
  BY DEF AreHalves, SoundSegment, MathematicalUpper
<1>2. /\ g.lower_inclusive \in Int /\ MathematicalUpper(g) \in Int /\ MathematicalUpper(h) \in Int
  BY <1>1, Bounds
<1>3. \A k \in Int : /\ InRange(k, g) <=> InRange(k, h) \/ InRange(k, i)
                     /\ ~ (InRange(k, h) /\ InRange(k, i))
  <2> SUFFICES ASSUME NEW k \in Int
               PROVE  /\ InRange(k, g) <=> InRange(k, h) \/ InRange(k, i)
                      /\ ~ (InRange(k, h) /\ InRange(k, i))
    OBVIOUS
  <2>1. /\ InRange(k, g) <=> g.lower_inclusive <= k /\ k < MathematicalUpper(g)
        /\ InRange(k, h) <=> g.lower_inclusive <= k /\ k < MathematicalUpper(h)
        /\ InRange(k, i) <=> MathematicalUpper(h) <= k /\ k < MathematicalUpper(g)
    BY <1>1 DEF InRange
  <2>2. g.lower_inclusive < MathematicalUpper(h) /\ MathematicalUpper(h) < MathematicalUpper(g)
    BY <1>1
  <2> QED
    BY <1>2, <2>1, <2>2
<1>4. ASSUME NEW s \in Sides
      PROVE  /\ Fingerprint(s, g).count = Fingerprint(s, h).count + Fingerprint(s, i).count
             /\ Fingerprint(s, g).limb_sum = Fingerprint(s, h).limb_sum + Fingerprint(s, i).limb_sum
  <2> DEFINE A == KeysIn(s, h)
             B == KeysIn(s, i)
  <2>1. /\ IsFiniteSet(A) /\ IsFiniteSet(B) /\ A \subseteq Int /\ B \subseteq Int
        /\ \A k \in A \cup B : Digest(s)[k] \in Nat
    BY KeysOfRange
  <2>2. KeysIn(s, g) \subseteq Int
    BY KeysOfRange
  <2>3. KeysIn(s, g) = A \cup B /\ A \cap B = {}
    <3>1. /\ \A k : k \in KeysIn(s, g) <=> k \in DOMAIN relation[s].rows /\ InRange(k, g)
          /\ \A k : k \in A <=> k \in DOMAIN relation[s].rows /\ InRange(k, h)
          /\ \A k : k \in B <=> k \in DOMAIN relation[s].rows /\ InRange(k, i)
      BY DEF KeysIn
    <3> HIDE DEF A, B
    <3> QED
      BY <1>3, <2>1, <2>2, <3>1
  <2>4. /\ Fingerprint(s, g).count = Cardinality(KeysIn(s, g))
        /\ Fingerprint(s, g).limb_sum = SumFunctionOnSet(Digest(s), KeysIn(s, g))
        /\ Fingerprint(s, h).count = Cardinality(A)
        /\ Fingerprint(s, h).limb_sum = SumFunctionOnSet(Digest(s), A)
        /\ Fingerprint(s, i).count = Cardinality(B)
        /\ Fingerprint(s, i).limb_sum = SumFunctionOnSet(Digest(s), B)
    BY DEF Fingerprint
  <2> HIDE DEF A, B
  <2>5. Cardinality(A \cup B) = Cardinality(A) + Cardinality(B)
    BY <2>1, <2>3, SizeOfUnion
  <2>6. SumFunctionOnSet(Digest(s), A \cup B)
           = SumFunctionOnSet(Digest(s), A) + SumFunctionOnSet(Digest(s), B)
    BY <2>1, <2>3, SumOfUnion
  <2> QED
    BY <2>3, <2>4, <2>5, <2>6
<1> QED
  BY <1>4

(* So those of a range are equal if those of both halves are.              *)
LEMMA HalvesAddUp ==
    ASSUME input \in Inputs, NEW g, NEW h, NEW i, AreHalves(g, h, i),
           Matches(FingerprintNode(h)), Matches(FingerprintNode(i))
    PROVE  Matches(FingerprintNode(g))
<1>1. \A s \in Sides :
         /\ Fingerprint(s, g).count = Fingerprint(s, h).count + Fingerprint(s, i).count
         /\ Fingerprint(s, g).limb_sum = Fingerprint(s, h).limb_sum + Fingerprint(s, i).limb_sum
  BY HalvesSum
<1>2. \A j \in {g, h, i} : Matches(FingerprintNode(j)) <=>
                              /\ Fingerprint("reference", j).count = Fingerprint("target", j).count
                              /\ Fingerprint("reference", j).limb_sum
                                    = Fingerprint("target", j).limb_sum
  <2> SUFFICES ASSUME NEW j \in {g, h, i}
               PROVE  Matches(FingerprintNode(j)) <=>
                              /\ Fingerprint("reference", j).count = Fingerprint("target", j).count
                              /\ Fingerprint("reference", j).limb_sum
                                    = Fingerprint("target", j).limb_sum
    OBVIOUS
  <2>1. Matches(FingerprintNode(j)) <=> Fingerprint("reference", j) = Fingerprint("target", j)
    BY DEF Matches, FingerprintNode, Sides
  <2>2. \A s \in Sides : Fingerprint(s, j) = [count |-> Fingerprint(s, j).count,
                                              limb_sum |-> Fingerprint(s, j).limb_sum]
    BY DEF Fingerprint
  <2> QED
    BY <2>1, <2>2 DEF Sides
<1> QED
  BY <1>1, <1>2 DEF Sides

\* The halves of the ranges of the nodes M.
HalvesOf(M, half) == {half[n][i] : n \in M, i \in 1 .. 2}

\* q is p with every pending range, M are their nodes, halved, and with the
\* witnesses of these ranges left out.
HalvesAll(p, q, M, N, half) ==
    /\ p.pending = {n.segment : n \in M}
    /\ N = Cardinality(p.topology) + Cardinality(p.pending)
    /\ \A n \in M : /\ half[n] = SplitSegment(n.segment, N + 2 * Rank(n, M)) /\ half[n] # None
                    /\ \A i \in 1 .. 2 : half[n][i].depth <= budgets.max_depth
    /\ q = [p EXCEPT !.topology = @ \cup {SegmentRecord(n, "split") : n \in M},
                     !.pending = HalvesOf(M, half),
                     !.mismatch_witnesses = WithoutMismatchWitness(@, SequenceNumbers(M))]

(* Splitting all the pending ranges, which differ, keeps a progress true.  *)
LEMMA SplitKeeps ==
    ASSUME input \in Inputs, NEW p, ProgressIsTrue(p),
           NEW M, PendingNodes(p, M), \A n \in M : Mismatches(n), M # {},
           Terminal(p, ExactStates) = {},
           NEW N, NEW half, NEW q, HalvesAll(p, q, M, N, half)
    PROVE  /\ ProgressIsTrue(q)
           /\ Cardinality(q.topology) = N
           /\ q.fingerprint_nodes = p.fingerprint_nodes
           /\ q.summaries_verified = p.summaries_verified
           /\ q.pending = HalvesOf(M, half)
           /\ Terminal(q, ExactStates) = {}
           /\ Shows(q)
           /\ SplitsInto(p, q, M, N, half)
           /\ q.mismatch_witnesses = WithoutMismatchWitness(p.mismatch_witnesses, SequenceNumbers(M))
           /\ q.anomalies = p.anomalies /\ q.retained_bytes = p.retained_bytes
<1> DEFINE records == {SegmentRecord(n, "split") : n \in M}
           halves == {half[n][i] : n \in M, i \in 1 .. 2}
           kept == WithoutMismatchWitness(p.mismatch_witnesses, SequenceNumbers(M))
<1>1. /\ p \in ProgressType /\ TreeIsSound(p) /\ HoldsEveryKey(p) /\ RecordsAreTrue(p)
      /\ DifferenceIsKept(p) /\ CountsAreTrue(p) /\ EvidenceIsTrue(p) /\ ExactComesFirst(p)
      /\ ProgressFits(p)
  BY DEF ProgressIsTrue
<1>2. /\ p.pending \subseteq SegmentType /\ p.topology \subseteq RecordType
      /\ p.mismatch_witnesses \subseteq NodeType
      /\ IsFiniteSet(p.pending) /\ IsFiniteSet(p.topology)
  BY <1>1 DEF ProgressType, TreeIsSound
<1>3. /\ p.pending = {n.segment : n \in M}
      /\ N = Cardinality(p.topology) + Cardinality(p.pending)
      /\ \A n \in M : /\ half[n] = SplitSegment(n.segment, N + 2 * Rank(n, M)) /\ half[n] # None
                      /\ \A i \in 1 .. 2 : half[n][i].depth <= budgets.max_depth
      /\ q = [p EXCEPT !.topology = p.topology \cup records, !.pending = halves,
                       !.mismatch_witnesses = kept]
  BY DEF HalvesAll, HalvesOf
<1>4. \A n \in M : /\ n.segment \in p.pending /\ n.segment \in SegmentType
                   /\ n = FingerprintNode(n.segment)
  BY <1>2 DEF PendingNodes
<1>5. \A n, m \in M : n.segment = m.segment => n = m
  BY <1>4
<1>6. ASSUME NEW n \in M
      PROVE  LET r == SegmentRecord(n, "split")
             IN  /\ n \in NodeType /\ r \in RecordType /\ r.segment = n.segment
                 /\ r.state = "split"
                 /\ r = SegmentRecord(FingerprintNode(r.segment), r.state)
                 /\ Mismatches(r)
  BY <1>4, RecordOfNode DEF Mismatches
<1>7. M \in SUBSET NodeType /\ records \in SUBSET RecordType
  BY <1>6
<1>8. \A t \in records : \E n \in M : /\ t.segment = n.segment /\ t.state = "split"
                                      /\ t = SegmentRecord(FingerprintNode(t.segment), t.state)
                                      /\ Mismatches(t)
  BY <1>6
<1>9. \A n \in M : \E t \in records : t.segment = n.segment /\ Mismatches(t)
  BY <1>6
<1>10. ASSUME NEW n \in M
       PROVE  AreHalves(n.segment, half[n][1], half[n][2])
  <2> DEFINE g == n.segment
             k == N + 2 * Rank(n, M)
  <2>1. SoundSegment(g)
    BY <1>1, <1>4 DEF TreeIsSound, Segments
  <2>2. k \in Nat /\ k > g.segment_sequence
    <3>1. g.segment_sequence \in 0 .. Cardinality(p.pending) + Cardinality(p.topology) - 1
      <4>1. g.segment_sequence \in NumbersOf(Segments(p))
        BY <1>4 DEF NumbersOf, Segments
      <4> QED
        BY <1>1, <4>1 DEF TreeIsSound
    <3>2. Cardinality(p.pending) \in Nat /\ Cardinality(p.topology) \in Nat
      BY <1>2, FS_CardinalityType
    <3>3. Rank(n, M) \in Nat
      <4>1. IsFiniteSet(M)
        <5> DEFINE f == [h \in p.pending |-> FingerprintNode(h)]
        <5>1. f \in [p.pending -> M] /\ \A m \in M : \E h \in p.pending : f[h] = m
          BY <1>3, <1>4
        <5>2. \A x, y \in p.pending : f[x] = f[y] => x = y
          <6>1. \A x \in p.pending : f[x].segment = x
            BY DEF FingerprintNode
          <6> HIDE DEF f
          <6> QED
            BY <6>1
        <5> HIDE DEF f
        <5> QED
          BY ONLY <1>2, <5>1, <5>2, SameSize
      <4>2. {m \in M : m.segment.segment_sequence < n.segment.segment_sequence} \subseteq M
        OBVIOUS
      <4> QED
        BY <4>1, <4>2, FS_Subset, FS_CardinalityType DEF Rank
    <3> HIDE DEF g
    <3> QED
      BY <1>3, <3>1, <3>2, <3>3
  <2>3. half[n] = SplitSegment(g, k) /\ SplitSegment(g, k) # None
    BY <1>3
  <2> HIDE DEF g, k
  <2>4. LET h == SplitSegment(g, k)
        IN  /\ SoundSegment(h[1]) /\ SoundSegment(h[2])
            /\ h[1].lower_inclusive = g.lower_inclusive
            /\ h[2].lower_inclusive = h[1].upper_exclusive
            /\ h[2].upper_exclusive = g.upper_exclusive
            /\ h[1].upper_exclusive = MathematicalUpper(h[1])
    BY <2>1, <2>2, <2>3, HalvesOfRange
  <2> QED
    BY <2>1, <2>3, <2>4 DEF AreHalves, g
<1>11. halves \in SUBSET SegmentType /\ kept \in SUBSET NodeType
  <2>1. \A n \in M : half[n][1] \in SegmentType /\ half[n][2] \in SegmentType
    BY <1>10 DEF AreHalves, SoundSegment
  <2>2. \A i \in 1 .. 2 : i = 1 \/ i = 2
    OBVIOUS
  <2>3. \A g \in halves : \E n \in M : g = half[n][1] \/ g = half[n][2]
    BY <2>2
  <2>4. halves \in SUBSET SegmentType
    <3> HIDE DEF halves
    <3> QED
      BY <2>1, <2>3
  <2>5. kept \in SUBSET NodeType
    BY <1>2 DEF WithoutMismatchWitness
  <2> QED
    BY <2>4, <2>5
<1>12. /\ q \in ProgressType
       /\ q.topology = p.topology \cup records /\ q.pending = halves
       /\ q.mismatch_witnesses = kept
       /\ q.exact_counts = p.exact_counts /\ q.exact_segments = p.exact_segments
       /\ q.pruned_matched = p.pruned_matched /\ q.pruned_segments = p.pruned_segments
       /\ q.summaries_verified = p.summaries_verified
       /\ q.fingerprint_nodes = p.fingerprint_nodes /\ q.anomalies = p.anomalies
       /\ q.found_records = p.found_records /\ q.found_bytes = p.found_bytes
       /\ q.retained_bytes = p.retained_bytes /\ q.retention_open = p.retention_open
  <2> DEFINE t == p.topology \cup records
  <2>1. t \in SUBSET RecordType
    <3> HIDE DEF records
    <3> QED
      BY <1>2, <1>7
  <2>2. q = [p EXCEPT !.topology = t, !.pending = halves, !.mismatch_witnesses = kept]
    BY <1>3
  <2> HIDE DEF t, halves, kept
  <2>3. SplitTo(p, q, t, halves, kept)
    BY <1>1, <1>11, <2>1, <2>2 DEF SplitTo
  <2>4. /\ q \in ProgressType
        /\ q.topology = t /\ q.pending = halves /\ q.mismatch_witnesses = kept
        /\ q.exact_counts = p.exact_counts /\ q.exact_segments = p.exact_segments
        /\ q.pruned_matched = p.pruned_matched /\ q.pruned_segments = p.pruned_segments
        /\ q.summaries_verified = p.summaries_verified
        /\ q.fingerprint_nodes = p.fingerprint_nodes /\ q.anomalies = p.anomalies
        /\ q.found_records = p.found_records /\ q.found_bytes = p.found_bytes
        /\ q.retained_bytes = p.retained_bytes /\ q.retention_open = p.retention_open
    BY <2>3, SplitFields
  <2> QED
    BY <2>4 DEF t
<1>13. SplitsInto(p, q, M, N, half)
  BY <1>3, <1>5, <1>7, <1>12 DEF SplitsInto
<1>14. /\ TreeIsSound(q)
       /\ HoldsEveryKey(p) => HoldsEveryKey(q)
       /\ Cardinality(q.topology) = N
       /\ \A n \in M : \A i \in 1 .. 2 : half[n][i].parent = n.segment.segment_sequence
  <2>1. input \in Inputs /\ p \in ProgressType /\ TreeIsSound(p) /\ q \in ProgressType
    BY <1>1, <1>12
  <2> QED
    BY ONLY <1>13, <2>1, SplitKeepsTree
<1>15. RecordsAreTrue(q)
  <2> HIDE DEF records, kept
  <2>1. ASSUME NEW t \in q.topology
        PROVE  /\ t = SegmentRecord(FingerprintNode(t.segment), t.state)
               /\ t.state \in {"fingerprint_match", "exact_match"} <=> Matches(t)
               /\ t.state # "exact_match"
    <3>1. CASE t \in p.topology
      BY <1>1, <3>1 DEF RecordsAreTrue
    <3>2. CASE t \in records
      BY <1>8, <3>2 DEF Mismatches
    <3> QED
      BY <1>12, <3>1, <3>2
  <2>2. ASSUME NEW w \in q.mismatch_witnesses
        PROVE  FALSE
    <3>1. w \in p.mismatch_witnesses /\ w.segment.segment_sequence \notin SequenceNumbers(M)
      BY <1>12 DEF kept, WithoutMismatchWitness
    <3>2. w.segment \in p.pending
      BY <1>1, <3>1 DEF RecordsAreTrue
    <3> QED
      BY <1>3, <3>1, <3>2 DEF SequenceNumbers
  <2> QED
    BY <2>1, <2>2 DEF RecordsAreTrue
<1>16. DifferenceIsKept(q)
  <2>1. \E g \in q.pending : Mismatches(FingerprintNode(g))
    <3>1. PICK n \in M : TRUE
      OBVIOUS
    <3>2. ~ Matches(FingerprintNode(n.segment))
      BY <1>4 DEF Mismatches
    <3>3. ~ Matches(FingerprintNode(half[n][1])) \/ ~ Matches(FingerprintNode(half[n][2]))
      BY <1>10, <3>2, HalvesAddUp
    <3>4. 1 \in 1 .. 2 /\ 2 \in 1 .. 2
      OBVIOUS
    <3>5. half[n][1] \in halves /\ half[n][2] \in halves
      BY <3>4
    <3> QED
      BY <1>12, <3>3, <3>5 DEF Mismatches
  <2>2. ~ (q.summaries_verified /\ Matches(FingerprintNode(RootSegment)))
    <3> SUFFICES ASSUME p.summaries_verified, Matches(FingerprintNode(RootSegment))
                 PROVE  FALSE
      BY <1>12
    <3>1. Segments(p) = {RootSegment}
      BY <1>1 DEF DifferenceIsKept
    <3>2. PICK n \in M : TRUE
      OBVIOUS
    <3>3. n.segment = RootSegment
      BY <1>4, <3>1 DEF Segments
    <3> QED
      BY <1>4, <3>3 DEF Mismatches
  <2>3. ASSUME NEW g \in Segments(q), q.summaries_verified, g.segment_sequence = 0
        PROVE  g = RootSegment
    <3>1. \A h \in halves : h.segment_sequence # 0
      <4> SUFFICES ASSUME NEW n \in M, NEW i \in 1 .. 2
                   PROVE  half[n][i].segment_sequence # 0
        OBVIOUS
      <4>1. i = 1 \/ i = 2
        OBVIOUS
      <4>2. SoundSegment(half[n][i])
        BY <1>10, <4>1 DEF AreHalves
      <4>3. half[n][i].parent = n.segment.segment_sequence
        BY <1>14
      <4>4. n.segment.segment_sequence \in Nat /\ half[n][i].segment_sequence \in Nat
        BY <1>4, <4>2, Bounds DEF SoundSegment
      <4> QED
        BY <4>2, <4>3, <4>4, NoneAssumption DEF SoundSegment
    <3>2. g \in halves \/ \E t \in p.topology \cup records : g = t.segment
      <4> HIDE DEF halves, records
      <4> QED
        BY <1>12 DEF Segments
    <3>3. \A t \in records : t.segment \in p.pending
      BY <1>4, <1>8
    <3>4. g \in Segments(p)
      <4> HIDE DEF halves, records
      <4> QED
        BY <2>3, <3>1, <3>2, <3>3 DEF Segments
    <3> QED
      BY <1>1, <1>12, <2>3, <3>4 DEF DifferenceIsKept
  <2> QED
    BY <2>1, <2>2, <2>3 DEF DifferenceIsKept
<1>17. /\ Terminal(q, ExactStates) = Terminal(p, ExactStates)
       /\ Terminal(q, {"fingerprint_match"}) = Terminal(p, {"fingerprint_match"})
  <2>1. \A t \in records : t.state = "split"
    BY <1>8
  <2> HIDE DEF records
  <2> QED
    BY <1>12, <2>1 DEF Terminal, ExactStates
<1>18. \A kind : ExactKeys(q, kind) = ExactKeys(p, kind)
  BY <1>17 DEF ExactKeys
<1>19. FoundIn(q) = FoundIn(p) /\ PrunedKeys(q) = PrunedKeys(p)
  BY <1>17 DEF FoundIn, PrunedKeys
<1>20. CountsAreTrue(q)
  BY <1>1, <1>12, <1>17, <1>18, <1>19 DEF CountsAreTrue
<1>21. EvidenceIsTrue(q)
  <2>1. \A i \in 1 .. Len(p.anomalies) :
          /\ p.anomalies[i].sequence = i - 1
          /\ p.anomalies[i].key = Ascending(FoundIn(p))[i]
          /\ p.anomalies[i].kind = TrueKind(Ascending(FoundIn(p))[i])
          /\ \E t \in q.topology : /\ t.segment.segment_sequence = p.anomalies[i].segment_sequence
                                   /\ t.state = "exact_mismatch"
    <3> HIDE DEF records
    <3> QED
      BY <1>1, <1>12 DEF EvidenceIsTrue
  <2>2. /\ p.found_records = Cardinality(FoundIn(p))
        /\ Len(p.anomalies) <= p.found_records
        /\ p.retention_open => Len(p.anomalies) = p.found_records
    BY <1>1 DEF EvidenceIsTrue
  <2> QED
    BY <1>12, <1>19, <2>1, <2>2 DEF EvidenceIsTrue
<1>22. ExactComesFirst(q)
  BY <1>17 DEF ExactComesFirst
<1>23. ProgressFits(q)
  <2>1. \A g \in Segments(q) : g.depth <= budgets.max_depth
    <3>1. \A g \in halves : g.depth <= budgets.max_depth
      <4> SUFFICES ASSUME NEW n \in M, NEW i \in 1 .. 2
                   PROVE  half[n][i].depth <= budgets.max_depth
        OBVIOUS
      <4> QED
        BY <1>3
    <3>2. \A t \in records : t.segment \in p.pending
      BY <1>4, <1>8
    <3>3. \A g \in p.pending : g.depth <= budgets.max_depth
      BY <1>1 DEF ProgressFits, Segments
    <3>4. \A t \in p.topology : t.segment.depth <= budgets.max_depth
      BY <1>1 DEF ProgressFits, Segments
    <3> HIDE DEF halves, records
    <3> QED
      BY <1>12, <3>1, <3>2, <3>3, <3>4 DEF Segments
  <2> QED
    BY <1>1, <1>12, <2>1 DEF ProgressFits
<1>24. Shows(q)
  <2>1. \E t \in records : Mismatches(t)
    BY <1>9
  <2> HIDE DEF records
  <2> QED
    BY <1>12, <2>1 DEF Shows
<1>25. ProgressIsTrue(q)
  BY <1>1, <1>12, <1>14, <1>15, <1>16, <1>20, <1>21, <1>22, <1>23 DEF ProgressIsTrue
<1>26. q.pending = HalvesOf(M, half)
  BY ONLY <1>12 DEF halves, HalvesOf
<1>27. /\ q.mismatch_witnesses = WithoutMismatchWitness(p.mismatch_witnesses, SequenceNumbers(M))
       /\ q.fingerprint_nodes = p.fingerprint_nodes
       /\ q.summaries_verified = p.summaries_verified
       /\ q.anomalies = p.anomalies /\ q.retained_bytes = p.retained_bytes
  BY ONLY <1>12
<1>28. Cardinality(q.topology) = N
  BY ONLY <1>14
<1> QED
  BY <1>13, <1>17, <1>24, <1>25, <1>26, <1>27, <1>28, Zenon

\* A difference of two rows.
Difference == [kind : Kinds, key : Key]

(* The bytes of some differences.                                          *)
LEMMA BytesAreNatural ==
    ASSUME NEW d \in Seq(Difference)
    PROVE  /\ Bytes(d) \in Nat
           /\ \A n \in 0 .. Len(d) : Bytes(SubSeq(d, 1, n)) \in Nat
           /\ Bytes(SubSeq(d, 1, 0)) = 0
<1>1. ASSUME NEW e \in Seq(Difference)
      PROVE  /\ Bytes(e) \in Nat
             /\ Len(e) = 0 => Bytes(e) = 0
  <2> DEFINE w == [i \in DOMAIN e |-> RecordBytes[e[i].kind]]
  <2>1. DOMAIN e = 1 .. Len(e) /\ Len(e) \in Nat
    OBVIOUS
  <2>2. IsFiniteSet(DOMAIN e)
    BY <2>1, FS_Interval
  <2>3. \A i \in DOMAIN e : w[i] \in Nat
    <3> SUFFICES ASSUME NEW i \in DOMAIN e
                 PROVE  RecordBytes[e[i].kind] \in Nat
      OBVIOUS
    <3>1. e[i] \in Difference
      OBVIOUS
    <3>2. e[i].kind \in Kinds
      BY <3>1 DEF Difference
    <3> QED
      BY <3>2, BytesAssumption
  <2>4. DOMAIN w = DOMAIN e
    OBVIOUS
  <2>5. Bytes(e) = SumFunctionOnSet(w, DOMAIN e)
    BY <2>4 DEF Bytes, SumFunction, SumFunctionOnSet, FoldFunction
  <2>6. Bytes(e) \in Nat
    <3> HIDE DEF w
    <3> QED
      BY <2>2, <2>3, <2>5, SumIsNatural
  <2>7. Len(e) = 0 => Bytes(e) = 0
    <3> SUFFICES ASSUME Len(e) = 0
                 PROVE  Bytes(e) = 0
      OBVIOUS
    <3>1. DOMAIN e = {}
      BY <2>1
    <3> HIDE DEF w
    <3> QED
      BY <2>2, <2>5, <3>1, SumUnfolds
  <2> QED
    BY <2>6, <2>7
<1>2. ASSUME NEW n \in 0 .. Len(d)
      PROVE  Bytes(SubSeq(d, 1, n)) \in Nat /\ (n = 0 => Bytes(SubSeq(d, 1, n)) = 0)
  <2>1. SubSeq(d, 1, n) \in Seq(Difference) /\ Len(SubSeq(d, 1, n)) = n
    OBVIOUS
  <2> QED
    BY <1>1, <2>1
<1>3. 0 \in 0 .. Len(d)
  OBVIOUS
<1> QED
  BY <1>1, <1>2, <1>3

\* What is kept of the differences found in a range numbered number.
KeptOf(p, d, number, kept) ==
    [i \in 1 .. kept |->
        [sequence |-> p.found_records + i - 1, kind |-> d[i].kind,
         key |-> d[i].key, segment_sequence |-> number]]

(* Evidence retention appends the first differences, as many as fit.       *)
LEMMA Retention ==
    ASSUME input \in Inputs, NEW p, p \in ProgressType,
           NEW d, d \in Seq(Difference), NEW number, number \in Nat,
           Len(p.anomalies) <= budgets.max_evidence_rows,
           p.retained_bytes <= budgets.max_evidence_bytes,
           NEW q, q = RetainExactDifferences(p, d, number)
    PROVE  \E kept \in 0 .. Len(d) :
              /\ p.retention_open \/ kept = 0
              /\ Len(p.anomalies) + kept <= budgets.max_evidence_rows
              /\ p.retained_bytes + Bytes(SubSeq(d, 1, kept)) <= budgets.max_evidence_bytes
              /\ RetainedTo(p, q, p.found_records + Len(d), p.found_bytes + Bytes(d),
                            p.retention_open /\ kept = Len(d),
                            p.anomalies \o KeptOf(p, d, number, kept),
                            p.retained_bytes + Bytes(SubSeq(d, 1, kept)))
<1> DEFINE fit == {n \in 0 .. Len(d) :
                     /\ n > 0 => Len(p.anomalies) + n <= budgets.max_evidence_rows
                     /\ p.retained_bytes + Bytes(SubSeq(d, 1, n)) <= budgets.max_evidence_bytes}
           kept == IF p.retention_open THEN RetainedLength(p, d) ELSE 0
<1>1. /\ p.found_records \in Nat /\ p.found_bytes \in Nat /\ p.retained_bytes \in Nat
      /\ p.retention_open \in BOOLEAN /\ p.anomalies \in Seq(AnomalyType)
  BY DEF ProgressType
<1>2. Len(d) \in Nat /\ Len(p.anomalies) \in Nat
  BY <1>1
<1>3. /\ Bytes(d) \in Nat /\ \A n \in 0 .. Len(d) : Bytes(SubSeq(d, 1, n)) \in Nat
      /\ Bytes(SubSeq(d, 1, 0)) = 0
  BY BytesAreNatural
<1>4. 0 \in fit
  BY <1>1, <1>2, <1>3
<1>5. RetainedLength(p, d) \in fit
  <2>1. IsFiniteSet(fit) /\ fit \subseteq Int /\ fit # {}
    <3>1. fit \subseteq 0 .. Len(d)
      OBVIOUS
    <3>2. IsFiniteSet(0 .. Len(d)) /\ 0 .. Len(d) \subseteq Int
      BY <1>2, FS_Interval
    <3> HIDE DEF fit
    <3> QED
      BY <1>4, <3>1, <3>2, FS_Subset
  <2>2. Max(fit) \in fit
    <3> HIDE DEF fit
    <3> QED
      BY <2>1, Extremes
  <2> QED
    BY <2>2 DEF RetainedLength
<1>6. kept \in fit
  <2> HIDE DEF fit
  <2> QED
    BY <1>4, <1>5
<1>7. /\ kept \in 0 .. Len(d)
      /\ p.retention_open \/ kept = 0
      /\ Len(p.anomalies) + kept <= budgets.max_evidence_rows
      /\ p.retained_bytes + Bytes(SubSeq(d, 1, kept)) <= budgets.max_evidence_bytes
  <2>1. kept = 0 => Len(p.anomalies) + kept <= budgets.max_evidence_rows
    <3> HIDE DEF kept
    <3> QED
      BY <1>2
  <2>2. p.retention_open \/ kept = 0
    OBVIOUS
  <2> HIDE DEF kept
  <2> QED
    BY <1>2, <1>6, <2>1, <2>2
<1>8. KeptOf(p, d, number, kept) \in Seq(AnomalyType)
  <2> HIDE DEF kept
  <2>1. \A i \in 1 .. kept : [sequence |-> p.found_records + i - 1, kind |-> d[i].kind,
                              key |-> d[i].key, segment_sequence |-> number] \in AnomalyType
    <3> SUFFICES ASSUME NEW i \in 1 .. kept
                 PROVE  [sequence |-> p.found_records + i - 1, kind |-> d[i].kind,
                         key |-> d[i].key, segment_sequence |-> number] \in AnomalyType
      OBVIOUS
    <3>1. i \in 1 .. Len(d)
      BY <1>2, <1>7
    <3>2. d[i] \in Difference
      BY <3>1
    <3>3. d[i].kind \in Kinds /\ d[i].key \in Key
      BY <3>2 DEF Difference
    <3>4. p.found_records + i - 1 \in Nat
      BY <1>1, <1>2, <3>1
    <3> QED
      BY <3>3, <3>4 DEF AnomalyType
  <2>2. KeptOf(p, d, number, kept) \in [1 .. kept -> AnomalyType]
    BY <2>1 DEF KeptOf
  <2>3. kept \in Nat
    BY <1>7
  <2> HIDE DEF KeptOf
  <2> QED
    BY ONLY <2>2, <2>3
<1>9. /\ p.found_records + Len(d) \in Nat /\ p.found_bytes + Bytes(d) \in Nat
      /\ (p.retention_open /\ kept = Len(d)) \in BOOLEAN
      /\ p.anomalies \o KeptOf(p, d, number, kept) \in Seq(AnomalyType)
      /\ p.retained_bytes + Bytes(SubSeq(d, 1, kept)) \in Nat
  <2> HIDE DEF kept
  <2>1. p.found_records + Len(d) \in Nat /\ p.found_bytes + Bytes(d) \in Nat
    BY <1>1, <1>2, <1>3
  <2>2. (p.retention_open /\ kept = Len(d)) \in BOOLEAN
    OBVIOUS
  <2>3. p.anomalies \o KeptOf(p, d, number, kept) \in Seq(AnomalyType)
    BY ONLY <1>1, <1>8
  <2>4. p.retained_bytes + Bytes(SubSeq(d, 1, kept)) \in Nat
    BY <1>1, <1>3, <1>7
  <2> QED
    BY ONLY <2>1, <2>2, <2>3, <2>4
<1>10. q = [p EXCEPT !.found_records = p.found_records + Len(d),
                     !.found_bytes = p.found_bytes + Bytes(d),
                     !.retention_open = p.retention_open /\ kept = Len(d),
                     !.anomalies = p.anomalies \o KeptOf(p, d, number, kept),
                     !.retained_bytes = p.retained_bytes + Bytes(SubSeq(d, 1, kept))]
  <2>1. q = Retain(p, d, number, kept)
    BY DEF RetainExactDifferences
  <2> HIDE DEF kept
  <2> QED
    BY <2>1 DEF Retain, KeptOf
<1> HIDE DEF kept
<1>11. RetainedTo(p, q, p.found_records + Len(d), p.found_bytes + Bytes(d),
                  p.retention_open /\ kept = Len(d),
                  p.anomalies \o KeptOf(p, d, number, kept),
                  p.retained_bytes + Bytes(SubSeq(d, 1, kept)))
  BY <1>9, <1>10, Zenon DEF RetainedTo
<1> QED
  BY <1>7, <1>11

(* Adding up counts.                                                       *)
LEMMA CountsAdd ==
    ASSUME NEW x, x \in Counts, NEW y, y \in Counts
    PROVE  /\ AddExactCounts(x, y) \in Counts
           /\ \A kind \in Kinds \cup {"matched"} : AddExactCounts(x, y)[kind] = x[kind] + y[kind]
           /\ DifferenceCount(x) \in Nat /\ DifferenceCount(y) \in Nat
           /\ DifferenceCount(AddExactCounts(x, y)) = DifferenceCount(x) + DifferenceCount(y)
<1>1. /\ DOMAIN x = Kinds \cup {"matched"}
      /\ \A kind \in Kinds \cup {"matched"} : x[kind] \in Nat /\ y[kind] \in Nat
  BY DEF Counts
<1>2. \A kind \in Kinds \cup {"matched"} : AddExactCounts(x, y)[kind] = x[kind] + y[kind]
  BY <1>1 DEF AddExactCounts
<1>3. AddExactCounts(x, y) \in Counts
  BY <1>1 DEF AddExactCounts, Counts
<1> QED
  BY <1>1, <1>2, <1>3 DEF DifferenceCount, Kinds

\* The pending range of a node compared row by row: p becomes leaf.
LeafOf(p, leaf, node, found) ==
    leaf = [p EXCEPT
              !.exact_counts = AddExactCounts(@, found.counts),
              !.exact_segments = @ + 1,
              !.topology = @ \cup
                 {SegmentRecord(node, IF DifferenceCount(found.counts) = 0 THEN "exact_match"
                                                                          ELSE "exact_mismatch")},
              !.pending = WithoutPendingSequence(@, {node.segment.segment_sequence}),
              !.mismatch_witnesses =
                  WithoutMismatchWitness(@, {node.segment.segment_sequence})]

\* The range g is the first that is pending.
FirstPending(p, g) ==
    g \in p.pending /\ \A h \in p.pending : g.segment_sequence <= h.segment_sequence

\* The fields of the leaf.
LeafHas(p, leaf, node, found) ==
    /\ leaf \in ProgressType
    /\ leaf.exact_counts = AddExactCounts(p.exact_counts, found.counts)
    /\ leaf.exact_segments = p.exact_segments + 1
    /\ leaf.topology = p.topology \cup {SegmentRecord(node, "exact_mismatch")}
    /\ leaf.pending = WithoutPendingSequence(p.pending, {node.segment.segment_sequence})
    /\ leaf.mismatch_witnesses =
          WithoutMismatchWitness(p.mismatch_witnesses, {node.segment.segment_sequence})
    /\ leaf.pruned_matched = p.pruned_matched /\ leaf.pruned_segments = p.pruned_segments
    /\ leaf.summaries_verified = p.summaries_verified
    /\ leaf.fingerprint_nodes = p.fingerprint_nodes /\ leaf.anomalies = p.anomalies
    /\ leaf.found_records = p.found_records /\ leaf.found_bytes = p.found_bytes
    /\ leaf.retained_bytes = p.retained_bytes /\ leaf.retention_open = p.retention_open

(* What the leaf is made of.                                               *)
LEMMA LeafIsTyped ==
    ASSUME input \in Inputs, NEW p, ProgressIsTrue(p),
           NEW node, node.segment \in p.pending, node = FingerprintNode(node.segment),
           Mismatches(node), NEW found, found = ExactDifferences(node.segment),
           NEW leaf, LeafOf(p, leaf, node, found)
    PROVE  LeafHas(p, leaf, node, found)
<1> DEFINE g == node.segment
           x == AddExactCounts(p.exact_counts, found.counts)
           c == p.exact_segments + 1
           t == p.topology \cup {SegmentRecord(node, "exact_mismatch")}
           left == WithoutPendingSequence(p.pending, {g.segment_sequence})
           w == WithoutMismatchWitness(p.mismatch_witnesses, {g.segment_sequence})
<1>1. p \in ProgressType
  BY DEF ProgressIsTrue
<1>2. /\ p.pending \subseteq SegmentType /\ p.topology \subseteq RecordType
      /\ p.mismatch_witnesses \subseteq NodeType
      /\ p.exact_counts \in Counts /\ p.exact_segments \in Nat
  BY <1>1 DEF ProgressType
<1>3. g \in SegmentType
  BY <1>2
<1>4. found.counts \in Counts /\ DifferenceCount(found.counts) # 0
  <2>1. found.counts \in Counts /\ (DifferenceCount(found.counts) = 0 => Matches(FingerprintNode(g)))
    BY <1>3, LeafIsTrue
  <2> QED
    BY <2>1 DEF Mismatches
<1>5. SegmentRecord(node, "exact_mismatch") \in RecordType
  BY <1>3, RecordOfNode DEF TerminalStates
<1>6. x \in Counts
  BY <1>2, <1>4, CountsAdd
<1>7. /\ c \in Nat /\ t \in SUBSET RecordType /\ left \in SUBSET SegmentType
      /\ w \in SUBSET NodeType
  BY <1>2, <1>5 DEF WithoutPendingSequence, WithoutMismatchWitness
<1>8. leaf = [p EXCEPT !.exact_counts = x, !.exact_segments = c, !.topology = t,
                       !.pending = left, !.mismatch_witnesses = w]
  BY <1>4 DEF LeafOf
<1> HIDE DEF x, c, t, left, w
<1>9. LeafTo(p, leaf, x, c, t, left, w)
  BY <1>1, <1>6, <1>7, <1>8 DEF LeafTo
<1>10. /\ leaf \in ProgressType
       /\ leaf.exact_counts = x /\ leaf.exact_segments = c
       /\ leaf.topology = t /\ leaf.pending = left /\ leaf.mismatch_witnesses = w
       /\ leaf.pruned_matched = p.pruned_matched /\ leaf.pruned_segments = p.pruned_segments
       /\ leaf.summaries_verified = p.summaries_verified
       /\ leaf.fingerprint_nodes = p.fingerprint_nodes /\ leaf.anomalies = p.anomalies
       /\ leaf.found_records = p.found_records /\ leaf.found_bytes = p.found_bytes
       /\ leaf.retained_bytes = p.retained_bytes /\ leaf.retention_open = p.retention_open
  BY <1>9, LeafFields
<1> QED
  BY <1>10 DEF x, c, t, left, w, LeafHas

(* The keys compared so far lie before those of a range that is pending.   *)
LEMMA ComparedBefore ==
    ASSUME input \in Inputs, NEW p, ProgressIsTrue(p), NEW g \in p.pending
    PROVE  /\ \A kind : /\ IsFiniteSet(ExactKeys(p, kind)) /\ IsFiniteSet(KindIn(g, kind))
                        /\ ExactKeys(p, kind) \cap KindIn(g, kind) = {}
           /\ IsFiniteSet(FoundIn(p)) /\ IsFiniteSet(DifferentIn(g))
           /\ FoundIn(p) \subseteq Int /\ DifferentIn(g) \subseteq Int
           /\ \A a \in FoundIn(p), b \in DifferentIn(g) : a < b
<1>1. /\ p.pending \subseteq SegmentType /\ p.topology \subseteq RecordType
      /\ ExactComesFirst(p)
  BY DEF ProgressIsTrue, ProgressType
<1>2. AllKeys \subseteq Int /\ IsFiniteSet(AllKeys)
  BY KeysOfBoth
<1>3. ASSUME NEW t \in Terminal(p, ExactStates), NEW a \in Int, NEW b \in Int,
             InRange(a, t.segment), InRange(b, g)
      PROVE  a < b
  <2>1. t.segment \in SegmentType /\ g \in SegmentType
    BY <1>1 DEF Terminal, RecordType
  <2>2. MathematicalUpper(t.segment) <= g.lower_inclusive
    BY <1>1 DEF ExactComesFirst
  <2>3. a < MathematicalUpper(t.segment) /\ g.lower_inclusive <= b
    BY <1>3 DEF InRange
  <2>4. MathematicalUpper(t.segment) \in Int /\ g.lower_inclusive \in Int
    BY <2>1, Bounds
  <2> QED
    BY <2>2, <2>3, <2>4
<1>4. ASSUME NEW kind
      PROVE  /\ IsFiniteSet(ExactKeys(p, kind)) /\ IsFiniteSet(KindIn(g, kind))
             /\ ExactKeys(p, kind) \cap KindIn(g, kind) = {}
  <2>1. ExactKeys(p, kind) \subseteq AllKeys /\ KindIn(g, kind) \subseteq AllKeys
    BY DEF ExactKeys, KindIn
  <2>2. IsFiniteSet(ExactKeys(p, kind)) /\ IsFiniteSet(KindIn(g, kind))
    BY <1>2, <2>1, FS_Subset
  <2>3. ASSUME NEW k, k \in ExactKeys(p, kind), k \in KindIn(g, kind)
        PROVE  FALSE
    <3>1. PICK t \in Terminal(p, ExactStates) : InRange(k, t.segment)
      BY <2>3 DEF ExactKeys
    <3>2. InRange(k, g) /\ k \in Int
      BY <1>2, <2>1, <2>3 DEF KindIn
    <3>3. k < k
      BY <1>3, <3>1, <3>2
    <3> QED
      BY <3>2, <3>3
  <2> QED
    BY <2>2, <2>3
<1>5. /\ FoundIn(p) \subseteq AllKeys /\ DifferentIn(g) \subseteq AllKeys
  BY DEF FoundIn, DifferentIn
<1>6. /\ IsFiniteSet(FoundIn(p)) /\ IsFiniteSet(DifferentIn(g))
  BY <1>2, <1>5, FS_Subset
<1>7. ASSUME NEW a \in FoundIn(p), NEW b \in DifferentIn(g)
      PROVE  a < b
  <2>1. PICK t \in Terminal(p, ExactStates) : InRange(a, t.segment)
    BY DEF FoundIn
  <2>2. InRange(b, g) /\ a \in Int /\ b \in Int
    BY <1>2, <1>5 DEF DifferentIn
  <2> QED
    BY <1>3, <2>1, <2>2
<1> QED
  BY <1>2, <1>4, <1>5, <1>6, <1>7

(* Comparing the first pending range row by row keeps a progress true.     *)
LEMMA ClassifyKeeps ==
    ASSUME input \in Inputs, NEW p, ProgressIsTrue(p),
           NEW node, FirstPending(p, node.segment), node = FingerprintNode(node.segment),
           Mismatches(node), NEW found, found = ExactDifferences(node.segment),
           NEW leaf, LeafOf(p, leaf, node, found),
           NEW q,
           q = RetainExactDifferences(leaf, found.differences, node.segment.segment_sequence)
    PROVE  /\ ProgressIsTrue(q)
           /\ q.pending = p.pending \ {node.segment}
           /\ Cardinality(q.topology) + Cardinality(q.pending)
                 = Cardinality(p.topology) + Cardinality(p.pending)
           /\ q.fingerprint_nodes = p.fingerprint_nodes
           /\ q.summaries_verified = p.summaries_verified
           /\ Shows(q)
<1> DEFINE g == node.segment
           d == found.differences
           number == g.segment_sequence
           r == SegmentRecord(node, "exact_mismatch")
<1>0. /\ input \in Inputs /\ ProgressIsTrue(p) /\ FirstPending(p, node.segment)
      /\ node = FingerprintNode(node.segment) /\ Mismatches(node)
      /\ found = ExactDifferences(node.segment) /\ LeafOf(p, leaf, node, found)
  OBVIOUS
<1>1. /\ p \in ProgressType /\ TreeIsSound(p) /\ HoldsEveryKey(p) /\ RecordsAreTrue(p)
      /\ DifferenceIsKept(p) /\ CountsAreTrue(p) /\ EvidenceIsTrue(p) /\ ExactComesFirst(p)
      /\ ProgressFits(p)
  BY DEF ProgressIsTrue
<1>2. /\ p.pending \subseteq SegmentType /\ p.topology \subseteq RecordType
      /\ p.exact_counts \in Counts /\ p.exact_segments \in Nat
      /\ p.found_records \in Nat /\ p.anomalies \in Seq(AnomalyType)
      /\ p.retention_open \in BOOLEAN
  BY <1>1 DEF ProgressType
<1>3. /\ g \in p.pending /\ g \in SegmentType /\ number \in Nat
      /\ \A h \in p.pending : number <= h.segment_sequence
  <2>1. g \in p.pending /\ \A h \in p.pending : number <= h.segment_sequence
    BY DEF FirstPending
  <2> QED
    BY <1>2, <2>1, Bounds
<1>4. /\ found.counts \in Counts
      /\ \A kind \in Kinds \cup {"matched"} : found.counts[kind] = Cardinality(KindIn(g, kind))
      /\ IsFiniteSet(DifferentIn(g)) /\ DifferentIn(g) \subseteq Key
      /\ d \in Seq(Difference)
      /\ Len(d) = Cardinality(DifferentIn(g))
      /\ DifferenceCount(found.counts) = Cardinality(DifferentIn(g))
      /\ \A i \in 1 .. Cardinality(DifferentIn(g)) :
            d[i] = [kind |-> TrueKind(Ascending(DifferentIn(g))[i]),
                    key |-> Ascending(DifferentIn(g))[i]]
      /\ DifferenceCount(found.counts) # 0
  <2>1. DifferenceCount(found.counts) = 0 => Matches(FingerprintNode(g))
    BY <1>3, LeafIsTrue
  <2>2. DifferenceCount(found.counts) # 0
    BY <2>1 DEF Mismatches
  <2> QED
    <3>1. /\ found.counts \in Counts
          /\ \A kind \in Kinds \cup {"matched"} : found.counts[kind] = Cardinality(KindIn(g, kind))
          /\ IsFiniteSet(DifferentIn(g)) /\ DifferentIn(g) \subseteq Key
          /\ d \in Seq([kind : Kinds, key : Key])
          /\ Len(d) = Cardinality(DifferentIn(g))
          /\ DifferenceCount(found.counts) = Cardinality(DifferentIn(g))
          /\ \A i \in 1 .. Cardinality(DifferentIn(g)) :
                d[i] = [kind |-> TrueKind(Ascending(DifferentIn(g))[i]),
                        key |-> Ascending(DifferentIn(g))[i]]
      BY ONLY <1>0, <1>3, LeafIsTrue
    <3> HIDE DEF d, g
    <3> QED
      BY ONLY <2>2, <3>1 DEF Difference
<1>5. /\ r \in RecordType /\ r.segment = g /\ r.state = "exact_mismatch"
      /\ r = SegmentRecord(FingerprintNode(r.segment), r.state)
      /\ Mismatches(r) /\ node \in NodeType
  BY <1>3, RecordOfNode DEF TerminalStates, Mismatches
<1>6. /\ leaf \in ProgressType
      /\ leaf.exact_counts = AddExactCounts(p.exact_counts, found.counts)
      /\ leaf.exact_segments = p.exact_segments + 1
      /\ leaf.topology = p.topology \cup {r}
      /\ leaf.pending = WithoutPendingSequence(p.pending, {number})
      /\ leaf.mismatch_witnesses = WithoutMismatchWitness(p.mismatch_witnesses, {number})
      /\ leaf.pruned_matched = p.pruned_matched /\ leaf.pruned_segments = p.pruned_segments
      /\ leaf.summaries_verified = p.summaries_verified
      /\ leaf.fingerprint_nodes = p.fingerprint_nodes /\ leaf.anomalies = p.anomalies
      /\ leaf.found_records = p.found_records /\ leaf.found_bytes = p.found_bytes
      /\ leaf.retained_bytes = p.retained_bytes /\ leaf.retention_open = p.retention_open
  <2>1. node.segment \in p.pending
    BY <1>3
  <2> HIDE DEF g, number, r
  <2>2. /\ leaf \in ProgressType
        /\ leaf.exact_counts = AddExactCounts(p.exact_counts, found.counts)
        /\ leaf.exact_segments = p.exact_segments + 1
        /\ leaf.topology = p.topology \cup {SegmentRecord(node, "exact_mismatch")}
        /\ leaf.pending = WithoutPendingSequence(p.pending, {node.segment.segment_sequence})
        /\ leaf.mismatch_witnesses =
              WithoutMismatchWitness(p.mismatch_witnesses, {node.segment.segment_sequence})
        /\ leaf.pruned_matched = p.pruned_matched /\ leaf.pruned_segments = p.pruned_segments
        /\ leaf.summaries_verified = p.summaries_verified
        /\ leaf.fingerprint_nodes = p.fingerprint_nodes /\ leaf.anomalies = p.anomalies
        /\ leaf.found_records = p.found_records /\ leaf.found_bytes = p.found_bytes
        /\ leaf.retained_bytes = p.retained_bytes /\ leaf.retention_open = p.retention_open
    <3>1. LeafHas(p, leaf, node, found)
      BY ONLY <1>0, <2>1, LeafIsTyped
    <3> QED
      BY ONLY <3>1 DEF LeafHas
  <2> QED
    BY <2>2 DEF r, number, g
<1>7. PICK kept \in 0 .. Len(d) :
              /\ leaf.retention_open \/ kept = 0
              /\ Len(leaf.anomalies) + kept <= budgets.max_evidence_rows
              /\ leaf.retained_bytes + Bytes(SubSeq(d, 1, kept)) <= budgets.max_evidence_bytes
              /\ RetainedTo(leaf, q, leaf.found_records + Len(d), leaf.found_bytes + Bytes(d),
                            leaf.retention_open /\ kept = Len(d),
                            leaf.anomalies \o KeptOf(leaf, d, number, kept),
                            leaf.retained_bytes + Bytes(SubSeq(d, 1, kept)))
  <2>1. /\ Len(leaf.anomalies) <= budgets.max_evidence_rows
        /\ leaf.retained_bytes <= budgets.max_evidence_bytes
    BY <1>1, <1>6 DEF ProgressFits
  <2> HIDE DEF g, d, number, r
  <2>2. q = RetainExactDifferences(leaf, d, number)
    BY DEF d, number, g
  <2> QED
    BY <1>3, <1>4, <1>6, <2>1, <2>2, Retention
<1> DEFINE more == KeptOf(leaf, d, number, kept)
<1>8. /\ q \in ProgressType
      /\ q.found_records = p.found_records + Len(d)
      /\ q.retention_open = (p.retention_open /\ kept = Len(d))
      /\ q.anomalies = p.anomalies \o more
      /\ q.retained_bytes <= budgets.max_evidence_bytes
      /\ q.exact_counts = AddExactCounts(p.exact_counts, found.counts)
      /\ q.exact_segments = p.exact_segments + 1
      /\ q.topology = p.topology \cup {r}
      /\ q.pending = WithoutPendingSequence(p.pending, {number})
      /\ q.mismatch_witnesses = WithoutMismatchWitness(p.mismatch_witnesses, {number})
      /\ q.pruned_matched = p.pruned_matched /\ q.pruned_segments = p.pruned_segments
      /\ q.summaries_verified = p.summaries_verified
      /\ q.fingerprint_nodes = p.fingerprint_nodes
  <2> DEFINE fr == leaf.found_records + Len(d)
             fb == leaf.found_bytes + Bytes(d)
             op == leaf.retention_open /\ kept = Len(d)
             an == leaf.anomalies \o more
             rb == leaf.retained_bytes + Bytes(SubSeq(d, 1, kept))
  <2>1. RetainedTo(leaf, q, fr, fb, op, an, rb)
    BY <1>7
  <2> HIDE DEF fr, fb, op, an, rb, g, d, number, r, more
  <2>2. /\ q \in ProgressType
        /\ q.found_records = fr /\ q.found_bytes = fb /\ q.retention_open = op
        /\ q.anomalies = an /\ q.retained_bytes = rb
        /\ q.exact_counts = leaf.exact_counts /\ q.exact_segments = leaf.exact_segments
        /\ q.topology = leaf.topology /\ q.pending = leaf.pending
        /\ q.mismatch_witnesses = leaf.mismatch_witnesses
        /\ q.pruned_matched = leaf.pruned_matched /\ q.pruned_segments = leaf.pruned_segments
        /\ q.summaries_verified = leaf.summaries_verified
        /\ q.fingerprint_nodes = leaf.fingerprint_nodes
    BY ONLY <2>1, RetainedFields
  <2>3. rb <= budgets.max_evidence_bytes
    BY <1>7 DEF rb
  <2>4. fr = p.found_records + Len(d) /\ op = (p.retention_open /\ kept = Len(d))
        /\ an = p.anomalies \o more
    BY <1>6 DEF fr, op, an
  <2> QED
    BY ONLY <1>6, <2>2, <2>3, <2>4
<1>9. /\ TreeIsSound(q) /\ Frontier(q) = Frontier(p)
      /\ q.pending = p.pending \ {g}
      /\ Cardinality(q.topology) + Cardinality(q.pending)
            = Cardinality(p.topology) + Cardinality(p.pending)
      /\ Segments(q) = Segments(p)
  <2>1. {SegmentRecord(n, "exact_mismatch") : n \in {node}} = {r}
    OBVIOUS
  <2>2. SequenceNumbers({node}) = {number}
    BY DEF SequenceNumbers
  <2>3. {n.segment : n \in {node}} = {g}
    BY ONLY Zenon DEF r
  <2>4. ResolvesTo(p, q, {node}, "exact_mismatch")
    BY <1>3, <1>5, <1>8, <2>1, <2>2 DEF ResolvesTo, TerminalStates
  <2>5. /\ TreeIsSound(q) /\ Frontier(q) = Frontier(p)
        /\ q.pending = p.pending \ {n.segment : n \in {node}}
        /\ Cardinality(q.topology) + Cardinality(q.pending)
              = Cardinality(p.topology) + Cardinality(p.pending)
        /\ Segments(q) = Segments(p)
    BY <1>1, <1>8, <2>4, ResolveKeepsTree
  <2> QED
    BY <2>3, <2>5
<1> HIDE DEF r
<1>10. HoldsEveryKey(q)
  BY <1>1, <1>9 DEF HoldsEveryKey
<1>11. RecordsAreTrue(q)
  <2>1. ASSUME NEW t \in q.topology
        PROVE  /\ t = SegmentRecord(FingerprintNode(t.segment), t.state)
               /\ t.state \in {"fingerprint_match", "exact_match"} <=> Matches(t)
               /\ t.state # "exact_match"
    <3>1. CASE t \in p.topology
      BY <1>1, <3>1 DEF RecordsAreTrue
    <3>2. CASE t = r
      BY <1>5, <3>2 DEF Mismatches
    <3> QED
      BY <1>8, <3>1, <3>2
  <2>2. ASSUME NEW w \in q.mismatch_witnesses
        PROVE  w = FingerprintNode(w.segment) /\ w.segment \in q.pending /\ Mismatches(w)
    <3>1. w \in p.mismatch_witnesses /\ w.segment.segment_sequence # number
      BY <1>8 DEF WithoutMismatchWitness
    <3>2. w = FingerprintNode(w.segment) /\ w.segment \in p.pending /\ Mismatches(w)
      BY <1>1, <3>1 DEF RecordsAreTrue
    <3>3. w.segment # g /\ q.pending = p.pending \ {g}
      BY ONLY <1>9, <3>1 DEF number
    <3> QED
      BY ONLY <3>2, <3>3, Zenon
  <2> QED
    BY ONLY <2>1, <2>2, Zenon DEF RecordsAreTrue
<1>12. /\ DifferenceCount(q.exact_counts) > 0
  <2>1. /\ DifferenceCount(p.exact_counts) \in Nat /\ DifferenceCount(found.counts) \in Nat
        /\ DifferenceCount(q.exact_counts)
              = DifferenceCount(p.exact_counts) + DifferenceCount(found.counts)
    <3> DEFINE x == p.exact_counts
               y == found.counts
    <3>1. x \in Counts /\ y \in Counts
      BY ONLY <1>2, <1>4, Zenon
    <3>2. q.exact_counts = AddExactCounts(x, y)
      BY <1>8
    <3> HIDE DEF x, y
    <3>3. /\ DifferenceCount(x) \in Nat /\ DifferenceCount(y) \in Nat
          /\ DifferenceCount(AddExactCounts(x, y)) = DifferenceCount(x) + DifferenceCount(y)
      BY ONLY <3>1, CountsAdd
    <3> QED
      BY ONLY <3>2, <3>3 DEF x, y
  <2> QED
    BY <1>4, <2>1
<1>13. DifferenceIsKept(q)
  <2>1. ~ (q.summaries_verified /\ Matches(FingerprintNode(RootSegment)))
    <3> SUFFICES ASSUME p.summaries_verified, Matches(FingerprintNode(RootSegment))
                 PROVE  FALSE
      BY <1>8
    <3>1. Segments(p) = {RootSegment}
      BY <1>1 DEF DifferenceIsKept
    <3>2. g = RootSegment
      BY ONLY <1>3, <3>1 DEF Segments
    <3>3. Mismatches(FingerprintNode(g))
      BY ONLY <1>0
    <3> QED
      BY ONLY <3>2, <3>3, Matches(FingerprintNode(RootSegment)), Zenon DEF Mismatches
  <2>2. q.summaries_verified => \A h \in Segments(q) : h.segment_sequence = 0 => h = RootSegment
    BY ONLY <1>1, <1>8, <1>9, Zenon DEF DifferenceIsKept
  <2> QED
    BY <1>12, <2>1, <2>2 DEF DifferenceIsKept
<1>14. /\ Terminal(q, ExactStates) = Terminal(p, ExactStates) \cup {r}
       /\ Terminal(q, {"fingerprint_match"}) = Terminal(p, {"fingerprint_match"})
  BY <1>5, <1>8 DEF Terminal, ExactStates
<1>15. /\ \A kind : ExactKeys(q, kind) = ExactKeys(p, kind) \cup KindIn(g, kind)
       /\ FoundIn(q) = FoundIn(p) \cup DifferentIn(g)
       /\ PrunedKeys(q) = PrunedKeys(p)
  <2>1. ASSUME NEW k
        PROVE  (\E t \in Terminal(q, ExactStates) : InRange(k, t.segment))
                  <=> \/ \E t \in Terminal(p, ExactStates) : InRange(k, t.segment)
                      \/ InRange(k, g)
    BY <1>5, <1>14
  <2>2. \A kind : ExactKeys(q, kind) = ExactKeys(p, kind) \cup KindIn(g, kind)
    BY <2>1 DEF ExactKeys, KindIn
  <2>3. FoundIn(q) = FoundIn(p) \cup DifferentIn(g)
    BY <2>1 DEF FoundIn, DifferentIn
  <2>4. PrunedKeys(q) = PrunedKeys(p)
    BY <1>14 DEF PrunedKeys
  <2> QED
    BY <2>2, <2>3, <2>4
<1>16. /\ \A kind : /\ IsFiniteSet(ExactKeys(p, kind)) /\ IsFiniteSet(KindIn(g, kind))
                    /\ ExactKeys(p, kind) \cap KindIn(g, kind) = {}
       /\ IsFiniteSet(FoundIn(p)) /\ IsFiniteSet(DifferentIn(g))
       /\ FoundIn(p) \subseteq Int /\ DifferentIn(g) \subseteq Int
       /\ \A a \in FoundIn(p), b \in DifferentIn(g) : a < b
  <2> HIDE DEF g
  <2> QED
    BY <1>3, ComparedBefore
<1> HIDE DEF g, d, number
<1>17. CountsAreTrue(q)
  <2>1. ASSUME NEW kind \in Kinds \cup {"matched"}
        PROVE  q.exact_counts[kind] = Cardinality(ExactKeys(q, kind))
    <3>1. q.exact_counts[kind] = p.exact_counts[kind] + found.counts[kind]
      <4> DEFINE x == p.exact_counts
                 y == found.counts
      <4>1. x \in Counts /\ y \in Counts
        BY ONLY <1>2, <1>4, Zenon
      <4>2. q.exact_counts = AddExactCounts(x, y)
        BY <1>8
      <4> HIDE DEF x, y
      <4>3. AddExactCounts(x, y)[kind] = x[kind] + y[kind]
        BY ONLY <2>1, <4>1, CountsAdd
      <4> QED
        BY ONLY <4>2, <4>3 DEF x, y
    <3>2. /\ p.exact_counts[kind] = Cardinality(ExactKeys(p, kind))
          /\ found.counts[kind] = Cardinality(KindIn(g, kind))
      BY <1>1, <1>4 DEF CountsAreTrue
    <3>3. Cardinality(ExactKeys(p, kind) \cup KindIn(g, kind))
             = Cardinality(ExactKeys(p, kind)) + Cardinality(KindIn(g, kind))
      BY <1>16, SizeOfUnion
    <3> QED
      BY <1>15, <3>1, <3>2, <3>3
  <2>2. q.exact_segments = Cardinality(Terminal(q, ExactStates))
    <3> DEFINE old == Terminal(p, ExactStates)
    <3>1. IsFiniteSet(old)
      <4>1. old \subseteq p.topology
        BY DEF Terminal
      <4> QED
        BY <1>1, <4>1, FS_Subset DEF TreeIsSound
    <3>2. r \notin old
      <4>1. \A t \in old : t \in p.topology
        BY DEF Terminal
      <4> QED
        BY <1>1, <1>3, <1>5, <4>1 DEF TreeIsSound
    <3>3. p.exact_segments = Cardinality(old)
      BY <1>1 DEF CountsAreTrue
    <3> HIDE DEF old
    <3>4. Cardinality(old \cup {r}) = Cardinality(old) + 1
      BY <3>1, <3>2, FS_AddElement
    <3> QED
      BY <1>8, <1>14, <3>3, <3>4 DEF old
  <2>3. /\ q.pruned_matched = Cardinality(PrunedKeys(q))
        /\ q.pruned_segments = Cardinality(Terminal(q, {"fingerprint_match"}))
    BY <1>1, <1>8, <1>14, <1>15 DEF CountsAreTrue
  <2> QED
    BY <2>1, <2>2, <2>3 DEF CountsAreTrue
<1>18. /\ Len(p.anomalies) \in Nat /\ Len(d) \in Nat
       /\ Len(more) = kept /\ kept \in Nat /\ kept <= Len(d)
       /\ Len(q.anomalies) = Len(p.anomalies) + kept
       /\ \A i \in 1 .. Len(p.anomalies) : q.anomalies[i] = p.anomalies[i]
       /\ \A j \in 1 .. kept :
             /\ q.anomalies[Len(p.anomalies) + j] = more[j]
             /\ more[j] = [sequence |-> p.found_records + j - 1, kind |-> d[j].kind,
                           key |-> d[j].key, segment_sequence |-> number]
  <2>1. Len(d) \in Nat /\ Len(p.anomalies) \in Nat
    BY <1>2, <1>4
  <2>2. kept \in Nat /\ kept <= Len(d)
    BY <1>7, <2>1
  <2>3. /\ DOMAIN more = 1 .. kept
        /\ \A j \in 1 .. kept :
              more[j] = [sequence |-> p.found_records + j - 1, kind |-> d[j].kind,
                         key |-> d[j].key, segment_sequence |-> number]
    BY <1>6 DEF KeptOf
  <2>4. more \in [1 .. kept -> {more[j] : j \in 1 .. kept}]
    <3>1. more = [j \in 1 .. kept |-> more[j]]
      BY DEF KeptOf
    <3> HIDE DEF more
    <3> QED
      BY <3>1
  <2> HIDE DEF more
  <2> DEFINE X == {more[j] : j \in 1 .. kept}
  <2>5. more \in [1 .. kept -> X]
    BY <2>4
  <2> HIDE DEF X
  <2>6. more \in Seq(X) /\ Len(more) = kept
    BY ONLY <2>2, <2>5
  <2> DEFINE a == p.anomalies
  <2>7. a \in Seq(AnomalyType) /\ q.anomalies = a \o more
    BY <1>2, <1>8
  <2> HIDE DEF a
  <2>8. /\ Len(q.anomalies) = Len(a) + kept
        /\ \A i \in 1 .. Len(a) : q.anomalies[i] = a[i]
        /\ \A j \in 1 .. kept : q.anomalies[Len(a) + j] = more[j]
    <3>1. /\ Len(a) \in Nat /\ Len(a \o more) = Len(a) + Len(more)
          /\ \A i \in 1 .. Len(a) + Len(more) :
                (a \o more)[i] = IF i <= Len(a) THEN a[i] ELSE more[i - Len(a)]
      <4>1. Len(a) \in Nat /\ Len(a \o more) = Len(a) + Len(more)
        <5>1. a \in Seq(AnomalyType) /\ more \in Seq(X)
          BY <2>6, <2>7
        <5>2. Len(a) \in Nat
          BY ONLY <5>1
        <5>3. Len(a \o more) = Len(a) + Len(more)
          BY ONLY <5>1
        <5> QED
          BY <5>2, <5>3
      <4>2. \A i \in 1 .. Len(a) + Len(more) :
               (a \o more)[i] = IF i <= Len(a) THEN a[i] ELSE more[i - Len(a)]
        BY ONLY <2>6, <2>7
      <4> QED
        BY <4>1, <4>2
    <3>2. ASSUME NEW j \in 1 .. kept
          PROVE  /\ Len(a) + j \in 1 .. Len(a) + kept
                 /\ ~ Len(a) + j <= Len(a) /\ (Len(a) + j) - Len(a) = j
      BY ONLY <2>2, <3>1, <3>2
    <3>3. \A i \in 1 .. Len(a) : i \in 1 .. Len(a) + kept /\ i <= Len(a)
      BY ONLY <2>2, <3>1
    <3>4. \A j \in 1 .. kept : (a \o more)[Len(a) + j] = more[j]
      BY <2>6, <3>1, <3>2
    <3>5. \A i \in 1 .. Len(a) : (a \o more)[i] = a[i]
      BY <2>6, <3>1, <3>3
    <3> QED
      BY <2>6, <2>7, <3>1, <3>4, <3>5
  <2> QED
    BY <2>1, <2>2, <2>3, <2>6, <2>8 DEF a
<1> HIDE DEF more
<1> DEFINE A == FoundIn(p)
           B == DifferentIn(g)
<1>19. /\ Cardinality(A) \in Nat /\ Cardinality(B) \in Nat
       /\ Cardinality(A \cup B) = Cardinality(A) + Cardinality(B)
       /\ \A i \in 1 .. Cardinality(A) : Ascending(A \cup B)[i] = Ascending(A)[i]
       /\ \A j \in 1 .. Cardinality(B) : Ascending(A \cup B)[Cardinality(A) + j] = Ascending(B)[j]
  <2>1. /\ IsFiniteSet(A) /\ IsFiniteSet(B) /\ A \subseteq Int /\ B \subseteq Int
        /\ \A a \in A, b \in B : a < b
    BY <1>16
  <2> HIDE DEF A, B
  <2>2. A \cap B = {}
    <3>1. \A x \in Int : ~ x < x
      OBVIOUS
    <3> QED
      BY <2>1, <3>1
  <2>3. /\ Cardinality(A) \in Nat /\ Cardinality(B) \in Nat
        /\ Cardinality(A \cup B) = Cardinality(A) + Cardinality(B)
    BY <2>1, <2>2, SizeOfUnion
  <2>4. Ascending(A \cup B) = Ascending(A) \o Ascending(B)
    BY <2>1, AscendingJoins
  <2>5. /\ Ascending(A) \in Seq(A) /\ Len(Ascending(A)) = Cardinality(A)
        /\ Ascending(B) \in Seq(B) /\ Len(Ascending(B)) = Cardinality(B)
    BY <2>1, AscendingOrder
  <2> DEFINE a == Ascending(A)
             b == Ascending(B)
             m == Cardinality(A)
             n == Cardinality(B)
  <2>6. a \in Seq(A) /\ Len(a) = m /\ b \in Seq(B) /\ Len(b) = n /\ m \in Nat /\ n \in Nat
    BY <2>3, <2>5
  <2>7. /\ \A i \in 1 .. m : (a \o b)[i] = a[i]
        /\ \A j \in 1 .. n : (a \o b)[m + j] = b[j]
    <3> HIDE DEF a, b, m, n
    <3>1. \A i \in 1 .. m + n : (a \o b)[i] = IF i <= m THEN a[i] ELSE b[i - m]
      BY ONLY <2>6
    <3>2. \A j \in 1 .. n : m + j \in 1 .. m + n /\ ~ m + j <= m /\ (m + j) - m = j
      BY ONLY <2>6
    <3>3. \A i \in 1 .. m : i \in 1 .. m + n /\ i <= m
      BY ONLY <2>6
    <3>4. \A i \in 1 .. m : (a \o b)[i] = a[i]
      BY ONLY <3>1, <3>3
    <3>5. \A j \in 1 .. n : (a \o b)[m + j] = b[j]
      BY <3>1, <3>2
    <3> QED
      BY <3>4, <3>5
  <2> QED
    BY <2>3, <2>4, <2>7
<1>20. /\ p.found_records = Cardinality(A)
       /\ Len(p.anomalies) <= Cardinality(A)
       /\ p.retention_open => Len(p.anomalies) = Cardinality(A)
       /\ Len(d) = Cardinality(B)
       /\ FoundIn(q) = A \cup B
       /\ kept > 0 => p.retention_open
       /\ \A i \in 1 .. Len(p.anomalies) :
            /\ p.anomalies[i].sequence = i - 1
            /\ p.anomalies[i].key = Ascending(A)[i]
            /\ p.anomalies[i].kind = TrueKind(Ascending(A)[i])
            /\ \E t \in p.topology : /\ t.segment.segment_sequence = p.anomalies[i].segment_sequence
                                     /\ t.state = "exact_mismatch"
       /\ \A j \in 1 .. Cardinality(B) :
             d[j] = [kind |-> TrueKind(Ascending(B)[j]), key |-> Ascending(B)[j]]
  <2>1. p.retention_open \/ kept = 0
    BY ONLY <1>6, <1>7
  <2> QED
    BY <1>1, <1>4, <1>15, <1>18, <2>1 DEF EvidenceIsTrue
<1> HIDE DEF A, B
<1>21. EvidenceIsTrue(q)
  <2>1. q.found_records = Cardinality(FoundIn(q))
    <3>1. /\ q.found_records = p.found_records + Len(d)
          /\ p.found_records = Cardinality(A) /\ Len(d) = Cardinality(B)
          /\ FoundIn(q) = A \cup B
      BY ONLY <1>8, <1>20
    <3>2. Cardinality(A \cup B) = Cardinality(A) + Cardinality(B)
      BY ONLY <1>19
    <3> QED
      BY ONLY <3>1, <3>2
  <2>2. Len(q.anomalies) <= q.found_records
    BY <1>8, <1>18, <1>19, <1>20
  <2>3. q.retention_open => Len(q.anomalies) = q.found_records
    <3> SUFFICES ASSUME q.retention_open
                 PROVE  Len(q.anomalies) = q.found_records
      OBVIOUS
    <3>1. p.retention_open /\ kept = Len(d)
      BY <1>8, Zenon
    <3>2. Len(p.anomalies) = Cardinality(A)
      BY ONLY <1>20, <3>1
    <3>3. /\ Len(q.anomalies) = Len(p.anomalies) + kept
          /\ q.found_records = p.found_records + Len(d) /\ p.found_records = Cardinality(A)
      BY ONLY <1>8, <1>18, <1>20
    <3> QED
      BY ONLY <3>1, <3>2, <3>3
  <2>4. ASSUME NEW i \in 1 .. Len(q.anomalies)
        PROVE  /\ q.anomalies[i].sequence = i - 1
               /\ q.anomalies[i].key = Ascending(FoundIn(q))[i]
               /\ q.anomalies[i].kind = TrueKind(Ascending(FoundIn(q))[i])
               /\ \E t \in q.topology :
                     /\ t.segment.segment_sequence = q.anomalies[i].segment_sequence
                     /\ t.state = "exact_mismatch"
    <3>1. CASE i <= Len(p.anomalies)
      <4>1. i \in 1 .. Len(p.anomalies) /\ i \in 1 .. Cardinality(A)
        BY <1>18, <1>19, <1>20, <3>1
      <4>2. q.anomalies[i] = p.anomalies[i]
        BY <1>18, <4>1
      <4>3. Ascending(FoundIn(q))[i] = Ascending(A)[i]
        <5>1. Ascending(A \cup B)[i] = Ascending(A)[i]
          BY ONLY <1>19, <4>1
        <5> QED
          BY ONLY <1>20, <5>1
      <4>4. /\ p.anomalies[i].sequence = i - 1
            /\ p.anomalies[i].key = Ascending(A)[i]
            /\ p.anomalies[i].kind = TrueKind(Ascending(A)[i])
            /\ \E t \in p.topology : /\ t.segment.segment_sequence = p.anomalies[i].segment_sequence
                                     /\ t.state = "exact_mismatch"
        BY <1>20, <4>1
      <4>5. p.topology \subseteq q.topology
        BY <1>8
      <4> QED
        BY ONLY <4>2, <4>3, <4>4, <4>5
    <3>2. CASE ~ i <= Len(p.anomalies)
      <4> DEFINE j == i - Len(p.anomalies)
      <4>1. /\ j \in 1 .. kept /\ i = Len(p.anomalies) + j /\ kept > 0
            /\ j \in 1 .. Cardinality(B)
        <5>1. /\ Len(p.anomalies) \in Nat /\ Len(q.anomalies) = Len(p.anomalies) + kept
              /\ kept \in Nat /\ kept <= Cardinality(B) /\ Cardinality(B) \in Nat
          BY <1>18, <1>19, <1>20
        <5> QED
          BY ONLY <3>2, <5>1, i \in 1 .. Len(q.anomalies)
      <4>2. Len(p.anomalies) = Cardinality(A)
        BY <1>20, <4>1
      <4> HIDE DEF j
      <4>3. q.anomalies[i] = [sequence |-> p.found_records + j - 1, kind |-> d[j].kind,
                              key |-> d[j].key, segment_sequence |-> number]
        BY <1>18, <4>1
      <4>4. Ascending(FoundIn(q))[i] = Ascending(B)[j]
        <5>1. Ascending(A \cup B)[Cardinality(A) + j] = Ascending(B)[j]
          BY ONLY <1>19, <4>1
        <5>2. FoundIn(q) = A \cup B
          BY ONLY <1>20
        <5> QED
          BY ONLY <4>1, <4>2, <5>1, <5>2
      <4>5. d[j].kind = TrueKind(Ascending(B)[j]) /\ d[j].key = Ascending(B)[j]
        BY <1>20, <4>1
      <4>6. p.found_records + j - 1 = i - 1
        BY ONLY <1>18, <1>20, <4>1, <4>2
      <4>7. r \in q.topology /\ r.segment.segment_sequence = number /\ r.state = "exact_mismatch"
        BY <1>5, <1>8 DEF number, g
      <4> QED
        BY <4>3, <4>4, <4>5, <4>6, <4>7
    <3> QED
      BY <3>1, <3>2
  <2> QED
    BY ONLY <2>1, <2>2, <2>3, <2>4 DEF EvidenceIsTrue
<1>22. ExactComesFirst(q)
  <2>1. ASSUME NEW t \in Terminal(q, ExactStates), NEW h \in q.pending
        PROVE  MathematicalUpper(t.segment) <= h.lower_inclusive
    <3>1. h \in p.pending /\ h # g
      BY <1>9
    <3>2. CASE t \in Terminal(p, ExactStates)
      BY <1>1, <3>1, <3>2 DEF ExactComesFirst
    <3>3. CASE t = r
      <4>1. number <= h.segment_sequence /\ number # h.segment_sequence
        BY <1>1, <1>3, <3>1 DEF TreeIsSound, number
      <4>2. h.segment_sequence \in Nat
        BY <1>2, <3>1, Bounds
      <4>3. g.segment_sequence < h.segment_sequence
        BY ONLY <1>3, <4>1, <4>2 DEF number
      <4> QED
        BY <1>1, <1>3, <1>5, <3>1, <3>3, <4>3 DEF TreeIsSound
    <3> QED
      BY <1>14, <3>2, <3>3
  <2> QED
    BY <2>1 DEF ExactComesFirst
<1>23. ProgressFits(q)
  BY ONLY <1>1, <1>6, <1>7, <1>8, <1>9, <1>18 DEF ProgressFits
<1>24. Shows(q)
  BY ONLY <1>12 DEF Shows
<1>25. ProgressIsTrue(q)
  BY <1>8, <1>9, <1>10, <1>11, <1>13, <1>17, <1>21, <1>22, <1>23 DEF ProgressIsTrue
<1> QED
  BY <1>8, <1>9, <1>24, <1>25 DEF g

\* The first progress: a single pending range with every key.
StartsWith(p, g, verified) ==
    p = [pending |-> {g}, topology |-> {}, exact_counts |-> NoCounts, pruned_matched |-> 0,
         pruned_segments |-> 0, exact_segments |-> 0, summaries_verified |-> verified,
         mismatch_witnesses |-> {}, fingerprint_nodes |-> 0, anomalies |-> <<>>,
         found_records |-> 0, found_bytes |-> 0, retained_bytes |-> 0, retention_open |-> TRUE]

\* The range g is the first of all and holds every key.
IsRoot(g) ==
    /\ SoundSegment(g)
    /\ g.segment_sequence = 0 /\ g.depth = 0
    /\ \A k \in AllKeys : InRange(k, g)

(* The first progress is true.                                             *)
LEMMA StartIsTrue ==
    ASSUME input \in Inputs, NEW g, IsRoot(g), NEW v \in BOOLEAN, v => g = RootSegment,
           NEW p, StartsWith(p, g, v)
    PROVE  /\ ProgressIsTrue(p)
           /\ p.pending = {g} /\ p.topology = {} /\ p.fingerprint_nodes = 0
           /\ (p.summaries_verified <=> v) /\ p.mismatch_witnesses = {}
           /\ Cardinality(p.topology) = 0 /\ Cardinality(p.pending) = 1
           /\ ~ Shows(p)
<1>1. /\ g \in SegmentType /\ SoundSegment(g) /\ g.segment_sequence = 0 /\ g.depth = 0
      /\ \A k \in AllKeys : InRange(k, g)
  BY DEF IsRoot, SoundSegment
<1>2. NoCounts \in Counts /\ \A kind \in Kinds \cup {"matched"} : NoCounts[kind] = 0
  BY DEF NoCounts, Counts
<1>3. /\ p.pending = {g} /\ p.topology = {} /\ p.exact_counts = NoCounts
      /\ p.pruned_matched = 0 /\ p.pruned_segments = 0 /\ p.exact_segments = 0
      /\ p.summaries_verified = v /\ p.mismatch_witnesses = {}
      /\ p.fingerprint_nodes = 0 /\ p.anomalies = <<>> /\ p.found_records = 0
      /\ p.found_bytes = 0 /\ p.retained_bytes = 0 /\ p.retention_open = TRUE
  BY DEF StartsWith
<1>4. p \in ProgressType
  <2>1. <<>> \in Seq(AnomalyType)
    OBVIOUS
  <2> QED
    BY <1>1, <1>2, <2>1 DEF StartsWith, ProgressType
<1>5. /\ IsFiniteSet(p.pending) /\ IsFiniteSet(p.topology)
      /\ Cardinality(p.pending) = 1 /\ Cardinality(p.topology) = 0
  BY ONLY <1>3, FS_EmptySet, FS_Singleton
<1>6. Segments(p) = {g} /\ Frontier(p) = {g} /\ Resolved(p) = {}
  BY <1>3 DEF Segments, Frontier, Resolved
<1>7. NumbersOf(Segments(p)) = 0 .. Cardinality(p.pending) + Cardinality(p.topology) - 1
  BY <1>1, <1>5, <1>6 DEF NumbersOf
<1>8. TreeIsSound(p)
  <2>1. \A h, i \in p.pending : h = i /\ ~ h.segment_sequence < i.segment_sequence
    BY <1>1, <1>3
  <2> QED
    BY <1>1, <1>3, <1>5, <1>6, <1>7, <2>1 DEF TreeIsSound
<1>9. HoldsEveryKey(p)
  BY <1>1, <1>6 DEF HoldsEveryKey
<1>10. RecordsAreTrue(p)
  BY <1>3 DEF RecordsAreTrue
<1>11. DifferenceIsKept(p)
  BY <1>3, <1>6 DEF DifferenceIsKept
<1>12. \A states : Terminal(p, states) = {}
  BY <1>3 DEF Terminal
<1>13. /\ \A kind : ExactKeys(p, kind) = {}
       /\ PrunedKeys(p) = {} /\ FoundIn(p) = {}
  BY <1>12 DEF ExactKeys, PrunedKeys, FoundIn
<1>14. CountsAreTrue(p)
  BY <1>2, <1>3, <1>12, <1>13, FS_EmptySet DEF CountsAreTrue
<1>15. EvidenceIsTrue(p)
  <2>1. Len(p.anomalies) = 0
    BY <1>3
  <2>2. 1 .. Len(p.anomalies) = {}
    BY <2>1
  <2>3. p.found_records = Cardinality(FoundIn(p))
    BY <1>3, <1>13, FS_EmptySet
  <2> QED
    BY <1>3, <2>1, <2>2, <2>3 DEF EvidenceIsTrue
<1>16. ExactComesFirst(p)
  BY <1>12 DEF ExactComesFirst
<1>17. ProgressFits(p)
  <2>1. /\ budgets.max_evidence_rows \in Nat /\ budgets.max_evidence_bytes \in Nat
        /\ budgets.max_depth \in Nat
    BY Arguments
  <2>2. Len(p.anomalies) = 0
    BY <1>3
  <2> QED
    BY <1>1, <1>3, <1>6, <2>1, <2>2 DEF ProgressFits
<1>18. ~ Shows(p)
  BY <1>2, <1>3 DEF Shows, DifferenceCount, Kinds
<1>19. ProgressIsTrue(p)
  BY <1>4, <1>8, <1>9, <1>10, <1>11, <1>14, <1>15, <1>16, <1>17 DEF ProgressIsTrue
<1> QED
  BY <1>3, <1>5, <1>18, <1>19

(* So is the one before the summaries.                                     *)
LEMMA InitialIsTrue ==
    ASSUME input \in Inputs
    PROVE  /\ ProgressIsTrue(InitialProgress)
           /\ InitialProgress.topology = {} /\ InitialProgress.fingerprint_nodes = 0
           /\ ~ InitialProgress.summaries_verified
           /\ ~ Shows(InitialProgress)
<1> DEFINE g == [segment_sequence |-> 0, parent |-> None, depth |-> 0,
                 lower_inclusive |-> INT64_MIN, upper_exclusive |-> None]
<1>1. INT64_MIN \in Key
  BY KeyAssumption DEF Key
<1>2. g \in SegmentType /\ g.lower_inclusive = INT64_MIN /\ MathematicalUpper(g) = INT64_MAX + 1
  BY <1>1 DEF SegmentType, MathematicalUpper
<1>3. IsRoot(g)
  <2>1. SoundSegment(g)
    BY <1>2, KeyAssumption DEF SoundSegment
  <2>2. \A k \in AllKeys : k \in Key
    BY KeysOfBoth
  <2>3. \A k \in Key : InRange(k, g)
    BY <1>2, KeyAssumption DEF InRange, Key
  <2> QED
    BY <2>1, <2>2, <2>3 DEF IsRoot
<1>4. StartsWith(InitialProgress, g, FALSE)
  BY DEF StartsWith, InitialProgress
<1> HIDE DEF g
<1> QED
  BY <1>3, <1>4, StartIsTrue

(* And the one after them.                                                 *)
LEMMA SummaryKeeps ==
    ASSUME input \in Inputs, NEW q,
           q = [InitialProgress EXCEPT !.pending = {RootSegment}, !.summaries_verified = TRUE]
    PROVE  /\ ProgressIsTrue(q)
           /\ q.pending = {RootSegment} /\ q.topology = {} /\ q.fingerprint_nodes = 0
           /\ q.summaries_verified /\ ~ Shows(q)
           /\ Cardinality(q.topology) = 0 /\ Cardinality(q.pending) = 1
<1>1. IsRoot(RootSegment)
  BY RootHoldsEveryKey DEF IsRoot
<1>2. StartsWith(q, RootSegment, TRUE)
  BY DEF StartsWith, InitialProgress
<1> QED
  BY <1>1, <1>2, StartIsTrue

\* Two progresses that differ only in what is fingerprinted.
FingerprintedTo(p, q) ==
    /\ q.pending = p.pending /\ q.topology = p.topology /\ q.exact_counts = p.exact_counts
    /\ q.pruned_matched = p.pruned_matched /\ q.pruned_segments = p.pruned_segments
    /\ q.exact_segments = p.exact_segments /\ q.summaries_verified = p.summaries_verified
    /\ q.anomalies = p.anomalies /\ q.found_records = p.found_records
    /\ q.found_bytes = p.found_bytes /\ q.retained_bytes = p.retained_bytes
    /\ q.retention_open = p.retention_open

(* What is fingerprinted changes nothing else that is true of a progress.  *)
LEMMA FingerprintedKeeps ==
    ASSUME NEW p, ProgressIsTrue(p), NEW q \in ProgressType, FingerprintedTo(p, q),
           RecordsAreTrue(q)
    PROVE  /\ ProgressIsTrue(q)
           /\ q.pending = p.pending /\ q.topology = p.topology
           /\ q.summaries_verified = p.summaries_verified
           /\ Terminal(q, ExactStates) = Terminal(p, ExactStates)
<1>1. /\ p \in ProgressType /\ TreeIsSound(p) /\ HoldsEveryKey(p) /\ RecordsAreTrue(p)
      /\ DifferenceIsKept(p) /\ CountsAreTrue(p) /\ EvidenceIsTrue(p) /\ ExactComesFirst(p)
      /\ ProgressFits(p)
  BY DEF ProgressIsTrue
<1>2. /\ q.pending = p.pending /\ q.topology = p.topology /\ q.exact_counts = p.exact_counts
      /\ q.pruned_matched = p.pruned_matched /\ q.pruned_segments = p.pruned_segments
      /\ q.exact_segments = p.exact_segments /\ q.summaries_verified = p.summaries_verified
      /\ q.anomalies = p.anomalies /\ q.found_records = p.found_records
      /\ q.retained_bytes = p.retained_bytes /\ q.retention_open = p.retention_open
  BY DEF FingerprintedTo
<1>3. /\ Segments(q) = Segments(p) /\ Frontier(q) = Frontier(p)
      /\ \A states : Terminal(q, states) = Terminal(p, states)
  BY <1>2 DEF Segments, Frontier, Resolved, Terminal
<1>4. /\ \A kind : ExactKeys(q, kind) = ExactKeys(p, kind)
      /\ PrunedKeys(q) = PrunedKeys(p) /\ FoundIn(q) = FoundIn(p)
  BY <1>3 DEF ExactKeys, PrunedKeys, FoundIn
<1>5. TreeIsSound(q)
  BY <1>1, <1>2, <1>3 DEF TreeIsSound
<1>6. HoldsEveryKey(q) /\ DifferenceIsKept(q) /\ ExactComesFirst(q) /\ ProgressFits(q)
  BY <1>1, <1>2, <1>3 DEF HoldsEveryKey, DifferenceIsKept, ExactComesFirst, ProgressFits
<1>7. CountsAreTrue(q) /\ EvidenceIsTrue(q)
  BY <1>1, <1>2, <1>3, <1>4 DEF CountsAreTrue, EvidenceIsTrue
<1> QED
  BY <1>2, <1>3, <1>5, <1>6, <1>7 DEF ProgressIsTrue

(* A level is fingerprinted.                                               *)
LEMMA CountingKeeps ==
    ASSUME NEW p, ProgressIsTrue(p), NEW n \in Nat,
           NEW q, q = [p EXCEPT !.fingerprint_nodes = n]
    PROVE  /\ ProgressIsTrue(q)
           /\ q.fingerprint_nodes = n
           /\ q.pending = p.pending /\ q.topology = p.topology
           /\ q.summaries_verified = p.summaries_verified
           /\ Terminal(q, ExactStates) = Terminal(p, ExactStates)
           /\ Shows(p) => Shows(q)
<1>1. p \in ProgressType /\ RecordsAreTrue(p)
  BY DEF ProgressIsTrue
<1>2. /\ q \in ProgressType /\ q.fingerprint_nodes = n
      /\ q.mismatch_witnesses = p.mismatch_witnesses
  BY <1>1 DEF ProgressType
<1>3. FingerprintedTo(p, q)
  BY <1>1 DEF ProgressType, FingerprintedTo
<1>4. q.pending = p.pending /\ q.topology = p.topology /\ q.exact_counts = p.exact_counts
  BY <1>3 DEF FingerprintedTo
<1>5. RecordsAreTrue(q)
  BY <1>1, <1>2, <1>4 DEF RecordsAreTrue
<1>6. Shows(p) => Shows(q)
  BY <1>2, <1>4 DEF Shows
<1> QED
  BY <1>2, <1>3, <1>5, <1>6, FingerprintedKeeps

\* Nodes of pending ranges that differ.
AreWitnesses(p, w) ==
    \A n \in w : n = FingerprintNode(n.segment) /\ n.segment \in p.pending /\ Mismatches(n)

(* The fingerprints of a level are matched.                                *)
LEMMA WitnessesKeep ==
    ASSUME input \in Inputs, NEW p, ProgressIsTrue(p), NEW w, AreWitnesses(p, w),
           NEW q, q = [p EXCEPT !.mismatch_witnesses = w]
    PROVE  /\ ProgressIsTrue(q)
           /\ q.fingerprint_nodes = p.fingerprint_nodes
           /\ q.pending = p.pending /\ q.topology = p.topology
           /\ q.summaries_verified = p.summaries_verified
           /\ q.mismatch_witnesses = w
           /\ Terminal(q, ExactStates) = Terminal(p, ExactStates)
           /\ DifferenceCount(q.exact_counts) = DifferenceCount(p.exact_counts)
<1>1. p \in ProgressType /\ RecordsAreTrue(p) /\ p.pending \subseteq SegmentType
  BY DEF ProgressIsTrue, ProgressType
<1>2. w \in SUBSET NodeType
  <2> SUFFICES ASSUME NEW n \in w
               PROVE  n \in NodeType
    OBVIOUS
  <2>1. n.segment \in SegmentType /\ n = FingerprintNode(n.segment)
    BY <1>1 DEF AreWitnesses
  <2>2. FingerprintNode(n.segment) \in NodeType
    BY <2>1, NodeOfRange
  <2> QED
    BY <2>1, <2>2
<1>3. /\ q \in ProgressType /\ q.fingerprint_nodes = p.fingerprint_nodes
      /\ q.mismatch_witnesses = w
  BY <1>1, <1>2 DEF ProgressType
<1>4. FingerprintedTo(p, q)
  BY <1>1 DEF ProgressType, FingerprintedTo
<1>5. q.pending = p.pending /\ q.topology = p.topology /\ q.exact_counts = p.exact_counts
  BY <1>4 DEF FingerprintedTo
<1>6. RecordsAreTrue(q)
  BY <1>1, <1>3, <1>5 DEF RecordsAreTrue, AreWitnesses
<1> QED
  BY <1>3, <1>4, <1>5, <1>6, FingerprintedKeeps

=============================================================================
