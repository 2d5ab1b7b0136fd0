---------------------------- MODULE SumTheorems ----------------------------
(***************************************************************************)
(* Sums over finite sets, as the folds of the community modules compute    *)
(* them.  The order in which a fold takes the elements does not matter, so *)
(* a sum can be taken apart at any element; and what it means to list the  *)
(* elements of a set.                                                      *)
(*                                                                         *)
(* Induction is over a set of numbers or of sets that is closed under the  *)
(* step, which needs no operator as a parameter.                           *)
(***************************************************************************)
EXTENDS Integers, Sequences, FiniteSets, FiniteSetsExt, SequencesExt,
        FiniteSetTheorems, WellFoundedInduction, TLAPS

\* A set that holds 0 and with every number the next one holds all numbers.
LEMMA InductionOnNat ==
  ASSUME NEW D, 0 \in D, \A n \in Nat : n \in D => n + 1 \in D
  PROVE  Nat \subseteq D
<1> DEFINE T == Nat \ D
<1> SUFFICES ASSUME T # {} PROVE FALSE
  OBVIOUS
<1>1. PICK m \in T : \A n \in T : ~(<<n, m>> \in OpToRel(<, Nat))
  BY NatLessThanWellFounded, WFMin
<1>2. m \in Nat /\ m # 0 /\ m - 1 \in Nat
  OBVIOUS
<1>3. <<m - 1, m>> \in OpToRel(<, Nat)
  BY <1>2 DEF OpToRel
<1>4. m - 1 \in D
  BY <1>1, <1>2, <1>3
<1>5. (m - 1) + 1 \in D
  BY <1>2, <1>4
<1> QED
  BY <1>2, <1>5

\* A set that holds the empty set and with every part of S one more element
\* holds S, when S is finite.
LEMMA InductionOnSet ==
  ASSUME NEW S, IsFiniteSet(S), NEW D, {} \in D,
         \A T \in SUBSET S : \A x \in S \ T : T \in D => T \cup {x} \in D
  PROVE  S \in D
<1> DEFINE N == {n \in Nat : \A T \in SUBSET S : Cardinality(T) = n => T \in D}
<1>f. \A T \in SUBSET S : IsFiniteSet(T) /\ Cardinality(T) \in Nat
  BY FS_Subset, FS_CardinalityType
<1>1. 0 \in N
  BY <1>f, FS_EmptySet
<1>2. ASSUME NEW n \in Nat, n \in N PROVE n + 1 \in N
  <2>1. ASSUME NEW T \in SUBSET S, Cardinality(T) = n + 1 PROVE T \in D
    <3>1. IsFiniteSet(T) /\ T # {}
      BY <2>1, <1>f, FS_EmptySet
    <3>2. PICK x \in T : TRUE
      BY <3>1
    <3>r. Cardinality(T \ {x}) = Cardinality(T) - 1
      BY <3>1, <3>2, FS_RemoveElement
    <3>3. T \ {x} \in SUBSET S /\ Cardinality(T \ {x}) = n
      BY <2>1, <3>r
    <3>4. T \ {x} \in D /\ x \in S \ (T \ {x})
      BY <3>2, <3>3, <1>2
    <3>5. (T \ {x}) \cup {x} \in D
      BY <3>3, <3>4
    <3>6. (T \ {x}) \cup {x} = T
      BY <3>2
    <3> QED
      BY <3>5, <3>6
  <2> QED
    BY <2>1
<1>3. Nat \subseteq N
  <2> HIDE DEF N
  <2> QED
    BY <1>1, <1>2, InductionOnNat
<1> QED
  BY <1>3, <1>f

-----------------------------------------------------------------------------
\* g gives the sum of f over every part of S.
Sums(g, f, S) ==
  /\ g \in [SUBSET S -> Int]
  /\ g[{}] = 0
  /\ \A T \in SUBSET S : \A x \in T : g[T] = f[x] + g[T \ {x}]

LEMMA SumsExist ==
  ASSUME NEW S, IsFiniteSet(S), NEW f, \A x \in S : f[x] \in Int
  PROVE  \E g : Sums(g, f, S)
<1> DEFINE D == {T \in SUBSET S : \E g : Sums(g, f, T)}
<1>1. {} \in D
  <2>1. Sums([T \in SUBSET {} |-> 0], f, {})
    BY DEF Sums
  <2> QED
    BY <2>1
<1>2. ASSUME NEW T \in SUBSET S, NEW x \in S \ T, T \in D PROVE T \cup {x} \in D
  <2>1. PICK g : Sums(g, f, T)
    BY <1>2
  <2> DEFINE U == T \cup {x}
             h == [V \in SUBSET U |-> IF x \in V THEN f[x] + g[V \ {x}] ELSE g[V]]
  <2>2. \A V \in SUBSET U : V \ {x} \in SUBSET T /\ (x \notin V => V \in SUBSET T)
    OBVIOUS
  <2>3. h \in [SUBSET U -> Int]
    BY <2>1, <2>2 DEF Sums
  <2>4. h[{}] = 0
    BY <2>1 DEF Sums
  <2>5. ASSUME NEW V \in SUBSET U, NEW y \in V PROVE h[V] = f[y] + h[V \ {y}]
    <3>1. V \ {y} \in SUBSET U /\ f[y] \in Int
      OBVIOUS
    <3>2. CASE y = x
      <4>1. h[V \ {y}] = g[V \ {x}]
        BY <3>1, <3>2
      <4> QED
        BY <4>1, <3>2
    <3>3. CASE y # x /\ x \notin V
      <4>1. h[V] = g[V] /\ h[V \ {y}] = g[V \ {y}] /\ V \in SUBSET T
        BY <3>1, <3>3
      <4>2. g[V] = f[y] + g[V \ {y}]
        BY <4>1, <2>1 DEF Sums
      <4> HIDE DEF h
      <4> QED
        BY <4>1, <4>2
    <3>4. CASE y # x /\ x \in V
      <4>1. h[V] = f[x] + g[V \ {x}] /\ h[V \ {y}] = f[x] + g[(V \ {y}) \ {x}]
        BY <3>1, <3>4
      <4>2. V \ {x} \in SUBSET T /\ y \in V \ {x} /\ (V \ {y}) \ {x} = (V \ {x}) \ {y}
        BY <3>4
      <4>3. g[V \ {x}] = f[y] + g[(V \ {x}) \ {y}]
        BY <4>2, <2>1 DEF Sums
      <4>4. f[x] \in Int /\ f[y] \in Int /\ g[(V \ {x}) \ {y}] \in Int
        BY <4>2, <2>1 DEF Sums
      <4>5. h[V \ {y}] = f[x] + g[(V \ {x}) \ {y}]
        BY <4>1, <4>2
      <4> HIDE DEF h
      <4> QED
        BY <4>1, <4>3, <4>4, <4>5
    <3> QED
      BY <3>2, <3>3, <3>4
  <2>6. Sums(h, f, U)
    <3> HIDE DEF h
    <3> QED
      BY <2>3, <2>4, <2>5 DEF Sums
  <2> QED
    BY <2>6
<1>3. S \in D
  <2> HIDE DEF D
  <2> QED
    BY <1>1, <1>2, InductionOnSet
<1> QED
  BY <1>3

\* The sum depends on the values summed alone.
LEMMA SumsCoincide ==
  ASSUME NEW S, NEW f, NEW g, Sums(g, f, S),
         NEW R, NEW e, NEW h, Sums(h, e, R),
         NEW U, IsFiniteSet(U), U \subseteq S, U \subseteq R, \A x \in U : f[x] = e[x]
  PROVE  g[U] = h[U]
<1> DEFINE D == {T \in SUBSET U : g[T] = h[T]}
<1>1. {} \in D
  BY DEF Sums
<1>2. ASSUME NEW T \in SUBSET U, NEW x \in U \ T, T \in D PROVE T \cup {x} \in D
  <2>1. (T \cup {x}) \ {x} = T /\ T \cup {x} \in SUBSET S /\ T \cup {x} \in SUBSET R
    OBVIOUS
  <2>2. g[T \cup {x}] = f[x] + g[T] /\ h[T \cup {x}] = e[x] + h[T]
    BY <2>1 DEF Sums
  <2> QED
    BY <2>2, <1>2
<1>3. U \in D
  <2> HIDE DEF D
  <2> QED
    BY <1>1, <1>2, InductionOnSet
<1> QED
  BY <1>3

\* What takes the elements in the order of c, one by one, computes it.
Folds(h, f, c, S) ==
  /\ h = [T \in SUBSET S |-> h[T]]
  /\ h[{}] = 0
  /\ \A T \in SUBSET S :
       T # {} /\ h[T \ {c[T]}] \in Int => h[T] = f[c[T]] + h[T \ {c[T]}]

LEMMA FoldsAreSums ==
  ASSUME NEW S, IsFiniteSet(S), NEW f, \A x \in S : f[x] \in Int,
         NEW c, \A T \in SUBSET S : T # {} => c[T] \in T,
         NEW h, Folds(h, f, c, S)
  PROVE  Sums(h, f, S)
<1>1. PICK g : Sums(g, f, S)
  BY SumsExist
<1>2. Sums(h, f, S)
  <2>1. h[{}] = 0 /\ h = [T \in SUBSET S |-> h[T]]
    BY DEF Folds
  <2> DEFINE N == {n \in Nat : \A T \in SUBSET S : Cardinality(T) = n => h[T] = g[T]}
  <2>f. \A T \in SUBSET S : IsFiniteSet(T) /\ Cardinality(T) \in Nat
    BY FS_Subset, FS_CardinalityType
  <2>3. 0 \in N
    BY <2>f, <2>1, <1>1, FS_EmptySet DEF Sums
  <2>4. ASSUME NEW n \in Nat, n \in N PROVE n + 1 \in N
    <3>1. ASSUME NEW T \in SUBSET S, Cardinality(T) = n + 1 PROVE h[T] = g[T]
      <4>1. IsFiniteSet(T) /\ T # {}
        BY <3>1, <2>f, FS_EmptySet
      <4>2. c[T] \in T /\ T \ {c[T]} \in SUBSET S
        BY <4>1
      <4>r. Cardinality(T \ {c[T]}) = Cardinality(T) - 1
        BY <4>1, <4>2, FS_RemoveElement
      <4>3. Cardinality(T \ {c[T]}) = n
        BY <3>1, <4>r
      <4>4. h[T \ {c[T]}] = g[T \ {c[T]}]
        BY <4>2, <4>3, <2>4
      <4>5. h[T] = f[c[T]] + h[T \ {c[T]}] /\ g[T] = f[c[T]] + g[T \ {c[T]}]
        BY <4>1, <4>2, <4>4, <1>1 DEF Sums, Folds
      <4> QED
        BY <4>4, <4>5
    <3> QED
      BY <3>1
  <2>5. Nat \subseteq N
    <3> HIDE DEF N
    <3> QED
      BY <2>3, <2>4, InductionOnNat
  <2>6. \A T \in SUBSET S : h[T] = g[T]
    BY <2>f, <2>5
  <2>7. h = g
    BY <2>1, <2>6, <1>1 DEF Sums
  <2> QED
    BY <2>7, <1>1
<1> QED
  BY <1>2

-----------------------------------------------------------------------------
\* The three folds the models sum with are sums in this sense.

LEMMA SumFunctionIsSum ==
  ASSUME NEW S, IsFiniteSet(S), NEW f, \A x \in S : f[x] \in Int
  PROVE  \E g : Sums(g, f, S) /\ SumFunctionOnSet(f, S) = g[S]
<1> DEFINE c == [T \in SUBSET S |-> CHOOSE x \in T : TRUE]
           eq(h) == h = [T \in SUBSET S |->
                           IF T = {} THEN 0
                           ELSE f[CHOOSE x \in T : TRUE] + h[T \ {CHOOSE x \in T : TRUE}]]
           iter == CHOOSE h : eq(h)
<1>1. \A T \in SUBSET S : T # {} => c[T] \in T /\ c[T] = CHOOSE x \in T : TRUE
  OBVIOUS
<1>2. PICK g : Sums(g, f, S)
  BY SumsExist
<1>3. eq(g)
  <2>1. \A T \in SUBSET S : T # {} => g[T] = f[c[T]] + g[T \ {c[T]}]
    <3> HIDE DEF c
    <3> QED
      BY <1>1, <1>2 DEF Sums
  <2>2. \A T \in SUBSET S : g[T] = IF T = {} THEN 0
                                   ELSE f[CHOOSE x \in T : TRUE] + g[T \ {CHOOSE x \in T : TRUE}]
    BY <2>1, <1>2 DEF Sums
  <2>3. g = [T \in SUBSET S |-> g[T]]
    BY <1>2 DEF Sums
  <2> QED
    BY <2>2, <2>3
<1>i. eq(iter)
  BY <1>3
<1>4. Sums(iter, f, S)
  <2>1. Folds(iter, f, c, S)
    <3> HIDE DEF iter
    <3> QED
      BY <1>i DEF Folds
  <2> HIDE DEF c, iter
  <2> QED
    BY <1>1, <2>1, FoldsAreSums
<1>5. SumFunctionOnSet(f, S) = iter[S]
  BY DEF SumFunctionOnSet, FoldFunctionOnSet, MapThenFoldSet
<1> QED
  BY <1>4, <1>5

LEMMA MaxIsGreatest ==
  ASSUME NEW T \in SUBSET Int, IsFiniteSet(T), T # {}
  PROVE  Max(T) \in T /\ \A x \in T : x <= Max(T)
<1> DEFINE D == {R \in SUBSET T : R = {} \/ \E m \in R : \A x \in R : x <= m}
<1>1. ASSUME NEW R \in SUBSET T, NEW x \in T \ R, R \in D PROVE R \cup {x} \in D
  <2>1. CASE R = {}
    BY <2>1
  <2>2. CASE R # {}
    <3>1. PICK m \in R : \A y \in R : y <= m
      BY <1>1, <2>2
    <3>2. m \in Int /\ x \in Int /\ R \subseteq Int
      OBVIOUS
    <3>3. CASE x <= m
      BY <3>1, <3>2, <3>3
    <3>4. CASE m <= x
      <4>1. \A y \in R \cup {x} : y <= x
        BY <3>1, <3>2, <3>4
      <4> QED
        BY <4>1
    <3> QED
      BY <3>2, <3>3, <3>4
  <2> QED
    BY <2>1, <2>2
<1>2. T \in D
  <2>1. {} \in D
    OBVIOUS
  <2> HIDE DEF D
  <2> QED
    BY <1>1, <2>1, InductionOnSet
<1>3. \E m \in T : \A x \in T : m >= x
  BY <1>2
<1> QED
  BY <1>3 DEF Max

LEMMA MaxInRange ==
  ASSUME NEW m \in Nat, NEW T \in SUBSET (1..m), T # {}
  PROVE  Max(T) \in T
<1>1. IsFiniteSet(1..m)
  BY FS_Interval
<1>2. IsFiniteSet(T)
  BY <1>1, FS_Subset
<1>3. T \in SUBSET Int
  OBVIOUS
<1> QED
  BY <1>2, <1>3, MaxIsGreatest

LEMMA MaxOfInterval ==
  ASSUME NEW i \in Nat
  PROVE  Max(1..(i + 1)) = i + 1
<1>1. IsFiniteSet(1..(i + 1)) /\ 1..(i + 1) \in SUBSET Int
  BY FS_Interval
<1>2. i + 1 \in 1..(i + 1)
  OBVIOUS
<1>3. Max(1..(i + 1)) \in 1..(i + 1) /\ \A x \in 1..(i + 1) : x <= Max(1..(i + 1))
  BY <1>1, <1>2, MaxIsGreatest
<1>4. i + 1 <= Max(1..(i + 1))
  BY <1>2, <1>3
<1> QED
  BY <1>3, <1>4

\* FoldLeft takes the elements of a sequence from the last to the first.
LEMMA FoldLeftIsSum ==
  ASSUME NEW s \in Seq(Int)
  PROVE  \E g : Sums(g, s, DOMAIN s) /\ FoldLeft(LAMBDA sum, a : sum + a, 0, s) = g[DOMAIN s]
<1> DEFINE S == DOMAIN s
           c == [T \in SUBSET S |-> Max(T)]
           eq(h) == h = [T \in SUBSET S |-> IF T = {} THEN 0 ELSE h[T \ {Max(T)}] + s[Max(T)]]
           iter == CHOOSE h : eq(h)
<1>f. IsFiniteSet(S) /\ S \subseteq Int /\ \A x \in S : s[x] \in Int
  <2>1. Len(s) \in Nat /\ S = 1..Len(s)
    OBVIOUS
  <2> QED
    BY <2>1, FS_Interval
<1>1. \A T \in SUBSET S : T # {} => c[T] \in T /\ c[T] = Max(T)
  <2>1. \A T \in SUBSET S : IsFiniteSet(T) /\ T \in SUBSET Int
    BY <1>f, FS_Subset
  <2> QED
    BY <2>1, MaxIsGreatest
<1> HIDE DEF S
<1>2. PICK g : Sums(g, s, S)
  BY <1>f, SumsExist
<1>3. eq(g)
  <2>1. \A T \in SUBSET S : T # {} => g[T] = s[c[T]] + g[T \ {c[T]}]
    <3> HIDE DEF c
    <3> QED
      BY <1>1, <1>2 DEF Sums
  <2>2. \A T \in SUBSET S : T # {} => s[c[T]] \in Int /\ g[T \ {c[T]}] \in Int
    <3> HIDE DEF c
    <3> QED
      BY <1>1, <1>2, <1>f DEF Sums
  <2>3. ASSUME NEW T \in SUBSET S
        PROVE  g[T] = IF T = {} THEN 0 ELSE g[T \ {Max(T)}] + s[Max(T)]
    <3>1. CASE T # {}
      <4>1. c[T] = Max(T)
        BY <1>1, <3>1
      <4> HIDE DEF c
      <4>2. g[T] = s[Max(T)] + g[T \ {Max(T)}] /\ s[Max(T)] \in Int /\ g[T \ {Max(T)}] \in Int
        BY <2>1, <2>2, <3>1, <4>1
      <4> QED
        BY <3>1, <4>2
    <3>2. CASE T = {}
      BY <3>2, <1>2 DEF Sums
    <3> QED
      BY <3>1, <3>2
  <2>4. g = [T \in SUBSET S |-> g[T]]
    BY <1>2 DEF Sums
  <2> QED
    BY <2>3, <2>4
<1>i. eq(iter)
  BY <1>3
<1>4. Sums(iter, s, S)
  <2>1. Folds(iter, s, c, S)
    <3> HIDE DEF iter
    <3>1. /\ iter[{}] = 0
          /\ \A T \in SUBSET S : T # {} => iter[T] = iter[T \ {Max(T)}] + s[Max(T)]
          /\ iter = [T \in SUBSET S |-> iter[T]]
      BY <1>i
    <3>2. ASSUME NEW T \in SUBSET S, T # {}, iter[T \ {c[T]}] \in Int
          PROVE  iter[T] = s[c[T]] + iter[T \ {c[T]}]
      <4>1. c[T] = Max(T) /\ c[T] \in S
        BY <1>1, <3>2
      <4> HIDE DEF c
      <4>2. s[c[T]] \in Int
        BY <4>1, <1>f
      <4>3. iter[T] = iter[T \ {c[T]}] + s[c[T]]
        BY <3>1, <3>2, <4>1
      <4> QED
        BY <3>2, <4>2, <4>3
    <3> HIDE DEF c
    <3> QED
      BY <3>1, <3>2 DEF Folds
  <2> HIDE DEF c, iter
  <2> QED
    BY <1>1, <1>f, <2>1, FoldsAreSums
<1>5. FoldLeft(LAMBDA sum, a : sum + a, 0, s) = iter[S]
  BY DEF FoldLeft, MapThenFoldSet, S
<1> QED
  BY <1>4, <1>5 DEF S

-----------------------------------------------------------------------------
\* What the proofs use: a sum, taken apart and put together.

LEMMA SumType ==
  ASSUME NEW S, IsFiniteSet(S), NEW f, \A x \in S : f[x] \in Int
  PROVE  SumFunctionOnSet(f, S) \in Int
<1>1. PICK g : Sums(g, f, S) /\ SumFunctionOnSet(f, S) = g[S]
  BY SumFunctionIsSum
<1> QED
  BY <1>1 DEF Sums

LEMMA SumEmpty == ASSUME NEW f PROVE SumFunctionOnSet(f, {}) = 0
<1>1. PICK g : Sums(g, f, {}) /\ SumFunctionOnSet(f, {}) = g[{}]
  BY FS_EmptySet, SumFunctionIsSum
<1> QED
  BY <1>1 DEF Sums

LEMMA SumAgree ==
  ASSUME NEW S, IsFiniteSet(S), NEW f, \A x \in S : f[x] \in Int,
         NEW e, \A x \in S : f[x] = e[x]
  PROVE  SumFunctionOnSet(f, S) = SumFunctionOnSet(e, S)
<1>1. PICK g : Sums(g, f, S) /\ SumFunctionOnSet(f, S) = g[S]
  BY SumFunctionIsSum
<1>2. PICK h : Sums(h, e, S) /\ SumFunctionOnSet(e, S) = h[S]
  <2>1. \A x \in S : e[x] \in Int
    OBVIOUS
  <2> QED
    BY <2>1, SumFunctionIsSum
<1>3. g[S] = h[S]
  BY <1>1, <1>2, SumsCoincide
<1> QED
  BY <1>1, <1>2, <1>3

LEMMA SumRemove ==
  ASSUME NEW S, IsFiniteSet(S), NEW f, \A x \in S : f[x] \in Int, NEW x \in S
  PROVE  SumFunctionOnSet(f, S) = f[x] + SumFunctionOnSet(f, S \ {x})
<1>1. PICK g : Sums(g, f, S) /\ SumFunctionOnSet(f, S) = g[S]
  BY SumFunctionIsSum
<1>2. IsFiniteSet(S \ {x})
  BY FS_RemoveElement
<1>3. PICK h : Sums(h, f, S \ {x}) /\ SumFunctionOnSet(f, S \ {x}) = h[S \ {x}]
  <2>1. \A y \in S \ {x} : f[y] \in Int
    OBVIOUS
  <2> QED
    BY <1>2, <2>1, SumFunctionIsSum
<1>4. g[S \ {x}] = h[S \ {x}]
  BY <1>1, <1>2, <1>3, SumsCoincide
<1>5. g[S] = f[x] + g[S \ {x}]
  BY <1>1 DEF Sums
<1> QED
  BY <1>1, <1>3, <1>4, <1>5

LEMMA SumAdd ==
  ASSUME NEW S, IsFiniteSet(S), NEW f, NEW x, x \notin S, \A y \in S \cup {x} : f[y] \in Int
  PROVE  SumFunctionOnSet(f, S \cup {x}) = f[x] + SumFunctionOnSet(f, S)
<1>1. IsFiniteSet(S \cup {x}) /\ x \in S \cup {x} /\ (S \cup {x}) \ {x} = S
  BY FS_AddElement
<1>2. SumFunctionOnSet(f, S \cup {x}) = f[x] + SumFunctionOnSet(f, (S \cup {x}) \ {x})
  <2> DEFINE T == S \cup {x}
  <2>1. IsFiniteSet(T) /\ x \in T /\ \A y \in T : f[y] \in Int
    BY <1>1
  <2> HIDE DEF T
  <2>2. SumFunctionOnSet(f, T) = f[x] + SumFunctionOnSet(f, T \ {x})
    BY <2>1, SumRemove
  <2> QED
    BY <2>2 DEF T
<1> QED
  BY <1>1, <1>2

\* A sum over a set of elements that are named one to one by another.
LEMMA SumRenamed ==
  ASSUME NEW S, IsFiniteSet(S), NEW f, \A x \in S : f[x] \in Int,
         NEW b, \A x, y \in S : b[x] = b[y] => x = y,
         NEW e, \A x \in S : e[b[x]] = f[x]
  PROVE  SumFunctionOnSet(e, {b[x] : x \in S}) = SumFunctionOnSet(f, S)
<1> DEFINE Image(T) == {b[x] : x \in T}
           D == {T \in SUBSET S : /\ IsFiniteSet(Image(T))
                                  /\ SumFunctionOnSet(e, Image(T)) = SumFunctionOnSet(f, T)}
<1>1. {} \in D
  <2>1. Image({}) = {}
    OBVIOUS
  <2> QED
    BY <2>1, SumEmpty, FS_EmptySet
<1>2. ASSUME NEW T \in SUBSET S, NEW x \in S \ T, T \in D PROVE T \cup {x} \in D
  <2>1. /\ Image(T \cup {x}) = Image(T) \cup {b[x]}
        /\ b[x] \notin Image(T)
        /\ \A y \in Image(T) \cup {b[x]} : e[y] \in Int
        /\ \A y \in T \cup {x} : f[y] \in Int
    OBVIOUS
  <2>2. IsFiniteSet(T) /\ IsFiniteSet(Image(T))
    BY <1>2, FS_Subset
  <2> HIDE DEF Image
  <2>3. SumFunctionOnSet(e, Image(T) \cup {b[x]}) = e[b[x]] + SumFunctionOnSet(e, Image(T))
    BY <2>1, <2>2, SumAdd
  <2>4. SumFunctionOnSet(f, T \cup {x}) = f[x] + SumFunctionOnSet(f, T)
    BY <2>1, <2>2, SumAdd
  <2>5. IsFiniteSet(Image(T \cup {x}))
    <3>1. IsFiniteSet(Image(T) \cup {b[x]})
      BY <2>2, FS_AddElement
    <3> QED
      BY <2>1, <3>1
  <2>6. SumFunctionOnSet(e, Image(T \cup {x})) = SumFunctionOnSet(f, T \cup {x})
    BY <2>1, <2>3, <2>4, <1>2
  <2> QED
    BY <2>5, <2>6
<1>3. S \in D
  <2> HIDE DEF D
  <2> QED
    BY <1>1, <1>2, InductionOnSet
<1> QED
  BY <1>3

\* Nothing in the sum is less than low, so the sum is no less than that often.
LEMMA SumAtLeast ==
  ASSUME NEW n \in Nat, NEW f, NEW low \in Int, \A i \in 1..n : f[i] \in Int /\ f[i] >= low
  PROVE  SumFunctionOnSet(f, 1..n) >= n * low
<1> DEFINE D == {m \in Nat : m <= n => SumFunctionOnSet(f, 1..m) >= m * low}
<1>1. 0 \in D
  BY SumEmpty
<1>2. ASSUME NEW m \in Nat, m \in D PROVE m + 1 \in D
  <2>1. CASE m + 1 <= n
    <3>1. /\ 1..(m + 1) = 1..m \cup {m + 1} /\ m + 1 \notin 1..m
          /\ \A i \in 1..m \cup {m + 1} : f[i] \in Int
          /\ IsFiniteSet(1..m)
      BY <2>1, FS_Interval
    <3>2. SumFunctionOnSet(f, 1..m \cup {m + 1}) = f[m + 1] + SumFunctionOnSet(f, 1..m)
      BY <3>1, SumAdd
    <3>3. SumFunctionOnSet(f, 1..m) \in Int /\ f[m + 1] \in Int /\ f[m + 1] >= low
      BY <3>1, <2>1, SumType
    <3>4. SumFunctionOnSet(f, 1..m) >= m * low
      BY <1>2, <2>1
    <3>5. (m + 1) * low = m * low + low /\ m * low \in Int
      OBVIOUS
    <3>6. SumFunctionOnSet(f, 1..(m + 1)) = f[m + 1] + SumFunctionOnSet(f, 1..m)
      BY <3>1, <3>2
    <3>7. SumFunctionOnSet(f, 1..(m + 1)) >= m * low + low
      BY <3>3, <3>4, <3>5, <3>6
    <3> QED
      BY <3>5, <3>7
  <2>2. CASE ~(m + 1 <= n)
    BY <2>2
  <2> QED
    BY <2>1, <2>2
<1>3. Nat \subseteq D
  <2> HIDE DEF D
  <2> QED
    BY <1>1, <1>2, InductionOnNat
<1>4. n \in D
  <2> HIDE DEF D
  <2> QED
    BY <1>3
<1> QED
  BY <1>4

LEMMA SeqSum ==
  ASSUME NEW s \in Seq(Int)
  PROVE  FoldLeft(LAMBDA sum, a : sum + a, 0, s) = SumFunctionOnSet(s, 1..Len(s))
<1>f. IsFiniteSet(1..Len(s)) /\ DOMAIN s = 1..Len(s) /\ \A x \in 1..Len(s) : s[x] \in Int
  <2>1. Len(s) \in Nat /\ DOMAIN s = 1..Len(s)
    OBVIOUS
  <2> QED
    BY <2>1, FS_Interval
<1>1. PICK g : Sums(g, s, DOMAIN s) /\ FoldLeft(LAMBDA sum, a : sum + a, 0, s) = g[DOMAIN s]
  BY FoldLeftIsSum
<1>2. PICK h : Sums(h, s, DOMAIN s) /\ SumFunctionOnSet(s, DOMAIN s) = h[DOMAIN s]
  BY <1>f, SumFunctionIsSum
<1>3. g[DOMAIN s] = h[DOMAIN s]
  <2> DEFINE S == DOMAIN s
  <2>1. IsFiniteSet(S) /\ Sums(g, s, S) /\ Sums(h, s, S)
    BY <1>f, <1>1, <1>2
  <2> HIDE DEF S
  <2>2. g[S] = h[S]
    BY <2>1, SumsCoincide
  <2> QED
    BY <2>2 DEF S
<1> QED
  BY <1>f, <1>1, <1>2, <1>3

-----------------------------------------------------------------------------
\* h[T] is what nx makes of base over the numbers of T, in their order.
Iterates(h, m, X, base, nx) ==
  /\ h \in [SUBSET (1..m) -> X]
  /\ h[{}] = base
  /\ \A T \in SUBSET (1..m) : T # {} => h[T] = nx[Max(T)][h[T \ {Max(T)}]]

\* A fold over 1..m from the left: it has a value, whatever nx makes of the
\* value so far and the next number.
LEMMA FoldExists ==
  ASSUME NEW m \in Nat, NEW X, NEW base \in X, NEW nx,
         \A x \in X : \A i \in 1..m : nx[i][x] \in X
  PROVE  \E h : Iterates(h, m, X, base, nx)
<1> DEFINE Good(h, j) ==
             /\ h \in [SUBSET (1..j) -> X]
             /\ h[{}] = base
             /\ \A T \in SUBSET (1..j) : T # {} => h[T] = nx[Max(T)][h[T \ {Max(T)}]]
           D == {j \in Nat : j <= m => \E h : Good(h, j)}
<1>1. 0 \in D
  <2>1. 1..0 = {}
    OBVIOUS
  <2>2. Good([T \in SUBSET {} |-> base], 0)
    BY <2>1
  <2> QED
    BY <2>2
<1>2. ASSUME NEW j \in Nat, j \in D PROVE j + 1 \in D
  <2> HIDE DEF Good
  <2> SUFFICES ASSUME j + 1 <= m PROVE \E h : Good(h, j + 1)
    OBVIOUS
  <2>0. \E h : Good(h, j)
    BY <1>2
  <2>1. PICK h : Good(h, j)
    BY <2>0
  <2> USE DEF Good
  <2>i. 1..(j + 1) = 1..j \cup {j + 1} /\ j + 1 \notin 1..j
    OBVIOUS
  <2> DEFINE k == [T \in SUBSET (1..(j + 1)) |->
                     IF j + 1 \in T THEN nx[j + 1][h[T \ {j + 1}]] ELSE h[T]]
  <2>2. \A T \in SUBSET (1..(j + 1)) :
          T \ {j + 1} \in SUBSET (1..j) /\ (j + 1 \notin T => T \in SUBSET (1..j))
    BY <2>i
  <2>3. k \in [SUBSET (1..(j + 1)) -> X]
    <3>1. \A T \in SUBSET (1..(j + 1)) : h[T \ {j + 1}] \in X /\ (j + 1 \notin T => h[T] \in X)
      BY <2>1, <2>2
    <3>2. j + 1 \in 1..m
      OBVIOUS
    <3> QED
      BY <3>1, <3>2
  <2>4. k[{}] = base
    BY <2>1
  <2>5. ASSUME NEW T \in SUBSET (1..(j + 1)), T # {} PROVE k[T] = nx[Max(T)][k[T \ {Max(T)}]]
    <3>0. IsFiniteSet(1..(j + 1))
      BY FS_Interval
    <3>f. IsFiniteSet(T)
      BY <3>0, FS_Subset
    <3>1. IsFiniteSet(T) /\ T \in SUBSET Int
      BY <3>f
    <3>2. Max(T) \in T /\ \A x \in T : x <= Max(T)
      BY <3>1, <2>5, MaxIsGreatest
    <3>3. CASE j + 1 \in T
      <4>1. Max(T) = j + 1
        <5>1. j + 1 <= Max(T)
          BY <3>2, <3>3
        <5>2. Max(T) \in 1..(j + 1)
          BY <3>2
        <5> QED
          BY <5>1, <5>2
      <4>2. j + 1 \notin T \ {j + 1} /\ T \ {j + 1} \in SUBSET (1..(j + 1))
        BY <2>2
      <4>3. k[T \ {j + 1}] = h[T \ {j + 1}]
        BY <4>2
      <4> QED
        BY <3>3, <4>1, <4>3
    <3>4. CASE j + 1 \notin T
      <4>1. T \in SUBSET (1..j) /\ T \ {Max(T)} \in SUBSET (1..(j + 1)) /\ j + 1 \notin T \ {Max(T)}
        BY <3>4, <2>2
      <4>2. k[T] = h[T] /\ k[T \ {Max(T)}] = h[T \ {Max(T)}]
        BY <3>4, <4>1
      <4> HIDE DEF k
      <4> QED
        BY <4>1, <4>2, <2>1, <2>5
    <3> QED
      BY <3>3, <3>4
  <2>6. Good(k, j + 1)
    <3> HIDE DEF k
    <3> QED
      BY <2>3, <2>4, <2>5
  <2> QED
    BY <2>6
<1>3. Nat \subseteq D
  <2> HIDE DEF D
  <2> QED
    BY <1>1, <1>2, InductionOnNat
<1>4. m \in D
  <2> HIDE DEF D
  <2> QED
    BY <1>3
<1>5. \E h : Good(h, m)
  <2> HIDE DEF Good
  <2> QED
    BY <1>4
<1>6. \A h : Good(h, m) => Iterates(h, m, X, base, nx)
  BY DEF Iterates
<1> QED
  <2> HIDE DEF Good
  <2> QED
    BY <1>5, <1>6

LEMMA SumOfZeros ==
  ASSUME NEW S, IsFiniteSet(S), NEW f, \A x \in S : f[x] = 0
  PROVE  SumFunctionOnSet(f, S) = 0
<1> DEFINE D == {T \in SUBSET S : SumFunctionOnSet(f, T) = 0}
<1>1. {} \in D
  BY SumEmpty
<1>2. ASSUME NEW T \in SUBSET S, NEW x \in S \ T, T \in D PROVE T \cup {x} \in D
  <2>1. IsFiniteSet(T)
    BY FS_Subset
  <2>2. \A y \in T \cup {x} : f[y] = 0 /\ f[y] \in Int
    OBVIOUS
  <2>3. SumFunctionOnSet(f, T \cup {x}) = f[x] + SumFunctionOnSet(f, T)
    BY <2>1, <2>2, SumAdd
  <2> QED
    BY <1>2, <2>2, <2>3
<1> HIDE DEF D
<1>3. S \in D
  BY <1>1, <1>2, InductionOnSet
<1> QED
  BY <1>3 DEF D
\* A finite set as a list of its elements, each once.
LEMMA SetToSeqIs ==
  ASSUME NEW S, IsFiniteSet(S)
  PROVE  /\ Cardinality(S) \in Nat
         /\ SetToSeq(S) \in [1..Cardinality(S) -> S]
         /\ \A i, j \in 1..Cardinality(S) : SetToSeq(S)[i] = SetToSeq(S)[j] => i = j
         /\ \A x \in S : \E i \in 1..Cardinality(S) : SetToSeq(S)[i] = x
<1> DEFINE n == Cardinality(S)
           s == SetToSeq(S)
<1>1. n \in Nat /\ ExistsBijection(1..n, S)
  BY FS_CardinalityType
<1>2. PICK b : b \in Bijection(1..n, S)
  BY <1>1 DEF ExistsBijection
<1>3. b \in [1..n -> S] /\ IsInjective(b)
  BY <1>2 DEF Bijection, Injection
<1>4. s \in [1..n -> S] /\ IsInjective(s)
  BY <1>3 DEF SetToSeq
<1> HIDE DEF s
<1>5. s \in Injection(1..n, S)
  BY <1>4 DEF Injection
<1>6. Cardinality(1..n) = n
  <2>1. Cardinality(1..n) = IF 1 > n THEN 0 ELSE n - 1 + 1
    BY <1>1, FS_Interval
  <2> HIDE DEF n
  <2> QED
    BY <1>1, <2>1
<1>7. s \in Surjection(1..n, S)
  BY <1>5, <1>6, FS_Injection
<1>8. \A x \in S : \E i \in 1..n : s[i] = x
  BY <1>7 DEF Surjection
<1>9. \A i, j \in 1..n : s[i] = s[j] => i = j
  BY <1>4 DEF IsInjective
<1> QED
  BY <1>1, <1>4, <1>8, <1>9 DEF s
=============================================================================
