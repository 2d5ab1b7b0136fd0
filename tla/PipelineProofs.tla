--------------------------- MODULE PipelineProofs ---------------------------
(***************************************************************************)
(* Proofs about OfflinePipeline, for any samples, any number of runs and   *)
(* of interruptions, and about ModelInference, for any datasets: the       *)
(* tables of both are cleaned and turned into features by the same code.   *)
(***************************************************************************)
EXTENDS OfflinePipeline, ModelInference, SumTheorems

-----------------------------------------------------------------------------
(* Finite sets in order *)

\* A strict total order numbers the elements of a finite set.
Orders(R, S) ==
  /\ \A x \in S : <<x, x>> \notin R
  /\ \A x, y, z \in S : <<x, y>> \in R /\ <<y, z>> \in R => <<x, z>> \in R
  /\ \A x, y \in S : x = y \/ <<x, y>> \in R \/ <<y, x>> \in R

Enumerates(f, S, R) ==
  /\ f \in [1..Cardinality(S) -> S]
  /\ \A x \in S : \E k \in 1..Cardinality(S) : f[k] = x
  /\ \A i, j \in 1..Cardinality(S) : i < j => <<f[i], f[j]>> \in R

Ranked(S, R) ==
  [k \in 1..Cardinality(S) |-> CHOOSE x \in S : Cardinality({y \in S : <<y, x>> \in R}) = k - 1]

LEMMA OrderEnumerates ==
  ASSUME NEW S, IsFiniteSet(S), NEW R, Orders(R, S)
  PROVE  Enumerates(Ranked(S, R), S, R)
<1> DEFINE n == Cardinality(S)
           before(x) == {y \in S : <<y, x>> \in R}
           rank == [x \in S |-> Cardinality(before(x)) + 1]
           f == [k \in 1..n |-> CHOOSE x \in S : Cardinality(before(x)) = k - 1]
<1>1. n \in Nat /\ IsFiniteSet(1..n) /\ Cardinality(1..n) = n
  <2>1. n \in Nat
    BY FS_CardinalityType
  <2>2. Cardinality(1..n) = IF 1 > n THEN 0 ELSE n - 1 + 1
    BY <2>1, FS_Interval
  <2>3. IsFiniteSet(1..n)
    BY <2>1, FS_Interval
  <2> QED
    BY <2>1, <2>2, <2>3
<1>2. \A x \in S : IsFiniteSet(before(x)) /\ Cardinality(before(x)) \in Nat /\ before(x) \subseteq S
  <2>1. \A x \in S : before(x) \in SUBSET S
    OBVIOUS
  <2>2. \A x \in S : IsFiniteSet(before(x))
    BY <2>1, FS_Subset
  <2> QED
    BY <2>1, <2>2, FS_CardinalityType
<1>3. \A x \in S : rank[x] \in 1..n
  <2> SUFFICES ASSUME NEW x \in S PROVE Cardinality(before(x)) + 1 \in 1..n
    OBVIOUS
  <2>1. before(x) \in SUBSET S /\ x \notin before(x)
    BY DEF Orders
  <2>2. Cardinality(before(x)) <= n /\ (n = Cardinality(before(x)) => S = before(x))
    BY <2>1, FS_Subset
  <2>3. Cardinality(before(x)) # n
    BY <2>1, <2>2
  <2> HIDE DEF before, n
  <2> QED
    BY <1>1, <1>2, <2>2, <2>3
<1>4. ASSUME NEW x \in S, NEW y \in S, <<x, y>> \in R PROVE rank[x] < rank[y]
  <2>1. before(x) \subseteq before(y) /\ x \in before(y) /\ x \notin before(x)
    BY <1>4 DEF Orders
  <2>2. before(x) \in SUBSET before(y)
    BY <2>1
  <2>3. /\ Cardinality(before(x)) <= Cardinality(before(y))
        /\ Cardinality(before(y)) = Cardinality(before(x)) => before(y) = before(x)
    BY <1>2, <2>2, FS_Subset
  <2>4. Cardinality(before(x)) < Cardinality(before(y))
    <3> HIDE DEF before
    <3> QED
      BY <1>2, <2>1, <2>3
  <2> HIDE DEF before
  <2> QED
    BY <1>2, <2>4
<1> HIDE DEF rank
<1>5. \A x, y \in S : rank[x] = rank[y] => x = y
  <2> SUFFICES ASSUME NEW x \in S, NEW y \in S, rank[x] = rank[y], x # y PROVE FALSE
    OBVIOUS
  <2>1. <<x, y>> \in R \/ <<y, x>> \in R
    BY DEF Orders
  <2> QED
    BY <1>1, <1>3, <1>4, <2>1
<1>6. rank \in Injection(S, 1..n)
  BY <1>3, <1>5 DEF rank, Injection, IsInjective
<1>7. rank \in Surjection(S, 1..n)
  <2> HIDE DEF n
  <2> QED
    BY <1>1, <1>6, FS_Injection DEF n
<1>8. ASSUME NEW k \in 1..n PROVE f[k] \in S /\ rank[f[k]] = k
  <2>1. PICK x \in S : rank[x] = k
    BY <1>7 DEF Surjection
  <2>2. Cardinality(before(x)) = k - 1
    <3> HIDE DEF before
    <3> QED
      BY <1>2, <2>1 DEF rank
  <2>3. f[k] \in S /\ Cardinality(before(f[k])) = k - 1
    <3> HIDE DEF before, n
    <3> QED
      BY <2>2
  <2> HIDE DEF before, f
  <2> QED
    BY <1>1, <2>3 DEF rank
<1>9. \A x \in S : \E k \in 1..n : f[k] = x
  <2> HIDE DEF f, before
  <2> QED
    BY <1>3, <1>5, <1>8
<1>10. ASSUME NEW i \in 1..n, NEW j \in 1..n, i < j PROVE <<f[i], f[j]>> \in R
  <2>1. f[i] \in S /\ f[j] \in S /\ rank[f[i]] = i /\ rank[f[j]] = j
    <3> HIDE DEF f
    <3> QED
      BY <1>8
  <2> HIDE DEF f
  <2>2. <<f[i], f[j]>> \in R \/ <<f[j], f[i]>> \in R
    BY <1>10, <2>1 DEF Orders
  <2>3. <<f[j], f[i]>> \in R => j < i
    BY <1>4, <2>1
  <2> QED
    BY <1>1, <1>10, <2>2, <2>3
<1>11. f \in [1..n -> S]
  <2> HIDE DEF before, n
  <2> QED
    BY <1>8
<1> QED
  <2> HIDE DEF f
  <2>1. Enumerates(f, S, R)
    BY <1>9, <1>10, <1>11 DEF Enumerates
  <2> QED
    BY <2>1 DEF f, Ranked

\* Numbers in their order.
LEMMA NumbersEnumerate ==
  ASSUME NEW S, IsFiniteSet(S), S \subseteq Int
  PROVE  LET f == InOrder(S, LAMBDA i, j : i < j) IN
         /\ f \in [1..Cardinality(S) -> S]
         /\ \A x \in S : \E k \in 1..Cardinality(S) : f[k] = x
         /\ \A i, j \in 1..Cardinality(S) : i < j => f[i] < f[j]
<1> DEFINE R == {p \in S \X S : p[1] < p[2]}
           f == InOrder(S, LAMBDA i, j : i < j)
           g == Ranked(S, R)
<1>1. \A x, y \in S : <<x, y>> \in R <=> x < y
  OBVIOUS
<1>2. Orders(R, S)
  <2> HIDE DEF R
  <2> QED
    BY <1>1 DEF Orders
<1>3. \A x \in S : {y \in S : <<y, x>> \in R} = {y \in S : y < x}
  <2> HIDE DEF R
  <2> QED
    BY <1>1
<1>4. f = g
  <2> HIDE DEF R
  <2>1. \A k \in 1..Cardinality(S) :
          (CHOOSE x \in S : Cardinality({y \in S : <<y, x>> \in R}) = k - 1)
            = CHOOSE x \in S : Cardinality({y \in S : y < x}) = k - 1
    BY <1>3
  <2> QED
    BY <2>1 DEF InOrder, Ranked
<1>5. Enumerates(g, S, R)
  <2> HIDE DEF R
  <2> QED
    BY <1>2, OrderEnumerates
<1> HIDE DEF f, g
<1> QED
  BY <1>1, <1>4, <1>5 DEF Enumerates, f

\* p lists the numbers of mask upwards.
Lists(p, mask) ==
  /\ p \in [1..Cardinality(mask) -> mask]
  /\ \A i \in mask : \E k \in 1..Cardinality(mask) : p[k] = i
  /\ \A j, k \in 1..Cardinality(mask) : j < k => p[j] < p[k]

\* The rows a mask selects are the rows at its positions, in their order.
LEMMA WhereIs ==
  ASSUME NEW A, NEW rows \in Seq(A), NEW mask \in SUBSET DOMAIN rows
  PROVE  /\ Cardinality(mask) \in Nat
         /\ \E p : /\ Lists(p, mask)
                   /\ Where(rows, mask) = [k \in 1..Cardinality(mask) |-> rows[p[k]]]
         /\ Where(rows, mask) \in Seq(A)
         /\ Len(Where(rows, mask)) = Cardinality(mask)
         /\ Range(Where(rows, mask)) = {rows[i] : i \in mask}
<1> DEFINE n == Cardinality(mask)
           p == InOrder(mask, LAMBDA i, j : i < j)
<1>1. DOMAIN rows = 1..Len(rows) /\ Len(rows) \in Nat /\ \A i \in DOMAIN rows : rows[i] \in A
  OBVIOUS
<1>2. IsFiniteSet(mask) /\ mask \subseteq Int
  <2>1. IsFiniteSet(1..Len(rows))
    BY <1>1, FS_Interval
  <2> QED
    BY <1>1, <2>1, FS_Subset
<1>3. n \in Nat
  BY <1>2, FS_CardinalityType
<1>4. Lists(p, mask)
  <2> HIDE DEF n
  <2> QED
    BY <1>2, NumbersEnumerate DEF Lists
<1>5. DOMAIN p = 1..n
  BY DEF InOrder
<1>6. Where(rows, mask) = [k \in 1..n |-> rows[p[k]]]
  BY <1>5 DEF Where
<1> HIDE DEF p, n
<1>7. \A k \in 1..n : p[k] \in mask /\ rows[p[k]] \in A
  BY <1>1, <1>4 DEF Lists, n
<1>8. Where(rows, mask) \in Seq(A) /\ Len(Where(rows, mask)) = n /\ DOMAIN Where(rows, mask) = 1..n
  BY <1>3, <1>6, <1>7
<1>9. Range(Where(rows, mask)) = {rows[i] : i \in mask}
  <2>1. \A k \in DOMAIN Where(rows, mask) : Where(rows, mask)[k] \in {rows[i] : i \in mask}
    BY <1>6, <1>7, <1>8
  <2>2. ASSUME NEW i \in mask PROVE \E k \in DOMAIN Where(rows, mask) : Where(rows, mask)[k] = rows[i]
    <3>1. PICK k \in 1..n : p[k] = i
      BY <1>4 DEF Lists, n
    <3> QED
      BY <1>6, <1>8, <3>1
  <2> QED
    BY <2>1, <2>2 DEF Range
<1> QED
  BY <1>3, <1>4, <1>6, <1>8, <1>9 DEF n

\* A mask that leaves nothing out.
LEMMA WhereAll ==
  ASSUME NEW A, NEW rows \in Seq(A)
  PROVE  Where(rows, DOMAIN rows) = rows
<1> DEFINE n == Len(rows)
           p == InOrder(1..n, LAMBDA i, j : i < j)
<1>1. n \in Nat /\ DOMAIN rows = 1..n
  OBVIOUS
<1>2. Cardinality(1..n) = n
  <2>1. Cardinality(1..n) = IF 1 > n THEN 0 ELSE n - 1 + 1
    BY <1>1, FS_Interval
  <2> HIDE DEF n
  <2> QED
    BY <1>1, <2>1
<1>3. ASSUME NEW x \in 1..n PROVE Cardinality({y \in 1..n : y < x}) = x - 1
  <2>1. {y \in 1..n : y < x} = 1..(x - 1)
    BY <1>1
  <2>2. Cardinality(1..(x - 1)) = IF 1 > x - 1 THEN 0 ELSE x - 1 - 1 + 1
    BY FS_Interval
  <2>3. Cardinality(1..(x - 1)) = x - 1
    BY <1>1, <2>2
  <2> HIDE DEF n
  <2> QED
    BY <2>1, <2>3
<1>4. ASSUME NEW k \in 1..n
      PROVE  (CHOOSE x \in 1..n : Cardinality({y \in 1..n : y < x}) = k - 1) = k
  <2> HIDE DEF n
  <2>1. \A x \in 1..n : Cardinality({y \in 1..n : y < x}) = k - 1 <=> x = k
    BY <1>1, <1>3
  <2> QED
    BY <2>1
<1>5. DOMAIN p = 1..n /\ \A k \in 1..n : p[k] = k
  <2> HIDE DEF n
  <2> QED
    BY <1>2, <1>4 DEF InOrder
<1>6. Where(rows, 1..n) = [k \in 1..n |-> rows[p[k]]]
  BY <1>5 DEF Where
<1> HIDE DEF p
<1>7. Where(rows, 1..n) = [k \in 1..n |-> rows[k]]
  <2> HIDE DEF n
  <2> QED
    BY <1>5, <1>6
<1> QED
  BY <1>1, <1>7

\* Different rows of the selection come from different positions.
LEMMA WhereThins ==
  ASSUME NEW A, NEW rows \in Seq(A), NEW mask \in SUBSET DOMAIN rows
  PROVE  /\ DOMAIN Where(rows, mask) = 1..Cardinality(mask)
         /\ \A i, j \in DOMAIN Where(rows, mask) : \E a, b \in mask :
              /\ Where(rows, mask)[i] = rows[a] /\ Where(rows, mask)[j] = rows[b]
              /\ a = b => i = j
<1> DEFINE n == Cardinality(mask)
           W == Where(rows, mask)
<1>1. n \in Nat /\ \E p : Lists(p, mask) /\ W = [k \in 1..n |-> rows[p[k]]]
  BY WhereIs
<1> HIDE DEF n, W
<1>2. PICK p : Lists(p, mask) /\ W = [k \in 1..n |-> rows[p[k]]]
  BY <1>1
<1>3. DOMAIN W = 1..n
  BY <1>2
<1>4. ASSUME NEW i \in 1..n, NEW j \in 1..n
      PROVE  \E a, b \in mask : W[i] = rows[a] /\ W[j] = rows[b] /\ (a = b => i = j)
  <2>1. p[i] \in mask /\ p[j] \in mask /\ W[i] = rows[p[i]] /\ W[j] = rows[p[j]]
    BY <1>2 DEF Lists, n
  <2>2. i < j => p[i] < p[j]
    BY <1>2 DEF Lists, n
  <2>3. j < i => p[j] < p[i]
    BY <1>2 DEF Lists, n
  <2>4. p[i] \in Int /\ p[j] \in Int
    BY <2>1
  <2>5. p[i] = p[j] => i = j
    BY <1>1, <2>2, <2>3, <2>4
  <2> QED
    BY <2>1, <2>5
<1> QED
  BY <1>3, <1>4 DEF n, W

LEMMA LeastNumber ==
  ASSUME NEW T \in SUBSET Nat, T # {}
  PROVE  \E m \in T : \A n \in T : m <= n
<1>1. PICK m \in T : \A n \in T : ~(<<n, m>> \in OpToRel(<, Nat))
  BY NatLessThanWellFounded, WFMin
<1>2. ASSUME NEW n \in T, ~(m <= n) PROVE FALSE
  <2>1. <<n, m>> \in Nat \X Nat /\ n < m
    BY <1>2
  <2>2. <<n, m>> \in OpToRel(<, Nat)
    BY <2>1 DEF OpToRel
  <2> QED
    BY <1>1, <2>2
<1> QED
  BY <1>2

\* The positions where a key occurs first: one for every key.
Firsts(n, key) == {i \in 1..n : \A j \in 1..(i - 1) : key[j] # key[i]}

LEMMA FirstPlaces ==
  ASSUME NEW n \in Nat, NEW key
  PROVE  /\ \A i \in 1..n : \E m \in Firsts(n, key) : key[m] = key[i]
         /\ \A i, j \in Firsts(n, key) : key[i] = key[j] => i = j
<1> DEFINE firsts == Firsts(n, key)
<1> USE DEF Firsts
<1>1. ASSUME NEW i \in 1..n PROVE \E m \in firsts : key[m] = key[i]
  <2> DEFINE T == {j \in 1..n : key[j] = key[i]}
  <2>1. T \in SUBSET Nat /\ i \in T
    OBVIOUS
  <2>2. PICK m \in T : \A j \in T : m <= j
    <3> HIDE DEF T
    <3> QED
      BY <2>1, LeastNumber
  <2>3. ASSUME NEW j \in 1..(m - 1), key[j] = key[m] PROVE FALSE
    <3>1. j \in T /\ m \in Nat /\ j \in Nat /\ j < m
      BY <2>2, <2>3
    <3> QED
      BY <2>2, <3>1
  <2> QED
    BY <2>2, <2>3
<1>2. ASSUME NEW i \in firsts, NEW j \in firsts, key[i] = key[j] PROVE i = j
  <2>1. ~(i < j) /\ ~(j < i)
    BY <1>2
  <2> QED
    BY <2>1
<1> QED
  BY <1>1, <1>2

\* What drop_duplicates does with rows whose keys are key.
Distinct(rows, key) ==
  Where(rows, {i \in DOMAIN rows : \A j \in 1..(i - 1) : key[j] # key[i]})

OneOfEach(kept, rows, key) ==
  /\ Range(kept) \subseteq Range(rows)
  /\ \A i \in DOMAIN rows : \E m \in DOMAIN rows :
       key[m] = key[i] /\ rows[m] \in Range(kept)
  /\ \A i, j \in DOMAIN kept : \E a, b \in DOMAIN rows :
       kept[i] = rows[a] /\ kept[j] = rows[b] /\ (key[a] = key[b] => i = j)
  /\ (\A i, j \in DOMAIN rows : key[i] = key[j] => i = j) => kept = rows

LEMMA DistinctRows ==
  ASSUME NEW A, NEW rows \in Seq(A), NEW key
  PROVE  Distinct(rows, key) \in Seq(A) /\ OneOfEach(Distinct(rows, key), rows, key)
<1> DEFINE n == Len(rows)
           firsts == {i \in DOMAIN rows : \A j \in 1..(i - 1) : key[j] # key[i]}
           kept == Where(rows, firsts)
<1>1. n \in Nat /\ DOMAIN rows = 1..n
  OBVIOUS
<1>2. firsts \in SUBSET DOMAIN rows
  OBVIOUS
<1>3. /\ \A i \in DOMAIN rows : \E m \in firsts : key[m] = key[i]
      /\ \A i, j \in firsts : key[i] = key[j] => i = j
  <2>1. firsts = Firsts(n, key)
    BY <1>1 DEF Firsts
  <2> HIDE DEF firsts, n
  <2> QED
    BY <1>1, <2>1, FirstPlaces
<1>4. (\A i, j \in DOMAIN rows : key[i] = key[j] => i = j) => firsts = DOMAIN rows
  <2> SUFFICES ASSUME \A i, j \in DOMAIN rows : key[i] = key[j] => i = j,
                      NEW i \in DOMAIN rows, NEW j \in 1..(i - 1)
               PROVE  key[j] # key[i]
    OBVIOUS
  <2>1. j \in DOMAIN rows /\ i # j
    BY <1>1
  <2> QED
    BY <2>1
<1> HIDE DEF firsts
<1>5. kept \in Seq(A) /\ Range(kept) = {rows[i] : i \in firsts}
  BY <1>2, WhereIs
<1>6. \A i, j \in DOMAIN kept : \E a, b \in firsts :
        kept[i] = rows[a] /\ kept[j] = rows[b] /\ (a = b => i = j)
  BY <1>2, WhereThins
<1>7. firsts = DOMAIN rows => kept = rows
  BY WhereAll
<1> HIDE DEF kept
<1>8. Range(kept) \subseteq Range(rows)
  BY <1>2, <1>5 DEF Range
<1>9. \A i \in DOMAIN rows : \E m \in DOMAIN rows : key[m] = key[i] /\ rows[m] \in Range(kept)
  BY <1>2, <1>3, <1>5
<1>10. ASSUME NEW i \in DOMAIN kept, NEW j \in DOMAIN kept
       PROVE  \E a, b \in DOMAIN rows :
                kept[i] = rows[a] /\ kept[j] = rows[b] /\ (key[a] = key[b] => i = j)
  <2>1. PICK a \in firsts, b \in firsts :
          kept[i] = rows[a] /\ kept[j] = rows[b] /\ (a = b => i = j)
    BY <1>6
  <2> QED
    BY <1>2, <1>3, <2>1
<1> QED
  <2>1. Distinct(rows, key) = kept
    BY DEF Distinct, kept, firsts
  <2> QED
    BY <1>4, <1>5, <1>7, <1>8, <1>9, <1>10, <2>1 DEF OneOfEach

-----------------------------------------------------------------------------
(* Cleaning *)

\* Rows have an id that can be set.
Rowlike(A) ==
  \A row \in A :
    /\ row.id \in Named
    /\ \A id \in TxId : [row EXCEPT !.id = id] \in A /\ [row EXCEPT !.id = id].id = id
    /\ [row EXCEPT !.id = row.id] = row

LEMMA RowsAreRowlike ==
  /\ Rowlike(TransactionRow)
  /\ \A addrs : Rowlike(CoinRow(addrs))
  /\ \A hosts : Rowlike(EventRow(hosts))
<1>1. Rowlike(TransactionRow)
  BY DEF Rowlike, TransactionRow, Named
<1>2. ASSUME NEW addrs PROVE Rowlike(CoinRow(addrs))
  BY DEF Rowlike, CoinRow, Named
<1>3. ASSUME NEW hosts PROVE Rowlike(EventRow(hosts))
  BY DEF Rowlike, EventRow, Named
<1> QED
  BY <1>1, <1>2, <1>3

PlainIds(rows) == \A row \in Range(rows) : row.id \in TxId /\ row.id.as = "plain"

LEMMA PlainIs ==
  ASSUME NEW id \in TxId
  PROVE  /\ Plain(id) \in TxId /\ Plain(id).as = "plain" /\ Plain(id).n = id.n
         /\ id.as = "plain" => Plain(id) = id
  BY DEF TxId, Plain

LEMMA IdentifiedIs ==
  ASSUME NEW A, Rowlike(A), NEW rows \in Seq(A)
  PROVE  LET named == Identified(rows) IN
         /\ named \in Seq(A)
         /\ PlainIds(named)
         /\ Ids(named) = {Plain(id) : id \in Ids(rows) \ {Null}}
         /\ PlainIds(rows) => named = rows
<1> DEFINE mask == {i \in DOMAIN rows : rows[i].id # Null}
           kept == Where(rows, mask)
           plain == [i \in DOMAIN kept |-> [kept[i] EXCEPT !.id = Plain(@)]]
<1>1. mask \in SUBSET DOMAIN rows
  OBVIOUS
<1>2. Identified(rows) = plain
  BY DEF Identified
<1> HIDE DEF mask
<1>3. kept \in Seq(A) /\ Range(kept) = {rows[i] : i \in mask}
  BY <1>1, WhereIs
<1>4. mask = DOMAIN rows => kept = rows
  BY WhereAll
<1> HIDE DEF kept
<1>5. \A i \in DOMAIN rows : rows[i] \in A
  OBVIOUS
<1>6. DOMAIN kept = 1..Len(kept) /\ Len(kept) \in Nat
  BY <1>3
<1>7. ASSUME NEW i \in DOMAIN kept
      PROVE  /\ kept[i] \in A /\ kept[i].id \in TxId
             /\ plain[i] = [kept[i] EXCEPT !.id = Plain(kept[i].id)]
             /\ plain[i] \in A /\ plain[i].id = Plain(kept[i].id)
  <2>1. kept[i] \in Range(kept) /\ kept[i] \in A
    BY <1>3 DEF Range
  <2>2. kept[i].id # Null
    BY <1>3, <2>1 DEF mask
  <2>3. kept[i].id \in TxId
    BY <2>1, <2>2 DEF Rowlike, Named
  <2>4. plain[i] = [kept[i] EXCEPT !.id = Plain(kept[i].id)]
    OBVIOUS
  <2> QED
    BY <2>1, <2>3, <2>4, PlainIs DEF Rowlike
<1>8. plain \in Seq(A) /\ DOMAIN plain = DOMAIN kept
  <2> HIDE DEF plain
  <2>1. plain = [i \in 1..Len(kept) |-> plain[i]]
    BY <1>6 DEF plain
  <2>2. \A i \in 1..Len(kept) : plain[i] \in A
    BY <1>6, <1>7
  <2> QED
    BY <1>6, <2>1, <2>2
<1>9. PlainIds(plain)
  <2> HIDE DEF plain
  <2> QED
    BY <1>7, <1>8, PlainIs DEF PlainIds, Range
<1>10. Ids(plain) = {Plain(id) : id \in Ids(rows) \ {Null}}
  <2> HIDE DEF plain
  <2>1. Ids(plain) = {plain[i].id : i \in DOMAIN plain}
    BY DEF Ids, Range
  <2>2. ASSUME NEW i \in DOMAIN kept PROVE kept[i].id \in Ids(rows) \ {Null}
    <3>1. kept[i] \in Range(kept)
      BY DEF Range
    <3>2. PICK j \in mask : kept[i] = rows[j]
      BY <1>3, <3>1
    <3> QED
      BY <3>2 DEF mask, Ids, Range
  <2>3. ASSUME NEW id \in Ids(rows) \ {Null} PROVE \E i \in DOMAIN kept : kept[i].id = id
    <3>1. PICK j \in DOMAIN rows : rows[j].id = id
      BY DEF Ids, Range
    <3>2. rows[j] \in Range(kept)
      BY <1>3, <3>1 DEF mask
    <3> QED
      BY <3>1, <3>2 DEF Range
  <2> QED
    BY <1>7, <1>8, <2>1, <2>2, <2>3
<1>11. ASSUME PlainIds(rows) PROVE plain = rows
  <2>1. \A i \in DOMAIN rows : rows[i].id \in TxId /\ rows[i].id.as = "plain"
    BY <1>11 DEF PlainIds, Range
  <2>2. mask = DOMAIN rows
    BY <2>1, NullAssumption DEF mask
  <2>3. kept = rows
    BY <1>4, <2>2
  <2>4. \A i \in DOMAIN rows : plain[i] = rows[i]
    BY <1>5, <1>7, <2>1, <2>3, PlainIs DEF Rowlike
  <2>5. rows = [i \in 1..Len(rows) |-> rows[i]] /\ DOMAIN rows = 1..Len(rows)
    OBVIOUS
  <2> QED
    BY <2>3, <2>4, <2>5
<1> QED
  BY <1>2, <1>8, <1>9, <1>10, <1>11

\* What stays is one row for every id.
LEMMA FirstOfEachId ==
  ASSUME NEW A, NEW rows \in Seq(A)
  PROVE  LET kept == FirstOfEach(rows, IdOf) IN
         /\ kept \in Seq(A) /\ Range(kept) \subseteq Range(rows)
         /\ IsUnique(kept, IdOf)
         /\ Ids(kept) = Ids(rows)
         /\ IsUnique(rows, IdOf) => kept = rows
<1> DEFINE key == [i \in DOMAIN rows |-> IdOf(rows[i])]
           firsts == {i \in DOMAIN rows : \A j \in 1..(i - 1) : key[j] # key[i]}
           kept == Distinct(rows, key)
<1>1. FirstOfEach(rows, IdOf) = kept
  <2>1. \A i \in DOMAIN rows : \A j \in 1..(i - 1) : j \in DOMAIN rows
    OBVIOUS
  <2>2. firsts = {i \in DOMAIN rows : \A j \in 1..(i - 1) : IdOf(rows[j]) # IdOf(rows[i])}
    BY <2>1
  <2>3. kept = Where(rows, firsts)
    BY DEF Distinct
  <2> HIDE DEF firsts, kept
  <2> QED
    BY <2>2, <2>3 DEF FirstOfEach
<1>2. /\ kept \in Seq(A) /\ Range(kept) \subseteq Range(rows)
      /\ \A i \in DOMAIN rows : \E m \in DOMAIN rows : key[m] = key[i] /\ rows[m] \in Range(kept)
      /\ \A i, j \in DOMAIN kept : \E a, b \in DOMAIN rows :
           kept[i] = rows[a] /\ kept[j] = rows[b] /\ (key[a] = key[b] => i = j)
      /\ (\A i, j \in DOMAIN rows : key[i] = key[j] => i = j) => kept = rows
  <2> HIDE DEF key
  <2>1. kept \in Seq(A) /\ OneOfEach(kept, rows, key)
    BY DistinctRows
  <2> QED
    BY <2>1 DEF OneOfEach
<1> HIDE DEF firsts, kept
<1>3. IsUnique(kept, IdOf)
  <2> SUFFICES ASSUME NEW i \in DOMAIN kept, NEW j \in DOMAIN kept,
                      IdOf(kept[i]) = IdOf(kept[j])
               PROVE  i = j
    BY DEF IsUnique
  <2>1. PICK a \in DOMAIN rows, b \in DOMAIN rows :
          kept[i] = rows[a] /\ kept[j] = rows[b] /\ (key[a] = key[b] => i = j)
    BY <1>2
  <2>2. key[a] = key[b]
    BY <2>1
  <2> QED
    BY <2>1, <2>2
<1>4. Ids(kept) = Ids(rows)
  <2>1. ASSUME NEW i \in DOMAIN rows PROVE \E row \in Range(kept) : row.id = rows[i].id
    <3>1. PICK m \in DOMAIN rows : key[m] = key[i] /\ rows[m] \in Range(kept)
      BY <1>2
    <3> QED
      BY <3>1 DEF IdOf
  <2>2. \A id \in Ids(rows) : id \in Ids(kept)
    BY <2>1 DEF Ids, Range
  <2>3. \A id \in Ids(kept) : id \in Ids(rows)
    BY <1>2 DEF Ids
  <2> QED
    BY <2>2, <2>3
<1>5. IsUnique(rows, IdOf) => kept = rows
  BY <1>2 DEF IsUnique
<1> QED
  BY <1>1, <1>2, <1>3, <1>4, <1>5

\* What stays is one row for every id and index.
LEMMA FirstOfEachKey ==
  ASSUME NEW A, NEW rows \in Seq(A)
  PROVE  LET kept == FirstOfEach(rows, KeyOf) IN
         /\ kept \in Seq(A) /\ Range(kept) \subseteq Range(rows)
         /\ IsUnique(kept, KeyOf)
         /\ IsUnique(rows, KeyOf) => kept = rows
<1> DEFINE key == [i \in DOMAIN rows |-> KeyOf(rows[i])]
           firsts == {i \in DOMAIN rows : \A j \in 1..(i - 1) : key[j] # key[i]}
           kept == Distinct(rows, key)
<1>1. FirstOfEach(rows, KeyOf) = kept
  <2>1. \A i \in DOMAIN rows : \A j \in 1..(i - 1) : j \in DOMAIN rows
    OBVIOUS
  <2>2. firsts = {i \in DOMAIN rows : \A j \in 1..(i - 1) : KeyOf(rows[j]) # KeyOf(rows[i])}
    BY <2>1
  <2>3. kept = Where(rows, firsts)
    BY DEF Distinct
  <2> HIDE DEF firsts, kept
  <2> QED
    BY <2>2, <2>3 DEF FirstOfEach
<1>2. /\ kept \in Seq(A) /\ Range(kept) \subseteq Range(rows)
      /\ \A i \in DOMAIN rows : \E m \in DOMAIN rows : key[m] = key[i] /\ rows[m] \in Range(kept)
      /\ \A i, j \in DOMAIN kept : \E a, b \in DOMAIN rows :
           kept[i] = rows[a] /\ kept[j] = rows[b] /\ (key[a] = key[b] => i = j)
      /\ (\A i, j \in DOMAIN rows : key[i] = key[j] => i = j) => kept = rows
  <2> HIDE DEF key
  <2>1. kept \in Seq(A) /\ OneOfEach(kept, rows, key)
    BY DistinctRows
  <2> QED
    BY <2>1 DEF OneOfEach
<1> HIDE DEF firsts, kept
<1>3. IsUnique(kept, KeyOf)
  <2> SUFFICES ASSUME NEW i \in DOMAIN kept, NEW j \in DOMAIN kept,
                      KeyOf(kept[i]) = KeyOf(kept[j])
               PROVE  i = j
    BY DEF IsUnique
  <2>1. PICK a \in DOMAIN rows, b \in DOMAIN rows :
          kept[i] = rows[a] /\ kept[j] = rows[b] /\ (key[a] = key[b] => i = j)
    BY <1>2
  <2>2. key[a] = key[b]
    BY <2>1
  <2> QED
    BY <2>1, <2>2
<1>5. IsUnique(rows, KeyOf) => kept = rows
  BY <1>2 DEF IsUnique
<1> QED
  BY <1>1, <1>2, <1>3, <1>5

\* What stays is one row for every event.
LEMMA FirstOfEachEvent ==
  ASSUME NEW A, NEW rows \in Seq(A)
  PROVE  LET kept == FirstOfEach(rows, EventOf) IN
         /\ kept \in Seq(A) /\ Range(kept) \subseteq Range(rows)
         /\ IsUnique(kept, EventOf)
         /\ IsUnique(rows, EventOf) => kept = rows
<1> DEFINE key == [i \in DOMAIN rows |-> EventOf(rows[i])]
           firsts == {i \in DOMAIN rows : \A j \in 1..(i - 1) : key[j] # key[i]}
           kept == Distinct(rows, key)
<1>1. FirstOfEach(rows, EventOf) = kept
  <2>1. \A i \in DOMAIN rows : \A j \in 1..(i - 1) : j \in DOMAIN rows
    OBVIOUS
  <2>2. firsts = {i \in DOMAIN rows : \A j \in 1..(i - 1) : EventOf(rows[j]) # EventOf(rows[i])}
    BY <2>1
  <2>3. kept = Where(rows, firsts)
    BY DEF Distinct
  <2> HIDE DEF firsts, kept
  <2> QED
    BY <2>2, <2>3 DEF FirstOfEach
<1>2. /\ kept \in Seq(A) /\ Range(kept) \subseteq Range(rows)
      /\ \A i \in DOMAIN rows : \E m \in DOMAIN rows : key[m] = key[i] /\ rows[m] \in Range(kept)
      /\ \A i, j \in DOMAIN kept : \E a, b \in DOMAIN rows :
           kept[i] = rows[a] /\ kept[j] = rows[b] /\ (key[a] = key[b] => i = j)
      /\ (\A i, j \in DOMAIN rows : key[i] = key[j] => i = j) => kept = rows
  <2> HIDE DEF key
  <2>1. kept \in Seq(A) /\ OneOfEach(kept, rows, key)
    BY DistinctRows
  <2> QED
    BY <2>1 DEF OneOfEach
<1> HIDE DEF firsts, kept
<1>3. IsUnique(kept, EventOf)
  <2> SUFFICES ASSUME NEW i \in DOMAIN kept, NEW j \in DOMAIN kept,
                      EventOf(kept[i]) = EventOf(kept[j])
               PROVE  i = j
    BY DEF IsUnique
  <2>1. PICK a \in DOMAIN rows, b \in DOMAIN rows :
          kept[i] = rows[a] /\ kept[j] = rows[b] /\ (key[a] = key[b] => i = j)
    BY <1>2
  <2>2. key[a] = key[b]
    BY <2>1
  <2> QED
    BY <2>1, <2>2
<1>5. IsUnique(rows, EventOf) => kept = rows
  BY <1>2 DEF IsUnique
<1> QED
  BY <1>1, <1>2, <1>3, <1>5

LEMMA KnownRows ==
  ASSUME NEW A, NEW rows \in Seq(A), NEW tx
  PROVE  LET known == Known(rows, tx) IN
         /\ known \in Seq(A) /\ Range(known) \subseteq Range(rows)
         /\ tx # <<>> => Ids(known) \subseteq Ids(tx)
         /\ tx = <<>> \/ Ids(rows) \subseteq Ids(tx) => known = rows
         /\ IsUnique(rows, KeyOf) => IsUnique(known, KeyOf)
         /\ IsUnique(rows, EventOf) => IsUnique(known, EventOf)
<1> DEFINE mask == {i \in DOMAIN rows : rows[i].id \in Ids(tx)}
           kept == Where(rows, mask)
<1>1. CASE tx = <<>>
  BY <1>1 DEF Known
<1>2. CASE tx # <<>>
  <2>1. Known(rows, tx) = kept
    BY <1>2 DEF Known
  <2>2. mask \in SUBSET DOMAIN rows
    OBVIOUS
  <2> HIDE DEF mask
  <2>3. kept \in Seq(A) /\ Range(kept) = {rows[i] : i \in mask}
    BY <2>2, WhereIs
  <2>4. \A i, j \in DOMAIN kept : \E a, b \in mask :
          kept[i] = rows[a] /\ kept[j] = rows[b] /\ (a = b => i = j)
    BY <2>2, WhereThins
  <2>5. mask = DOMAIN rows => kept = rows
    BY WhereAll
  <2> HIDE DEF kept
  <2>6. Range(kept) \subseteq Range(rows)
    BY <2>2, <2>3 DEF Range
  <2>7. Ids(kept) \subseteq Ids(tx)
    BY <2>3 DEF mask, Ids
  <2>8. Ids(rows) \subseteq Ids(tx) => kept = rows
    BY <2>5 DEF mask, Ids, Range
  <2>9. ASSUME IsUnique(rows, KeyOf), NEW i \in DOMAIN kept, NEW j \in DOMAIN kept,
               KeyOf(kept[i]) = KeyOf(kept[j])
        PROVE  i = j
    <3>1. PICK a \in mask, b \in mask : kept[i] = rows[a] /\ kept[j] = rows[b] /\ (a = b => i = j)
      BY <2>4
    <3>2. KeyOf(rows[a]) = KeyOf(rows[b])
      BY <2>9, <3>1
    <3> QED
      BY <2>2, <2>9, <3>1, <3>2 DEF IsUnique
  <2>10. ASSUME IsUnique(rows, EventOf), NEW i \in DOMAIN kept, NEW j \in DOMAIN kept,
                EventOf(kept[i]) = EventOf(kept[j])
         PROVE  i = j
    <3>1. PICK a \in mask, b \in mask : kept[i] = rows[a] /\ kept[j] = rows[b] /\ (a = b => i = j)
      BY <2>4
    <3>2. EventOf(rows[a]) = EventOf(rows[b])
      BY <2>10, <3>1
    <3> QED
      BY <2>2, <2>10, <3>1, <3>2 DEF IsUnique
  <2>11. IsUnique(rows, KeyOf) => IsUnique(kept, KeyOf)
    BY <2>9 DEF IsUnique
  <2>12. IsUnique(rows, EventOf) => IsUnique(kept, EventOf)
    BY <2>10 DEF IsUnique
  <2> QED
    BY <1>2, <2>1, <2>3, <2>6, <2>7, <2>8, <2>11, <2>12
<1> QED
  BY <1>1, <1>2

LEMMA ImputedRows ==
  ASSUME NEW tx \in Seq(TransactionRow)
  PROVE  LET imputed == Imputed(tx) IN
         /\ imputed \in Seq(TransactionRow)
         /\ Ids(imputed) = Ids(tx)
         /\ PlainIds(tx) => PlainIds(imputed)
         /\ IsUnique(tx, IdOf) => IsUnique(imputed, IdOf)
         /\ \A t \in Range(imputed) : t.fee # Null
         /\ (\A t \in Range(tx) : t.fee # Null) => imputed = tx
<1> DEFINE imputed == Imputed(tx)
<1>1. Len(tx) \in Nat /\ DOMAIN tx = 1..Len(tx) /\ \A i \in DOMAIN tx : tx[i] \in TransactionRow
  OBVIOUS
<1>2. DOMAIN imputed = DOMAIN tx
  BY DEF Imputed
<1>3. ASSUME NEW i \in DOMAIN tx
      PROVE  /\ imputed[i] \in TransactionRow /\ imputed[i].id = tx[i].id
             /\ imputed[i].fee # Null
             /\ tx[i].fee # Null => imputed[i] = tx[i]
  <2> DEFINE row == tx[i]
             fee == IF row.fee = Null THEN row.inSum - row.outSum ELSE row.fee
  <2>1. imputed[i] = [row EXCEPT !.fee = fee]
    BY DEF Imputed
  <2>2. row \in TransactionRow
    BY <1>1
  <2> HIDE DEF imputed, row
  <2>3. row.fee \in Int \cup {Null} /\ row.inSum \in Int /\ row.outSum \in Int
    BY <2>2 DEF TransactionRow
  <2>4. fee \in Int /\ (row.fee # Null => fee = row.fee)
    BY <2>3
  <2> HIDE DEF fee
  <2>5. [row EXCEPT !.fee = fee] \in TransactionRow /\ [row EXCEPT !.fee = fee].id = row.id
    BY <2>2, <2>4 DEF TransactionRow
  <2>6. [row EXCEPT !.fee = fee].fee = fee
    BY <2>2 DEF TransactionRow
  <2>7. fee = row.fee => [row EXCEPT !.fee = fee] = row
    BY <2>2 DEF TransactionRow
  <2> QED
    BY <2>1, <2>4, <2>5, <2>6, <2>7, NullAssumption DEF row
<1>4. imputed = [i \in 1..Len(tx) |-> imputed[i]]
  BY <1>1 DEF Imputed
<1> HIDE DEF imputed
<1>5. imputed \in Seq(TransactionRow)
  BY <1>1, <1>3, <1>4
<1>6. Ids(imputed) = {imputed[i].id : i \in DOMAIN imputed} /\ Ids(tx) = {tx[i].id : i \in DOMAIN tx}
  BY DEF Ids, Range
<1>7. Ids(imputed) = Ids(tx)
  BY <1>2, <1>3, <1>6
<1>8. PlainIds(tx) => PlainIds(imputed)
  BY <1>2, <1>3 DEF PlainIds, Range
<1>9. IsUnique(tx, IdOf) => IsUnique(imputed, IdOf)
  BY <1>2, <1>3 DEF IsUnique, IdOf
<1>10. \A t \in Range(imputed) : t.fee # Null
  BY <1>2, <1>3 DEF Range
<1>11. ASSUME \A t \in Range(tx) : t.fee # Null PROVE imputed = tx
  <2>1. \A i \in DOMAIN tx : imputed[i] = tx[i]
    BY <1>3, <1>11 DEF Range
  <2>2. tx = [i \in 1..Len(tx) |-> tx[i]]
    OBVIOUS
  <2> QED
    BY <1>1, <1>4, <2>1, <2>2
<1> QED
  BY <1>5, <1>7, <1>8, <1>9, <1>10, <1>11 DEF imputed

\* A dataset with the columns of its tables.
Tabular(d) ==
  \E addrs, hosts :
    /\ d.tx \in Seq(TransactionRow)
    /\ d.ins \in Seq(CoinRow(addrs)) /\ d.outs \in Seq(CoinRow(addrs))
    /\ d.net \in Seq(EventRow(hosts))

Consistent(c) ==
  /\ PlainIds(c.tx) /\ PlainIds(c.ins) /\ PlainIds(c.outs) /\ PlainIds(c.net)
  /\ IsUnique(c.tx, IdOf) /\ IsUnique(c.ins, KeyOf) /\ IsUnique(c.outs, KeyOf)
  /\ IsUnique(c.net, EventOf)
  /\ c.tx # <<>> => Ids(c.ins) \subseteq Ids(c.tx) /\ Ids(c.outs) \subseteq Ids(c.tx)
                      /\ Ids(c.net) \subseteq Ids(c.tx)
  /\ \A t \in Range(c.tx) : t.fee # Null

LEMMA SubRowsPlain ==
  ASSUME NEW rows, NEW kept, Range(kept) \subseteq Range(rows), PlainIds(rows)
  PROVE  PlainIds(kept)
  BY DEF PlainIds

\* What cleaning makes of a table of coins, and of a table of events.
LEMMA CleanCoins ==
  ASSUME NEW A, Rowlike(A), NEW rows \in Seq(A), NEW tx
  PROVE  LET clean == Known(FirstOfEach(Identified(rows), KeyOf), tx) IN
         /\ clean \in Seq(A) /\ PlainIds(clean) /\ IsUnique(clean, KeyOf)
         /\ tx # <<>> => Ids(clean) \subseteq Ids(tx)
         /\ /\ PlainIds(rows) /\ IsUnique(rows, KeyOf)
            /\ tx = <<>> \/ Ids(rows) \subseteq Ids(tx)
            => clean = rows
<1> DEFINE named == Identified(rows)
           first == FirstOfEach(named, KeyOf)
           clean == Known(first, tx)
<1>1. named \in Seq(A) /\ PlainIds(named) /\ (PlainIds(rows) => named = rows)
  BY IdentifiedIs
<1> HIDE DEF named
<1>2. /\ first \in Seq(A) /\ Range(first) \subseteq Range(named) /\ IsUnique(first, KeyOf)
      /\ IsUnique(named, KeyOf) => first = named
  BY <1>1, FirstOfEachKey
<1> HIDE DEF first
<1>3. /\ clean \in Seq(A) /\ Range(clean) \subseteq Range(first) /\ IsUnique(clean, KeyOf)
      /\ tx # <<>> => Ids(clean) \subseteq Ids(tx)
      /\ tx = <<>> \/ Ids(first) \subseteq Ids(tx) => clean = first
  BY <1>2, KnownRows
<1> HIDE DEF clean
<1>4. PlainIds(first)
  BY <1>1, <1>2, SubRowsPlain
<1>5. PlainIds(clean)
  BY <1>3, <1>4, SubRowsPlain
<1>6. ASSUME PlainIds(rows), IsUnique(rows, KeyOf), tx = <<>> \/ Ids(rows) \subseteq Ids(tx)
      PROVE  clean = rows
  <2>1. named = rows
    BY <1>1, <1>6
  <2>2. first = rows
    BY <1>2, <1>6, <2>1
  <2> QED
    BY <1>3, <1>6, <2>2
<1> QED
  BY <1>3, <1>5, <1>6 DEF clean, first, named

LEMMA CleanEvents ==
  ASSUME NEW A, Rowlike(A), NEW rows \in Seq(A), NEW tx
  PROVE  LET clean == Known(FirstOfEach(Identified(rows), EventOf), tx) IN
         /\ clean \in Seq(A) /\ PlainIds(clean) /\ IsUnique(clean, EventOf)
         /\ tx # <<>> => Ids(clean) \subseteq Ids(tx)
         /\ /\ PlainIds(rows) /\ IsUnique(rows, EventOf)
            /\ tx = <<>> \/ Ids(rows) \subseteq Ids(tx)
            => clean = rows
<1> DEFINE named == Identified(rows)
           first == FirstOfEach(named, EventOf)
           clean == Known(first, tx)
<1>1. named \in Seq(A) /\ PlainIds(named) /\ (PlainIds(rows) => named = rows)
  BY IdentifiedIs
<1> HIDE DEF named
<1>2. /\ first \in Seq(A) /\ Range(first) \subseteq Range(named) /\ IsUnique(first, EventOf)
      /\ IsUnique(named, EventOf) => first = named
  BY <1>1, FirstOfEachEvent
<1> HIDE DEF first
<1>3. /\ clean \in Seq(A) /\ Range(clean) \subseteq Range(first) /\ IsUnique(clean, EventOf)
      /\ tx # <<>> => Ids(clean) \subseteq Ids(tx)
      /\ tx = <<>> \/ Ids(first) \subseteq Ids(tx) => clean = first
  BY <1>2, KnownRows
<1> HIDE DEF clean
<1>4. PlainIds(first)
  BY <1>1, <1>2, SubRowsPlain
<1>5. PlainIds(clean)
  BY <1>3, <1>4, SubRowsPlain
<1>6. ASSUME PlainIds(rows), IsUnique(rows, EventOf), tx = <<>> \/ Ids(rows) \subseteq Ids(tx)
      PROVE  clean = rows
  <2>1. named = rows
    BY <1>1, <1>6
  <2>2. first = rows
    BY <1>2, <1>6, <2>1
  <2> QED
    BY <1>3, <1>6, <2>2
<1> QED
  BY <1>3, <1>5, <1>6 DEF clean, first, named

LEMMA CleanTransactions ==
  ASSUME NEW rows \in Seq(TransactionRow)
  PROVE  LET clean == Imputed(FirstOfEach(Identified(rows), IdOf)) IN
         /\ clean \in Seq(TransactionRow) /\ PlainIds(clean) /\ IsUnique(clean, IdOf)
         /\ Ids(clean) = {Plain(id) : id \in Ids(rows) \ {Null}}
         /\ \A t \in Range(clean) : t.fee # Null
         /\ PlainIds(rows) /\ IsUnique(rows, IdOf) /\ (\A t \in Range(rows) : t.fee # Null)
            => clean = rows
<1> DEFINE named == Identified(rows)
           first == FirstOfEach(named, IdOf)
           clean == Imputed(first)
<1>1. /\ named \in Seq(TransactionRow) /\ PlainIds(named) /\ (PlainIds(rows) => named = rows)
      /\ Ids(named) = {Plain(id) : id \in Ids(rows) \ {Null}}
  BY IdentifiedIs, RowsAreRowlike
<1> HIDE DEF named
<1>2. /\ first \in Seq(TransactionRow) /\ Range(first) \subseteq Range(named)
      /\ IsUnique(first, IdOf) /\ Ids(first) = Ids(named)
      /\ IsUnique(named, IdOf) => first = named
  BY <1>1, FirstOfEachId
<1>3. PlainIds(first)
  BY <1>1, <1>2, SubRowsPlain
<1> HIDE DEF first
<1>4. /\ clean \in Seq(TransactionRow) /\ PlainIds(clean) /\ IsUnique(clean, IdOf)
      /\ Ids(clean) = Ids(first) /\ (\A t \in Range(clean) : t.fee # Null)
      /\ (\A t \in Range(first) : t.fee # Null) => clean = first
  BY <1>2, <1>3, ImputedRows
<1> HIDE DEF clean
<1>5. ASSUME PlainIds(rows), IsUnique(rows, IdOf), \A t \in Range(rows) : t.fee # Null
      PROVE  clean = rows
  <2>1. named = rows
    BY <1>1, <1>5
  <2>2. first = rows
    BY <1>2, <1>5, <2>1
  <2> QED
    BY <1>4, <1>5, <2>2
<1> QED
  BY <1>1, <1>2, <1>4, <1>5 DEF clean, first, named

\* Cleaning makes a dataset consistent and leaves a consistent one alone.
LEMMA CleanIs ==
  ASSUME NEW d, Tabular(d)
  PROVE  /\ Tabular(Clean(d)) /\ Consistent(Clean(d))
         /\ Ids(Clean(d).tx) = {Plain(id) : id \in Ids(d.tx) \ {Null}}
         /\ Clean(d) = [tx |-> Clean(d).tx, ins |-> Clean(d).ins, outs |-> Clean(d).outs,
                        net |-> Clean(d).net, tagged |-> d.tagged]
         /\ Consistent(d) => /\ Clean(d).tx = d.tx /\ Clean(d).ins = d.ins
                             /\ Clean(d).outs = d.outs /\ Clean(d).net = d.net
<1>1. PICK addrs, hosts :
        /\ d.tx \in Seq(TransactionRow)
        /\ d.ins \in Seq(CoinRow(addrs)) /\ d.outs \in Seq(CoinRow(addrs))
        /\ d.net \in Seq(EventRow(hosts))
  BY DEF Tabular
<1> DEFINE tx == Imputed(FirstOfEach(Identified(d.tx), IdOf))
           ins == Known(FirstOfEach(Identified(d.ins), KeyOf), tx)
           outs == Known(FirstOfEach(Identified(d.outs), KeyOf), tx)
           net == Known(FirstOfEach(Identified(d.net), EventOf), tx)
           c == [tx |-> tx, ins |-> ins, outs |-> outs, net |-> net, tagged |-> d.tagged]
<1>2. Clean(d) = c
  BY DEF Clean
<1>3. /\ tx \in Seq(TransactionRow) /\ PlainIds(tx) /\ IsUnique(tx, IdOf)
      /\ Ids(tx) = {Plain(id) : id \in Ids(d.tx) \ {Null}}
      /\ \A t \in Range(tx) : t.fee # Null
      /\ PlainIds(d.tx) /\ IsUnique(d.tx, IdOf) /\ (\A t \in Range(d.tx) : t.fee # Null)
         => tx = d.tx
  BY <1>1, CleanTransactions
<1> HIDE DEF tx
<1>4. /\ ins \in Seq(CoinRow(addrs)) /\ PlainIds(ins) /\ IsUnique(ins, KeyOf)
      /\ tx # <<>> => Ids(ins) \subseteq Ids(tx)
      /\ PlainIds(d.ins) /\ IsUnique(d.ins, KeyOf) /\ (tx = <<>> \/ Ids(d.ins) \subseteq Ids(tx))
         => ins = d.ins
  BY <1>1, CleanCoins, RowsAreRowlike
<1>5. /\ outs \in Seq(CoinRow(addrs)) /\ PlainIds(outs) /\ IsUnique(outs, KeyOf)
      /\ tx # <<>> => Ids(outs) \subseteq Ids(tx)
      /\ PlainIds(d.outs) /\ IsUnique(d.outs, KeyOf) /\ (tx = <<>> \/ Ids(d.outs) \subseteq Ids(tx))
         => outs = d.outs
  BY <1>1, CleanCoins, RowsAreRowlike
<1>6. /\ net \in Seq(EventRow(hosts)) /\ PlainIds(net) /\ IsUnique(net, EventOf)
      /\ tx # <<>> => Ids(net) \subseteq Ids(tx)
      /\ PlainIds(d.net) /\ IsUnique(d.net, EventOf) /\ (tx = <<>> \/ Ids(d.net) \subseteq Ids(tx))
         => net = d.net
  BY <1>1, CleanEvents, RowsAreRowlike
<1> HIDE DEF ins, outs, net
<1>7. c.tx = tx /\ c.ins = ins /\ c.outs = outs /\ c.net = net
  OBVIOUS
<1>8. Tabular(c)
  <2> HIDE DEF c
  <2> QED
    BY <1>3, <1>4, <1>5, <1>6, <1>7 DEF Tabular
<1>9. Consistent(c)
  <2> HIDE DEF c
  <2> QED
    BY <1>3, <1>4, <1>5, <1>6, <1>7 DEF Consistent
<1>10. ASSUME Consistent(d) PROVE tx = d.tx /\ ins = d.ins /\ outs = d.outs /\ net = d.net
  <2>1. tx = d.tx
    BY <1>3, <1>10 DEF Consistent
  <2> QED
    BY <1>4, <1>5, <1>6, <1>10, <2>1 DEF Consistent
<1> QED
  BY <1>2, <1>3, <1>7, <1>8, <1>9, <1>10

-----------------------------------------------------------------------------
(* What the data pipeline computes *)

\* Transactions with one row for every id.
TxTable(rows) == rows \in Seq(TransactionRow) /\ PlainIds(rows) /\ IsUnique(rows, IdOf)

LEMMA PipelineComputes ==
  ASSUME NEW s \in Samples
  PROVE  LET c == Normalize(Clean(Ingest(s).observed)) IN
         /\ Tabular(c) /\ Consistent(c)
         /\ Ids(c.tx) = {Plain(id) : id \in Ids(s.tx) \ {Null}}
         /\ c.tagged = {}
         /\ Clean(c) = c
<1> DEFINE d == Ingest(s).observed
           c == Clean(d)
<1>1. /\ d.tx = s.tx /\ d.ins = s.ins /\ d.outs = s.outs /\ d.net = s.net /\ d.tagged = {}
  <2>1. IsSample(s)
    BY SamplesAssumption
  <2> QED
    BY <2>1 DEF IsSample, Ingest
<1>2. Tabular(s)
  <2>1. IsSample(s)
    BY SamplesAssumption
  <2> QED
    BY <2>1 DEF IsSample, Tabular
<1>3. Tabular(d)
  <2> HIDE DEF d
  <2> QED
    BY <1>1, <1>2 DEF Tabular
<1> HIDE DEF d
<1>4. /\ Tabular(c) /\ Consistent(c)
      /\ Ids(c.tx) = {Plain(id) : id \in Ids(s.tx) \ {Null}}
      /\ c = [tx |-> c.tx, ins |-> c.ins, outs |-> c.outs, net |-> c.net, tagged |-> {}]
  BY <1>1, <1>3, CleanIs
<1> HIDE DEF c
<1>5. c.tagged = {} /\ "sih" \notin DOMAIN c
  BY <1>4
<1>6. Normalize(c) = c
  BY <1>5 DEF Normalize
<1>7. Clean(c) = c
  <2>1. /\ Clean(c).tx = c.tx /\ Clean(c).ins = c.ins /\ Clean(c).outs = c.outs
        /\ Clean(c).net = c.net
        /\ Clean(c) = [tx |-> Clean(c).tx, ins |-> Clean(c).ins, outs |-> Clean(c).outs,
                       net |-> Clean(c).net, tagged |-> c.tagged]
    BY <1>4, CleanIs
  <2>2. Clean(c) = [tx |-> c.tx, ins |-> c.ins, outs |-> c.outs, net |-> c.net, tagged |-> {}]
    BY <1>5, <2>1
  <2> QED
    BY <1>4, <2>2
<1> QED
  BY <1>4, <1>5, <1>6, <1>7 DEF c, d

-----------------------------------------------------------------------------
(* Writes *)

LEMMA WrittenIs ==
  ASSUME NEW writes, NEW k \in Nat
  PROVE  /\ DOMAIN Written(writes, k) = DOMAIN store \cup {writes[i].at : i \in 1..k}
         /\ \A p \in DOMAIN Written(writes, k) :
              \/ p \in DOMAIN store /\ Written(writes, k)[p] = store[p]
                   /\ \A i \in 1..k : writes[i].at # p
              \/ \E i \in 1..k : writes[i].at = p /\ Written(writes, k)[p] = writes[i].what
<1> DEFINE hits(p) == {i \in 1..k : writes[i].at = p}
           w == Written(writes, k)
<1>1. DOMAIN w = DOMAIN store \cup {writes[i].at : i \in 1..k}
  BY DEF Written
<1>2. \A p \in DOMAIN w : w[p] = IF hits(p) = {} THEN store[p] ELSE writes[Max(hits(p))].what
  BY DEF Written
<1> HIDE DEF w
<1>3. ASSUME NEW p \in DOMAIN w, hits(p) = {}
      PROVE  p \in DOMAIN store /\ w[p] = store[p] /\ \A i \in 1..k : writes[i].at # p
  BY <1>1, <1>2, <1>3
<1>4. ASSUME NEW p \in DOMAIN w, hits(p) # {}
      PROVE  \E i \in 1..k : writes[i].at = p /\ w[p] = writes[i].what
  <2>1. IsFiniteSet(1..k)
    BY FS_Interval
  <2>2. IsFiniteSet(hits(p)) /\ hits(p) \in SUBSET Int
    BY <2>1, FS_Subset
  <2>3. Max(hits(p)) \in hits(p)
    <3> HIDE DEF hits
    <3> QED
      BY <1>4, <2>2, MaxIsGreatest
  <2>4. w[p] = writes[Max(hits(p))].what
    <3> HIDE DEF hits
    <3> QED
      BY <1>2, <1>4
  <2> QED
    BY <2>3, <2>4
<1> QED
  BY <1>1, <1>3, <1>4 DEF w

LEMMA FinishWrites ==
  ASSUME NEW script, NEW writes, NEW ending, NEW result, Len(writes) \in Nat,
         Finish(script, writes, ending, result)
  PROVE  /\ \E k \in 0..Len(writes) : store' = Written(writes, k)
         /\ last'.script = script
         /\ computed' # Null => computed' = result /\ store' = Written(writes, Len(writes))
         /\ crashes' = crashes \/ (crashes < MaxCrashes /\ crashes' = crashes + 1)
<1>1. ASSUME store' = Written(writes, Len(writes)),
             last' = [script |-> script, outcome |-> ending],
             computed' = result, crashes' = crashes
      PROVE  /\ \E k \in 0..Len(writes) : store' = Written(writes, k)
             /\ last'.script = script
             /\ computed' = result /\ store' = Written(writes, Len(writes))
             /\ crashes' = crashes
  <2>1. Len(writes) \in 0..Len(writes)
    OBVIOUS
  <2>2. last'.script = script
    BY <1>1
  <2> QED
    BY <1>1, <2>1, <2>2
<1>2. ASSUME NEW k \in 0..Len(writes) - 1,
             crashes < MaxCrashes, crashes' = crashes + 1,
             store' = Written(writes, k),
             last' = [script |-> script, outcome |-> "interrupted"],
             computed' = Null
      PROVE  /\ \E j \in 0..Len(writes) : store' = Written(writes, j)
             /\ last'.script = script /\ computed' = Null
             /\ crashes < MaxCrashes /\ crashes' = crashes + 1
  <2>1. k \in 0..Len(writes)
    OBVIOUS
  <2>2. last'.script = script
    BY <1>2
  <2> QED
    BY <1>2, <2>1, <2>2
<1>3. \/ /\ store' = Written(writes, Len(writes))
         /\ last' = [script |-> script, outcome |-> ending]
         /\ computed' = result
         /\ crashes' = crashes
      \/ \E k \in 0..Len(writes) - 1 :
           /\ crashes < MaxCrashes /\ crashes' = crashes + 1
           /\ store' = Written(writes, k)
           /\ last' = [script |-> script, outcome |-> "interrupted"]
           /\ computed' = Null
  BY DEF Finish
<1>4. CASE /\ store' = Written(writes, Len(writes))
           /\ last' = [script |-> script, outcome |-> ending]
           /\ computed' = result
           /\ crashes' = crashes
  BY <1>1, <1>4
<1>5. CASE \E k \in 0..Len(writes) - 1 :
             /\ crashes < MaxCrashes /\ crashes' = crashes + 1
             /\ store' = Written(writes, k)
             /\ last' = [script |-> script, outcome |-> "interrupted"]
             /\ computed' = Null
  BY <1>2, <1>5
<1> QED
  BY <1>3, <1>4, <1>5

\* What may be stored in a place.
Fits(p, what) ==
  /\ p \in {<<"file", "tx">>, <<"table", "tx">>} => TxTable(what)
  /\ p \in {<<"file", "features">>, <<"file", "outs">>, <<"table", "ins">>, <<"table", "outs">>} =>
       \E A : what \in Seq(A)
  /\ p = <<"file", "graph">> => IsFiniteSet(DOMAIN what)

StoreOK == \A p \in DOMAIN store : Fits(p, store[p])

FileForTable(places) ==
  \A stem \in Stems : <<"table", stem>> \in places => <<"file", stem>> \in places

IInv == TypeOK /\ StoreOK

\* What a script may do to the store: everything it writes fits, and however
\* far it comes, a table is not registered before its file is written.
Orderly(writes) ==
  /\ Len(writes) \in Nat
  /\ \A i \in 1..Len(writes) : writes[i].at \in Places /\ Fits(writes[i].at, writes[i].what)
  /\ \A i \in 1..Len(writes) : \A stem \in Stems : writes[i].at = <<"table", stem>> =>
       \E j \in 1..i : writes[j].at = <<"file", stem>>

LEMMA OrderlyWrites ==
  ASSUME IInv, NEW writes, Orderly(writes), NEW k \in 0..Len(writes),
         store' = Written(writes, k)
  PROVE  DOMAIN store' \subseteq Places /\ FileForTable(DOMAIN store') /\ StoreOK'
<1>1. k \in Nat /\ Len(writes) \in Nat /\ k <= Len(writes)
  BY DEF Orderly
<1>2. /\ DOMAIN store' = DOMAIN store \cup {writes[i].at : i \in 1..k}
      /\ \A p \in DOMAIN store' :
           \/ p \in DOMAIN store /\ store'[p] = store[p]
           \/ \E i \in 1..k : writes[i].at = p /\ store'[p] = writes[i].what
  <2> DEFINE w == Written(writes, k)
  <2>1. /\ DOMAIN w = DOMAIN store \cup {writes[i].at : i \in 1..k}
        /\ \A p \in DOMAIN w :
             \/ p \in DOMAIN store /\ w[p] = store[p] /\ \A i \in 1..k : writes[i].at # p
             \/ \E i \in 1..k : writes[i].at = p /\ w[p] = writes[i].what
    BY <1>1, WrittenIs
  <2>2. store' = w
    OBVIOUS
  <2> HIDE DEF w
  <2> QED
    BY <2>1, <2>2
<1>3. \A i \in 1..k : i \in 1..Len(writes)
  BY <1>1
<1>4. DOMAIN store' \subseteq Places
  BY <1>2, <1>3 DEF Orderly, IInv, TypeOK
<1>5. StoreOK'
  <2> SUFFICES ASSUME NEW p \in DOMAIN store' PROVE Fits(p, store'[p])
    BY DEF StoreOK, Fits, TxTable
  <2>1. CASE p \in DOMAIN store /\ store'[p] = store[p]
    BY <2>1 DEF IInv, StoreOK
  <2>2. CASE \E i \in 1..k : writes[i].at = p /\ store'[p] = writes[i].what
    BY <1>3, <2>2 DEF Orderly
  <2> QED
    BY <1>2, <2>1, <2>2
<1>6. ASSUME NEW stem \in Stems, <<"table", stem>> \in DOMAIN store'
      PROVE  <<"file", stem>> \in DOMAIN store'
  <2>1. CASE <<"table", stem>> \in DOMAIN store
    BY <1>2, <2>1 DEF IInv, TypeOK
  <2>2. ASSUME NEW i \in 1..k, writes[i].at = <<"table", stem>>
        PROVE  <<"file", stem>> \in DOMAIN store'
    <3>1. PICK j \in 1..i : writes[j].at = <<"file", stem>>
      BY <1>3, <2>2 DEF Orderly
    <3>2. j \in 1..k
      BY <1>1
    <3> QED
      BY <1>2, <3>1, <3>2
  <2> QED
    BY <1>2, <1>6, <2>1, <2>2
<1>7. FileForTable(DOMAIN store')
  BY <1>6 DEF FileForTable
<1> QED
  BY <1>4, <1>5, <1>7

LEMMA FunctionIsSeq ==
  ASSUME NEW S, NEW m \in Nat, NEW f, f = [i \in 1..m |-> f[i]], \A i \in 1..m : f[i] \in S
  PROVE  f \in Seq(S) /\ Len(f) = m /\ DOMAIN f = 1..m
<1>1. f \in [1..m -> S]
  OBVIOUS
<1>2. f \in Seq(S)
  BY <1>1
<1>3. DOMAIN f = 1..m
  BY <1>1
<1> QED
  BY <1>2, <1>3

LEMMA PipelineWrites ==
  ASSUME NEW c, Tabular(c), Consistent(c)
  PROVE  Orderly(Exports("file", c) \o Exports("table", c))
<1> DEFINE all == <<"tx", "ins", "outs", "net">>
           order == Where(all, {i \in DOMAIN all : c[all[i]] # <<>>})
           m == Len(order)
           W == {[at |-> <<kind, t>>, what |-> c[t]] : kind \in {"file", "table"}, t \in Canonical}
           F(kind) == [i \in 1..m |-> To(kind, order[i], c[order[i]])]
<1>1. order \in Seq(Canonical)
  <2>1. all \in Seq(Canonical) /\ {i \in DOMAIN all : c[all[i]] # <<>>} \in SUBSET DOMAIN all
    BY DEF Canonical
  <2> HIDE DEF all
  <2> QED
    BY <2>1, WhereIs
<1>2. \A kind : Exports(kind, c) = [i \in DOMAIN order |-> To(kind, order[i], c[order[i]])]
  BY DEF Exports
<1> HIDE DEF order
<1>3. m \in Nat /\ DOMAIN order = 1..m /\ \A i \in 1..m : order[i] \in Canonical
  BY <1>1
<1>4. \A kind : Exports(kind, c) = F(kind)
  BY <1>2, <1>3
<1> HIDE DEF m
<1>5. ASSUME NEW kind \in {"file", "table"}
      PROVE  /\ F(kind) \in Seq(W) /\ Len(F(kind)) = m
             /\ \A i \in 1..m : F(kind)[i] = [at |-> <<kind, order[i]>>, what |-> c[order[i]]]
  <2> DEFINE f == F(kind)
  <2>1. f = [i \in 1..m |-> f[i]]
    OBVIOUS
  <2>2. \A i \in 1..m : f[i] = [at |-> <<kind, order[i]>>, what |-> c[order[i]]]
    BY DEF To
  <2>3. \A i \in 1..m : [at |-> <<kind, order[i]>>, what |-> c[order[i]]] \in W
    BY <1>3
  <2> HIDE DEF W, F, f
  <2>4. \A i \in 1..m : f[i] \in W
    BY <2>2, <2>3
  <2>5. f \in Seq(W) /\ Len(f) = m
    BY <1>3, <2>1, <2>4, FunctionIsSeq
  <2> QED
    BY <2>2, <2>5 DEF f
<1> HIDE DEF F
<1> DEFINE files == F("file")
           tables == F("table")
           writes == files \o tables
<1>6. /\ files \in Seq(W) /\ Len(files) = m
      /\ \A i \in 1..m : files[i] = [at |-> <<"file", order[i]>>, what |-> c[order[i]]]
  BY <1>5
<1>7. /\ tables \in Seq(W) /\ Len(tables) = m
      /\ \A i \in 1..m : tables[i] = [at |-> <<"table", order[i]>>, what |-> c[order[i]]]
  BY <1>5
<1> HIDE DEF W, files, tables
<1>8. /\ Len(writes) = m + m
      /\ \A i \in 1..m : writes[i] = files[i]
      /\ \A i \in (m + 1)..(m + m) : writes[i] = tables[i - m]
  <2>1. files \in Seq(W) /\ tables \in Seq(W) /\ m \in Nat /\ Len(files) = m /\ Len(tables) = m
    BY <1>3, <1>6, <1>7
  <2> QED
    BY <2>1
<1> HIDE DEF writes
<1>9. ASSUME NEW i \in 1..(m + m)
      PROVE  /\ \E kind \in {"file", "table"}, t \in Canonical :
                  writes[i].at = <<kind, t>> /\ writes[i].what = c[t]
             /\ \A stem \in Stems : writes[i].at = <<"table", stem>> =>
                  \E j \in 1..i : writes[j].at = <<"file", stem>>
  <2>1. CASE i \in 1..m
    <3>1. writes[i] = [at |-> <<"file", order[i]>>, what |-> c[order[i]]] /\ order[i] \in Canonical
      BY <1>3, <1>6, <1>8, <2>1
    <3> QED
      BY <3>1
  <2>2. CASE i \notin 1..m
    <3> DEFINE j == i - m
    <3>1. j \in 1..m /\ i \in (m + 1)..(m + m) /\ j \in 1..i
      BY <1>3, <2>2
    <3> HIDE DEF j
    <3>2. writes[i] = [at |-> <<"table", order[j]>>, what |-> c[order[j]]] /\ order[j] \in Canonical
      BY <1>3, <1>7, <1>8, <3>1 DEF j
    <3>3. writes[j] = [at |-> <<"file", order[j]>>, what |-> c[order[j]]]
      BY <1>6, <1>8, <3>1
    <3>4. \A stem \in Stems : writes[i].at = <<"table", stem>> => stem = order[j]
      BY <3>2
    <3> QED
      BY <3>1, <3>2, <3>3, <3>4
  <2> QED
    BY <2>1, <2>2
<1>10. TxTable(c.tx)
  BY DEF TxTable, Tabular, Consistent
<1>11. ASSUME NEW kind \in {"file", "table"}, NEW t \in Canonical
       PROVE  <<kind, t>> \in Places /\ Fits(<<kind, t>>, c[t])
  <2>1. <<kind, t>> \in Places
    BY DEF Places, Stems
  <2>2. /\ t # "features" /\ t # "graph" /\ (t = "tx" => c[t] = c.tx)
        /\ (t = "ins" => c[t] = c.ins) /\ (t = "outs" => c[t] = c.outs)
    BY DEF Canonical
  <2>3. (\E A : c.ins \in Seq(A)) /\ (\E A : c.outs \in Seq(A))
    BY DEF Tabular
  <2> QED
    BY <1>10, <2>1, <2>2, <2>3 DEF Fits
<1>12. Orderly(writes)
  <2>1. Len(writes) = m + m /\ m + m \in Nat
    BY <1>3, <1>8
  <2>2. \A i \in 1..(m + m) : writes[i].at \in Places /\ Fits(writes[i].at, writes[i].what)
    BY <1>9, <1>11
  <2>3. \A i \in 1..(m + m) : \A stem \in Stems : writes[i].at = <<"table", stem>> =>
          \E j \in 1..i : writes[j].at = <<"file", stem>>
    BY <1>9
  <2> QED
    BY <2>1, <2>2, <2>3 DEF Orderly
<1> QED
  BY <1>4, <1>12 DEF writes, files, tables

LEMMA FeatureWrites ==
  ASSUME NEW c, TxTable(c.tx)
  PROVE  Orderly(<<To("file", "features", FeatureMatrix(c)), To("table", "features", FeatureMatrix(c))>>)
<1> DEFINE matrix == FeatureMatrix(c)
           writes == <<To("file", "features", matrix), To("table", "features", matrix)>>
<1>1. \E A : matrix \in Seq(A)
  <2> DEFINE A == {matrix[i] : i \in DOMAIN c.tx}
  <2>1. DOMAIN c.tx = 1..Len(c.tx) /\ Len(c.tx) \in Nat
    BY DEF TxTable
  <2>2. DOMAIN matrix = DOMAIN c.tx /\ matrix = [i \in DOMAIN c.tx |-> matrix[i]]
    BY DEF FeatureMatrix
  <2> HIDE DEF matrix
  <2>3. \A i \in 1..Len(c.tx) : matrix[i] \in A
    BY <2>1
  <2> HIDE DEF A
  <2>4. matrix \in Seq(A)
    BY <2>1, <2>2, <2>3
  <2> QED
    BY <2>4
<1> HIDE DEF matrix
<1>2. /\ Len(writes) = 2
      /\ writes[1].at = <<"file", "features">> /\ writes[1].what = matrix
      /\ writes[2].at = <<"table", "features">> /\ writes[2].what = matrix
  BY DEF To
<1> HIDE DEF writes
<1>3. <<"file", "features">> \in Places /\ <<"table", "features">> \in Places
  BY DEF Places, Stems
<1>4. Fits(<<"file", "features">>, matrix) /\ Fits(<<"table", "features">>, matrix)
  BY <1>1 DEF Fits
<1>5. \A i \in 1..2 : i = 1 \/ i = 2
  OBVIOUS
<1>6. Orderly(writes)
  <2>1. \A i \in 1..2 : writes[i].at \in Places /\ Fits(writes[i].at, writes[i].what)
    BY <1>2, <1>3, <1>4, <1>5
  <2>2. ASSUME NEW i \in 1..2, NEW stem \in Stems, writes[i].at = <<"table", stem>>
        PROVE  \E j \in 1..i : writes[j].at = <<"file", stem>>
    <3>1. i = 2 /\ stem = "features"
      BY <1>2, <1>5, <2>2
    <3>2. 1 \in 1..i
      BY <3>1
    <3> QED
      BY <1>2, <3>1, <3>2
  <2> QED
    BY <1>2, <2>1, <2>2 DEF Orderly
<1> QED
  BY <1>6 DEF writes, matrix

LEMMA ModelingWrites ==
  ASSUME NEW rows
  PROVE  Orderly(<<To("file", "modeling", rows), To("table", "modeling", rows)>>)
<1> DEFINE writes == <<To("file", "modeling", rows), To("table", "modeling", rows)>>
<1>1. /\ Len(writes) = 2
      /\ writes[1].at = <<"file", "modeling">> /\ writes[2].at = <<"table", "modeling">>
      /\ writes[1].what = rows /\ writes[2].what = rows
  BY DEF To
<1> HIDE DEF writes
<1>2. \A kind \in {"file", "table"} :
        <<kind, "modeling">> \in Places /\ Fits(<<kind, "modeling">>, rows)
  BY DEF Places, Stems, Fits
<1>3. \A i \in 1..2 : i = 1 \/ i = 2
  OBVIOUS
<1>4. \A i \in 1..2 : writes[i].at \in Places /\ Fits(writes[i].at, writes[i].what)
  BY <1>1, <1>2, <1>3
<1>5. ASSUME NEW i \in 1..2, NEW stem \in Stems, writes[i].at = <<"table", stem>>
      PROVE  \E j \in 1..i : writes[j].at = <<"file", stem>>
  <2>1. i = 2 /\ stem = "modeling"
    BY <1>1, <1>3, <1>5
  <2>2. 1 \in 1..i
    BY <2>1
  <2> QED
    BY <1>1, <2>1, <2>2
<1> QED
  BY <1>1, <1>4, <1>5 DEF Orderly, writes

-----------------------------------------------------------------------------
(* Passes over the transactions: of the graph pipeline and of two extractors *)

NoVisits == [tracker |-> NewTracker, deg |-> <<>>, rows |-> <<>>]

\* The last three are folds within the graph pipeline: a component grows, a
\* transaction is joined with its addresses, and their degrees go up.
Start(pass, c) ==
  IF pass = "graph" THEN NoVisits
  ELSE IF pass = "address" THEN [hist |-> NoHistory(c), rows |-> <<>>]
  ELSE IF pass = "temporal" THEN [seen |-> <<>>, rows |-> <<>>]
  ELSE IF pass = "component" THEN {c.node}
  ELSE c.before

Turn(pass, c, s, x) ==
  IF pass = "graph" THEN Visit(c, s, x)
  ELSE IF pass = "address" THEN AddressTurn(c, s, x)
  ELSE IF pass = "temporal" THEN TemporalTurn(c, Chronological(c.tx), s, x)
  ELSE IF pass = "component" THEN Grown(c.arcs, s)
  ELSE IF pass = "join" THEN Union(s, c.node, AddrNode(x.addr))
  ELSE Bumped(s, x)

\* h has what a pass keeps after every part of 1..n, as the fold computes it.
Passes(h, n, pass, c, seq) ==
  h = [T \in SUBSET (1..n) |->
         IF T = {} THEN Start(pass, c) ELSE Turn(pass, c, h[T \ {Max(T)}], seq[Max(T)])]

LEMMA PassesExist ==
  ASSUME NEW n \in Nat, NEW pass, NEW c, NEW seq
  PROVE  \E h : Passes(h, n, pass, c, seq)
<1> DEFINE D == {j \in Nat : \E h : Passes(h, j, pass, c, seq)}
<1>1. 0 \in D
  <2> DEFINE h == [T \in SUBSET {} |-> Start(pass, c)]
  <2>1. 1..0 = {} /\ \A T \in SUBSET {} : T = {}
    OBVIOUS
  <2>2. h = [T \in SUBSET {} |-> IF T = {} THEN Start(pass, c) ELSE Turn(pass, c, h[T \ {Max(T)}], seq[Max(T)])]
    BY <2>1
  <2>3. Passes(h, 0, pass, c, seq)
    <3> HIDE DEF h
    <3> QED
      BY <2>1, <2>2 DEF Passes
  <2> QED
    BY <2>3
<1>2. ASSUME NEW j \in Nat, j \in D PROVE j + 1 \in D
  <2>1. PICK h : Passes(h, j, pass, c, seq)
    BY <1>2
  <2>2. 1..(j + 1) = 1..j \cup {j + 1} /\ j + 1 \notin 1..j
    OBVIOUS
  <2>3. \A T \in SUBSET (1..(j + 1)) :
          T \ {j + 1} \in SUBSET (1..j) /\ (j + 1 \notin T => T \in SUBSET (1..j))
    BY <2>2
  <2> DEFINE k == [T \in SUBSET (1..(j + 1)) |->
                     IF j + 1 \in T THEN Turn(pass, c, h[T \ {j + 1}], seq[j + 1]) ELSE h[T]]
             next(T) == IF T = {} THEN Start(pass, c) ELSE Turn(pass, c, k[T \ {Max(T)}], seq[Max(T)])
  <2>4. \A T \in SUBSET (1..j) :
          h[T] = IF T = {} THEN Start(pass, c) ELSE Turn(pass, c, h[T \ {Max(T)}], seq[Max(T)])
    BY <2>1 DEF Passes
  <2>5. ASSUME NEW T \in SUBSET (1..(j + 1)) PROVE k[T] = next(T)
    <3>1. IsFiniteSet(1..(j + 1))
      BY FS_Interval
    <3>f. IsFiniteSet(T)
      BY <3>1, FS_Subset
    <3>2. IsFiniteSet(T) /\ T \in SUBSET Int
      BY <3>f
    <3>3. T # {} => Max(T) \in T /\ \A x \in T : x <= Max(T)
      BY <3>2, MaxIsGreatest
    <3>4. CASE j + 1 \in T
      <4>1. Max(T) = j + 1
        <5>1. j + 1 <= Max(T) /\ Max(T) \in 1..(j + 1)
          BY <3>3, <3>4
        <5> QED
          BY <5>1
      <4>2. j + 1 \notin T \ {j + 1} /\ T \ {j + 1} \in SUBSET (1..(j + 1)) /\ T # {}
        BY <2>3, <3>4
      <4>3. k[T \ {j + 1}] = h[T \ {j + 1}]
        BY <4>2
      <4>4. k[T] = Turn(pass, c, h[T \ {j + 1}], seq[j + 1])
        BY <3>4
      <4> HIDE DEF k
      <4> QED
        BY <4>1, <4>2, <4>3, <4>4
    <3>5. CASE j + 1 \notin T
      <4>1. T \in SUBSET (1..j) /\ T \ {Max(T)} \in SUBSET (1..(j + 1)) /\ j + 1 \notin T \ {Max(T)}
        BY <2>3, <3>5
      <4>2. k[T] = h[T] /\ k[T \ {Max(T)}] = h[T \ {Max(T)}]
        BY <3>5, <4>1
      <4> HIDE DEF k
      <4> QED
        BY <2>4, <4>1, <4>2
    <3> QED
      BY <3>4, <3>5
  <2>6. k = [T \in SUBSET (1..(j + 1)) |-> k[T]]
    OBVIOUS
  <2>7. Passes(k, j + 1, pass, c, seq)
    <3> HIDE DEF k
    <3> QED
      BY <2>5, <2>6 DEF Passes
  <2> QED
    BY <2>7
<1>3. Nat \subseteq D
  <2> HIDE DEF D
  <2> QED
    BY <1>1, <1>2, InductionOnNat
<1>4. n \in D
  <2> HIDE DEF D
  <2> QED
    BY <1>3
<1> QED
  BY <1>4

\* A pass starts with what it starts with and takes one turn per row.
LEMMA PassTurns ==
  ASSUME NEW n \in Nat, NEW pass, NEW c, NEW seq, NEW iter, Passes(iter, n, pass, c, seq)
  PROVE  /\ iter[1..0] = Start(pass, c)
         /\ \A j \in 1..n : iter[1..j] = Turn(pass, c, iter[1..(j - 1)], seq[j])
<1>2. \A T \in SUBSET (1..n) :
        iter[T] = IF T = {} THEN Start(pass, c) ELSE Turn(pass, c, iter[T \ {Max(T)}], seq[Max(T)])
  BY DEF Passes
<1>3. 1..0 = {} /\ {} \in SUBSET (1..n)
  OBVIOUS
<1>4. iter[1..0] = Start(pass, c)
  BY <1>2, <1>3
<1>5. ASSUME NEW j \in 1..n PROVE iter[1..j] = Turn(pass, c, iter[1..(j - 1)], seq[j])
  <2> DEFINE T == 1..j
  <2>1. Max(1..((j - 1) + 1)) = (j - 1) + 1 /\ (j - 1) + 1 = j
    <3>1. j - 1 \in Nat
      OBVIOUS
    <3> QED
      BY <3>1, MaxOfInterval
  <2>2. T # {} /\ T \ {j} = 1..(j - 1) /\ T \in SUBSET (1..n) /\ Max(T) = j
    BY <2>1
  <2> HIDE DEF T
  <2>3. iter[T] = Turn(pass, c, iter[1..(j - 1)], seq[j])
    BY <1>2, <2>2
  <2> QED
    BY <2>3 DEF T
<1> QED
  BY <1>4, <1>5

LEMMA VisitAdds ==
  ASSUME NEW c, NEW s, NEW t
  PROVE  DOMAIN Visit(c, s, t).rows = DOMAIN s.rows \cup {t.id}
<1>1. PICK value : Visit(c, s, t).rows = Put(s.rows, t.id, value)
  BY DEF Visit
<1> QED
  BY <1>1 DEF Put

\* The graph features are those of finitely many transactions.
LEMMA GraphFeaturesFinite ==
  ASSUME NEW c, NEW A, c.tx \in Seq(A)
  PROVE  IsFiniteSet(DOMAIN GraphFeatures(c))
<1> DEFINE n == Len(c.tx)
           seq == Chronological(c.tx)
           eq(h) == h = [T \in SUBSET (1..n) |->
                           IF T = {} THEN NoVisits ELSE Visit(c, h[T \ {Max(T)}], seq[Max(T)])]
           iter == CHOOSE h : eq(h)
<1>1. n \in Nat /\ DOMAIN c.tx = 1..n
  OBVIOUS
<1>2. DOMAIN seq = 1..n
  BY <1>1 DEF Chronological
<1> HIDE DEF n, seq
<1>3. GraphFeatures(c) = iter[1..n].rows
  BY <1>2 DEF GraphFeatures, FoldLeft, MapThenFoldSet, NoVisits, seq
<1>p. Passes(iter, n, "graph", c, seq)
  <2>1. \A h : eq(h) <=> Passes(h, n, "graph", c, seq)
    BY DEF Passes, Start, Turn
  <2> HIDE DEF eq
  <2>2. \E h : eq(h)
    BY <1>1, <2>1, PassesExist
  <2> QED
    BY <2>1, <2>2
<1> HIDE DEF iter
<1>4. /\ iter[1..0] = NoVisits
      /\ \A j \in 1..n : iter[1..j] = Visit(c, iter[1..(j - 1)], seq[j])
  <2>1. /\ iter[1..0] = Start("graph", c)
        /\ \A j \in 1..n : iter[1..j] = Turn("graph", c, iter[1..(j - 1)], seq[j])
    BY <1>1, <1>p, PassTurns
  <2> QED
    BY <2>1 DEF Start, Turn
<1> DEFINE D == {j \in Nat : j <= n => IsFiniteSet(DOMAIN iter[1..j].rows)}
<1>6. 0 \in D
  <2>2. iter[1..0].rows = <<>>
    BY <1>4 DEF NoVisits
  <2>3. DOMAIN iter[1..0].rows = {}
    BY <2>2
  <2> QED
    BY <2>3, FS_EmptySet
<1>7. ASSUME NEW j \in Nat, j \in D PROVE j + 1 \in D
  <2> SUFFICES ASSUME j + 1 <= n PROVE IsFiniteSet(DOMAIN iter[1..(j + 1)].rows)
    OBVIOUS
  <2>1. IsFiniteSet(DOMAIN iter[1..j].rows)
    BY <1>1, <1>7
  <2> DEFINE before == iter[1..j]
             after == iter[1..(j + 1)]
  <2>2. after = Visit(c, before, seq[j + 1])
    <3>1. j + 1 \in 1..n /\ (j + 1) - 1 = j
      BY <1>1
    <3> QED
      BY <1>4, <3>1
  <2> HIDE DEF before, after
  <2>3. DOMAIN after.rows = DOMAIN before.rows \cup {seq[j + 1].id}
    BY <2>2, VisitAdds
  <2>4. IsFiniteSet(DOMAIN before.rows \cup {seq[j + 1].id})
    <3> DEFINE S == DOMAIN before.rows
               x == seq[j + 1].id
    <3>0. IsFiniteSet(S)
      BY <2>1 DEF before
    <3> HIDE DEF S, x
    <3>1. IsFiniteSet(S \cup {x})
      BY <3>0, FS_AddElement
    <3> QED
      BY <3>1 DEF S, x
  <2> QED
    BY <2>3, <2>4 DEF after
<1>8. Nat \subseteq D
  <2> HIDE DEF D
  <2> QED
    BY <1>6, <1>7, InductionOnNat
<1>9. n \in D
  <2> HIDE DEF D
  <2> QED
    BY <1>1, <1>8
<1> QED
  BY <1>1, <1>3, <1>9

LEMMA TuplesAreSeqs ==
  ASSUME NEW S, NEW a \in S, NEW b \in S, NEW c \in S, NEW d \in S, NEW e \in S, NEW f \in S
  PROVE  <<a, b, c>> \in Seq(S) /\ <<a, b, c, d, e, f>> \in Seq(S)
  OBVIOUS

\* What the graph pipeline writes, where and in which order.
GraphFiles(nodes, edges, features) ==
  <<To("file", "nodes", nodes), To("file", "edges", edges), To("file", "graph", features)>>
GraphRest(nodes, edges, features, clusters, summary) ==
  <<To("file", "clusters", clusters), To("file", "summary", summary),
    To("table", "nodes", nodes), To("table", "edges", edges),
    To("table", "graph", features), To("table", "clusters", clusters)>>
GraphContents(nodes, edges, features, clusters, summary) ==
  <<nodes, edges, features, clusters, summary, nodes, edges, features, clusters>>
GraphKinds == <<"file", "file", "file", "file", "file", "table", "table", "table", "table">>
GraphStems == <<"nodes", "edges", "graph", "clusters", "summary", "nodes", "edges", "graph", "clusters">>

LEMMA GraphWritesListed ==
  ASSUME NEW nodes, NEW edges, NEW features, NEW clusters, NEW summary
  PROVE  LET files == GraphFiles(nodes, edges, features)
             all == files \o GraphRest(nodes, edges, features, clusters, summary)
             what == GraphContents(nodes, edges, features, clusters, summary)
         IN /\ Len(files) = 3
            /\ \A i \in 1..3 : files[i] = To(GraphKinds[i], GraphStems[i], what[i])
            /\ Len(all) = 9
            /\ \A i \in 1..9 : all[i] = To(GraphKinds[i], GraphStems[i], what[i])
<1> DEFINE files == GraphFiles(nodes, edges, features)
           rest == GraphRest(nodes, edges, features, clusters, summary)
           all == files \o rest
           kind == GraphKinds
           stem == GraphStems
           what == GraphContents(nodes, edges, features, clusters, summary)
<1> USE DEF GraphFiles, GraphRest, GraphKinds, GraphStems, GraphContents
<1>1. Len(files) = 3 /\ \A i \in 1..3 : files[i] = To(kind[i], stem[i], what[i])
  <2>1. \A i \in 1..3 : i = 1 \/ i = 2 \/ i = 3
    OBVIOUS
  <2> QED
    BY <2>1
<1>2. Len(rest) = 6 /\ \A i \in 1..6 : rest[i] = To(kind[i + 3], stem[i + 3], what[i + 3])
  <2>1. \A i \in 1..6 : i = 1 \/ i = 2 \/ i = 3 \/ i = 4 \/ i = 5 \/ i = 6
    OBVIOUS
  <2> QED
    BY <2>1
<1>s. PICK S : files \in Seq(S) /\ rest \in Seq(S)
  <2> DEFINE S == {To("file", "nodes", nodes), To("file", "edges", edges), To("file", "graph", features),
                   To("file", "clusters", clusters), To("file", "summary", summary),
                   To("table", "nodes", nodes), To("table", "edges", edges),
                   To("table", "graph", features), To("table", "clusters", clusters)}
  <2>1. /\ To("file", "nodes", nodes) \in S /\ To("file", "edges", edges) \in S
        /\ To("file", "graph", features) \in S /\ To("file", "clusters", clusters) \in S
        /\ To("file", "summary", summary) \in S /\ To("table", "nodes", nodes) \in S
        /\ To("table", "edges", edges) \in S /\ To("table", "graph", features) \in S
        /\ To("table", "clusters", clusters) \in S
    OBVIOUS
  <2> HIDE DEF S
  <2>2. files \in Seq(S)
    BY <2>1, TuplesAreSeqs
  <2>3. rest \in Seq(S)
    BY <2>1, TuplesAreSeqs
  <2> QED
    BY <2>2, <2>3
<1> HIDE DEF files, rest, kind, stem, what, GraphFiles, GraphRest, GraphContents
<1>3. Len(all) = 9 /\ \A i \in 1..9 : all[i] = To(kind[i], stem[i], what[i])
  <2>1. /\ Len(all) = 9
        /\ \A i \in 1..3 : all[i] = files[i]
        /\ \A i \in 4..9 : all[i] = rest[i - 3]
    <3> DEFINE m == 3
               n == 6
    <3>1. Len(files) = m /\ Len(rest) = n /\ m \in Nat /\ n \in Nat
      BY <1>1, <1>2
    <3>2. m + n = 9 /\ m = 3 /\ m + 1 = 4
      OBVIOUS
    <3> HIDE DEF m, n
    <3>3. /\ Len(files \o rest) = m + n
          /\ \A i \in 1..m : (files \o rest)[i] = files[i]
          /\ \A i \in (m + 1)..(m + n) : (files \o rest)[i] = rest[i - m]
      BY <1>s, <3>1
    <3> QED
      BY <3>2, <3>3
  <2>2. \A i \in 4..9 : i - 3 \in 1..6 /\ i - 3 + 3 = i
    OBVIOUS
  <2>3. \A i \in 1..9 : i \in 1..3 \/ i \in 4..9
    OBVIOUS
  <2> HIDE DEF all
  <2> QED
    BY <1>1, <1>2, <2>1, <2>2, <2>3
<1> HIDE DEF GraphKinds, GraphStems
<1> QED
  BY <1>1, <1>3 DEF files, rest, kind, stem, what

LEMMA GraphWrites ==
  ASSUME NEW nodes, NEW edges, NEW features, IsFiniteSet(DOMAIN features),
         NEW clusters, NEW summary
  PROVE  LET files == GraphFiles(nodes, edges, features)
             rest == GraphRest(nodes, edges, features, clusters, summary)
         IN Orderly(files) /\ Orderly(files \o rest)
<1> DEFINE files == GraphFiles(nodes, edges, features)
           rest == GraphRest(nodes, edges, features, clusters, summary)
           all == files \o rest
           kind == GraphKinds
           stem == GraphStems
           what == GraphContents(nodes, edges, features, clusters, summary)
<1>1. /\ Len(files) = 3 /\ \A i \in 1..3 : files[i] = To(kind[i], stem[i], what[i])
      /\ Len(all) = 9 /\ \A i \in 1..9 : all[i] = To(kind[i], stem[i], what[i])
  BY GraphWritesListed
<1> HIDE DEF files, rest
<1> USE DEF GraphKinds, GraphStems, GraphContents
<1> HIDE DEF all
<1>4. ASSUME NEW i \in 1..9
      PROVE  /\ <<kind[i], stem[i]>> \in Places /\ Fits(<<kind[i], stem[i]>>, what[i])
             /\ kind[i] = "table" => i - 5 \in 1..i /\ kind[i - 5] = "file"
  <2>1. i = 1 \/ i = 2 \/ i = 3 \/ i = 4 \/ i = 5 \/ i = 6 \/ i = 7 \/ i = 8 \/ i = 9
    OBVIOUS
  <2>2. <<kind[i], stem[i]>> \in Places
    BY <2>1 DEF Places, Stems
  <2>3. stem[i] \notin {"tx", "ins", "outs", "features"} /\ (stem[i] = "graph" => what[i] = features)
    BY <2>1
  <2> HIDE DEF stem, what
  <2>4. kind[i] = "table" => i \in 6..9
    BY <2>1
  <2>5. ASSUME kind[i] = "table" PROVE i - 5 \in 1..i /\ kind[i - 5] = "file"
    <3>1. i - 5 \in 1..4 /\ i - 5 \in 1..i
      BY <2>4, <2>5
    <3>2. \A j \in 1..4 : j = 1 \/ j = 2 \/ j = 3 \/ j = 4
      OBVIOUS
    <3> QED
      BY <3>1, <3>2
  <2>6. Fits(<<kind[i], stem[i]>>, what[i])
    <3> HIDE DEF kind
    <3> QED
      BY <2>3 DEF Fits
  <2> QED
    BY <2>2, <2>5, <2>6
<1>5. ASSUME NEW i \in 1..9, kind[i] = "table"
      PROVE  \E j \in 1..i : kind[j] = "file" /\ stem[j] = stem[i]
  <2>1. i = 6 \/ i = 7 \/ i = 8 \/ i = 9
    <3>1. i = 1 \/ i = 2 \/ i = 3 \/ i = 4 \/ i = 5 \/ i = 6 \/ i = 7 \/ i = 8 \/ i = 9
      OBVIOUS
    <3> QED
      BY <1>5, <3>1
  <2>2. CASE i = 6
    BY <2>2
  <2>3. CASE i = 7
    BY <2>3
  <2>4. CASE i = 8
    BY <2>4
  <2>5. CASE i = 9
    BY <2>5
  <2> QED
    BY <2>1, <2>2, <2>3, <2>4, <2>5
<1> HIDE DEF kind, stem, what, GraphKinds, GraphStems
<1>6. ASSUME NEW writes, Len(writes) \in {3, 9},
             \A i \in 1..Len(writes) : writes[i] = To(kind[i], stem[i], what[i])
      PROVE  Orderly(writes)
  <2>1. \A i \in 1..Len(writes) :
          i \in 1..9 /\ writes[i].at = <<kind[i], stem[i]>> /\ writes[i].what = what[i]
    <3>1. \A a, b, w : To(a, b, w).at = <<a, b>> /\ To(a, b, w).what = w
      BY DEF To
    <3>2. \A i \in 1..Len(writes) : i \in 1..9
      BY <1>6
    <3> QED
      BY <1>6, <3>1, <3>2
  <2>2. ASSUME NEW i \in 1..Len(writes), NEW s \in Stems, writes[i].at = <<"table", s>>
        PROVE  \E j \in 1..i : writes[j].at = <<"file", s>>
    <3>1. kind[i] = "table" /\ stem[i] = s /\ i \in 1..9
      BY <2>1, <2>2
    <3>2. PICK j \in 1..i : kind[j] = "file" /\ stem[j] = stem[i]
      BY <1>5, <3>1
    <3>3. j \in 1..Len(writes)
      BY <1>6
    <3> QED
      BY <2>1, <3>1, <3>2, <3>3
  <2>3. \A i \in 1..Len(writes) : writes[i].at \in Places /\ Fits(writes[i].at, writes[i].what)
    BY <1>4, <2>1
  <2>4. Len(writes) \in Nat
    BY <1>6
  <2> QED
    BY <2>2, <2>3, <2>4 DEF Orderly
<1>7. Orderly(files)
  BY <1>1, <1>6
<1>8. Orderly(all)
  BY <1>1, <1>6
<1> QED
  BY <1>7, <1>8 DEF files, rest, all

-----------------------------------------------------------------------------
(* The type invariant *)

Scripts == {"pipeline", "features", "graph", "modeling"}

LEMMA FinishKeeps ==
  ASSUME IInv, Begin, NEW script \in Scripts, NEW writes, Orderly(writes),
         NEW ending, NEW result, Finish(script, writes, ending, result)
  PROVE  IInv'
<1>1. /\ \E k \in 0..Len(writes) : store' = Written(writes, k)
      /\ last'.script = script
      /\ crashes' = crashes \/ (crashes < MaxCrashes /\ crashes' = crashes + 1)
  BY FinishWrites DEF Orderly
<1>2. DOMAIN store' \subseteq Places /\ FileForTable(DOMAIN store') /\ StoreOK'
  BY <1>1, OrderlyWrites
<1>3. sample' \in Samples /\ runs' \in 0..MaxRuns
  BY BoundsAssumption DEF IInv, TypeOK, Begin
<1>4. crashes' \in 0..MaxCrashes
  BY <1>1, BoundsAssumption DEF IInv, TypeOK
<1>5. last'.script \in {Null, "deliver", "pipeline", "features", "graph", "modeling"}
  BY <1>1 DEF Scripts
<1> QED
  BY <1>2, <1>3, <1>4, <1>5 DEF IInv, TypeOK, FileForTable

LEMMA RaiseKeeps ==
  ASSUME IInv, Begin, NEW script \in Scripts, Raise(script)
  PROVE  IInv'
<1>1. sample' \in Samples /\ runs' \in 0..MaxRuns /\ store' = store /\ crashes' = crashes
  BY BoundsAssumption DEF IInv, TypeOK, Begin, Raise
<1>2. last'.script = script
  BY DEF Raise
<1>3. StoreOK'
  BY <1>1 DEF IInv, StoreOK
<1> QED
  BY <1>1, <1>2, <1>3 DEF IInv, TypeOK, Scripts

\* What a script finds in the canonical tables.
LEMMA StoredTx ==
  ASSUME IInv, NEW kind \in {"file", "table"}, <<kind, "tx">> \in DOMAIN store
  PROVE  Stored(kind).tx = store[<<kind, "tx">>] /\ TxTable(Stored(kind).tx)
<1>1. "tx" \in {u \in Canonical : <<kind, u>> \in DOMAIN store}
  BY DEF Canonical
<1>2. Stored(kind)["tx"] = store[<<kind, "tx">>]
  BY <1>1 DEF Stored
<1>3. Fits(<<kind, "tx">>, store[<<kind, "tx">>])
  BY DEF IInv, StoreOK
<1> QED
  BY <1>2, <1>3 DEF Fits

LEMMA RunPipelineKeeps ==
  ASSUME IInv, RunPipeline
  PROVE  IInv'
<1> DEFINE c == Normalize(Clean(Ingest(sample).observed))
<1>1. Tabular(c) /\ Consistent(c)
  BY PipelineComputes DEF IInv, TypeOK
<1>2. /\ Begin
      /\ Finish("pipeline", Exports("file", c) \o Exports("table", c),
                IF Errors(c) = {} THEN "SUCCESS" ELSE "WARNING", c)
  BY DEF RunPipeline
<1> HIDE DEF c
<1>3. Orderly(Exports("file", c) \o Exports("table", c))
  BY <1>1, PipelineWrites
<1> QED
  BY <1>2, <1>3, FinishKeeps DEF Scripts

LEMMA RunFeaturesKeeps ==
  ASSUME IInv, RunFeatures
  PROVE  IInv'
<1> DEFINE c == Stored("file")
           matrix == FeatureMatrix(c)
           writes == <<To("file", "features", matrix), To("table", "features", matrix)>>
<1>1. /\ Begin
      /\ \/ Raise("features")
         \/ ~Missing("file", Canonical) /\ Finish("features", writes, "ok", matrix)
  BY DEF RunFeatures
<1>2. CASE Raise("features")
  BY <1>1, <1>2, RaiseKeeps DEF Scripts
<1>3. CASE ~Missing("file", Canonical) /\ Finish("features", writes, "ok", matrix)
  <2>1. <<"file", "tx">> \in DOMAIN store
    BY <1>3 DEF Missing, Canonical
  <2>2. TxTable(c.tx)
    BY <2>1, StoredTx
  <2>3. Orderly(writes)
    BY <2>2, FeatureWrites
  <2> HIDE DEF writes
  <2> QED
    BY <1>1, <1>3, <2>3, FinishKeeps DEF Scripts
<1> QED
  BY <1>1, <1>2, <1>3

LEMMA RunGraphKeeps ==
  ASSUME IInv, RunGraph
  PROVE  IInv'
<1> DEFINE c == Stored("table")
           edges == EdgeRows(c)
           nodes == NodeRows(c)
           features == GraphFeatures(c)
           files == GraphFiles(nodes, edges, features)
           rest == GraphRest(nodes, edges, features, Clustered(c), Summary(c))
<1>1. /\ Begin
      /\ \/ Raise("graph")
         \/ ~Missing("table", {"tx", "ins", "outs"}) /\ Finish("graph", files, "error", Null)
         \/ ~Missing("table", {"tx", "ins", "outs"}) /\ Finish("graph", files \o rest, "ok", features)
  BY DEF RunGraph, GraphFiles, GraphRest
<1>2. CASE Raise("graph")
  BY <1>1, <1>2, RaiseKeeps DEF Scripts
<1>3. ASSUME ~Missing("table", {"tx", "ins", "outs"})
      PROVE  Orderly(files) /\ Orderly(files \o rest)
  <2>1. <<"table", "tx">> \in DOMAIN store
    BY <1>3 DEF Missing
  <2>2. c.tx \in Seq(TransactionRow)
    BY <2>1, StoredTx DEF TxTable
  <2>3. IsFiniteSet(DOMAIN features)
    BY <2>2, GraphFeaturesFinite
  <2> HIDE DEF c, edges, nodes, features
  <2> QED
    BY <2>3, GraphWrites
<1> HIDE DEF files, rest, features
<1>4. CASE ~Missing("table", {"tx", "ins", "outs"}) /\ Finish("graph", files, "error", Null)
  BY <1>1, <1>3, <1>4, FinishKeeps DEF Scripts
<1>5. CASE ~Missing("table", {"tx", "ins", "outs"}) /\ Finish("graph", files \o rest, "ok", features)
  BY <1>1, <1>3, <1>5, FinishKeeps DEF Scripts
<1> QED
  BY <1>1, <1>2, <1>4, <1>5

LEMMA RunModelingKeeps ==
  ASSUME IInv, RunModeling
  PROVE  IInv'
<1> DEFINE rows == Partitioned(Joined)
           writes == <<To("file", "modeling", rows), To("table", "modeling", rows)>>
<1>1. Begin /\ (Raise("modeling") \/ Finish("modeling", writes, "ok", rows))
  BY DEF RunModeling
<1>2. CASE Raise("modeling")
  BY <1>1, <1>2, RaiseKeeps DEF Scripts
<1>3. CASE Finish("modeling", writes, "ok", rows)
  <2> HIDE DEF rows
  <2>1. Orderly(writes)
    BY ModelingWrites
  <2> HIDE DEF writes
  <2> QED
    BY <1>1, <1>3, <2>1, FinishKeeps DEF Scripts
<1> QED
  BY <1>1, <1>2, <1>3

LEMMA TypeInit ==
  ASSUME Init
  PROVE  IInv
<1>1. DOMAIN store = {}
  BY DEF Init
<1>2. last.script = Null
  BY DEF Init
<1> QED
  BY <1>1, <1>2, BoundsAssumption DEF Init, IInv, TypeOK, StoreOK

LEMMA TypeStep ==
  ASSUME IInv, [Next]_vars
  PROVE  IInv'
<1>1. ASSUME NEW s \in Samples, Deliver(s) PROVE IInv'
  <2>1. sample' \in Samples /\ store' = store /\ runs' = runs /\ crashes' = crashes
    BY <1>1 DEF Deliver
  <2>2. last'.script = "deliver"
    BY <1>1 DEF Deliver
  <2>3. StoreOK'
    BY <2>1 DEF IInv, StoreOK
  <2> QED
    BY <2>1, <2>2, <2>3 DEF IInv, TypeOK
<1>2. CASE RunPipeline
  BY <1>2, RunPipelineKeeps
<1>3. CASE RunFeatures
  BY <1>3, RunFeaturesKeeps
<1>4. CASE RunGraph
  BY <1>4, RunGraphKeeps
<1>5. CASE RunModeling
  BY <1>5, RunModelingKeeps
<1>6. CASE UNCHANGED vars
  BY <1>6 DEF vars, IInv, TypeOK, StoreOK
<1> QED
  BY <1>1, <1>2, <1>3, <1>4, <1>5, <1>6 DEF Next

LEMMA Invariant == Spec => []IInv
<1>1. Init => IInv
  BY TypeInit
<1>2. IInv /\ [Next]_vars => IInv'
  BY TypeStep
<1> QED
  BY <1>1, <1>2, PTL DEF Spec

\* However often and wherever scripts are interrupted, no table is registered
\* before its file is written, and runs stay within their bounds.
THEOREM TypeCorrect == Spec => []TypeOK
<1>1. IInv => TypeOK
  BY DEF IInv
<1> QED
  BY <1>1, Invariant, PTL

-----------------------------------------------------------------------------
(* What the data pipeline promises *)

LEMMA FinishSays ==
  ASSUME NEW script, NEW writes, NEW ending, NEW result, Finish(script, writes, ending, result)
  PROVE  last'.script = script
<1>1. \E any : last' = [script |-> script, outcome |-> any]
  BY DEF Finish
<1> QED
  BY <1>1

\* Only the data pipeline says that it ran the data pipeline, and so on.
LEMMA Signed ==
  /\ RunFeatures => last'.script = "features"
  /\ RunGraph => last'.script = "graph"
  /\ RunModeling => last'.script = "modeling"
  /\ RunPipeline => last'.script = "pipeline"
  /\ \A s \in Samples : Deliver(s) => last'.script = "deliver"
<1>1. \A script : Raise(script) => last'.script = script
  BY DEF Raise
<1>2. ASSUME RunFeatures PROVE last'.script = "features"
  <2>1. Raise("features") \/ \E writes, ending, result : Finish("features", writes, ending, result)
    BY <1>2 DEF RunFeatures
  <2> QED
    BY <1>1, <2>1, FinishSays
<1>3. ASSUME RunGraph PROVE last'.script = "graph"
  <2>1. Raise("graph") \/ \E writes, ending, result : Finish("graph", writes, ending, result)
    BY <1>3 DEF RunGraph
  <2> QED
    BY <1>1, <2>1, FinishSays
<1>4. ASSUME RunModeling PROVE last'.script = "modeling"
  <2>1. Raise("modeling") \/ \E writes, ending, result : Finish("modeling", writes, ending, result)
    BY <1>4 DEF RunModeling
  <2> QED
    BY <1>1, <2>1, FinishSays
<1>5. ASSUME RunPipeline PROVE last'.script = "pipeline"
  <2>1. \E writes, ending, result : Finish("pipeline", writes, ending, result)
    BY <1>5 DEF RunPipeline
  <2> QED
    BY <2>1, FinishSays
<1>6. ASSUME NEW s \in Samples, Deliver(s) PROVE last'.script = "deliver"
  BY <1>6 DEF Deliver
<1> QED
  BY <1>2, <1>3, <1>4, <1>5, <1>6

LEMMA RunPipelineIsConsistent ==
  ASSUME IInv, RunPipeline
  PROVE  CanonicalIsConsistent'
<1> DEFINE c == Normalize(Clean(Ingest(sample).observed))
           writes == Exports("file", c) \o Exports("table", c)
<1>1. /\ Tabular(c) /\ Consistent(c)
      /\ Ids(c.tx) = {Plain(id) : id \in Ids(sample.tx) \ {Null}}
      /\ c.tagged = {} /\ Clean(c) = c
  BY PipelineComputes DEF IInv, TypeOK
<1>2. /\ Begin
      /\ Finish("pipeline", writes, IF Errors(c) = {} THEN "SUCCESS" ELSE "WARNING", c)
  BY DEF RunPipeline
<1> HIDE DEF c
<1>3. Len(writes) \in Nat
  BY <1>1, PipelineWrites DEF Orderly
<1> HIDE DEF writes
<1>4. computed' # Null => computed' = c
  BY <1>2, <1>3, FinishWrites
<1>5. sample' = sample
  BY <1>2 DEF Begin
<1>6. \A t \in Canonical : \A row \in Range(c[t]) : row.id # Null /\ row.id.as = "plain"
  <2>1. \A t \in Canonical : PlainIds(c[t])
    BY <1>1 DEF Canonical, Consistent
  <2> QED
    BY <2>1, NullAssumption DEF PlainIds
<1>7. c.tx # <<>> => Ids(c.ins) \cup Ids(c.outs) \cup Ids(c.net) \subseteq Ids(c.tx)
  BY <1>1 DEF Consistent
<1>8. /\ IsUnique(c.tx, IdOf) /\ IsUnique(c.net, EventOf)
      /\ IsUnique(c.ins, KeyOf) /\ IsUnique(c.outs, KeyOf)
      /\ \A t \in Range(c.tx) : t.fee # Null
  BY <1>1 DEF Consistent
<1>9. SUFFICES ASSUME Did("pipeline")'
               PROVE  LET d == c IN
                      /\ \A t \in Canonical : \A row \in Range(d[t]) : row.id # Null /\ row.id.as = "plain"
                      /\ IsUnique(d.tx, IdOf) /\ IsUnique(d.net, EventOf)
                      /\ IsUnique(d.ins, KeyOf) /\ IsUnique(d.outs, KeyOf)
                      /\ d.tx # <<>> => Ids(d.ins) \cup Ids(d.outs) \cup Ids(d.net) \subseteq Ids(d.tx)
                      /\ Ids(d.tx) = {Plain(id) : id \in Ids(sample.tx) \ {Null}}
                      /\ \A t \in Range(d.tx) : t.fee # Null
                      /\ d.tagged = {}
                      /\ Clean(d) = d
  <2>1. Did("pipeline")' => computed' = c
    BY <1>4 DEF Did
  <2> QED
    BY <1>5, <2>1 DEF CanonicalIsConsistent
<1> QED
  BY <1>1, <1>6, <1>7, <1>8

\* After every run of the data pipeline that is not interrupted, whatever was
\* delivered: ids in one form, keys unique, no row of an unknown transaction,
\* no named transaction lost, every fee known, nothing of the generator, and
\* nothing left to clean.
THEOREM CanonicalConsistent == Spec => []CanonicalIsConsistent
<1>1. Init => CanonicalIsConsistent
  BY DEF Init, CanonicalIsConsistent, Did
<1>2. ASSUME IInv, CanonicalIsConsistent, [Next]_vars PROVE CanonicalIsConsistent'
  <2>1. CASE RunPipeline
    BY <1>2, <2>1, RunPipelineIsConsistent
  <2>2. CASE \/ \E s \in Samples : Deliver(s)
             \/ RunFeatures \/ RunGraph \/ RunModeling
    <3>1. last'.script # "pipeline"
      BY <2>2, Signed
    <3> QED
      BY <3>1 DEF CanonicalIsConsistent, Did
  <2>3. CASE UNCHANGED vars
    BY <1>2, <2>3 DEF vars, CanonicalIsConsistent, Did
  <2> QED
    BY <1>2, <2>1, <2>2, <2>3 DEF Next
<1>3. IInv /\ CanonicalIsConsistent /\ [Next]_vars => CanonicalIsConsistent'
  BY <1>2
<1> QED
  BY <1>1, <1>3, Invariant, PTL DEF Spec

-----------------------------------------------------------------------------
(* The modelling dataset *)

\* p rearranges rows by time and id.
Sorts(p, rows) ==
  /\ p \in [DOMAIN rows -> DOMAIN rows]
  /\ \A x \in DOMAIN rows : \E k \in DOMAIN rows : p[k] = x
  /\ \A i, j \in DOMAIN rows : p[i] = p[j] => i = j
  /\ \A i, j \in DOMAIN rows : i < j =>
       \/ rows[p[i]].time < rows[p[j]].time
       \/ rows[p[i]].time = rows[p[j]].time /\ rows[p[i]].id.n <= rows[p[j]].id.n

LEMMA ChronologicalSorts ==
  ASSUME NEW rows, NEW n \in Nat, DOMAIN rows = 1..n,
         \A i \in 1..n : rows[i].time \in Int /\ rows[i].id.n \in Int
  PROVE  \E p : Sorts(p, rows) /\ Chronological(rows) = [i \in DOMAIN rows |-> rows[p[i]]]
<1> DEFINE S == DOMAIN rows
           Before(i, j) == \/ rows[i].time < rows[j].time
                           \/ /\ rows[i].time = rows[j].time
                              /\ \/ rows[i].id.n < rows[j].id.n
                                 \/ rows[i].id.n = rows[j].id.n /\ i < j
           R == {e \in S \X S : Before(e[1], e[2])}
           f == InOrder(S, Before)
           g == Ranked(S, R)
<1>1. \A x, y \in S : <<x, y>> \in R <=> Before(x, y)
  OBVIOUS
<1>2. Orders(R, S)
  <2> DEFINE time(i) == rows[i].time
             num(i) == rows[i].id.n
             Less(i, j) == \/ time(i) < time(j)
                           \/ /\ time(i) = time(j)
                              /\ num(i) < num(j) \/ (num(i) = num(j) /\ i < j)
  <2>1. \A x \in S : time(x) \in Int /\ num(x) \in Int /\ x \in Int
    OBVIOUS
  <2>2. \A x, y \in S : <<x, y>> \in R <=> Less(x, y)
    BY <1>1
  <2> HIDE DEF R, time, num
  <2>3. \A x \in S : <<x, x>> \notin R
    BY <2>1, <2>2
  <2>4. \A x, y, z \in S : <<x, y>> \in R /\ <<y, z>> \in R => <<x, z>> \in R
    <3>1. \A x, y, z \in S : Less(x, y) /\ Less(y, z) => Less(x, z)
      BY <2>1
    <3> HIDE DEF Less
    <3> QED
      BY <2>2, <3>1
  <2>5. \A x, y \in S : x = y \/ <<x, y>> \in R \/ <<y, x>> \in R
    <3>1. \A x, y \in S : x = y \/ Less(x, y) \/ Less(y, x)
      <4> HIDE DEF S
      <4> QED
        BY <2>1
    <3> HIDE DEF Less
    <3> QED
      BY <2>2, <3>1
  <2> QED
    BY <2>3, <2>4, <2>5 DEF Orders
<1>3. f = g
  <2>1. \A x \in S : {y \in S : <<y, x>> \in R} = {y \in S : Before(y, x)}
    <3> HIDE DEF R, Before
    <3> QED
      BY <1>1
  <2> HIDE DEF R, Before, S
  <2>2. \A k \in 1..Cardinality(S) :
          (CHOOSE x \in S : Cardinality({y \in S : <<y, x>> \in R}) = k - 1)
            = CHOOSE x \in S : Cardinality({y \in S : Before(y, x)}) = k - 1
    BY <2>1
  <2> QED
    BY <2>2 DEF InOrder, Ranked
<1>4. IsFiniteSet(S) /\ Cardinality(S) = n /\ S = 1..n
  <2>1. IsFiniteSet(1..n) /\ Cardinality(1..n) = IF 1 > n THEN 0 ELSE n - 1 + 1
    BY FS_Interval
  <2>2. Cardinality(1..n) = n
    BY <2>1
  <2> QED
    BY <2>1, <2>2
<1>5. Enumerates(g, S, R)
  <2> HIDE DEF R, S, g
  <2> QED
    BY <1>2, <1>4, OrderEnumerates DEF g
<1>6. Chronological(rows) = [i \in DOMAIN rows |-> rows[f[i]]]
  BY DEF Chronological
<1> HIDE DEF f, g, R
<1>7. /\ g \in [S -> S]
      /\ \A x \in S : \E k \in S : g[k] = x
      /\ \A i, j \in S : i < j => Before(g[i], g[j])
  <2> HIDE DEF S, Before
  <2> QED
    BY <1>1, <1>4, <1>5 DEF Enumerates
<1>8. \A i, j \in S : i < j =>
        /\ g[i] # g[j]
        /\ \/ rows[g[i]].time < rows[g[j]].time
           \/ rows[g[i]].time = rows[g[j]].time /\ rows[g[i]].id.n <= rows[g[j]].id.n
  <2> SUFFICES ASSUME NEW i \in S, NEW j \in S, i < j
               PROVE  /\ g[i] # g[j]
                      /\ \/ rows[g[i]].time < rows[g[j]].time
                         \/ rows[g[i]].time = rows[g[j]].time /\ rows[g[i]].id.n <= rows[g[j]].id.n
    OBVIOUS
  <2> DEFINE a == g[i]
             b == g[j]
  <2>1. a \in S /\ b \in S /\ Before(a, b)
    <3> HIDE DEF Before, S
    <3> QED
      BY <1>7
  <2> HIDE DEF a, b
  <2>2. rows[a].time \in Int /\ rows[b].time \in Int /\ rows[a].id.n \in Int /\ rows[b].id.n \in Int
        /\ a \in Int /\ b \in Int
    BY <1>4, <2>1
  <2>3. a # b /\ (rows[a].time < rows[b].time
                    \/ (rows[a].time = rows[b].time /\ rows[a].id.n <= rows[b].id.n))
    BY <2>1, <2>2
  <2> QED
    BY <2>3 DEF a, b
<1>9. \A i, j \in S : g[i] = g[j] => i = j
  <2> SUFFICES ASSUME NEW i \in S, NEW j \in S, g[i] = g[j], i # j PROVE FALSE
    OBVIOUS
  <2>1. i < j \/ j < i
    BY <1>4
  <2> QED
    BY <1>8, <2>1
<1>10. Sorts(g, rows)
  BY <1>7, <1>8, <1>9 DEF Sorts
<1> QED
  BY <1>3, <1>6, <1>10

\* A set of ids as large as a table is all the ids of the table.
LEMMA AllTheIds ==
  ASSUME NEW A, NEW rows \in Seq(A), NEW ids \in SUBSET Ids(rows), IsFiniteSet(ids),
         Cardinality(ids) = Len(rows)
  PROVE  ids = Ids(rows)
<1> DEFINE n == Len(rows)
           f == [i \in 1..n |-> rows[i].id]
<1>1. n \in Nat /\ DOMAIN rows = 1..n
  OBVIOUS
<1>2. Ids(rows) = {rows[i].id : i \in 1..n}
  BY <1>1 DEF Ids, Range
<1>3. f \in Surjection(1..n, Ids(rows))
  <2>1. f \in [1..n -> Ids(rows)] /\ \A x \in Ids(rows) : \E i \in 1..n : f[i] = x
    BY <1>2
  <2> QED
    BY <2>1 DEF Surjection
<1>4. IsFiniteSet(1..n) /\ Cardinality(1..n) = n
  <2> HIDE DEF n, f
  <2>1. Cardinality(1..n) = IF 1 > n THEN 0 ELSE n - 1 + 1
    BY <1>1, FS_Interval
  <2>2. IsFiniteSet(1..n)
    BY <1>1, FS_Interval
  <2> QED
    BY <1>1, <2>1, <2>2
<1>5. IsFiniteSet(Ids(rows)) /\ Cardinality(Ids(rows)) <= n
  <2> HIDE DEF n, f
  <2> QED
    BY <1>3, <1>4, FS_Surjection
<1>6. /\ Cardinality(ids) <= Cardinality(Ids(rows))
      /\ Cardinality(Ids(rows)) = Cardinality(ids) => Ids(rows) = ids
  BY <1>5, FS_Subset
<1>7. Cardinality(Ids(rows)) \in Nat
  BY <1>5, FS_CardinalityType
<1> HIDE DEF n
<1>8. Cardinality(ids) = n
  BY DEF n
<1> QED
  BY <1>1, <1>5, <1>6, <1>7, <1>8

\* A row of a later part comes later.
LEMMA PartsInOrder ==
  ASSUME NEW n \in Nat, NEW i \in 1..n, NEW j \in 1..n,
         LET place == [train |-> 1, val |-> 2, test |-> 3] IN
         place[Part(i, n)] < place[Part(j, n)]
  PROVE  i < j
<1> DEFINE a == (n * 70) \div 100
           b == (n * 85) \div 100
           place == [train |-> 1, val |-> 2, test |-> 3]
           rank(k) == IF k <= a THEN 1 ELSE IF k <= b THEN 2 ELSE 3
<1>1. a \in Int /\ b \in Int
  OBVIOUS
<1>2. \A k : Part(k, n) = IF k <= a THEN "train" ELSE IF k <= b THEN "val" ELSE "test"
  BY DEF Part
<1> HIDE DEF a, b
<1>3. place["train"] = 1 /\ place["val"] = 2 /\ place["test"] = 3
  OBVIOUS
<1> HIDE DEF place
<1>4. \A k : place[Part(k, n)] = rank(k)
  BY <1>2, <1>3
<1>5. rank(i) < rank(j)
  BY <1>4 DEF place
<1> QED
  BY <1>1, <1>5

\* The three files a modelling dataset is joined from, and the labels.
FileOf(stem) == store[<<"file", stem>>]

\* A joined row is made of one row of every input.
MadeOf(r, t, f, l) ==
  /\ t \in Range(FileOf("tx")) /\ f \in DOMAIN FileOf("features") /\ l \in DOMAIN sample.labels
  /\ t.id = FileOf("features")[f].id /\ t.id = sample.labels[l].id
  /\ t.id \in DOMAIN FileOf("graph")
  /\ r = [id |-> t.id, time |-> t.time, features |-> FileOf("features")[f],
          graph |-> FileOf("graph")[t.id], class |-> sample.labels[l].class, from |-> <<f, l>>]

InputsOK ==
  /\ TxTable(FileOf("tx"))
  /\ \E A : FileOf("features") \in Seq(A)
  /\ IsFiniteSet(DOMAIN FileOf("graph"))
  /\ \E classes : sample.labels \in Seq([id : TxId, class : classes])

LEMMA InputsAreOK ==
  ASSUME IInv, ~Missing("file", {"features", "graph", "tx"})
  PROVE  InputsOK
<1>1. \A stem \in {"features", "graph", "tx"} :
        <<"file", stem>> \in DOMAIN store /\ Fits(<<"file", stem>>, FileOf(stem))
  BY DEF Missing, IInv, StoreOK, FileOf
<1>2. TxTable(FileOf("tx"))
  BY <1>1 DEF Fits
<1>3. \E A : FileOf("features") \in Seq(A)
  BY <1>1 DEF Fits
<1>4. IsFiniteSet(DOMAIN FileOf("graph"))
  BY <1>1 DEF Fits
<1>5. IsSample(sample)
  BY SamplesAssumption DEF IInv, TypeOK
<1>6. \E classes : sample.labels \in Seq([id : TxId, class : classes])
  <2> DEFINE addrs == {row.addr : row \in Range(sample.ins) \cup Range(sample.outs)}
             hosts == {row.src : row \in Range(sample.net)}
             classes == {row.class : row \in Range(sample.labels)}
  <2>1. sample \in [tx : Seq(TransactionRow), ins : Seq(CoinRow(addrs)), outs : Seq(CoinRow(addrs)),
                    net : Seq(EventRow(hosts)), labels : Seq([id : TxId, class : classes]),
                    sih : {sample.sih}, tagged : {sample.tagged}]
    BY <1>5 DEF IsSample
  <2> HIDE DEF addrs, hosts, classes
  <2> QED
    BY <2>1
<1> QED
  BY <1>2, <1>3, <1>4, <1>6 DEF InputsOK

LEMMA FiniteDomain ==
  ASSUME NEW A, NEW rows \in Seq(A)
  PROVE  IsFiniteSet(DOMAIN rows) /\ IsFiniteSet(Range(rows))
<1>1. DOMAIN rows = 1..Len(rows) /\ Len(rows) \in Nat
  OBVIOUS
<1>2. IsFiniteSet(DOMAIN rows)
  BY <1>1, FS_Interval
<1>3. rows \in Surjection(DOMAIN rows, Range(rows))
  <2>1. rows \in [DOMAIN rows -> Range(rows)] /\ \A x \in Range(rows) : \E i \in DOMAIN rows : rows[i] = x
    BY DEF Range
  <2> QED
    BY <2>1 DEF Surjection
<1> QED
  BY <1>2, <1>3, FS_Surjection

LEMMA JoinedIs ==
  ASSUME InputsOK
  PROVE  /\ IsFiniteSet(Joined)
         /\ \A r \in Joined : \E t, f, l : MadeOf(r, t, f, l)
<1> DEFINE features == FileOf("features")
           graph == FileOf("graph")
           tx == FileOf("tx")
           labels == sample.labels
           Row(t, f, l) ==
             [id |-> t.id, time |-> t.time, features |-> features[f], graph |-> graph[t.id],
              class |-> labels[l].class, from |-> <<f, l>>]
           Match(t, f, l) == t.id = features[f].id /\ t.id = labels[l].id /\ t.id \in DOMAIN graph
           triples == Range(tx) \X (DOMAIN features) \X (DOMAIN labels)
           matches == {m \in triples : Match(m[1], m[2], m[3])}
<1>1. Joined = {Row(m[1], m[2], m[3]) : m \in matches}
  BY DEF Joined, FileOf
<1>2. IsFiniteSet(Range(tx)) /\ IsFiniteSet(DOMAIN features) /\ IsFiniteSet(DOMAIN labels)
  BY FiniteDomain DEF InputsOK, TxTable
<1>3. IsFiniteSet(matches)
  <2> DEFINE S == Range(tx)
             T == DOMAIN features
             U == DOMAIN labels
             pairs == (S \X T) \X U
             f == [p \in pairs |-> <<p[1][1], p[1][2], p[2]>>]
  <2>1. IsFiniteSet(S) /\ IsFiniteSet(T) /\ IsFiniteSet(U)
    BY <1>2
  <2> HIDE DEF S, T, U
  <2>2. IsFiniteSet(S \X T)
    BY <2>1, FS_Product
  <2>3. IsFiniteSet(pairs)
    BY <2>1, <2>2, FS_Product
  <2>4. f \in Surjection(pairs, S \X T \X U)
    <3>1. f \in [pairs -> S \X T \X U]
      OBVIOUS
    <3>2. ASSUME NEW m \in S \X T \X U PROVE \E p \in pairs : f[p] = m
      <4> DEFINE p == <<<<m[1], m[2]>>, m[3]>>
      <4>1. p \in pairs /\ p[1][1] = m[1] /\ p[1][2] = m[2] /\ p[2] = m[3]
        OBVIOUS
      <4>2. f[p] = <<m[1], m[2], m[3]>>
        BY <4>1
      <4>3. m = <<m[1], m[2], m[3]>>
        OBVIOUS
      <4> QED
        BY <4>1, <4>2, <4>3
    <3> QED
      BY <3>1, <3>2 DEF Surjection
  <2>5. IsFiniteSet(S \X T \X U)
    <3> HIDE DEF f, pairs
    <3> QED
      BY <2>3, <2>4, FS_Surjection
  <2>6. IsFiniteSet(triples)
    BY <2>5 DEF S, T, U
  <2>7. matches \in SUBSET triples
    OBVIOUS
  <2> HIDE DEF triples, matches
  <2> QED
    BY <2>6, <2>7, FS_Subset
<1>4. IsFiniteSet(Joined)
  <2> DEFINE f == [m \in matches |-> Row(m[1], m[2], m[3])]
  <2> HIDE DEF matches, Row
  <2>1. f \in [matches -> Joined] /\ \A r \in Joined : \E m \in matches : f[m] = r
    BY <1>1
  <2>2. f \in Surjection(matches, Joined)
    BY <2>1 DEF Surjection
  <2> QED
    BY <1>3, <2>2, FS_Surjection
<1>5. ASSUME NEW r \in Joined PROVE \E t, f, l : MadeOf(r, t, f, l)
  <2>1. PICK m \in matches : r = Row(m[1], m[2], m[3])
    <3> HIDE DEF matches, Row
    <3> QED
      BY <1>1
  <2>2. /\ m[1] \in Range(tx) /\ m[2] \in DOMAIN features /\ m[3] \in DOMAIN labels
        /\ Match(m[1], m[2], m[3])
    OBVIOUS
  <2>3. MadeOf(r, m[1], m[2], m[3])
    BY <2>1, <2>2 DEF MadeOf
  <2> QED
    BY <2>3
<1> QED
  BY <1>4, <1>5

\* What ModelingIsWhole says of the rows that were computed.
Whole(rows) ==
  LET place == [train |-> 1, val |-> 2, test |-> 3]
  IN /\ IsUnique(rows, IdOf)
     /\ Ids(rows) = Ids(FileOf("tx"))
     /\ Ids(rows) = Ids(FileOf("features")) /\ Ids(rows) = Ids(sample.labels)
     /\ Ids(rows) = DOMAIN FileOf("graph")
     /\ \A row \in Range(rows) :
          /\ row.features \in Range(FileOf("features")) /\ row.features.id = row.id
          /\ [id |-> row.id, class |-> row.class] \in Range(sample.labels)
     /\ \A i, j \in DOMAIN rows :
          place[rows[i].split] < place[rows[j].split] => rows[i].time <= rows[j].time

\* An inner join that has kept as many rows as every input has, with an id
\* of its own each, has lost none of any input.
LEMMA JoinedIds ==
  ASSUME InputsOK, KeepsEveryRow(Joined), \A r, q \in Joined : r.id = q.id => r = q
  PROVE  LET ids == {r.id : r \in Joined} IN
         /\ ids = Ids(FileOf("tx")) /\ ids = Ids(FileOf("features")) /\ ids = Ids(sample.labels)
         /\ ids = DOMAIN FileOf("graph")
<1> DEFINE J == Joined
           ids == {r.id : r \in J}
           f == [r \in J |-> r.id]
<1>1. IsFiniteSet(J) /\ \A r \in J : \E t, g, l : MadeOf(r, t, g, l)
  BY JoinedIs
<1>2. /\ Cardinality(J) = Len(FileOf("features"))
      /\ Cardinality(J) = Cardinality(DOMAIN FileOf("graph"))
      /\ Cardinality(J) = Len(FileOf("tx"))
      /\ Cardinality(J) = Len(sample.labels)
  BY DEF KeepsEveryRow, FileOf
<1>3. \A r, q \in J : r.id = q.id => r = q
  OBVIOUS
<1> HIDE DEF J
<1>4. f \in Bijection(J, ids)
  <2>1. f \in [J -> ids] /\ (\A x \in ids : \E r \in J : f[r] = x)
    OBVIOUS
  <2>2. IsInjective(f)
    BY <1>3 DEF IsInjective
  <2> HIDE DEF f
  <2> QED
    BY <2>1, <2>2 DEF Bijection, Injection, Surjection
<1>5. IsFiniteSet(ids) /\ Cardinality(ids) = Cardinality(J)
  <2> HIDE DEF ids, f
  <2>1. ExistsBijection(J, ids)
    BY <1>4 DEF ExistsBijection
  <2> QED
    BY <1>1, <2>1, FS_Bijection
<1>6. ASSUME NEW id \in ids
      PROVE  /\ id \in Ids(FileOf("tx")) /\ id \in Ids(FileOf("features"))
             /\ id \in Ids(sample.labels) /\ id \in DOMAIN FileOf("graph")
  <2>1. PICK r \in J : r.id = id
    OBVIOUS
  <2>2. PICK t, g, l : MadeOf(r, t, g, l)
    BY <1>1
  <2>3. /\ t \in Range(FileOf("tx")) /\ g \in DOMAIN FileOf("features") /\ l \in DOMAIN sample.labels
        /\ t.id = FileOf("features")[g].id /\ t.id = sample.labels[l].id
        /\ t.id \in DOMAIN FileOf("graph") /\ t.id = id
    BY <2>1, <2>2 DEF MadeOf
  <2> QED
    BY <2>3 DEF Ids, Range
<1> HIDE DEF ids, f
<1>7. ids = Ids(FileOf("tx"))
  BY <1>2, <1>5, <1>6, AllTheIds DEF InputsOK, TxTable
<1>8. ids = Ids(FileOf("features"))
  BY <1>2, <1>5, <1>6, AllTheIds DEF InputsOK
<1>9. ids = Ids(sample.labels)
  BY <1>2, <1>5, <1>6, AllTheIds DEF InputsOK
<1>10. ids = DOMAIN FileOf("graph")
  <2>1. ids \in SUBSET DOMAIN FileOf("graph")
    BY <1>6
  <2> QED
    BY <1>2, <1>5, <2>1, FS_Subset DEF InputsOK
<1> QED
  BY <1>7, <1>8, <1>9, <1>10 DEF ids, J

LEMMA PartitionedIsWhole ==
  ASSUME InputsOK, KeepsEveryRow(Joined), \A r, q \in Joined : r.id = q.id => r = q
  PROVE  Whole(Partitioned(Joined))
<1> DEFINE J == Joined
           n == Cardinality(J)
           list == SetToSeq(J)
           chron == Chronological(list)
           rows == Partitioned(J)
<1>1. IsFiniteSet(J) /\ \A r \in J : \E t, f, l : MadeOf(r, t, f, l)
  BY JoinedIs
<1>2. /\ {r.id : r \in J} = Ids(FileOf("tx")) /\ {r.id : r \in J} = Ids(FileOf("features"))
      /\ {r.id : r \in J} = Ids(sample.labels) /\ {r.id : r \in J} = DOMAIN FileOf("graph")
  BY JoinedIds
<1>3. \A r, q \in J : r.id = q.id => r = q
  OBVIOUS
<1>4. ASSUME NEW r \in J
      PROVE  /\ r.time \in Int /\ r.id.n \in Int
             /\ r.features \in Range(FileOf("features")) /\ r.features.id = r.id
             /\ [id |-> r.id, class |-> r.class] \in Range(sample.labels)
  <2>1. PICK t, f, l : MadeOf(r, t, f, l)
    BY <1>1
  <2>2. /\ t \in Range(FileOf("tx")) /\ f \in DOMAIN FileOf("features") /\ l \in DOMAIN sample.labels
        /\ t.id = FileOf("features")[f].id /\ t.id = sample.labels[l].id
        /\ r.id = t.id /\ r.time = t.time /\ r.features = FileOf("features")[f]
        /\ r.class = sample.labels[l].class
    BY <2>1 DEF MadeOf
  <2>3. t \in TransactionRow /\ t.id \in TxId
    <3>1. FileOf("tx") \in Seq(TransactionRow) /\ PlainIds(FileOf("tx"))
      BY DEF InputsOK, TxTable
    <3>2. PICK i \in DOMAIN FileOf("tx") : t = FileOf("tx")[i]
      BY <2>2 DEF Range
    <3> QED
      BY <2>2, <3>1, <3>2 DEF PlainIds
  <2>4. r.time \in Int /\ r.id.n \in Int
    BY <2>2, <2>3 DEF TransactionRow, TxId
  <2>5. r.features \in Range(FileOf("features")) /\ r.features.id = r.id
    BY <2>2 DEF Range
  <2>6. PICK classes : sample.labels \in Seq([id : TxId, class : classes])
    BY DEF InputsOK
  <2>7. sample.labels[l] \in [id : TxId, class : classes]
    <3> DEFINE labels == sample.labels
               C == [id : TxId, class : classes]
    <3>1. labels \in Seq(C) /\ l \in DOMAIN labels
      BY <2>2, <2>6
    <3> HIDE DEF labels, C
    <3>2. labels[l] \in C
      BY <3>1
    <3> QED
      BY <3>2 DEF labels, C
  <2>8. sample.labels[l] = [id |-> sample.labels[l].id, class |-> sample.labels[l].class]
    BY <2>7
  <2>9. [id |-> r.id, class |-> r.class] = sample.labels[l]
    BY <2>2, <2>8
  <2>10. [id |-> r.id, class |-> r.class] \in Range(sample.labels)
    BY <2>2, <2>9 DEF Range
  <2> QED
    BY <2>4, <2>5, <2>10
<1> HIDE DEF J
<1>5. /\ n \in Nat /\ list \in [1..n -> J]
      /\ \A i, j \in 1..n : list[i] = list[j] => i = j
      /\ \A x \in J : \E i \in 1..n : list[i] = x
  BY <1>1, SetToSeqIs
<1> HIDE DEF n, list
<1>6. PICK p : Sorts(p, list) /\ Chronological(list) = [i \in DOMAIN list |-> list[p[i]]]
  <2>1. DOMAIN list = 1..n /\ \A i \in 1..n : list[i].time \in Int /\ list[i].id.n \in Int
    BY <1>4, <1>5
  <2> QED
    BY <1>5, <2>1, ChronologicalSorts
<1>7. DOMAIN list = 1..n /\ chron = [i \in 1..n |-> list[p[i]]]
  BY <1>5, <1>6
<1>8. /\ p \in [1..n -> 1..n]
      /\ \A x \in 1..n : \E k \in 1..n : p[k] = x
      /\ \A i, j \in 1..n : p[i] = p[j] => i = j
      /\ \A i, j \in 1..n : i < j =>
           list[p[i]].time < list[p[j]].time \/ list[p[i]].time = list[p[j]].time
  BY <1>6, <1>7 DEF Sorts
<1>9. /\ DOMAIN chron = 1..n /\ Len(chron) = n
      /\ \A i \in 1..n : chron[i] = list[p[i]] /\ chron[i] \in J
  <2>1. DOMAIN chron = 1..n /\ \A i \in 1..n : chron[i] = list[p[i]]
    BY <1>7
  <2>2. \A i \in 1..n : chron[i] \in J
    BY <1>5, <1>8, <2>1
  <2>3. chron \in [1..n -> J]
    BY <1>7, <2>2, <2>1
  <2>4. Len(chron) = n
    <3>1. chron \in Seq(J)
      BY <1>5, <2>3
    <3> HIDE DEF chron
    <3> QED
      BY <1>5, <2>1, <3>1
  <2> QED
    BY <2>1, <2>2, <2>4
<1>10. rows = [i \in DOMAIN chron |->
                 [id |-> chron[i].id, time |-> chron[i].time, features |-> chron[i].features,
                  graph |-> chron[i].graph, class |-> chron[i].class, split |-> Part(i, Len(chron))]]
  BY DEF Partitioned, list
<1> HIDE DEF chron, rows
<1>11. /\ DOMAIN rows = 1..n
       /\ \A i \in 1..n :
            /\ rows[i].id = chron[i].id /\ rows[i].time = chron[i].time
            /\ rows[i].features = chron[i].features /\ rows[i].class = chron[i].class
            /\ rows[i].split = Part(i, n)
  BY <1>9, <1>10
<1>12. IsUnique(rows, IdOf)
  <2> SUFFICES ASSUME NEW i \in 1..n, NEW j \in 1..n, rows[i].id = rows[j].id PROVE i = j
    BY <1>11 DEF IsUnique, IdOf
  <2>1. chron[i] = chron[j]
    BY <1>3, <1>9, <1>11
  <2>2. p[i] = p[j]
    BY <1>5, <1>8, <1>9, <2>1
  <2> QED
    BY <1>8, <2>2
<1>13. Ids(rows) = {r.id : r \in J}
  <2>1. Ids(rows) = {rows[i].id : i \in 1..n}
    BY <1>11 DEF Ids, Range
  <2>2. \A i \in 1..n : rows[i].id \in {r.id : r \in J}
    BY <1>9, <1>11
  <2>3. ASSUME NEW r \in J PROVE \E i \in 1..n : rows[i].id = r.id
    <3>1. PICK x \in 1..n : list[x] = r
      BY <1>5
    <3>2. PICK k \in 1..n : p[k] = x
      BY <1>8
    <3> QED
      BY <1>9, <1>11, <3>1, <3>2
  <2> QED
    BY <2>1, <2>2, <2>3
<1>14. \A row \in Range(rows) :
         /\ row.features \in Range(FileOf("features")) /\ row.features.id = row.id
         /\ [id |-> row.id, class |-> row.class] \in Range(sample.labels)
  <2> SUFFICES ASSUME NEW i \in 1..n
               PROVE  /\ rows[i].features \in Range(FileOf("features"))
                      /\ rows[i].features.id = rows[i].id
                      /\ [id |-> rows[i].id, class |-> rows[i].class] \in Range(sample.labels)
    BY <1>11 DEF Range
  <2> QED
    BY <1>4, <1>9, <1>11
<1>15. ASSUME NEW i \in 1..n, NEW j \in 1..n,
              LET place == [train |-> 1, val |-> 2, test |-> 3] IN
              place[rows[i].split] < place[rows[j].split]
       PROVE  rows[i].time <= rows[j].time
  <2> DEFINE place == [train |-> 1, val |-> 2, test |-> 3]
  <2>1. place[Part(i, n)] < place[Part(j, n)]
    BY <1>11, <1>15
  <2>2. i < j
    BY <1>5, <2>1, PartsInOrder
  <2>3. list[p[i]].time < list[p[j]].time \/ list[p[i]].time = list[p[j]].time
    BY <1>8, <2>2
  <2>4. chron[i].time < chron[j].time \/ chron[i].time = chron[j].time
    BY <1>9, <2>3
  <2>5. chron[i].time \in Int /\ chron[j].time \in Int
    BY <1>4, <1>9
  <2>6. rows[i].time = chron[i].time /\ rows[j].time = chron[j].time
    BY <1>11
  <2> QED
    BY <2>4, <2>5, <2>6
<1>16. Whole(rows)
  BY <1>2, <1>11, <1>12, <1>13, <1>14, <1>15 DEF Whole
<1> QED
  BY <1>16 DEF rows, J

LEMMA RunModelingIsWhole ==
  ASSUME IInv, RunModeling
  PROVE  ModelingIsWhole'
<1> DEFINE rows == Partitioned(Joined)
           writes == <<To("file", "modeling", rows), To("table", "modeling", rows)>>
           stems == {"features", "graph", "tx"}
<1>1. Begin /\ \/ Raise("modeling")
               \/ /\ ~Missing("file", stems) /\ KeepsEveryRow(Joined)
                  /\ \A r, q \in Joined : r.id = q.id => r = q
                  /\ Finish("modeling", writes, "ok", rows)
  BY DEF RunModeling
<1>2. CASE Raise("modeling")
  <2>1. computed' = Null
    BY <1>2 DEF Raise
  <2> QED
    BY <2>1 DEF ModelingIsWhole, Did
<1>3. CASE /\ ~Missing("file", stems) /\ KeepsEveryRow(Joined)
           /\ \A r, q \in Joined : r.id = q.id => r = q
           /\ Finish("modeling", writes, "ok", rows)
  <2>1. Whole(rows)
    BY <1>3, InputsAreOK, PartitionedIsWhole
  <2>2. /\ Len(writes) = 2
        /\ writes[1].at = <<"file", "modeling">> /\ writes[2].at = <<"table", "modeling">>
    BY DEF To
  <2>3. \A stem \in stems : <<"file", stem>> \in DOMAIN store
    BY <1>3 DEF Missing
  <2> HIDE DEF rows, writes
  <2>4. computed' # Null => computed' = rows /\ store' = Written(writes, 2)
    <3>1. Finish("modeling", writes, "ok", rows) /\ Len(writes) \in Nat
      BY <1>3, <2>2
    <3>2. computed' # Null => computed' = rows /\ store' = Written(writes, Len(writes))
      BY <3>1, FinishWrites
    <3> QED
      BY <2>2, <3>2
  <2>5. sample' = sample
    BY <1>1 DEF Begin
  <2>6. ASSUME store' = Written(writes, 2), NEW stem \in stems
        PROVE  store'[<<"file", stem>>] = FileOf(stem)
    <3> DEFINE k == 2
               w == Written(writes, k)
               p == <<"file", stem>>
    <3>1. p # <<"file", "modeling">> /\ p # <<"table", "modeling">> /\ p \in DOMAIN store
      BY <2>3
    <3>k. k \in Nat /\ \A i \in 1..k : i = 1 \/ i = 2
      OBVIOUS
    <3> HIDE DEF k
    <3>2. /\ DOMAIN w = DOMAIN store \cup {writes[i].at : i \in 1..k}
          /\ \A q \in DOMAIN w :
               \/ q \in DOMAIN store /\ w[q] = store[q] /\ \A i \in 1..k : writes[i].at # q
               \/ \E i \in 1..k : writes[i].at = q /\ w[q] = writes[i].what
      BY <3>k, WrittenIs
    <3>3. \A i \in 1..k : writes[i].at # p
      <4> HIDE DEF p
      <4> QED
        BY <2>2, <3>1, <3>k
    <3> HIDE DEF w, p
    <3>4. w[p] = store[p]
      BY <3>1, <3>2, <3>3
    <3> QED
      BY <2>6, <3>4 DEF k, w, p, FileOf
  <2>7. ASSUME computed' # Null PROVE ModelingIsWhole'
    <3>1. /\ computed' = rows
          /\ store'[<<"file", "features">>] = FileOf("features")
          /\ store'[<<"file", "graph">>] = FileOf("graph")
          /\ store'[<<"file", "tx">>] = FileOf("tx")
      BY <2>4, <2>6, <2>7
    <3> QED
      BY <2>1, <2>5, <3>1 DEF ModelingIsWhole, Whole
  <2>8. computed' = Null => ModelingIsWhole'
    BY DEF ModelingIsWhole, Did
  <2> QED
    BY <2>7, <2>8
<1> QED
  BY <1>1, <1>2, <1>3

\* Whenever the builder reports a modelling dataset, from whichever runs its
\* inputs are: every transaction of the canonical file, of the matrix, of the
\* graph features and of the labels is in it, once, with what its inputs say
\* of it, and no row of a later part is earlier than one of an earlier part.
THEOREM ModelingWhole == Spec => []ModelingIsWhole
<1>1. Init => ModelingIsWhole
  BY DEF Init, ModelingIsWhole, Did
<1>2. ASSUME IInv, ModelingIsWhole, [Next]_vars PROVE ModelingIsWhole'
  <2>1. CASE RunModeling
    BY <1>2, <2>1, RunModelingIsWhole
  <2>2. CASE \/ \E s \in Samples : Deliver(s)
             \/ RunFeatures \/ RunGraph \/ RunPipeline
    <3>1. last'.script # "modeling"
      BY <2>2, Signed
    <3> QED
      BY <3>1 DEF ModelingIsWhole, Did
  <2>3. CASE UNCHANGED vars
    BY <1>2, <2>3 DEF vars, ModelingIsWhole, Did
  <2> QED
    BY <1>2, <2>1, <2>2, <2>3 DEF Next
<1>3. IInv /\ ModelingIsWhole /\ [Next]_vars => ModelingIsWhole'
  BY <1>2
<1> QED
  BY <1>1, <1>3, Invariant, PTL DEF Spec

-----------------------------------------------------------------------------
(* Features of the past *)

\* seq has the transactions of rows, one after the other.
InTime(seq, n, rows) ==
  /\ n \in Nat /\ DOMAIN seq = 1..n
  /\ \A i \in 1..n : seq[i] \in Range(rows)
  /\ \A u \in Range(rows) : \E i \in 1..n : seq[i] = u
  /\ \A u \in Range(rows) : u.time \in Int /\ u.outSum \in Int /\ u.id.n \in Nat
  /\ \A i, j \in 1..n : seq[i].id = seq[j].id => i = j
  /\ \A i, j \in 1..n : i < j =>
       \/ seq[i].time < seq[j].time
       \/ seq[i].time = seq[j].time /\ seq[i].id.n < seq[j].id.n

LEMMA ChronologicalIs ==
  ASSUME NEW rows, TxTable(rows)
  PROVE  InTime(Chronological(rows), Len(rows), rows)
<1> DEFINE n == Len(rows)
           seq == Chronological(rows)
<1>1. n \in Nat /\ DOMAIN rows = 1..n
  BY DEF TxTable
<1>2. \A i \in 1..n : rows[i] \in TransactionRow /\ rows[i] \in Range(rows)
  <2>1. \A i \in 1..n : rows[i] \in TransactionRow
    BY <1>1 DEF TxTable
  <2> QED
    BY <1>1, <2>1 DEF Range
<1>3. \A u \in Range(rows) : \E i \in 1..n : rows[i] = u
  BY <1>1 DEF Range
<1>4. \A i \in 1..n : rows[i].id \in TxId /\ rows[i].id.as = "plain"
  BY <1>2 DEF TxTable, PlainIds
<1>5. \A u \in TransactionRow : u.time \in Int /\ u.outSum \in Int
  BY DEF TransactionRow
<1>6. \A x \in TxId : x.n \in Nat /\ \A y \in TxId : x.as = y.as /\ x.n = y.n => x = y
  BY DEF TxId
<1>7. \A i, j \in 1..n : rows[i].id = rows[j].id => i = j
  BY <1>1 DEF TxTable, IsUnique, IdOf
<1>8. \A i \in 1..n : rows[i].time \in Int /\ rows[i].outSum \in Int /\ rows[i].id.n \in Nat
  <2> HIDE DEF n
  <2> QED
    BY <1>2, <1>4, <1>5, <1>6
<1>9. PICK p : Sorts(p, rows) /\ seq = [i \in DOMAIN rows |-> rows[p[i]]]
  <2> HIDE DEF n
  <2>1. \A i \in 1..n : rows[i].time \in Int /\ rows[i].id.n \in Int
    BY <1>8
  <2> QED
    BY <1>1, <2>1, ChronologicalSorts
<1> HIDE DEF n, seq
<1>10. /\ \A i \in 1..n : p[i] \in 1..n /\ seq[i] = rows[p[i]]
       /\ DOMAIN seq = 1..n
       /\ \A x \in 1..n : \E k \in 1..n : p[k] = x
       /\ \A i, j \in 1..n : p[i] = p[j] => i = j
       /\ \A i, j \in 1..n : i < j =>
            \/ rows[p[i]].time < rows[p[j]].time
            \/ rows[p[i]].time = rows[p[j]].time /\ rows[p[i]].id.n <= rows[p[j]].id.n
  BY <1>1, <1>9 DEF Sorts
<1>11. \A i \in 1..n : seq[i] \in Range(rows)
  BY <1>2, <1>10
<1>12. \A u \in Range(rows) : \E i \in 1..n : seq[i] = u
  BY <1>3, <1>10
<1>13. \A u \in Range(rows) : u.time \in Int /\ u.outSum \in Int /\ u.id.n \in Nat
  BY <1>3, <1>8
<1>14. \A i, j \in 1..n : seq[i].id = seq[j].id => i = j
  <2> SUFFICES ASSUME NEW i \in 1..n, NEW j \in 1..n, seq[i].id = seq[j].id PROVE i = j
    OBVIOUS
  <2>1. p[i] \in 1..n /\ p[j] \in 1..n /\ rows[p[i]].id = rows[p[j]].id
    BY <1>10
  <2>2. p[i] = p[j]
    BY <1>7, <2>1
  <2> QED
    BY <1>10, <2>2
<1>15. ASSUME NEW i \in 1..n, NEW j \in 1..n, i < j
       PROVE  \/ seq[i].time < seq[j].time
              \/ seq[i].time = seq[j].time /\ seq[i].id.n < seq[j].id.n
  <2>1. p[i] \in 1..n /\ p[j] \in 1..n /\ p[i] # p[j]
    <3>1. i # j
      BY <1>1, <1>15
    <3> QED
      BY <1>10, <3>1
  <2> DEFINE a == p[i]
             b == p[j]
  <2>2. a \in 1..n /\ b \in 1..n /\ a # b /\ seq[i] = rows[a] /\ seq[j] = rows[b]
    BY <1>10, <2>1
  <2>3. \/ rows[a].time < rows[b].time
        \/ rows[a].time = rows[b].time /\ rows[a].id.n <= rows[b].id.n
    BY <1>10, <1>15
  <2> HIDE DEF a, b
  <2>4. rows[a].id # rows[b].id
    BY <1>7, <2>2
  <2>5. rows[a].id.n # rows[b].id.n
    BY <1>4, <1>6, <2>2, <2>4
  <2>6. rows[a].id.n \in Nat /\ rows[b].id.n \in Nat
    BY <1>8, <2>2
  <2>7. rows[a].id.n <= rows[b].id.n => rows[a].id.n < rows[b].id.n
    BY <2>5, <2>6
  <2> QED
    BY <2>2, <2>3, <2>7
<1> QED
  BY <1>1, <1>10, <1>11, <1>12, <1>13, <1>14, <1>15 DEF InTime, n, seq

\* The first k transactions.
Upto(seq, k) == {seq[i] : i \in 1..k}

LEMMA PriorIs ==
  ASSUME NEW c, NEW seq, NEW n, InTime(seq, n, c.tx), NEW k \in 1..n
  PROVE  Prior(c, seq[k]) = Upto(seq, k - 1)
<1> DEFINE t == seq[k]
           Less(u) == u.time < t.time \/ (u.time = t.time /\ u.id.n < t.id.n)
<1>1. /\ n \in Nat
      /\ \A i \in 1..n : seq[i] \in Range(c.tx)
      /\ \A u \in Range(c.tx) : \E i \in 1..n : seq[i] = u
      /\ \A u \in Range(c.tx) : u.time \in Int /\ u.id.n \in Nat
      /\ \A i, j \in 1..n : i < j =>
           \/ seq[i].time < seq[j].time
           \/ seq[i].time = seq[j].time /\ seq[i].id.n < seq[j].id.n
  BY DEF InTime
<1>2. \A i \in 1..n : seq[i].time \in Int /\ seq[i].id.n \in Nat
  BY <1>1
<1>3. \A i \in 1..n : i < k => Less(seq[i])
  BY <1>1
<1>4. \A i \in 1..n : k < i => ~Less(seq[i])
  <2> SUFFICES ASSUME NEW i \in 1..n, k < i PROVE ~Less(seq[i])
    OBVIOUS
  <2>1. t.time < seq[i].time \/ (t.time = seq[i].time /\ t.id.n < seq[i].id.n)
    BY <1>1
  <2> HIDE DEF t
  <2>2. t.time \in Int /\ t.id.n \in Nat /\ seq[i].time \in Int /\ seq[i].id.n \in Nat
    BY <1>2 DEF t
  <2> QED
    BY <2>1, <2>2
<1>5. ~Less(seq[k])
  BY <1>2
<1>6. Prior(c, t) = {u \in Range(c.tx) : Less(u)}
  BY DEF Prior
<1> HIDE DEF Less, t
<1>7. ASSUME NEW u \in Range(c.tx), Less(u) PROVE u \in Upto(seq, k - 1)
  <2>1. PICK i \in 1..n : seq[i] = u
    BY <1>1
  <2>2. i < k
    BY <1>1, <1>4, <1>5, <1>7, <2>1
  <2>3. i \in 1..(k - 1)
    BY <1>1, <2>2
  <2> QED
    BY <2>1, <2>3 DEF Upto
<1>8. ASSUME NEW u \in Upto(seq, k - 1) PROVE u \in Range(c.tx) /\ Less(u)
  <2>1. PICK i \in 1..(k - 1) : seq[i] = u
    BY DEF Upto
  <2>2. i \in 1..n /\ i < k
    BY <1>1
  <2> QED
    BY <1>1, <1>3, <2>1, <2>2
<1> QED
  BY <1>6, <1>7, <1>8 DEF t

LEMMA UptoGrows ==
  ASSUME NEW rows, NEW seq, NEW n, InTime(seq, n, rows), NEW k \in 1..n
  PROVE  /\ Upto(seq, k) = Upto(seq, k - 1) \cup {seq[k]}
         /\ seq[k] \notin Upto(seq, k - 1)
         /\ IsFiniteSet(Upto(seq, k - 1))
         /\ \A u \in Upto(seq, k) : /\ u.time \in Int /\ u.outSum \in Int
                                    /\ u.time <= seq[k].time
<1>1. /\ n \in Nat
      /\ \A i \in 1..n : seq[i].time \in Int /\ seq[i].outSum \in Int
      /\ \A i, j \in 1..n : seq[i].id = seq[j].id => i = j
      /\ \A i, j \in 1..n : i < j => seq[i].time < seq[j].time \/ seq[i].time = seq[j].time
  BY DEF InTime
<1>2. 1..k = 1..(k - 1) \cup {k} /\ 1..k \subseteq 1..n /\ k \notin 1..(k - 1)
  BY <1>1
<1>3. Upto(seq, k) = Upto(seq, k - 1) \cup {seq[k]}
  BY <1>2 DEF Upto
<1>4. seq[k] \notin Upto(seq, k - 1)
  <2> SUFFICES ASSUME NEW i \in 1..(k - 1), seq[i] = seq[k] PROVE FALSE
    BY DEF Upto
  <2> QED
    BY <1>1, <1>2
<1>5. IsFiniteSet(Upto(seq, k - 1))
  <2>1. IsFiniteSet(1..(k - 1))
    <3>1. k - 1 \in Int
      BY <1>1
    <3> QED
      BY <3>1, FS_Interval
  <2> DEFINE S == 1..(k - 1)
             T == Upto(seq, k - 1)
             f == [i \in S |-> seq[i]]
  <2>2. f \in Surjection(S, T)
    BY DEF Surjection, Upto
  <2> HIDE DEF S, T, f
  <2>3. IsFiniteSet(T)
    BY <2>1, <2>2, FS_Surjection DEF S
  <2> QED
    BY <2>3 DEF T
<1>6. ASSUME NEW u \in Upto(seq, k)
      PROVE  u.time \in Int /\ u.outSum \in Int /\ u.time <= seq[k].time
  <2>1. PICK i \in 1..k : seq[i] = u
    BY DEF Upto
  <2>2. i \in 1..n /\ (i < k \/ i = k)
    BY <1>1
  <2>3. seq[i].time \in Int /\ seq[k].time \in Int /\ seq[i].outSum \in Int
    BY <1>1, <2>2
  <2>4. seq[i].time < seq[k].time \/ seq[i].time = seq[k].time
    BY <1>1, <2>2
  <2> QED
    BY <2>1, <2>3, <2>4
<1> QED
  BY <1>3, <1>4, <1>5, <1>6

\* g is f with a number more, at t.
OneMore(S, t, f, g) ==
  /\ IsFiniteSet(S) /\ t \notin S /\ DOMAIN f = S /\ DOMAIN g = S \cup {t}
  /\ \A u \in S : g[u] = f[u]
  /\ \A u \in S \cup {t} : g[u] \in Int

LEMMA SumWithOne ==
  ASSUME NEW S, NEW t, NEW f, NEW g, OneMore(S, t, f, g)
  PROVE  SumFunction(g) = g[t] + SumFunction(f) /\ SumFunction(f) \in Int
<1> USE DEF OneMore
<1>1. SumFunctionOnSet(g, S \cup {t}) = g[t] + SumFunctionOnSet(g, S)
  BY SumAdd
<1>2. SumFunctionOnSet(g, S) = SumFunctionOnSet(f, S)
  BY SumAgree
<1>3. SumFunctionOnSet(f, S) \in Int
  BY SumType
<1> QED
  BY <1>1, <1>2, <1>3 DEF SumFunction

LEMMA RecipientsFinite ==
  ASSUME NEW c, NEW A, c.outs \in Seq(A), NEW id
  PROVE  IsFiniteSet(Recipients(c, id))
<1> DEFINE own == Of(c.outs, id)
           R == Recipients(c, id)
<1>1. own \in Seq(A)
  <2> DEFINE mask == {i \in DOMAIN c.outs : c.outs[i].id = id}
  <2>1. mask \in SUBSET DOMAIN c.outs
    OBVIOUS
  <2> HIDE DEF mask
  <2>2. Where(c.outs, mask) \in Seq(A)
    BY <2>1, WhereIs
  <2> QED
    BY <2>2 DEF Of, mask
<1> HIDE DEF own
<1>2. IsFiniteSet(Range(own))
  BY <1>1, FiniteDomain
<1>3. R = {row.addr : row \in Range(own)}
  BY DEF Recipients, Addrs, own
<1> HIDE DEF R
<1> DEFINE S == Range(own)
           f == [row \in S |-> row.addr]
<1>4. f \in Surjection(S, R)
  BY <1>3 DEF Surjection
<1> HIDE DEF S, f
<1>5. IsFiniteSet(R)
  BY <1>2, <1>4, FS_Surjection DEF S
<1> QED
  BY <1>5 DEF R

\* h is what the transactions of P tell of an address.
Tells(c, P, a, h) ==
  LET sent == SentBy(c, P, a)
      paid == PaidTo(c, P, a)
  IN /\ h.count = Cardinality(sent)
     /\ h.sent = SumFunction([u \in sent |-> u.outSum])
     /\ h.received = SumFunction([u \in paid |-> u.outSum \div Cardinality(Recipients(c, u.id))])
     /\ h.met = (UNION {Recipients(c, u.id) : u \in sent}) \cup {Sender(c, u.id) : u \in paid}
     /\ sent \cup paid = {} => h.first = Null
     /\ sent \cup paid # {} => /\ h.first \in {u.time : u \in sent \cup paid}
                               /\ \A u \in sent \cup paid : h.first <= u.time

\* One more transaction, not earlier than those known.
LEMMA TellsMore ==
  ASSUME NEW c, \A id : IsFiniteSet(Recipients(c, id)),
         NEW P, IsFiniteSet(P), NEW t, t \notin P,
         \A u \in P \cup {t} : u.time \in Int /\ u.outSum \in Int /\ u.time <= t.time,
         NEW hist, NEW a \in DOMAIN hist, Tells(c, P, a, hist[a])
  PROVE  Tells(c, P \cup {t}, a, Update(c, hist, t)[a])
<1> DEFINE Q == P \cup {t}
           h == hist[a]
           g == Update(c, hist, t)[a]
           sender == Sender(c, t.id)
           recips == Recipients(c, t.id)
           sent == SentBy(c, P, a)
           paid == PaidTo(c, P, a)
           share(u) == u.outSum \div Cardinality(Recipients(c, u.id))
           lot == t.outSum \div Max({Cardinality(recips), 1})
<1>1. SentBy(c, Q, a) = IF a = sender THEN sent \cup {t} ELSE sent
  BY DEF SentBy
<1>2. PaidTo(c, Q, a) = IF a \in recips THEN paid \cup {t} ELSE paid
  BY DEF PaidTo
<1>3. /\ IsFiniteSet(sent) /\ IsFiniteSet(paid) /\ t \notin sent /\ t \notin paid
      /\ sent \subseteq P /\ paid \subseteq P
  <2>1. sent \in SUBSET P /\ paid \in SUBSET P
    BY DEF SentBy, PaidTo
  <2>2. IsFiniteSet(sent) /\ IsFiniteSet(paid)
    BY <2>1, FS_Subset
  <2> QED
    BY <2>1, <2>2
<1>4. \A u \in PaidTo(c, Q, a) : share(u) \in Int
  <2> SUFFICES ASSUME NEW u \in PaidTo(c, Q, a) PROVE share(u) \in Int
    OBVIOUS
  <2> DEFINE m == Cardinality(Recipients(c, u.id))
  <2>1. a \in Recipients(c, u.id) /\ u \in Q
    BY DEF PaidTo
  <2>2. m \in Nat /\ m # 0
    BY <2>1, FS_CardinalityType, FS_EmptySet
  <2>3. u.outSum \in Int
    BY <2>1
  <2> HIDE DEF m
  <2>4. u.outSum \div m \in Int
    BY <2>2, <2>3
  <2> QED
    BY <2>4 DEF m
<1>5. a \in recips => lot = share(t)
  <2> SUFFICES ASSUME a \in recips PROVE lot = share(t)
    OBVIOUS
  <2> DEFINE m == Cardinality(recips)
             T == {m, 1}
  <2>1. m \in Nat /\ m # 0
    BY FS_CardinalityType, FS_EmptySet
  <2> HIDE DEF m
  <2>2. T \in SUBSET Int /\ T # {} /\ m \in T /\ 1 \in T /\ \A x \in T : x <= m
    BY <2>1
  <2>3. IsFiniteSet(T)
    <3>1. IsFiniteSet({1})
      BY FS_Singleton
    <3>2. IsFiniteSet({1} \cup {m})
      BY <3>1, FS_AddElement
    <3>3. {1} \cup {m} = T
      OBVIOUS
    <3> QED
      BY <3>2, <3>3
  <2> HIDE DEF T
  <2>4. Max(T) \in T /\ \A x \in T : x <= Max(T)
    BY <2>2, <2>3, MaxIsGreatest
  <2>5. Max(T) = m
    <3> DEFINE top == Max(T)
    <3>1. top \in T /\ m \in T /\ m <= top /\ top <= m /\ top \in Int /\ m \in Int
      BY <2>2, <2>4
    <3> HIDE DEF top
    <3>2. top = m
      BY <3>1
    <3> QED
      BY <3>2 DEF top
  <2> QED
    BY <2>5 DEF T, m
<1>6. /\ g.first = IF h.first = Null /\ a \in recips \cup {sender} THEN t.time ELSE h.first
      /\ g.count = h.count + (IF a = sender THEN 1 ELSE 0)
      /\ g.sent = h.sent + (IF a = sender THEN t.outSum ELSE 0)
      /\ g.received = h.received + (IF a \in recips THEN lot ELSE 0)
      /\ g.met = h.met \cup (IF a = sender THEN recips ELSE {})
                       \cup (IF a \in recips THEN {sender} ELSE {})
  BY DEF Update
<1>7. /\ h.count = Cardinality(sent)
      /\ h.sent = SumFunction([u \in sent |-> u.outSum])
      /\ h.received = SumFunction([u \in paid |-> share(u)])
      /\ h.met = (UNION {Recipients(c, u.id) : u \in sent}) \cup {Sender(c, u.id) : u \in paid}
      /\ sent \cup paid = {} => h.first = Null
      /\ sent \cup paid # {} => /\ h.first \in {u.time : u \in sent \cup paid}
                                /\ \A u \in sent \cup paid : h.first <= u.time
  BY DEF Tells
<1> DEFINE sentNow == SentBy(c, Q, a)
           paidNow == PaidTo(c, Q, a)
<1>8. \A u \in Q : u.time \in Int /\ u.outSum \in Int /\ u.time <= t.time
  OBVIOUS
<1> HIDE DEF g, h, sender, recips, sent, paid, share, lot, sentNow, paidNow, Q
<1>9. g.count = Cardinality(sentNow)
  <2>1. Cardinality(sent) \in Nat
    BY <1>3, FS_CardinalityType
  <2>2. Cardinality(sent \cup {t}) = Cardinality(sent) + 1
    BY <1>3, FS_AddElement
  <2>3. CASE a = sender
    BY <1>1, <1>6, <1>7, <2>2, <2>3 DEF sentNow
  <2>4. CASE a # sender
    BY <1>1, <1>6, <1>7, <2>1, <2>4 DEF sentNow
  <2> QED
    BY <2>3, <2>4
<1>10. g.sent = SumFunction([u \in sentNow |-> u.outSum])
  <2> DEFINE f == [u \in sent |-> u.outSum]
             e == [u \in sent \cup {t} |-> u.outSum]
  <2>1. /\ DOMAIN f = sent /\ DOMAIN e = sent \cup {t}
        /\ \A u \in sent : e[u] = f[u]
        /\ \A u \in sent \cup {t} : e[u] \in Int
        /\ e[t] = t.outSum
    BY <1>3, <1>8 DEF Q
  <2> HIDE DEF f, e
  <2>2. SumFunction(e) = e[t] + SumFunction(f) /\ SumFunction(f) \in Int
    <3>1. OneMore(sent, t, f, e)
      BY <1>3, <2>1 DEF OneMore
    <3> QED
      BY <3>1, SumWithOne
  <2>3. t.outSum \in Int
    BY <1>8 DEF Q
  <2>4. h.sent = SumFunction(f)
    BY <1>7 DEF f
  <2>5. CASE a = sender
    <3>1. g.sent = SumFunction(e)
      BY <1>6, <2>1, <2>2, <2>3, <2>4, <2>5
    <3> QED
      BY <1>1, <2>5, <3>1 DEF sentNow, e
  <2>6. CASE a # sender
    <3>1. g.sent = SumFunction(f)
      BY <1>6, <2>2, <2>4, <2>6
    <3> QED
      BY <1>1, <2>6, <3>1 DEF sentNow, f
  <2> QED
    BY <2>5, <2>6
<1>11. g.received = SumFunction([u \in paidNow |-> share(u)])
  <2> DEFINE f == [u \in paid |-> share(u)]
             e == [u \in paid \cup {t} |-> share(u)]
  <2>1. CASE a \in recips
    <3>1. paidNow = paid \cup {t}
      BY <1>2, <2>1 DEF paidNow
    <3>2. /\ DOMAIN f = paid /\ DOMAIN e = paid \cup {t}
          /\ \A u \in paid : e[u] = f[u]
          /\ \A u \in paid \cup {t} : e[u] \in Int
          /\ e[t] = share(t)
      BY <1>4, <3>1 DEF paidNow
    <3>3. h.received = SumFunction(f)
      BY <1>7 DEF f
    <3> HIDE DEF f, e
    <3>4. SumFunction(e) = e[t] + SumFunction(f) /\ SumFunction(f) \in Int
      <4>1. OneMore(paid, t, f, e)
        BY <1>3, <3>2 DEF OneMore
      <4> QED
        BY <4>1, SumWithOne
    <3>5. e[t] \in Int /\ lot = e[t]
      BY <1>5, <2>1, <3>2
    <3>6. g.received = SumFunction(e)
      BY <1>6, <2>1, <3>3, <3>4, <3>5
    <3> QED
      BY <3>1, <3>6 DEF e
  <2>2. CASE a \notin recips
    <3>1. paidNow = paid
      BY <1>2, <2>2 DEF paidNow
    <3>2. h.received = SumFunction(f)
      BY <1>7 DEF f
    <3>3. SumFunction(f) \in Int
      <4>1. \A u \in paid : f[u] \in Int
        BY <1>4, <3>1 DEF paidNow
      <4>2. DOMAIN f = paid
        OBVIOUS
      <4> HIDE DEF f
      <4>3. SumFunctionOnSet(f, paid) \in Int
        BY <1>3, <4>1, SumType
      <4> QED
        BY <4>2, <4>3 DEF SumFunction
    <3> HIDE DEF f
    <3>4. g.received = SumFunction(f)
      BY <1>6, <2>2, <3>2, <3>3
    <3> QED
      BY <3>1, <3>4 DEF f
  <2> QED
    BY <2>1, <2>2
<1>12. g.met = (UNION {Recipients(c, u.id) : u \in sentNow}) \cup {Sender(c, u.id) : u \in paidNow}
  <2> DEFINE Met(S) == UNION {Recipients(c, u.id) : u \in S}
             By(S) == {Sender(c, u.id) : u \in S}
  <2>1. Met(sentNow) = Met(sent) \cup (IF a = sender THEN recips ELSE {})
    BY <1>1 DEF sentNow, recips
  <2>2. By(paidNow) = By(paid) \cup (IF a \in recips THEN {sender} ELSE {})
    BY <1>2 DEF paidNow, sender
  <2>3. h.met = Met(sent) \cup By(paid)
    BY <1>7
  <2> HIDE DEF Met, By
  <2>4. g.met = Met(sentNow) \cup By(paidNow)
    BY <1>6, <2>1, <2>2, <2>3
  <2> QED
    BY <2>4 DEF Met, By
<1>13. /\ sentNow \cup paidNow = {} => g.first = Null
       /\ sentNow \cup paidNow # {} => /\ g.first \in {u.time : u \in sentNow \cup paidNow}
                                       /\ \A u \in sentNow \cup paidNow : g.first <= u.time
  <2> DEFINE M == sent \cup paid
             now == sentNow \cup paidNow
  <2>1. now = IF a \in recips \cup {sender} THEN M \cup {t} ELSE M
    BY <1>1, <1>2 DEF sentNow, paidNow
  <2>2. \A u \in M \cup {t} : u.time \in Int /\ u.time <= t.time
    BY <1>3, <1>8 DEF Q
  <2>3. M = {} => h.first = Null
    BY <1>7
  <2>4. M # {} => h.first \in {u.time : u \in M} /\ \A u \in M : h.first <= u.time
    BY <1>7
  <2> HIDE DEF M, now
  <2>5. CASE a \notin recips \cup {sender}
    <3>1. g.first = h.first /\ now = M
      BY <1>6, <2>1, <2>5
    <3>2. now = {} => g.first = Null
      BY <2>3, <3>1
    <3>3. now # {} => g.first \in {u.time : u \in now} /\ \A u \in now : g.first <= u.time
      BY <2>4, <3>1
    <3> QED
      BY <3>2, <3>3 DEF now
  <2>6. CASE a \in recips \cup {sender} /\ M = {}
    <3>1. g.first = t.time /\ now = {t}
      BY <1>6, <2>1, <2>3, <2>6
    <3>2. g.first \in {u.time : u \in now} /\ \A u \in now : g.first <= u.time
      BY <2>2, <3>1
    <3> QED
      BY <3>1, <3>2 DEF now
  <2>7. CASE a \in recips \cup {sender} /\ M # {}
    <3>1. PICK v \in M : h.first = v.time /\ \A u \in M : h.first <= u.time
      BY <2>4, <2>7
    <3>2. h.first \in Int /\ h.first # Null /\ h.first <= t.time
      BY <2>2, <3>1, NullAssumption
    <3>3. g.first = h.first /\ now = M \cup {t}
      BY <1>6, <2>1, <2>7, <3>2
    <3>4. v \in now /\ g.first = v.time /\ \A u \in now : g.first <= u.time
      BY <3>1, <3>2, <3>3
    <3> QED
      BY <3>4 DEF now
  <2> QED
    BY <2>5, <2>6, <2>7
<1>14. Tells(c, Q, a, g)
  BY <1>9, <1>10, <1>11, <1>12, <1>13 DEF Tells, sentNow, paidNow, share
<1> QED
  BY <1>14 DEF Q, g

\* The least and the greatest number of a set.
LEMMA LeastIs ==
  ASSUME NEW S \in SUBSET Int, NEW m \in S, \A x \in S : m <= x
  PROVE  Min(S) = m
<1> DEFINE low == CHOOSE x \in S : \A y \in S : x <= y
<1>1. low \in S /\ \A y \in S : low <= y
  OBVIOUS
<1>2. Min(S) = low
  BY DEF Min
<1> HIDE DEF low
<1>3. low \in Int /\ m \in Int /\ low <= m /\ m <= low
  BY <1>1
<1>4. low = m
  BY <1>3
<1> QED
  BY <1>2, <1>4

LEMMA GreatestIs ==
  ASSUME NEW S \in SUBSET Int, NEW m \in S, \A x \in S : x <= m
  PROVE  Max(S) = m
<1> DEFINE top == CHOOSE x \in S : \A y \in S : x >= y
<1>1. top \in S /\ \A y \in S : top >= y
  OBVIOUS
<1>2. Max(S) = top
  BY DEF Max
<1> HIDE DEF top
<1>3. top \in Int /\ m \in Int /\ m <= top /\ top <= m
  BY <1>1
<1>4. top = m
  BY <1>3
<1> QED
  BY <1>2, <1>4

\* What is read for a row whose sender is told of all earlier transactions.
LEMMA ReadIs ==
  ASSUME NEW c, NEW t, IsFiniteSet(Prior(c, t)), \A u \in Prior(c, t) : u.time \in Int,
         NEW h, Tells(c, Prior(c, t), Sender(c, t.id), h)
  PROVE  Read(h, t) = AddressHistory(c, t)
<1> DEFINE me == Sender(c, t.id)
           sent == SentBy(c, Prior(c, t), me)
           paid == PaidTo(c, Prior(c, t), me)
           times == {u.time : u \in sent \cup paid}
           took == [u \in sent |-> u.outSum]
           got == [u \in paid |-> u.outSum \div Cardinality(Recipients(c, u.id))]
           met == (UNION {Recipients(c, u.id) : u \in sent}) \cup {Sender(c, u.id) : u \in paid}
<1>1. /\ h.count = Cardinality(sent)
      /\ h.sent = SumFunction(took)
      /\ h.received = SumFunction(got)
      /\ h.met = met
      /\ sent \cup paid # {} => h.first \in times /\ \A u \in sent \cup paid : h.first <= u.time
  BY DEF Tells
<1>2. /\ IsFiniteSet(sent) /\ sent \subseteq Prior(c, t) /\ paid \subseteq Prior(c, t)
  <2>1. sent \in SUBSET Prior(c, t) /\ paid \in SUBSET Prior(c, t)
    BY DEF SentBy, PaidTo
  <2>2. IsFiniteSet(sent)
    BY <2>1, FS_Subset
  <2> QED
    BY <2>1, <2>2
<1>3. times \in SUBSET Int
  BY <1>2
<1>4. AddressHistory(c, t) =
        [count |-> Cardinality(sent), sent |-> SumFunction(took), received |-> SumFunction(got),
         met |-> Cardinality(met), active |-> IF sent = {} THEN 0 ELSE t.time - Min(times)]
  BY DEF AddressHistory
<1>5. sent # {} => h.first = Min(times)
  <2> SUFFICES ASSUME sent # {} PROVE h.first = Min(times)
    OBVIOUS
  <2>1. h.first \in times /\ \A x \in times : h.first <= x
    BY <1>1
  <2> HIDE DEF times
  <2> QED
    BY <1>3, <2>1, LeastIs
<1>6. h.count > 0 <=> sent # {}
  <2> HIDE DEF sent
  <2>1. Cardinality(sent) \in Nat /\ (Cardinality(sent) = 0 <=> sent = {})
    BY <1>2, FS_CardinalityType, FS_EmptySet
  <2> QED
    BY <1>1, <2>1
<1> HIDE DEF sent, paid, times, took, got, met
<1>7. Read(h, t) =
        [count |-> h.count, sent |-> h.sent, received |-> h.received,
         met |-> Cardinality(h.met), active |-> IF h.count > 0 THEN t.time - h.first ELSE 0]
  BY DEF Read
<1>8. (IF h.count > 0 THEN t.time - h.first ELSE 0) = IF sent = {} THEN 0 ELSE t.time - Min(times)
  BY <1>5, <1>6
<1> QED
  BY <1>1, <1>4, <1>7, <1>8

LEMMA TellsNothing ==
  ASSUME NEW c, NEW a \in Parties(c)
  PROVE  Tells(c, {}, a, NoHistory(c)[a])
<1> DEFINE sent == SentBy(c, {}, a)
           paid == PaidTo(c, {}, a)
           took == [u \in sent |-> u.outSum]
           got == [u \in paid |-> u.outSum \div Cardinality(Recipients(c, u.id))]
           h == NoHistory(c)[a]
<1>1. sent = {} /\ paid = {}
  BY DEF SentBy, PaidTo
<1>2. h = [first |-> Null, count |-> 0, sent |-> 0, received |-> 0, met |-> {}]
  BY DEF NoHistory
<1>3. SumFunction(took) = 0
  <2>1. DOMAIN took = {}
    BY <1>1
  <2> HIDE DEF took
  <2> QED
    BY <2>1, SumEmpty DEF SumFunction
<1>4. SumFunction(got) = 0
  <2>1. DOMAIN got = {}
    BY <1>1
  <2> HIDE DEF got
  <2> QED
    BY <2>1, SumEmpty DEF SumFunction
<1>5. Cardinality(sent) = 0
  BY <1>1, FS_EmptySet
<1>6. (UNION {Recipients(c, u.id) : u \in sent}) \cup {Sender(c, u.id) : u \in paid} = {}
  BY <1>1
<1> HIDE DEF h
<1>7. /\ h.count = Cardinality(sent) /\ h.sent = SumFunction(took) /\ h.received = SumFunction(got)
      /\ h.met = (UNION {Recipients(c, u.id) : u \in sent}) \cup {Sender(c, u.id) : u \in paid}
      /\ h.first = Null /\ sent \cup paid = {}
  BY <1>1, <1>2, <1>3, <1>4, <1>5, <1>6
<1>8. Tells(c, {}, a, h)
  BY <1>7 DEF Tells
<1> QED
  BY <1>8 DEF h

-----------------------------------------------------------------------------
(* The pass of the address extractor *)

Canon(c) ==
  /\ TxTable(c.tx)
  /\ \A id : IsFiniteSet(Recipients(c, id))

\* What the pass knows after k transactions.
AddressPass(c, seq, k, s) ==
  /\ DOMAIN s.hist = Parties(c)
  /\ \A a \in Parties(c) : Tells(c, Upto(seq, k), a, s.hist[a])
  /\ DOMAIN s.rows = {seq[i].id : i \in 1..k}
  /\ \A i \in 1..k : s.rows[seq[i].id] = AddressHistory(c, seq[i])

LEMMA AddressStarts ==
  ASSUME NEW c, NEW seq
  PROVE  AddressPass(c, seq, 0, [hist |-> NoHistory(c), rows |-> <<>>])
<1>1. 1..0 = {} /\ Upto(seq, 0) = {}
  BY DEF Upto
<1>2. DOMAIN NoHistory(c) = Parties(c)
  BY DEF NoHistory
<1>3. \A a \in Parties(c) : Tells(c, {}, a, NoHistory(c)[a])
  BY TellsNothing
<1>4. DOMAIN <<>> = {} /\ {seq[i].id : i \in 1..0} = {}
  BY <1>1
<1> QED
  BY <1>1, <1>2, <1>3, <1>4 DEF AddressPass

LEMMA AddressTurns ==
  ASSUME NEW c, Canon(c), NEW seq, NEW n, InTime(seq, n, c.tx), NEW k \in 1..n,
         NEW s, AddressPass(c, seq, k - 1, s)
  PROVE  AddressPass(c, seq, k, AddressTurn(c, s, seq[k]))
<1> DEFINE t == seq[k]
           P == Upto(seq, k - 1)
           z == AddressTurn(c, s, t)
           me == Sender(c, t.id)
<1>1. /\ Upto(seq, k) = P \cup {t} /\ t \notin P /\ IsFiniteSet(P)
      /\ \A u \in P \cup {t} : u.time \in Int /\ u.outSum \in Int /\ u.time <= t.time
  <2>1. /\ Upto(seq, k) = Upto(seq, k - 1) \cup {seq[k]}
        /\ seq[k] \notin Upto(seq, k - 1)
        /\ IsFiniteSet(Upto(seq, k - 1))
        /\ \A u \in Upto(seq, k) : u.time \in Int /\ u.outSum \in Int /\ u.time <= seq[k].time
    BY UptoGrows
  <2> QED
    BY <2>1
<1>2. P = Prior(c, t)
  BY PriorIs
<1>3. n \in Nat /\ t \in Range(c.tx) /\ \A i, j \in 1..n : seq[i].id = seq[j].id => i = j
  BY DEF InTime
<1>4. me \in Parties(c)
  BY <1>3 DEF Parties, Ids
<1>5. /\ DOMAIN s.hist = Parties(c)
      /\ \A a \in Parties(c) : Tells(c, P, a, s.hist[a])
      /\ DOMAIN s.rows = {seq[i].id : i \in 1..(k - 1)}
      /\ \A i \in 1..(k - 1) : s.rows[seq[i].id] = AddressHistory(c, seq[i])
  BY DEF AddressPass
<1>6. z.hist = Update(c, s.hist, t) /\ z.rows = Put(s.rows, t.id, Read(s.hist[me], t))
  BY DEF AddressTurn
<1>7. DOMAIN Update(c, s.hist, t) = DOMAIN s.hist
  BY DEF Update
<1> HIDE DEF P, z, me
<1>8. Read(s.hist[me], t) = AddressHistory(c, t)
  <2>1. \A u \in Prior(c, t) : u.time \in Int
    BY <1>1, <1>2
  <2>2. Tells(c, Prior(c, t), Sender(c, t.id), s.hist[me]) /\ IsFiniteSet(Prior(c, t))
    BY <1>1, <1>2, <1>4, <1>5 DEF me
  <2> HIDE DEF t
  <2> QED
    BY <2>1, <2>2, ReadIs
<1>9. ASSUME NEW a \in Parties(c) PROVE Tells(c, P \cup {t}, a, z.hist[a])
  <2>1. Tells(c, P, a, s.hist[a]) /\ a \in DOMAIN s.hist /\ \A id : IsFiniteSet(Recipients(c, id))
    BY <1>5 DEF Canon
  <2> HIDE DEF t
  <2>2. Tells(c, P \cup {t}, a, Update(c, s.hist, t)[a])
    BY <1>1, <2>1, TellsMore
  <2> QED
    BY <1>6, <2>2
<1>10. 1..k = 1..(k - 1) \cup {k} /\ \A i \in 1..(k - 1) : i \in 1..n /\ i # k
  BY <1>3
<1>11. DOMAIN z.rows = {seq[i].id : i \in 1..k}
  <2>1. DOMAIN z.rows = {seq[i].id : i \in 1..(k - 1)} \cup {t.id}
    BY <1>5, <1>6 DEF Put
  <2> QED
    BY <1>10, <2>1
<1>12. ASSUME NEW i \in 1..k PROVE z.rows[seq[i].id] = AddressHistory(c, seq[i])
  <2>1. CASE i = k
    BY <1>6, <1>8, <2>1 DEF Put
  <2>2. CASE i # k
    <3>1. i \in 1..(k - 1) /\ seq[i].id # t.id /\ seq[i].id \in DOMAIN s.rows
      BY <1>3, <1>5, <1>10, <2>2
    <3>2. z.rows[seq[i].id] = s.rows[seq[i].id]
      BY <1>6, <3>1 DEF Put
    <3> QED
      BY <1>5, <3>1, <3>2
  <2> QED
    BY <2>1, <2>2
<1>13. DOMAIN z.hist = Parties(c)
  BY <1>5, <1>6, <1>7
<1> QED
  BY <1>1, <1>9, <1>11, <1>12, <1>13 DEF AddressPass, z

\* The address features of every transaction are those of its past.
LEMMA AddressFeaturesAre ==
  ASSUME NEW c, Canon(c)
  PROVE  \A t \in Range(c.tx) : AddressFeatures(c)[t.id] = AddressHistory(c, t)
<1> DEFINE n == Len(c.tx)
           seq == Chronological(c.tx)
           base == [hist |-> NoHistory(c), rows |-> <<>>]
           eq(h) == h = [T \in SUBSET (1..n) |->
                           IF T = {} THEN base ELSE AddressTurn(c, h[T \ {Max(T)}], seq[Max(T)])]
           iter == CHOOSE h : eq(h)
<1>1. InTime(seq, n, c.tx)
  BY ChronologicalIs DEF Canon
<1>2. n \in Nat /\ DOMAIN seq = 1..n
  BY <1>1 DEF InTime
<1> HIDE DEF n, seq
<1>3. AddressFeatures(c) = iter[1..n].rows
  BY <1>2 DEF AddressFeatures, FoldLeft, MapThenFoldSet, seq
<1>p. Passes(iter, n, "address", c, seq)
  <2>1. \A h : eq(h) <=> Passes(h, n, "address", c, seq)
    BY DEF Passes, Start, Turn
  <2> HIDE DEF eq
  <2>2. \E h : eq(h)
    BY <1>2, <2>1, PassesExist
  <2> QED
    BY <2>1, <2>2
<1> HIDE DEF iter
<1>4. /\ iter[1..0] = base
      /\ \A j \in 1..n : iter[1..j] = AddressTurn(c, iter[1..(j - 1)], seq[j])
  <2>1. /\ iter[1..0] = Start("address", c)
        /\ \A j \in 1..n : iter[1..j] = Turn("address", c, iter[1..(j - 1)], seq[j])
    BY <1>2, <1>p, PassTurns
  <2> QED
    BY <2>1 DEF Start, Turn
<1> DEFINE D == {j \in Nat : j <= n => AddressPass(c, seq, j, iter[1..j])}
<1>5. 0 \in D
  BY <1>4, AddressStarts
<1> HIDE DEF base
<1>6. ASSUME NEW j \in Nat, j \in D PROVE j + 1 \in D
  <2> SUFFICES ASSUME j + 1 <= n PROVE AddressPass(c, seq, j + 1, iter[1..(j + 1)])
    OBVIOUS
  <2> DEFINE k == j + 1
  <2>1. k \in 1..n /\ k - 1 = j /\ j <= n
    BY <1>2
  <2>2. AddressPass(c, seq, k - 1, iter[1..(k - 1)])
    BY <1>6, <2>1
  <2> HIDE DEF k
  <2>3. iter[1..k] = AddressTurn(c, iter[1..(k - 1)], seq[k])
    BY <1>4, <2>1
  <2>4. AddressPass(c, seq, k, iter[1..k])
    BY <1>1, <2>1, <2>2, <2>3, AddressTurns
  <2> QED
    BY <2>4 DEF k
<1>7. Nat \subseteq D
  <2> HIDE DEF D
  <2> QED
    BY <1>5, <1>6, InductionOnNat
<1>8. n \in D
  <2> HIDE DEF D
  <2> QED
    BY <1>2, <1>7
<1>9. AddressPass(c, seq, n, iter[1..n])
  BY <1>2, <1>8
<1> QED
  <2> SUFFICES ASSUME NEW t \in Range(c.tx) PROVE AddressFeatures(c)[t.id] = AddressHistory(c, t)
    OBVIOUS
  <2>1. PICK i \in 1..n : seq[i] = t
    BY <1>1 DEF InTime
  <2> QED
    BY <1>3, <1>9, <2>1 DEF AddressPass

-----------------------------------------------------------------------------
(* The pass of the temporal extractor *)

\* Two searches in the sorted times count the transactions in between.
LEMMA WindowIs ==
  ASSUME NEW rows, NEW seq, NEW n, InTime(seq, n, rows), NEW lo \in Int, NEW hi \in Int, lo <= hi
  PROVE  Max({0, Left(seq, hi) - Left(seq, lo)})
           = Cardinality({u \in Range(rows) : lo <= u.time /\ u.time < hi})
<1> DEFINE A == {i \in DOMAIN seq : seq[i].time < hi}
           B == {i \in DOMAIN seq : seq[i].time < lo}
           W == {u \in Range(rows) : lo <= u.time /\ u.time < hi}
           f == [i \in A \ B |-> seq[i]]
           m == Cardinality(W)
           T == {0, m}
<1>1. /\ n \in Nat /\ DOMAIN seq = 1..n
      /\ \A i \in 1..n : seq[i] \in Range(rows) /\ seq[i].time \in Int
      /\ \A u \in Range(rows) : u.time \in Int /\ \E i \in 1..n : seq[i] = u
      /\ \A i, j \in 1..n : seq[i].id = seq[j].id => i = j
  BY DEF InTime
<1>2. A \in SUBSET (1..n) /\ B \in SUBSET A
  BY <1>1
<1>3. IsFiniteSet(A) /\ IsFiniteSet(B)
  <2> HIDE DEF A, B
  <2>1. IsFiniteSet(1..n)
    BY <1>1, FS_Interval
  <2>2. IsFiniteSet(A)
    BY <1>2, <2>1, FS_Subset
  <2>3. IsFiniteSet(B)
    BY <1>2, <2>2, FS_Subset
  <2> QED
    BY <2>2, <2>3
<1>4. f \in Bijection(A \ B, W)
  <2>1. \A i \in A \ B : seq[i] \in W
    BY <1>1
  <2>2. \A u \in W : \E i \in A \ B : seq[i] = u
    BY <1>1
  <2>3. \A i, j \in A \ B : seq[i] = seq[j] => i = j
    BY <1>1
  <2> HIDE DEF A, B, W
  <2>4. f \in [A \ B -> W] /\ IsInjective(f) /\ \A u \in W : \E i \in A \ B : f[i] = u
    BY <2>1, <2>2, <2>3 DEF IsInjective
  <2> QED
    BY <2>4 DEF Bijection, Injection, Surjection
<1>5. Left(seq, hi) = Cardinality(A) /\ Left(seq, lo) = Cardinality(B)
  BY DEF Left
<1> HIDE DEF A, B, W, f
<1>6. IsFiniteSet(A \ B) /\ Cardinality(A \ B) = Cardinality(A) - Cardinality(A \cap B)
  BY <1>3, FS_Difference
<1>7. A \cap B = B
  BY <1>2
<1>8. ExistsBijection(A \ B, W)
  BY <1>4 DEF ExistsBijection
<1>9. IsFiniteSet(W) /\ Cardinality(W) = Cardinality(A \ B)
  BY <1>6, <1>8, FS_Bijection
<1>10. m \in Nat
  BY <1>9, FS_CardinalityType
<1>11. Left(seq, hi) - Left(seq, lo) = m
  BY <1>5, <1>6, <1>7, <1>9
<1> HIDE DEF m
<1>12. T \in SUBSET Int /\ m \in T /\ \A x \in T : x <= m
  BY <1>10
<1>13. Max(T) = m
  <2> HIDE DEF T
  <2> QED
    BY <1>12, GreatestIs
<1> QED
  BY <1>11, <1>13 DEF m, W

\* seen has when each sender in P sent last.
LastSent(c, P, seen) ==
  /\ DOMAIN seen = {Sender(c, u.id) : u \in P}
  /\ \A u \in P : /\ \E v \in SentBy(c, P, Sender(c, u.id)) : seen[Sender(c, u.id)] = v.time
                  /\ u.time <= seen[Sender(c, u.id)]

Latest(t, Q) == \A u \in Q : u.time \in Int /\ u.time <= t.time

LEMMA LastSentMoves ==
  ASSUME NEW c, NEW P, NEW t, Latest(t, P \cup {t}), NEW seen, LastSent(c, P, seen)
  PROVE  LastSent(c, P \cup {t}, Put(seen, Sender(c, t.id), t.time))
<1> DEFINE Q == P \cup {t}
           S(u) == Sender(c, u.id)
           now == Put(seen, S(t), t.time)
<1>1. /\ DOMAIN seen = {S(u) : u \in P}
      /\ \A u \in P : /\ \E v \in SentBy(c, P, S(u)) : seen[S(u)] = v.time
                      /\ u.time <= seen[S(u)]
  BY DEF LastSent
<1>2. \A set, a : SentBy(c, set, a) = {u \in set : S(u) = a}
  BY DEF SentBy
<1>3. \A u \in Q : u.time \in Int /\ u.time <= t.time
  BY DEF Latest
<1>4. t \in Q /\ P \subseteq Q /\ \A u \in Q : u # t => u \in P
  OBVIOUS
<1>5. DOMAIN now = DOMAIN seen \cup {S(t)} /\ now[S(t)] = t.time
      /\ \A a \in DOMAIN seen : a # S(t) => now[a] = seen[a]
  BY DEF Put
<1>6. DOMAIN now = {S(u) : u \in Q}
  BY <1>1, <1>5
<1> HIDE DEF Q, S, now
<1>7. ASSUME NEW u \in Q
      PROVE  (\E v \in SentBy(c, Q, S(u)) : now[S(u)] = v.time) /\ u.time <= now[S(u)]
  <2>1. CASE S(u) = S(t)
    <3>1. t \in SentBy(c, Q, S(u)) /\ now[S(u)] = t.time
      BY <1>2, <1>4, <1>5, <2>1
    <3> QED
      BY <1>3, <3>1
  <2>2. CASE S(u) # S(t)
    <3>1. u \in P
      BY <1>4, <2>2
    <3>2. now[S(u)] = seen[S(u)]
      BY <1>1, <1>5, <2>2, <3>1
    <3>3. PICK v \in SentBy(c, P, S(u)) : seen[S(u)] = v.time
      BY <1>1, <3>1
    <3>4. v \in SentBy(c, Q, S(u))
      BY <1>2, <1>4
    <3> QED
      BY <1>1, <3>1, <3>2, <3>3, <3>4
  <2> QED
    BY <2>1, <2>2
<1>8. LastSent(c, Q, now)
  BY <1>6, <1>7 DEF LastSent, S
<1> QED
  BY <1>8 DEF Q, now, S

\* What a row is given, when the pass knows of all earlier transactions.
LEMMA PacingIs ==
  ASSUME NEW c, NEW seq, NEW n, InTime(seq, n, c.tx), NEW k \in 1..n,
         NEW s, LastSent(c, Upto(seq, k - 1), s.seen)
  PROVE  TemporalTurn(c, seq, s, k).rows = Put(s.rows, seq[k].id, Pacing(c, seq[k]))
<1> DEFINE t == seq[k]
           me == Sender(c, t.id)
           P == Prior(c, t)
           sent == SentBy(c, P, me)
           before == {u.time : u \in P}
           times == {u.time : u \in sent}
           window(w) == {u \in Range(c.tx) : t.time - Windows[w] <= u.time /\ u.time < t.time}
           global == IF k = 1 THEN 0 ELSE t.time - seq[k - 1].time
           windows == [w \in DOMAIN Windows |->
                         Max({0, Left(seq, t.time) - Left(seq, t.time - Windows[w])})]
           pace == IF me \in DOMAIN s.seen THEN t.time - s.seen[me] ELSE Day
<1>1. TemporalTurn(c, seq, s, k).rows = Put(s.rows, t.id, [global |-> global, windows |-> windows, pace |-> pace])
  BY DEF TemporalTurn
<1>2. Pacing(c, t) =
        [global |-> IF before = {} THEN 0 ELSE t.time - Max(before),
         windows |-> [w \in DOMAIN Windows |-> Cardinality(window(w))],
         pace |-> IF sent = {} THEN Day ELSE t.time - Max(times)]
  BY DEF Pacing
<1>3. /\ n \in Nat
      /\ \A i \in 1..n : seq[i].time \in Int
      /\ \A i, j \in 1..n : i < j => seq[i].time < seq[j].time \/ seq[i].time = seq[j].time
  BY DEF InTime
<1>4. P = Upto(seq, k - 1)
  BY PriorIs
<1>5. /\ DOMAIN s.seen = {Sender(c, u.id) : u \in P}
      /\ \A u \in P : /\ \E v \in SentBy(c, P, Sender(c, u.id)) : s.seen[Sender(c, u.id)] = v.time
                      /\ u.time <= s.seen[Sender(c, u.id)]
  BY <1>4 DEF LastSent
<1>6. P = {seq[i] : i \in 1..(k - 1)} /\ \A i \in 1..(k - 1) : i \in 1..n
  BY <1>3, <1>4 DEF Upto
<1>7. global = IF before = {} THEN 0 ELSE t.time - Max(before)
  <2>1. CASE k = 1
    <3>1. 1..(k - 1) = {}
      BY <2>1
    <3>2. before = {}
      BY <1>6, <3>1
    <3> QED
      BY <2>1, <3>2
  <2>2. CASE k # 1
    <3> DEFINE j == k - 1
               m == seq[j].time
    <3>1. j \in 1..(k - 1) /\ j \in 1..n
      BY <1>3, <2>2
    <3>2. m \in before /\ before \in SUBSET Int
      BY <1>3, <1>6, <3>1
    <3>3. ASSUME NEW x \in before PROVE x <= m
      <4>1. PICK i \in 1..(k - 1) : x = seq[i].time
        BY <1>6
      <4>2. i \in 1..n /\ (i < j \/ i = j)
        BY <1>6
      <4>3. seq[i].time \in Int /\ seq[j].time \in Int
        BY <1>3, <3>1, <4>2
      <4>4. seq[i].time < seq[j].time \/ seq[i].time = seq[j].time
        BY <1>3, <3>1, <4>2
      <4> QED
        BY <4>1, <4>3, <4>4
    <3> HIDE DEF before, m
    <3>4. Max(before) = m
      BY <3>2, <3>3, GreatestIs
    <3> QED
      BY <2>2, <3>2, <3>4 DEF m
  <2> QED
    BY <2>1, <2>2
<1>8. windows = [w \in DOMAIN Windows |-> Cardinality(window(w))]
  <2> SUFFICES ASSUME NEW w \in DOMAIN Windows
               PROVE  Max({0, Left(seq, t.time) - Left(seq, t.time - Windows[w])}) = Cardinality(window(w))
    OBVIOUS
  <2> DEFINE hi == t.time
             lo == t.time - Windows[w]
  <2>1. Windows[w] \in Nat
    BY DEF Windows
  <2>2. hi \in Int
    BY <1>3
  <2>3. lo \in Int /\ lo <= hi
    BY <2>1, <2>2
  <2> HIDE DEF hi, lo
  <2>4. Max({0, Left(seq, hi) - Left(seq, lo)})
          = Cardinality({u \in Range(c.tx) : lo <= u.time /\ u.time < hi})
    BY <2>2, <2>3, WindowIs
  <2> QED
    BY <2>4 DEF hi, lo
<1>9. pace = IF sent = {} THEN Day ELSE t.time - Max(times)
  <2>1. sent = {u \in P : Sender(c, u.id) = me}
    BY DEF SentBy
  <2>2. me \in DOMAIN s.seen <=> sent # {}
    BY <1>5, <2>1
  <2>3. ASSUME sent # {} PROVE s.seen[me] = Max(times)
    <3>1. PICK u \in P : Sender(c, u.id) = me
      BY <2>1, <2>3
    <3>2. PICK v \in sent : s.seen[me] = v.time
      BY <1>5, <3>1
    <3>3. \A x \in times : x <= s.seen[me]
      BY <1>5, <2>1
    <3>4. times \in SUBSET Int
      BY <1>3, <1>6, <2>1
    <3>5. s.seen[me] \in times
      BY <3>2
    <3> HIDE DEF times, me
    <3> QED
      BY <3>3, <3>4, <3>5, GreatestIs
  <2> QED
    BY <2>2, <2>3
<1> HIDE DEF global, windows, pace, before, times, sent, window, t
<1> QED
  BY <1>1, <1>2, <1>7, <1>8, <1>9 DEF t

TemporalPass(c, seq, k, s) ==
  /\ LastSent(c, Upto(seq, k), s.seen)
  /\ DOMAIN s.rows = {seq[i].id : i \in 1..k}
  /\ \A i \in 1..k : s.rows[seq[i].id] = Pacing(c, seq[i])

LEMMA TemporalStarts ==
  ASSUME NEW c, NEW seq
  PROVE  TemporalPass(c, seq, 0, [seen |-> <<>>, rows |-> <<>>])
<1>1. 1..0 = {} /\ Upto(seq, 0) = {}
  BY DEF Upto
<1>2. DOMAIN <<>> = {} /\ {seq[i].id : i \in 1..0} = {}
  BY <1>1
<1>3. LastSent(c, {}, <<>>)
  BY <1>2 DEF LastSent
<1> QED
  BY <1>1, <1>2, <1>3 DEF TemporalPass

LEMMA TemporalTurns ==
  ASSUME NEW c, NEW seq, NEW n, InTime(seq, n, c.tx), NEW k \in 1..n,
         NEW s, TemporalPass(c, seq, k - 1, s)
  PROVE  TemporalPass(c, seq, k, TemporalTurn(c, seq, s, k))
<1> DEFINE t == seq[k]
           P == Upto(seq, k - 1)
           z == TemporalTurn(c, seq, s, k)
<1>1. /\ Upto(seq, k) = P \cup {t}
      /\ \A u \in P \cup {t} : u.time \in Int /\ u.time <= t.time
  <2>1. /\ Upto(seq, k) = Upto(seq, k - 1) \cup {seq[k]}
        /\ \A u \in Upto(seq, k) : u.time \in Int /\ u.time <= seq[k].time
    BY UptoGrows
  <2> QED
    BY <2>1
<1>2. n \in Nat /\ \A i, j \in 1..n : seq[i].id = seq[j].id => i = j
  BY DEF InTime
<1>3. /\ LastSent(c, P, s.seen)
      /\ DOMAIN s.rows = {seq[i].id : i \in 1..(k - 1)}
      /\ \A i \in 1..(k - 1) : s.rows[seq[i].id] = Pacing(c, seq[i])
  BY DEF TemporalPass
<1>4. z.seen = Put(s.seen, Sender(c, t.id), t.time)
  BY DEF TemporalTurn
<1>5. z.rows = Put(s.rows, t.id, Pacing(c, t))
  BY <1>3, PacingIs
<1> HIDE DEF P, z
<1>6. LastSent(c, P \cup {t}, z.seen)
  <2> HIDE DEF t
  <2>1. Latest(t, P \cup {t}) /\ LastSent(c, P, s.seen)
    BY <1>1, <1>3 DEF Latest
  <2>2. LastSent(c, P \cup {t}, Put(s.seen, Sender(c, t.id), t.time))
    BY <2>1, LastSentMoves
  <2> QED
    BY <1>4, <2>2
<1>7. 1..k = 1..(k - 1) \cup {k} /\ \A i \in 1..(k - 1) : i \in 1..n /\ i # k
  BY <1>2
<1>8. DOMAIN z.rows = {seq[i].id : i \in 1..k}
  <2>1. DOMAIN z.rows = {seq[i].id : i \in 1..(k - 1)} \cup {t.id}
    BY <1>3, <1>5 DEF Put
  <2> QED
    BY <1>7, <2>1
<1>9. ASSUME NEW i \in 1..k PROVE z.rows[seq[i].id] = Pacing(c, seq[i])
  <2>1. CASE i = k
    BY <1>5, <2>1 DEF Put
  <2>2. CASE i # k
    <3>1. i \in 1..(k - 1) /\ seq[i].id # t.id /\ seq[i].id \in DOMAIN s.rows
      BY <1>2, <1>3, <1>7, <2>2
    <3>2. z.rows[seq[i].id] = s.rows[seq[i].id]
      BY <1>5, <3>1 DEF Put
    <3> QED
      BY <1>3, <3>1, <3>2
  <2> QED
    BY <2>1, <2>2
<1> QED
  BY <1>1, <1>6, <1>8, <1>9 DEF TemporalPass, z

\* The temporal features of every transaction are those of its past.
LEMMA TemporalFeaturesAre ==
  ASSUME NEW c, TxTable(c.tx)
  PROVE  \A t \in Range(c.tx) : TemporalFeatures(c)[t.id] = Pacing(c, t)
<1> DEFINE n == Len(c.tx)
           seq == Chronological(c.tx)
           places == [i \in DOMAIN seq |-> i]
           base == [seen |-> <<>>, rows |-> <<>>]
           eq(h) == h = [T \in SUBSET (1..n) |->
                           IF T = {} THEN base ELSE TemporalTurn(c, seq, h[T \ {Max(T)}], places[Max(T)])]
           iter == CHOOSE h : eq(h)
<1>1. InTime(seq, n, c.tx)
  BY ChronologicalIs
<1>2. n \in Nat /\ DOMAIN seq = 1..n
  BY <1>1 DEF InTime
<1>d. DOMAIN places = 1..n /\ \A j \in 1..n : places[j] = j
  BY <1>2
<1> HIDE DEF n, seq, places
<1>3. TemporalFeatures(c) = iter[1..n].rows
  BY <1>d DEF TemporalFeatures, FoldLeft, MapThenFoldSet, seq, places
<1>p. Passes(iter, n, "temporal", c, places)
  <2>1. \A h : eq(h) <=> Passes(h, n, "temporal", c, places)
    BY DEF Passes, Start, Turn, seq
  <2> HIDE DEF eq
  <2>2. \E h : eq(h)
    BY <1>2, <2>1, PassesExist
  <2> QED
    BY <2>1, <2>2
<1> HIDE DEF iter
<1>4. /\ iter[1..0] = base
      /\ \A j \in 1..n : iter[1..j] = TemporalTurn(c, seq, iter[1..(j - 1)], j)
  <2>1. /\ iter[1..0] = Start("temporal", c)
        /\ \A j \in 1..n : iter[1..j] = Turn("temporal", c, iter[1..(j - 1)], places[j])
    BY <1>2, <1>p, PassTurns
  <2> QED
    BY <1>d, <2>1 DEF Start, Turn, seq
<1> DEFINE D == {j \in Nat : j <= n => TemporalPass(c, seq, j, iter[1..j])}
<1>5. 0 \in D
  BY <1>4, TemporalStarts
<1> HIDE DEF base
<1>6. ASSUME NEW j \in Nat, j \in D PROVE j + 1 \in D
  <2> SUFFICES ASSUME j + 1 <= n PROVE TemporalPass(c, seq, j + 1, iter[1..(j + 1)])
    OBVIOUS
  <2> DEFINE k == j + 1
  <2>1. k \in 1..n /\ k - 1 = j /\ j <= n
    BY <1>2
  <2>2. TemporalPass(c, seq, k - 1, iter[1..(k - 1)])
    BY <1>6, <2>1
  <2> HIDE DEF k
  <2>3. iter[1..k] = TemporalTurn(c, seq, iter[1..(k - 1)], k)
    BY <1>4, <2>1
  <2>4. TemporalPass(c, seq, k, iter[1..k])
    BY <1>1, <2>1, <2>2, <2>3, TemporalTurns
  <2> QED
    BY <2>4 DEF k
<1>7. Nat \subseteq D
  <2> HIDE DEF D
  <2> QED
    BY <1>5, <1>6, InductionOnNat
<1>8. n \in D
  <2> HIDE DEF D
  <2> QED
    BY <1>2, <1>7
<1>9. TemporalPass(c, seq, n, iter[1..n])
  BY <1>2, <1>8
<1> QED
  <2> SUFFICES ASSUME NEW t \in Range(c.tx) PROVE TemporalFeatures(c)[t.id] = Pacing(c, t)
    OBVIOUS
  <2>1. PICK i \in 1..n : seq[i] = t
    BY <1>1 DEF InTime
  <2> QED
    BY <1>3, <1>9, <2>1 DEF TemporalPass

-----------------------------------------------------------------------------
(* The anti-leakage promise *)

\* The files a matrix is built from.
LEMMA StoredFiles ==
  ASSUME IInv, ~Missing("file", Canonical)
  PROVE  Canon(Stored("file"))
<1> DEFINE c == Stored("file")
<1>1. <<"file", "tx">> \in DOMAIN store /\ <<"file", "outs">> \in DOMAIN store
  BY DEF Missing, Canonical
<1>2. TxTable(c.tx)
  BY <1>1, StoredTx
<1>3. c["outs"] = store[<<"file", "outs">>]
  <2>1. "outs" \in {u \in Canonical : <<"file", u>> \in DOMAIN store}
    BY <1>1 DEF Canonical
  <2> QED
    BY <2>1 DEF Stored
<1>4. PICK A : c.outs \in Seq(A)
  <2>1. Fits(<<"file", "outs">>, store[<<"file", "outs">>])
    BY <1>1 DEF IInv, StoreOK
  <2> QED
    BY <1>3, <2>1 DEF Fits
<1> HIDE DEF c
<1>5. \A id : IsFiniteSet(Recipients(c, id))
  BY <1>4, RecipientsFinite
<1>6. Canon(c)
  BY <1>2, <1>5 DEF Canon
<1> QED
  BY <1>6 DEF c

\* What FeaturesAreHistory says of a matrix computed from c.
OfThePast(m, c) ==
  /\ Ids(m) = Ids(c.tx) /\ Len(m) = Len(c.tx)
  /\ \A row \in Range(m) :
       LET t == CHOOSE u \in Range(c.tx) : u.id = row.id IN
       row.addr = AddressHistory(c, t) /\ row.temp = Pacing(c, t)

LEMMA MatrixIsOfThePast ==
  ASSUME NEW c, Canon(c)
  PROVE  OfThePast(FeatureMatrix(c), c)
<1> DEFINE m == FeatureMatrix(c)
           n == Len(c.tx)
<1>1. n \in Nat /\ DOMAIN c.tx = 1..n
  BY DEF Canon, TxTable
<1>2. /\ \A t \in Range(c.tx) : AddressFeatures(c)[t.id] = AddressHistory(c, t)
      /\ \A t \in Range(c.tx) : TemporalFeatures(c)[t.id] = Pacing(c, t)
  BY AddressFeaturesAre, TemporalFeaturesAre DEF Canon
<1>3. /\ DOMAIN m = DOMAIN c.tx
      /\ \A i \in DOMAIN c.tx : /\ m[i].id = c.tx[i].id
                                /\ m[i].addr = AddressFeatures(c)[c.tx[i].id]
                                /\ m[i].temp = TemporalFeatures(c)[c.tx[i].id]
  BY DEF FeatureMatrix
<1>4. m = [i \in DOMAIN c.tx |-> m[i]]
  BY DEF FeatureMatrix
<1> HIDE DEF m, n
<1>5. Len(m) = n
  <2> DEFINE A == {m[i] : i \in 1..n}
  <2>1. \A i \in 1..n : m[i] \in A
    OBVIOUS
  <2>2. m = [i \in 1..n |-> m[i]]
    BY <1>1, <1>4
  <2> HIDE DEF A
  <2> QED
    BY <1>1, <2>1, <2>2, FunctionIsSeq
<1>6. Ids(m) = Ids(c.tx)
  BY <1>3 DEF Ids, Range
<1>7. ASSUME NEW row \in Range(m)
      PROVE  LET t == CHOOSE u \in Range(c.tx) : u.id = row.id IN
             row.addr = AddressHistory(c, t) /\ row.temp = Pacing(c, t)
  <2> DEFINE t == CHOOSE u \in Range(c.tx) : u.id = row.id
  <2>1. PICK i \in DOMAIN c.tx : row = m[i]
    BY <1>3 DEF Range
  <2>2. c.tx[i] \in Range(c.tx) /\ c.tx[i].id = row.id
    BY <1>3, <2>1 DEF Range
  <2>3. t \in Range(c.tx) /\ t.id = row.id
    BY <2>2
  <2> HIDE DEF t
  <2>4. row.addr = AddressFeatures(c)[t.id] /\ row.temp = TemporalFeatures(c)[t.id]
    BY <1>3, <2>1, <2>2, <2>3
  <2>5. row.addr = AddressHistory(c, t) /\ row.temp = Pacing(c, t)
    BY <1>2, <2>3, <2>4
  <2> QED
    BY <2>5 DEF t
<1> QED
  BY <1>5, <1>6, <1>7 DEF OfThePast, m, n

\* Writing to other places leaves the canonical files or tables as they are.
LEMMA StoredStays ==
  ASSUME NEW kind, NEW writes, NEW k \in Nat, store' = Written(writes, k),
         \A i \in 1..k : \A u \in Canonical : writes[i].at # <<kind, u>>
  PROVE  Stored(kind)' = Stored(kind)
<1> DEFINE w == Written(writes, k)
<1>1. /\ DOMAIN w = DOMAIN store \cup {writes[i].at : i \in 1..k}
      /\ \A q \in DOMAIN w :
           \/ q \in DOMAIN store /\ w[q] = store[q] /\ \A i \in 1..k : writes[i].at # q
           \/ \E i \in 1..k : writes[i].at = q /\ w[q] = writes[i].what
  BY WrittenIs
<1>2. store' = w
  OBVIOUS
<1> HIDE DEF w
<1>3. ASSUME NEW u \in Canonical
      PROVE  /\ <<kind, u>> \in DOMAIN w <=> <<kind, u>> \in DOMAIN store
             /\ <<kind, u>> \in DOMAIN store => w[<<kind, u>>] = store[<<kind, u>>]
  <2> DEFINE p == <<kind, u>>
  <2>1. \A i \in 1..k : writes[i].at # p
    OBVIOUS
  <2> HIDE DEF p
  <2>2. (p \in DOMAIN w <=> p \in DOMAIN store) /\ (p \in DOMAIN store => w[p] = store[p])
    BY <1>1, <2>1
  <2> QED
    BY <2>2 DEF p
<1>4. {u \in Canonical : <<kind, u>> \in DOMAIN store'} = {u \in Canonical : <<kind, u>> \in DOMAIN store}
  BY <1>2, <1>3
<1>5. \A u \in {v \in Canonical : <<kind, v>> \in DOMAIN store} : store'[<<kind, u>>] = store[<<kind, u>>]
  BY <1>2, <1>3
<1> QED
  BY <1>4, <1>5 DEF Stored

\* Registering a matrix leaves the canonical files as they are.
LEMMA MatrixLeavesFiles ==
  ASSUME NEW matrix,
         store' = Written(<<To("file", "features", matrix), To("table", "features", matrix)>>, 2)
  PROVE  Stored("file")' = Stored("file")
<1> DEFINE writes == <<To("file", "features", matrix), To("table", "features", matrix)>>
           k == 2
<1>1. writes[1].at = <<"file", "features">> /\ writes[2].at = <<"table", "features">>
  BY DEF To
<1>2. k \in Nat /\ \A i \in 1..k : i = 1 \/ i = 2
  OBVIOUS
<1>3. store' = Written(writes, k)
  OBVIOUS
<1> HIDE DEF writes, k
<1>4. \A i \in 1..k : \A u \in Canonical : writes[i].at # <<"file", u>>
  BY <1>1, <1>2 DEF Canonical
<1> QED
  BY <1>2, <1>3, <1>4, StoredStays

LEMMA RunFeaturesIsOfThePast ==
  ASSUME IInv, RunFeatures
  PROVE  FeaturesAreHistory'
<1> DEFINE c == Stored("file")
           matrix == FeatureMatrix(c)
           writes == <<To("file", "features", matrix), To("table", "features", matrix)>>
<1>1. \/ Raise("features")
      \/ ~Missing("file", Canonical) /\ Finish("features", writes, "ok", matrix)
  BY DEF RunFeatures
<1>2. CASE Raise("features")
  <2>1. computed' = Null
    BY <1>2 DEF Raise
  <2> QED
    BY <2>1 DEF FeaturesAreHistory, Did
<1>3. CASE ~Missing("file", Canonical) /\ Finish("features", writes, "ok", matrix)
  <2>1. OfThePast(matrix, c)
    BY <1>3, StoredFiles, MatrixIsOfThePast
  <2>2. Len(writes) = 2
    OBVIOUS
  <2> HIDE DEF matrix
  <2>3. computed' # Null => computed' = matrix /\ store' = Written(writes, 2)
    <3> HIDE DEF writes
    <3>1. Finish("features", writes, "ok", matrix) /\ Len(writes) \in Nat
      BY <1>3, <2>2
    <3>2. computed' # Null => computed' = matrix /\ store' = Written(writes, Len(writes))
      BY <3>1, FinishWrites
    <3> QED
      BY <2>2, <3>2
  <2>4. store' = Written(writes, 2) => Stored("file")' = c
    BY MatrixLeavesFiles
  <2> HIDE DEF writes, c
  <2>5. Did("features")' => computed' = matrix /\ Stored("file")' = c
    BY <2>3, <2>4 DEF Did
  <2> QED
    BY <2>1, <2>5 DEF FeaturesAreHistory, OfThePast
<1> QED
  BY <1>1, <1>2, <1>3

\* Whenever the feature pipeline reports a matrix, from whichever runs its
\* canonical files are: it has a row for every transaction, and what a row
\* says of the sender's past and of the pace of transactions is what the
\* transactions before it in the order of time and id say, and nothing else.
THEOREM FeaturesOfThePast == Spec => []FeaturesAreHistory
<1>1. Init => FeaturesAreHistory
  BY DEF Init, FeaturesAreHistory, Did
<1>2. ASSUME IInv, FeaturesAreHistory, [Next]_vars PROVE FeaturesAreHistory'
  <2>1. CASE RunFeatures
    BY <1>2, <2>1, RunFeaturesIsOfThePast
  <2>2. CASE \/ \E s \in Samples : Deliver(s)
             \/ RunGraph \/ RunModeling \/ RunPipeline
    <3>1. last'.script # "features"
      BY <2>2, Signed
    <3> QED
      BY <3>1 DEF FeaturesAreHistory, Did
  <2>3. CASE UNCHANGED vars
    <3>1. store' = store /\ computed' = computed /\ last' = last
      BY <2>3 DEF vars
    <3>2. Stored("file")' = Stored("file")
      BY <3>1 DEF Stored
    <3>3. Did("features")' = Did("features")
      BY <3>1 DEF Did
    <3> QED
      BY <1>2, <3>1, <3>2, <3>3 DEF FeaturesAreHistory
  <2> QED
    BY <1>2, <2>1, <2>2, <2>3 DEF Next
<1>3. IInv /\ FeaturesAreHistory /\ [Next]_vars => FeaturesAreHistory'
  BY <1>2
<1> QED
  BY <1>1, <1>3, Invariant, PTL DEF Spec

-----------------------------------------------------------------------------
(* What cleaning leaves *)

LEMMA NothingStaysNothing ==
  ASSUME NEW tx
  PROVE  Known(FirstOfEach(Identified(<<>>), KeyOf), tx) = <<>>
<1>1. <<>> \in Seq({}) /\ Rowlike({})
  BY DEF Rowlike
<1>2. Known(FirstOfEach(Identified(<<>>), KeyOf), tx) \in Seq({})
  BY <1>1, CleanCoins
<1>3. \A s \in Seq({}) : s = <<>>
  OBVIOUS
<1> QED
  BY <1>2, <1>3

\* Of rows with the ids of known transactions, at least the first one stays.
LEMMA SomeStay ==
  ASSUME NEW A, Rowlike(A), NEW rows \in Seq(A), rows # <<>>, NEW ids,
         Ids(rows) \subseteq ids \ {Null},
         NEW tx, Ids(tx) = {Plain(id) : id \in ids \ {Null}}
  PROVE  /\ Known(FirstOfEach(Identified(rows), KeyOf), tx) # <<>>
         /\ Known(FirstOfEach(Identified(rows), EventOf), tx) # <<>>
<1> DEFINE named == Identified(rows)
           byKey == FirstOfEach(named, KeyOf)
           byEvent == FirstOfEach(named, EventOf)
<1>1. /\ named \in Seq(A)
      /\ Ids(named) = {Plain(id) : id \in Ids(rows) \ {Null}}
  BY IdentifiedIs
<1> HIDE DEF named
<1>2. Ids(named) \subseteq Ids(tx)
  BY <1>1
<1>3. Len(named) \in Nat /\ DOMAIN named = 1..Len(named) /\ 1 \in DOMAIN named
  <2>1. 1 \in DOMAIN rows
    OBVIOUS
  <2>2. rows[1].id \in Ids(rows)
    BY <2>1 DEF Ids, Range
  <2>3. Ids(named) # {}
    BY <1>1, <2>2
  <2>4. DOMAIN named # {}
    BY <2>3 DEF Ids, Range
  <2> QED
    BY <1>1, <2>4
<1>4. /\ byKey \in Seq(A) /\ Range(byKey) \subseteq Range(named)
      /\ byEvent \in Seq(A) /\ Range(byEvent) \subseteq Range(named)
  BY <1>1, FirstOfEachKey, FirstOfEachEvent
<1>5. byKey # <<>>
  <2> DEFINE mask == {i \in DOMAIN named : \A j \in 1..(i - 1) : KeyOf(named[j]) # KeyOf(named[i])}
  <2>1. mask \in SUBSET DOMAIN named /\ 1 \in mask
    BY <1>3
  <2>2. byKey = Where(named, mask)
    BY DEF FirstOfEach
  <2> HIDE DEF mask
  <2>3. Range(byKey) = {named[i] : i \in mask}
    BY <1>1, <2>1, <2>2, WhereIs
  <2>4. Range(byKey) # {}
    BY <2>1, <2>3
  <2> HIDE DEF byKey
  <2> QED
    BY <2>4 DEF Range
<1>6. byEvent # <<>>
  <2> DEFINE mask == {i \in DOMAIN named : \A j \in 1..(i - 1) : EventOf(named[j]) # EventOf(named[i])}
  <2>1. mask \in SUBSET DOMAIN named /\ 1 \in mask
    BY <1>3
  <2>2. byEvent = Where(named, mask)
    BY DEF FirstOfEach
  <2> HIDE DEF mask
  <2>3. Range(byEvent) = {named[i] : i \in mask}
    BY <1>1, <2>1, <2>2, WhereIs
  <2>4. Range(byEvent) # {}
    BY <2>1, <2>3
  <2> HIDE DEF byEvent
  <2> QED
    BY <2>4 DEF Range
<1> HIDE DEF byKey, byEvent
<1>7. Ids(byKey) \subseteq Ids(tx) /\ Ids(byEvent) \subseteq Ids(tx)
  BY <1>2, <1>4 DEF Ids
<1>8. Known(byKey, tx) = byKey /\ Known(byEvent, tx) = byEvent
  BY <1>4, <1>7, KnownRows
<1> QED
  BY <1>5, <1>6, <1>8 DEF named, byKey, byEvent

\* Cleaning looks at the tables only; whether a missing fee was filled in
\* before makes no difference to it.
Fee(t) == IF t.fee = Null THEN t.inSum - t.outSum ELSE t.fee
Alike(r, q) == /\ r \in TransactionRow /\ q \in TransactionRow
               /\ r = [q EXCEPT !.fee = r.fee] /\ Fee(r) = Fee(q)
AlikeRows(x, y) == DOMAIN x = DOMAIN y /\ \A i \in DOMAIN x : Alike(x[i], y[i])

LEMMA AlikeWhere ==
  ASSUME NEW x \in Seq(TransactionRow), NEW y \in Seq(TransactionRow), AlikeRows(x, y),
         NEW mask \in SUBSET DOMAIN x
  PROVE  AlikeRows(Where(x, mask), Where(y, mask))
<1> DEFINE order == InOrder(mask, LAMBDA i, j : i < j)
<1>1. Where(x, mask) = [k \in DOMAIN order |-> x[order[k]]]
  BY DEF Where
<1>2. Where(y, mask) = [k \in DOMAIN order |-> y[order[k]]]
  BY DEF Where
<1>3. IsFiniteSet(mask) /\ mask \subseteq Int
  <2>1. DOMAIN x = 1..Len(x) /\ Len(x) \in Nat
    OBVIOUS
  <2>2. IsFiniteSet(1..Len(x))
    BY <2>1, FS_Interval
  <2> QED
    BY <2>1, <2>2, FS_Subset
<1>4. order \in [1..Cardinality(mask) -> mask]
  BY <1>3, NumbersEnumerate
<1> HIDE DEF order
<1>5. \A k \in DOMAIN order : order[k] \in DOMAIN x
  BY <1>4
<1> QED
  BY <1>1, <1>2, <1>5 DEF AlikeRows

LEMMA AlikeIdentified ==
  ASSUME NEW x \in Seq(TransactionRow), NEW y \in Seq(TransactionRow), AlikeRows(x, y)
  PROVE  AlikeRows(Identified(x), Identified(y))
<1> DEFINE mx == {i \in DOMAIN x : x[i].id # Null}
           my == {i \in DOMAIN y : y[i].id # Null}
           nx == Where(x, mx)
           ny == Where(y, mx)
<1>1. \A i \in DOMAIN x : x[i].id = y[i].id
  BY DEF AlikeRows, Alike, TransactionRow
<1>2. mx = my /\ mx \in SUBSET DOMAIN x /\ mx \in SUBSET DOMAIN y
  BY <1>1 DEF AlikeRows
<1>3. Identified(x) = [i \in DOMAIN nx |-> [nx[i] EXCEPT !.id = Plain(@)]]
  BY DEF Identified
<1>4. Identified(y) = [i \in DOMAIN ny |-> [ny[i] EXCEPT !.id = Plain(@)]]
  <2> HIDE DEF mx
  <2>1. ny = Where(y, my)
    BY <1>2
  <2> QED
    BY <2>1 DEF Identified
<1> HIDE DEF my
<1>5. AlikeRows(nx, ny)
  <2> HIDE DEF mx
  <2> QED
    BY <1>2, AlikeWhere
<1>6. \A i \in DOMAIN nx : nx[i].id # Null
  <2>0. mx \in SUBSET DOMAIN x /\ \A i \in mx : x[i].id # Null
    OBVIOUS
  <2> HIDE DEF mx
  <2>1. Range(nx) = {x[i] : i \in mx}
    BY <2>0, WhereIs
  <2> HIDE DEF nx
  <2>2. \A i \in DOMAIN nx : nx[i] \in Range(nx)
    BY DEF Range
  <2> QED
    BY <2>0, <2>1, <2>2
<1> HIDE DEF mx, nx, ny
<1>7. ASSUME NEW r, NEW q, Alike(r, q), r.id # Null
      PROVE  Alike([r EXCEPT !.id = Plain(@)], [q EXCEPT !.id = Plain(@)])
  <2>1. r \in TransactionRow /\ q \in TransactionRow /\ r = [q EXCEPT !.fee = r.fee] /\ r.id = q.id
    BY <1>7 DEF Alike, TransactionRow
  <2>2. r.id \in TxId
    BY <1>7, <2>1 DEF TransactionRow, Named
  <2>3. Plain(r.id) \in Named
    BY <2>2, PlainIs DEF Named
  <2> DEFINE rr == [r EXCEPT !.id = Plain(@)]
             qq == [q EXCEPT !.id = Plain(@)]
             p == Plain(r.id)
  <2>4. rr = [r EXCEPT !.id = p] /\ qq = [q EXCEPT !.id = p]
    BY <2>1
  <2> HIDE DEF p, rr, qq
  <2>5. rr \in TransactionRow /\ qq \in TransactionRow /\ rr = [qq EXCEPT !.fee = rr.fee]
    BY <2>1, <2>3, <2>4 DEF TransactionRow, p
  <2>6. /\ rr.fee = r.fee /\ rr.inSum = r.inSum /\ rr.outSum = r.outSum
        /\ qq.fee = q.fee /\ qq.inSum = q.inSum /\ qq.outSum = q.outSum
    BY <2>1, <2>4 DEF TransactionRow
  <2>7. Fee(rr) = Fee(qq)
    BY <1>7, <2>6 DEF Fee, Alike
  <2> QED
    BY <2>5, <2>7 DEF Alike, rr, qq
<1> QED
  BY <1>3, <1>4, <1>5, <1>6, <1>7 DEF AlikeRows

LEMMA AlikeFirst ==
  ASSUME NEW x \in Seq(TransactionRow), NEW y \in Seq(TransactionRow), AlikeRows(x, y)
  PROVE  AlikeRows(FirstOfEach(x, IdOf), FirstOfEach(y, IdOf))
<1> DEFINE mx == {i \in DOMAIN x : \A j \in 1..(i - 1) : IdOf(x[j]) # IdOf(x[i])}
           my == {i \in DOMAIN y : \A j \in 1..(i - 1) : IdOf(y[j]) # IdOf(y[i])}
<1>1. DOMAIN x = DOMAIN y /\ \A i \in DOMAIN x : IdOf(x[i]) = IdOf(y[i])
  BY DEF AlikeRows, Alike, TransactionRow, IdOf
<1>2. \A i \in DOMAIN x : \A j \in 1..(i - 1) : j \in DOMAIN x
  OBVIOUS
<1>3. mx = my
  BY <1>1, <1>2
<1>4. mx \in SUBSET DOMAIN x
  OBVIOUS
<1>5. FirstOfEach(x, IdOf) = Where(x, mx) /\ FirstOfEach(y, IdOf) = Where(y, my)
  BY DEF FirstOfEach
<1> HIDE DEF mx, my
<1>6. AlikeRows(Where(x, mx), Where(y, mx))
  BY <1>4, AlikeWhere
<1> QED
  BY <1>3, <1>5, <1>6

LEMMA AlikeImputed ==
  ASSUME NEW x \in Seq(TransactionRow), NEW y \in Seq(TransactionRow), AlikeRows(x, y)
  PROVE  Imputed(x) = Imputed(y)
<1>1. ASSUME NEW r, NEW q, Alike(r, q) PROVE [r EXCEPT !.fee = Fee(r)] = [q EXCEPT !.fee = Fee(q)]
  <2>1. r \in TransactionRow /\ q \in TransactionRow /\ r = [q EXCEPT !.fee = r.fee] /\ Fee(r) = Fee(q)
    BY <1>1 DEF Alike
  <2> DEFINE f == Fee(r)
  <2>2. [r EXCEPT !.fee = f] = [q EXCEPT !.fee = f]
    <3> HIDE DEF f
    <3> QED
      BY <2>1 DEF TransactionRow
  <2> QED
    BY <2>1, <2>2
<1>2. Imputed(x) = [i \in DOMAIN x |-> [x[i] EXCEPT !.fee = Fee(x[i])]]
  BY DEF Imputed, Fee
<1>3. Imputed(y) = [i \in DOMAIN y |-> [y[i] EXCEPT !.fee = Fee(y[i])]]
  BY DEF Imputed, Fee
<1> QED
  BY <1>1, <1>2, <1>3 DEF AlikeRows

LEMMA CleanAlike ==
  ASSUME NEW d, NEW e, d.tx \in Seq(TransactionRow), e.tx \in Seq(TransactionRow),
         AlikeRows(d.tx, e.tx),
         d.ins = e.ins, d.outs = e.outs, d.net = e.net, d.tagged = e.tagged
  PROVE  Clean(d) = Clean(e)
<1> DEFINE x == Identified(d.tx)
           y == Identified(e.tx)
           xx == FirstOfEach(x, IdOf)
           yy == FirstOfEach(y, IdOf)
<1>1. x \in Seq(TransactionRow) /\ y \in Seq(TransactionRow)
  BY IdentifiedIs, RowsAreRowlike
<1>2. AlikeRows(x, y)
  BY AlikeIdentified
<1> HIDE DEF x, y
<1>3. xx \in Seq(TransactionRow) /\ yy \in Seq(TransactionRow)
  BY <1>1, FirstOfEachId
<1>4. AlikeRows(xx, yy)
  BY <1>1, <1>2, AlikeFirst
<1> HIDE DEF xx, yy
<1>5. Imputed(xx) = Imputed(yy)
  BY <1>3, <1>4, AlikeImputed
<1> DEFINE tx == Imputed(xx)
<1>6. Imputed(FirstOfEach(Identified(d.tx), IdOf)) = tx
  BY DEF xx, x
<1>7. Imputed(FirstOfEach(Identified(e.tx), IdOf)) = tx
  BY <1>5 DEF yy, y
<1> HIDE DEF tx
<1> QED
  BY <1>6, <1>7 DEF Clean

LEMMA NormalizeClean ==
  ASSUME NEW d
  PROVE  Normalize(Clean(d)) = Clean(d)
<1>1. "sih" \notin DOMAIN Clean(d)
  BY DEF Clean
<1> QED
  BY <1>1 DEF Normalize

\* The findings are a function of the tables.
LEMMA ErrorsAlike ==
  ASSUME NEW d, NEW e, d.tx = e.tx, d.ins = e.ins, d.outs = e.outs, d.net = e.net
  PROVE  Errors(d) = Errors(e)
<1>1. TransactionErrors(d) = TransactionErrors(e)
  BY DEF TransactionErrors
<1>2. InputErrors(d) = InputErrors(e)
  BY DEF InputErrors
<1>3. OutputErrors(d) = OutputErrors(e)
  BY DEF OutputErrors
<1>4. NetworkErrors(d) = NetworkErrors(e)
  BY DEF NetworkErrors
<1>5. ConservationErrors(d) = ConservationErrors(e)
  BY DEF ConservationErrors
<1> QED
  BY <1>1, <1>2, <1>3, <1>4, <1>5 DEF Errors

\* Of a dataset without findings the fees balance.
Balanced(o) == \A t \in Range(o.tx) : t.fee # Null /\ t.inSum = t.outSum + t.fee

LEMMA ConservationHolds ==
  ASSUME NEW o, Errors(o) = {}, o.ins # <<>>, o.outs # <<>>
  PROVE  Balanced(o)
<1>1. ConservationErrors(o) = {}
  <2>1. o.tx # <<>>
    BY DEF Errors
  <2>2. ConservationErrors(o) \subseteq Errors(o)
    BY <2>1 DEF Errors
  <2> QED
    BY <2>2
<1>2. Check("conservation", Balanced(o)) \subseteq ConservationErrors(o)
  BY DEF ConservationErrors, Balanced
<1>3. Check("conservation", Balanced(o)) = {}
  BY <1>1, <1>2
<1> QED
  BY <1>3 DEF Check

\* What the checks of ids say.
IdsKnown(d) ==
  /\ \A t \in Range(d.tx) : t.id # Null
  /\ Ids(d.ins) \subseteq Ids(d.tx) /\ Ids(d.outs) \subseteq Ids(d.tx)
  /\ Ids(d.net) \subseteq Ids(d.tx)

LEMMA ValidIdsKnown ==
  ASSUME NEW d, Valid(d)
  PROVE  IdsKnown(d)
<1>1. Errors(d) = {} /\ d.tx # <<>> /\ d.ins # <<>> /\ d.outs # <<>> /\ d.net # <<>>
  BY DEF Valid, Tables
<1>2. Errors(d) = UNION {TransactionErrors(d), InputErrors(d), OutputErrors(d),
                         NetworkErrors(d), ConservationErrors(d)}
  BY <1>1 DEF Errors
<1>3. TransactionErrors(d) = {} /\ InputErrors(d) = {} /\ OutputErrors(d) = {}
      /\ NetworkErrors(d) = {}
  BY <1>1, <1>2
<1> DEFINE format == \A t \in Range(d.tx) : t.id # Null /\ t.id.as # "spaced"
<1>4. Check("txid format", format) \subseteq TransactionErrors(d)
  BY DEF TransactionErrors
<1>5. format
  <2> HIDE DEF format
  <2> QED
    BY <1>3, <1>4 DEF Check
<1>6. Ids(d.ins) \subseteq Ids(d.tx)
  <2>1. Check("input orphan", Ids(d.ins) \subseteq Ids(d.tx)) \subseteq InputErrors(d)
    BY DEF InputErrors
  <2> QED
    BY <1>3, <2>1 DEF Check
<1>7. Ids(d.outs) \subseteq Ids(d.tx)
  <2>1. Check("output orphan", Ids(d.outs) \subseteq Ids(d.tx)) \subseteq OutputErrors(d)
    BY DEF OutputErrors
  <2> QED
    BY <1>3, <2>1 DEF Check
<1>8. Ids(d.net) \subseteq Ids(d.tx)
  <2>1. Check("event orphan", Ids(d.net) \subseteq Ids(d.tx)) \subseteq NetworkErrors(d)
    BY DEF NetworkErrors
  <2> QED
    BY <1>3, <2>1 DEF Check
<1> QED
  BY <1>5, <1>6, <1>7, <1>8 DEF IdsKnown

\* Cleaning leaves something of every table of a valid dataset.
LEMMA ValidSurvivesCleaning ==
  ASSUME NEW d, Tabular(d), Valid(d)
  PROVE  CanExtract(Clean(d))
<1>1. d.tx # <<>> /\ d.ins # <<>> /\ d.outs # <<>> /\ d.net # <<>>
  BY DEF Valid, Tables
<1>2. IdsKnown(d)
  BY ValidIdsKnown
<1>3. PICK addrs, hosts :
        /\ d.tx \in Seq(TransactionRow)
        /\ d.ins \in Seq(CoinRow(addrs)) /\ d.outs \in Seq(CoinRow(addrs))
        /\ d.net \in Seq(EventRow(hosts))
  BY DEF Tabular
<1> DEFINE ids == Ids(d.tx)
           tx == Clean(d).tx
<1>4. Null \notin ids
  BY <1>2 DEF IdsKnown, Ids
<1>5. Ids(d.ins) \subseteq ids \ {Null} /\ Ids(d.outs) \subseteq ids \ {Null}
      /\ Ids(d.net) \subseteq ids \ {Null}
  BY <1>2, <1>4 DEF IdsKnown
<1>6. Ids(tx) = {Plain(id) : id \in ids \ {Null}}
  BY CleanIs
<1>7. /\ Clean(d).ins = Known(FirstOfEach(Identified(d.ins), KeyOf), tx)
      /\ Clean(d).outs = Known(FirstOfEach(Identified(d.outs), KeyOf), tx)
      /\ Clean(d).net = Known(FirstOfEach(Identified(d.net), EventOf), tx)
  BY DEF Clean
<1>8. tx # <<>>
  <2> DEFINE rows == d.tx
  <2>1. rows # <<>> /\ rows \in Seq(TransactionRow)
    BY <1>1, <1>3
  <2> HIDE DEF rows
  <2>2. 1 \in DOMAIN rows
    BY <2>1
  <2>4. rows[1].id \in Ids(rows)
    BY <2>2 DEF Ids, Range
  <2>5. rows = d.tx
    BY DEF rows
  <2>3. Ids(tx) # {}
    BY <1>4, <1>6, <2>4, <2>5
  <2> HIDE DEF tx
  <2> QED
    BY <2>3 DEF Ids, Range
<1> HIDE DEF ids, tx
<1>9. Clean(d).ins # <<>>
  BY <1>1, <1>3, <1>5, <1>6, <1>7, SomeStay, RowsAreRowlike
<1>10. Clean(d).outs # <<>>
  BY <1>1, <1>3, <1>5, <1>6, <1>7, SomeStay, RowsAreRowlike
<1>11. Clean(d).net # <<>>
  BY <1>1, <1>3, <1>5, <1>6, <1>7, SomeStay, RowsAreRowlike
<1> QED
  BY <1>8, <1>9, <1>10, <1>11 DEF CanExtract, tx

-----------------------------------------------------------------------------
(* What a call holds *)

\* A row of a source, its fee as it is stored or as the loader derives it.
SameRow(row, t) ==
  /\ row \in TransactionRow
  /\ row = [t EXCEPT !.fee = row.fee]
  /\ \/ row.fee = t.fee
     \/ t.fee \in {Null, t.inSum - t.outSum} /\ row.fee = Max({t.inSum - t.outSum, 0})

\* While the tables are read: each as it is stored, or not at all.
Reading(o, d) == o.absent = {} /\ \A t \in Tables : o[t] \in {d.db[t], <<>>}

\* Then: no transactions, or those of the database with what was there of the
\* other tables, or all tables of the directory; and events perhaps from the
\* file of their own.
OfDatabase(o, d) ==
  /\ o.tx = d.db.tx
  /\ o.ins \in {d.db.ins, <<>>} /\ o.outs \in {d.db.outs, <<>>}
  /\ o.absent = {}

OfDirectory(o, d) ==
  /\ d.disk \in {"tables", "parquet"} /\ o.tx = Files(d).tx
  /\ DOMAIN o.tx = DOMAIN d.db.tx
  /\ \A i \in DOMAIN o.tx : StoredAs(o.tx[i], d.db.tx[i], d.db, o.absent)
  /\ o.ins = d.db.ins /\ o.outs = d.db.outs

Gathered(o, d, calm) ==
  o.tx # <<>> =>
    /\ OfDatabase(o, d) \/ (OfDirectory(o, d) /\ (calm => d.db.tx = <<>>))
    /\ o.net \in {d.db.net, d.netFile, <<>>}

\* Then: the transactions of one source, whatever was missing of them.
Net(d) == IF d.db.net = <<>> THEN d.netFile ELSE d.db.net

PreparedFrom(o, d, tx) ==
  /\ o.tx \in Seq(TransactionRow)
  /\ DOMAIN o.tx = DOMAIN tx
  /\ \A i \in DOMAIN o.tx : SameRow(o.tx[i], tx[i])
  /\ o.ins \in {d.db.ins, <<>>} /\ o.outs \in {d.db.outs, <<>>}
  /\ o.net = WithAsns(Net(d))

Prepared(o, d, calm) ==
  \E tx \in Sources(d) : PreparedFrom(o, d, tx) /\ (calm => tx = d.db.tx)

\* What ingestion has stored are tables.
LEMMA DatasetRows ==
  ASSUME NEW d \in Datasets
  PROVE  /\ IsDataset(d) /\ Tabular(d.db)
         /\ DOMAIN d.db = Tables
         /\ d.db.tx \in Seq(TransactionRow)
<1>1. IsDataset(d)
  BY DatasetsAssumption
<1>2. PICK addrs, hosts :
        d.db \in [tx : Seq(TransactionRow), ins : Seq(CoinRow(addrs)), outs : Seq(CoinRow(addrs)),
                  net : Seq(EventRow(hosts))]
  BY <1>1 DEF IsDataset
<1> QED
  BY <1>1, <1>2 DEF Tabular, Tables

\* What the directory holds, apart from the form of its files.
LEMMA DirectoryRows ==
  ASSUME NEW d \in Datasets, d.disk \in {"tables", "parquet"}
  PROVE  /\ \A t \in Tables \ {"tx"} : Files(d)[t] = d.db[t]
         /\ DOMAIN Files(d).tx = DOMAIN d.db.tx
         /\ \A i \in DOMAIN d.db.tx : StoredAs(Files(d).tx[i], d.db.tx[i], d.db, d.absent)
<1>1. IsDataset(d)
  BY DatasetRows
<1> DEFINE onDisk == Files(d)
<1>2. /\ \A t \in Tables \ {"tx"} : onDisk[t] = d.db[t]
      /\ DOMAIN onDisk.tx = DOMAIN d.db.tx
      /\ \A i \in DOMAIN d.db.tx : StoredAs(onDisk.tx[i], d.db.tx[i], d.db, d.absent)
  BY <1>1 DEF IsDataset
<1> QED
  BY <1>2

\* A source has the transactions of the database, but for their sizes.
WithSize(t, row) == [t EXCEPT !.size = row.size]

LEMMA SizedRow ==
  ASSUME NEW t \in TransactionRow, NEW row, NEW rows, NEW absent, StoredAs(row, t, rows, absent)
  PROVE  WithSize(t, row) \in TransactionRow
<1>1. row \in TransactionRow
  BY DEF StoredAs
<1> QED
  BY <1>1 DEF WithSize, TransactionRow

LEMMA SizedIs ==
  ASSUME NEW d \in Datasets, d.disk \in {"tables", "parquet"}
  PROVE  /\ Sized(d) \in Seq(TransactionRow) /\ DOMAIN Sized(d) = DOMAIN d.db.tx
         /\ \A i \in DOMAIN d.db.tx : Sized(d)[i] = WithSize(d.db.tx[i], Files(d).tx[i])
         /\ Sized(d) \in Sources(d)
         /\ d.db.tx = <<>> => Sized(d) = d.db.tx
<1> DEFINE tx == d.db.tx
           sized == [i \in DOMAIN tx |-> WithSize(tx[i], Files(d).tx[i])]
<1>1. Sized(d) = sized
  BY DEF Sized, WithSize
<1>2. tx \in Seq(TransactionRow)
  BY DatasetRows
<1>3. ASSUME NEW i \in DOMAIN tx PROVE WithSize(tx[i], Files(d).tx[i]) \in TransactionRow
  <2>1. StoredAs(Files(d).tx[i], tx[i], d.db, d.absent)
    BY DirectoryRows
  <2> HIDE DEF tx
  <2>2. tx[i] \in TransactionRow
    BY <1>2
  <2> QED
    BY <2>1, <2>2, SizedRow
<1>4. Sized(d) \in Sources(d)
  BY DEF Sources
<1> HIDE DEF tx
<1>5. DOMAIN tx = 1..Len(tx) /\ Len(tx) \in Nat
  BY <1>2
<1>6. sized \in Seq(TransactionRow)
  BY <1>3, <1>5
<1>7. tx = <<>> => sized = <<>>
  OBVIOUS
<1> QED
  BY <1>1, <1>4, <1>6, <1>7 DEF tx

\* A fee the loader derives is a number.
LEMMA DerivedFee ==
  ASSUME NEW x \in Int
  PROVE  /\ Max({x, 0}) \in Int
         /\ x >= 0 => Max({x, 0}) = x
<1>1. CASE x >= 0
  <2>1. Max({x, 0}) = x
    BY <1>1, GreatestIs
  <2> QED
    BY <2>1
<1>2. CASE ~(x >= 0)
  <2>1. Max({x, 0}) = 0
    BY <1>2, GreatestIs
  <2> QED
    BY <1>2, <2>1
<1> QED
  BY <1>1, <1>2

\* Completing what was gathered yields the transactions of the dataset.
Complete(t, o) ==
  [t EXCEPT !.fee = IF "fee" \in o.absent THEN Max({t.inSum - t.outSum, 0}) ELSE @,
            !.nin = IF "counts" \in o.absent THEN Count(o.ins, t.id) ELSE @,
            !.nout = IF "counts" \in o.absent THEN Count(o.outs, t.id) ELSE @]

LEMMA NothingToComplete ==
  ASSUME NEW t \in TransactionRow, NEW o, o.absent = {}
  PROVE  Complete(t, o) = t /\ SameRow(t, t)
  BY DEF Complete, SameRow, TransactionRow

LEMMA CompletedRow ==
  ASSUME NEW t \in TransactionRow, NEW row, NEW o, NEW rows,
         StoredAs(row, t, rows, o.absent), o.ins = rows.ins, o.outs = rows.outs
  PROVE  SameRow(Complete(row, o), WithSize(t, row))
<1> DEFINE derived == t.inSum - t.outSum
           fee == IF "fee" \in o.absent THEN Max({derived, 0}) ELSE t.fee
           u == WithSize(t, row)
<1>1. /\ row \in TransactionRow
      /\ row = [t EXCEPT !.size = row.size,
                         !.fee = IF "fee" \in o.absent THEN row.fee ELSE @,
                         !.nin = IF "counts" \in o.absent THEN row.nin ELSE @,
                         !.nout = IF "counts" \in o.absent THEN row.nout ELSE @]
      /\ "fee" \in o.absent => t.fee \in {Null, derived}
      /\ "counts" \in o.absent => t.nin = Count(o.ins, t.id) /\ t.nout = Count(o.outs, t.id)
  BY DEF StoredAs
<1>2. /\ row.id = t.id /\ row.inSum = t.inSum /\ row.outSum = t.outSum /\ row.time = t.time
      /\ "fee" \notin o.absent => row.fee = t.fee
      /\ "counts" \notin o.absent => row.nin = t.nin /\ row.nout = t.nout
  BY <1>1 DEF TransactionRow
<1>3. derived \in Int /\ t.fee \in Int \cup {Null}
  BY DEF TransactionRow
<1>8. /\ u \in TransactionRow /\ u.size = row.size
      /\ u.id = t.id /\ u.inSum = t.inSum /\ u.outSum = t.outSum /\ u.time = t.time
      /\ u.fee = t.fee /\ u.nin = t.nin /\ u.nout = t.nout
  BY <1>1 DEF WithSize, TransactionRow
<1> HIDE DEF derived, u
<1>4. fee \in Int \cup {Null}
  BY <1>3, DerivedFee
<1>5. Complete(row, o) = [u EXCEPT !.fee = fee]
  <2> DEFINE nin == IF "counts" \in o.absent THEN Count(o.ins, t.id) ELSE row.nin
             nout == IF "counts" \in o.absent THEN Count(o.outs, t.id) ELSE row.nout
             rfee == IF "fee" \in o.absent THEN Max({derived, 0}) ELSE row.fee
  <2>1. nin = t.nin /\ nout = t.nout /\ rfee = fee
    BY <1>1, <1>2
  <2>2. Complete(row, o) = [row EXCEPT !.fee = rfee, !.nin = nin, !.nout = nout]
    BY <1>2 DEF Complete, derived
  <2> HIDE DEF fee, nin, nout, rfee
  <2>3. [row EXCEPT !.fee = rfee, !.nin = nin, !.nout = nout] = [u EXCEPT !.fee = fee]
    <3>1. /\ row \in TransactionRow /\ u \in TransactionRow
          /\ row.id = u.id /\ row.time = u.time /\ row.size = u.size
          /\ row.inSum = u.inSum /\ row.outSum = u.outSum
          /\ nin = u.nin /\ nout = u.nout /\ rfee = fee
      BY <1>1, <1>2, <1>8, <2>1
    <3> QED
      BY <3>1 DEF TransactionRow
  <2> QED
    BY <2>2, <2>3
<1>6. fee = t.fee \/ (t.fee \in {Null, derived} /\ fee = Max({derived, 0}))
  BY <1>1
<1> HIDE DEF fee
<1>7. [u EXCEPT !.fee = fee] \in TransactionRow /\ [u EXCEPT !.fee = fee].fee = fee
  BY <1>4, <1>8 DEF TransactionRow
<1>9. u.inSum - u.outSum = derived
  BY <1>8 DEF derived
<1>10. SameRow(Complete(row, o), u)
  BY <1>5, <1>6, <1>7, <1>8, <1>9 DEF SameRow
<1> QED
  BY <1>10 DEF u

LEMMA NetIs ==
  ASSUME NEW d \in Datasets, NEW net, net \in {d.db.net, d.netFile, <<>>}, net # <<>>
  PROVE  WithAsns(net) = WithAsns(Net(d))
<1>1. <<>> \in {d.netFile, d.db.net} \/ WithAsns(d.netFile) = WithAsns(d.db.net)
  BY DatasetRows DEF IsDataset
<1> QED
  BY <1>1 DEF Net

LEMMA AlignedIs ==
  ASSUME obs = Loaded(obs, obs.absent)
  PROVE  Aligned = Loaded([tx |-> [i \in DOMAIN obs.tx |-> Complete(obs.tx[i], obs)],
                           ins |-> obs.ins, outs |-> obs.outs, net |-> WithAsns(obs.net)],
                          obs.absent)
<1> DEFINE tx == [i \in DOMAIN obs.tx |-> Complete(obs.tx[i], obs)]
           net == WithAsns(obs.net)
           fields == {"tx", "ins", "outs", "net", "tagged", "absent"}
           a == [tx |-> tx, ins |-> obs.ins, outs |-> obs.outs, net |-> net]
           r == [obs EXCEPT !.tx = tx, !.net = net]
           q == Loaded(a, obs.absent)
<1>1. DOMAIN obs = fields /\ obs.tagged = {}
  BY DEF Loaded
<1>2. Aligned = r
  <2>1. [obs EXCEPT !.net = WithAsns(@)] = [obs EXCEPT !.net = net]
    BY <1>1
  <2> QED
    BY DEF Aligned, Complete, Loaded
<1> HIDE DEF tx, net
<1>3. /\ r = [f \in fields |-> r[f]]
      /\ r.tx = tx /\ r.ins = obs.ins /\ r.outs = obs.outs /\ r.net = net
      /\ r.tagged = obs.tagged /\ r.absent = obs.absent
  BY <1>1
<1>4. /\ q = [f \in fields |-> q[f]]
      /\ q.tx = tx /\ q.ins = obs.ins /\ q.outs = obs.outs /\ q.net = net
      /\ q.tagged = {} /\ q.absent = obs.absent
  BY DEF Loaded
<1> HIDE DEF r, q
<1>5. \A f \in fields : r[f] = q[f]
  BY <1>1, <1>3, <1>4
<1> HIDE DEF fields
<1>6. Aligned = q
  BY <1>2, <1>3, <1>4, <1>5
<1> QED
  BY <1>6 DEF q, a, tx, net

LEMMA AlignPrepares ==
  ASSUME NEW d \in Datasets, NEW calm, obs = Loaded(obs, obs.absent), Gathered(obs, d, calm),
         obs.tx # <<>>, obs.net # <<>>
  PROVE  Aligned = Loaded(Aligned, Aligned.absent) /\ Prepared(Aligned, d, calm)
<1> DEFINE tx == [i \in DOMAIN obs.tx |-> Complete(obs.tx[i], obs)]
           net == WithAsns(obs.net)
           a == [tx |-> tx, ins |-> obs.ins, outs |-> obs.outs, net |-> net]
<1>1. Aligned = Loaded(a, obs.absent)
  BY AlignedIs
<1>2. /\ obs.net \in {d.db.net, d.netFile, <<>>}
      /\ OfDatabase(obs, d) \/ (OfDirectory(obs, d) /\ (calm => d.db.tx = <<>>))
  BY DEF Gathered
<1>3. net = WithAsns(Net(d))
  BY <1>2, NetIs
<1> HIDE DEF net
<1>4. DOMAIN tx = DOMAIN obs.tx
  OBVIOUS
<1>5. DOMAIN obs.tx = DOMAIN d.db.tx
  BY <1>2 DEF OfDatabase, OfDirectory
<1>6. obs.ins \in {d.db.ins, <<>>} /\ obs.outs \in {d.db.outs, <<>>}
  BY <1>2 DEF OfDatabase, OfDirectory
<1>10. d.db.tx \in Seq(TransactionRow) /\ d.db.tx \in Sources(d)
  BY DatasetRows DEF Sources
<1>7. PICK source \in Sources(d) :
        /\ DOMAIN source = DOMAIN d.db.tx /\ (calm => source = d.db.tx)
        /\ \A i \in DOMAIN obs.tx : SameRow(tx[i], source[i])
  <2>1. CASE OfDatabase(obs, d)
    <3>1. ASSUME NEW i \in DOMAIN obs.tx PROVE SameRow(tx[i], d.db.tx[i])
      <4>1. tx[i] = Complete(obs.tx[i], obs)
        OBVIOUS
      <4> HIDE DEF tx
      <4>2. obs.tx[i] = d.db.tx[i] /\ obs.absent = {}
        BY <2>1 DEF OfDatabase
      <4>3. d.db.tx[i] \in TransactionRow
        BY <1>5, <1>10
      <4> QED
        BY <4>1, <4>2, <4>3, NothingToComplete
    <3> HIDE DEF tx
    <3> QED
      BY <1>10, <3>1
  <2>2. CASE OfDirectory(obs, d) /\ (calm => d.db.tx = <<>>)
    <3>1. d.disk \in {"tables", "parquet"} /\ obs.tx = Files(d).tx
      BY <2>2 DEF OfDirectory
    <3>2. /\ DOMAIN Sized(d) = DOMAIN d.db.tx /\ Sized(d) \in Sources(d)
          /\ d.db.tx = <<>> => Sized(d) = d.db.tx
          /\ \A i \in DOMAIN d.db.tx : Sized(d)[i] = WithSize(d.db.tx[i], Files(d).tx[i])
      BY <3>1, SizedIs
    <3>3. ASSUME NEW i \in DOMAIN obs.tx PROVE SameRow(tx[i], Sized(d)[i])
      <4>1. tx[i] = Complete(obs.tx[i], obs)
        OBVIOUS
      <4> HIDE DEF tx
      <4>2. StoredAs(obs.tx[i], d.db.tx[i], d.db, obs.absent) /\ obs.ins = d.db.ins /\ obs.outs = d.db.outs
        BY <2>2 DEF OfDirectory
      <4>3. Sized(d)[i] = WithSize(d.db.tx[i], obs.tx[i])
        BY <1>5, <3>1, <3>2
      <4>4. d.db.tx[i] \in TransactionRow
        BY <1>5, <1>10
      <4> QED
        BY <4>1, <4>2, <4>3, <4>4, CompletedRow
    <3> HIDE DEF tx
    <3> QED
      BY <2>2, <3>2, <3>3
  <2> QED
    BY <1>2, <2>1, <2>2
<1>9. tx \in Seq(TransactionRow)
  <2>1. \A i \in DOMAIN tx : tx[i] \in TransactionRow
    BY <1>7 DEF SameRow
  <2>2. d.db.tx \in Seq(TransactionRow)
    BY DatasetRows
  <2>3. tx = [i \in 1..Len(d.db.tx) |-> tx[i]] /\ Len(d.db.tx) \in Nat
    BY <1>5, <2>2
  <2> HIDE DEF tx
  <2>4. \A i \in 1..Len(d.db.tx) : tx[i] \in TransactionRow
    BY <1>4, <1>5, <2>1, <2>2
  <2> DEFINE n == Len(d.db.tx)
  <2>5. n \in Nat /\ tx = [i \in 1..n |-> tx[i]] /\ \A i \in 1..n : tx[i] \in TransactionRow
    BY <2>3, <2>4
  <2> HIDE DEF n
  <2> QED
    BY ONLY <2>5
<1> HIDE DEF tx
<1>8. /\ Aligned.tx = tx /\ Aligned.ins = obs.ins /\ Aligned.outs = obs.outs
      /\ Aligned.net = net
      /\ Aligned = Loaded(Aligned, Aligned.absent)
  BY <1>1 DEF Loaded
<1>11. PreparedFrom(Aligned, d, source)
  BY <1>3, <1>4, <1>5, <1>6, <1>7, <1>8, <1>9 DEF PreparedFrom
<1> QED
  BY <1>7, <1>8, <1>11 DEF Prepared

\* With nothing missing there is nothing to align.
LEMMA AlignedAlready ==
  ASSUME NEW d \in Datasets, obs = Loaded(obs, obs.absent), obs.absent = {},
         \A t \in Tables : obs[t] = d.db[t],
         \A e \in Range(d.db.net) : e.asn # Null
  PROVE  Aligned.absent = {} /\ \A t \in Tables : Aligned[t] = d.db[t]
<1> DEFINE tx == [i \in DOMAIN obs.tx |-> Complete(obs.tx[i], obs)]
           net == WithAsns(obs.net)
           a == [tx |-> tx, ins |-> obs.ins, outs |-> obs.outs, net |-> net]
<1>1. Aligned = Loaded(a, obs.absent)
  BY AlignedIs
<1>2. obs.tx = d.db.tx /\ obs.ins = d.db.ins /\ obs.outs = d.db.outs /\ obs.net = d.db.net
  BY DEF Tables
<1>3. tx = obs.tx
  <2>1. obs.tx \in Seq(TransactionRow)
    BY <1>2, DatasetRows
  <2>2. \A i \in DOMAIN obs.tx : Complete(obs.tx[i], obs) = obs.tx[i]
    BY <2>1, NothingToComplete
  <2>3. obs.tx = [i \in DOMAIN obs.tx |-> obs.tx[i]]
    BY <2>1
  <2> QED
    BY <2>2, <2>3
<1>4. net = obs.net
  <2> DEFINE events == obs.net
  <2>1. PICK hosts : events \in Seq(EventRow(hosts))
    BY <1>2, DatasetRows DEF Tabular
  <2>2. \A i \in DOMAIN events : events[i].asn # Null
    BY <1>2 DEF Range
  <2> HIDE DEF events
  <2>3. \A i \in DOMAIN events : events[i] \in EventRow(hosts)
    BY <2>1
  <2>4. ASSUME NEW i \in DOMAIN events
        PROVE  [events[i] EXCEPT !.asn = IF @ = Null THEN 0 ELSE @] = events[i]
    BY <2>2, <2>3 DEF EventRow
  <2>5. events = [i \in DOMAIN events |-> events[i]]
    BY <2>1
  <2>6. WithAsns(events) = events
    BY <2>4, <2>5 DEF WithAsns
  <2> QED
    BY <2>6 DEF events
<1> HIDE DEF tx, net
<1>5. /\ Aligned.tx = d.db.tx /\ Aligned.ins = d.db.ins /\ Aligned.outs = d.db.outs
      /\ Aligned.net = d.db.net /\ Aligned.absent = {}
  BY <1>1, <1>2, <1>3, <1>4 DEF Loaded
<1> QED
  BY <1>5 DEF Tables

LEMMA SourceRows ==
  ASSUME NEW d \in Datasets, NEW tx \in Sources(d)
  PROVE  tx \in Seq(TransactionRow)
<1>1. CASE tx = d.db.tx
  BY <1>1, DatasetRows
<1>2. CASE d.disk \in {"tables", "parquet"} /\ tx = Sized(d)
  BY <1>2, SizedIs
<1> QED
  BY <1>1, <1>2 DEF Sources

\* What passes validation and can be scored cleans to the dataset itself: a
\* fee that was derived is the one that balances the totals.
LEMMA PreparedIsWhole ==
  ASSUME dataset \in Datasets, obs = Loaded(obs, obs.absent),
         NEW tx \in Sources(dataset), PreparedFrom(obs, dataset, tx),
         Errors(obs) = {}, CanExtract(Clean(obs))
  PROVE  Clean(obs) = Content(tx)
<1> DEFINE db0 == dataset.db
           whole == Loaded([db0 EXCEPT !.tx = tx, !.net = WithAsns(Net(dataset))], {})
<1>1. Content(tx) = Clean(whole)
  BY DEF Content, Net
<1>2. /\ DOMAIN db0 = Tables /\ tx \in Seq(TransactionRow)
  BY DatasetRows, SourceRows
<1>3. /\ whole.tx = tx /\ whole.ins = db0.ins /\ whole.outs = db0.outs
      /\ whole.net = WithAsns(Net(dataset)) /\ whole.tagged = {}
  BY <1>2 DEF Loaded, Tables
<1> HIDE DEF whole
<1>4. obs.ins # <<>> /\ obs.outs # <<>>
  <2>1. Clean(obs).ins # <<>> /\ Clean(obs).outs # <<>>
    BY DEF CanExtract
  <2>2. /\ obs.ins = <<>> => Clean(obs).ins = <<>>
        /\ obs.outs = <<>> => Clean(obs).outs = <<>>
    BY NothingStaysNothing DEF Clean
  <2> QED
    BY <2>1, <2>2
<1>5. obs.ins = db0.ins /\ obs.outs = db0.outs /\ obs.net = WithAsns(Net(dataset))
  BY <1>4 DEF PreparedFrom
<1>6. Balanced(obs)
  BY <1>4, ConservationHolds
<1>7. DOMAIN obs.tx = DOMAIN tx
  BY DEF PreparedFrom
<1>8. ASSUME NEW i \in DOMAIN obs.tx PROVE Alike(obs.tx[i], tx[i])
  <2> DEFINE row == obs.tx[i]
             t == tx[i]
  <2>1. SameRow(row, t)
    BY DEF PreparedFrom
  <2>2. t \in TransactionRow
    BY <1>2, <1>7
  <2>3. row.fee # Null /\ row.inSum = row.outSum + row.fee
    BY <1>6 DEF Balanced, Range
  <2> HIDE DEF row, t
  <2>4. /\ row \in TransactionRow /\ row = [t EXCEPT !.fee = row.fee]
        /\ row.fee = t.fee \/ t.fee \in {Null, t.inSum - t.outSum}
    BY <2>1 DEF SameRow
  <2>5. row.inSum = t.inSum /\ row.outSum = t.outSum
    BY <2>2, <2>4 DEF TransactionRow
  <2>6. row.fee \in Int /\ t.inSum \in Int /\ t.outSum \in Int
    BY <2>2, <2>3, <2>4 DEF TransactionRow
  <2>7. row.fee = t.inSum - t.outSum
    BY <2>3, <2>5, <2>6
  <2>8. Fee(row) = row.fee
    BY <2>3 DEF Fee
  <2>9. Fee(t) = row.fee
    BY <2>3, <2>4, <2>7 DEF Fee
  <2> QED
    BY <2>2, <2>4, <2>8, <2>9 DEF Alike, row, t
<1>9. AlikeRows(obs.tx, whole.tx)
  BY <1>3, <1>7, <1>8 DEF AlikeRows
<1>10. obs.tx \in Seq(TransactionRow)
  BY DEF PreparedFrom
<1>11. obs.tagged = {}
  BY DEF Loaded
<1> QED
  BY <1>1, <1>2, <1>3, <1>5, <1>9, <1>10, <1>11, CleanAlike

-----------------------------------------------------------------------------
(* The invariant of a call *)

\* What a call holds when it comes to a stage; calm says that nothing has
\* disturbed it.
Expects(s, o, d, calm) ==
  /\ s \in Tables \cup {"artifacts", "fallback"} => Reading(o, d)
  /\ calm /\ s \in {"ins", "outs", "net", "fallback"} => o.tx = d.db.tx
  /\ s = "align" => Gathered(o, d, calm)
  /\ s \in {"validate", "predict"} => Prepared(o, d, calm)
  /\ s = "predict" => Errors(o) = {}

LEMMA ExpectsLess ==
  ASSUME NEW s, NEW o, NEW d, NEW calm, NEW less, less => calm, Expects(s, o, d, calm)
  PROVE  Expects(s, o, d, less)
<1>1. Gathered(o, d, calm) => Gathered(o, d, less)
  BY DEF Gathered
<1>2. Prepared(o, d, calm) => Prepared(o, d, less)
  BY DEF Prepared
<1> QED
  BY <1>1, <1>2 DEF Expects

LoadInv ==
  /\ dataset \in Datasets
  /\ DOMAIN db = Tables /\ \A t \in Tables : db[t] \in {dataset.db[t], <<>>}
  /\ disk \in {dataset.disk, "gone"}
  /\ obs = Loaded(obs, obs.absent)
  /\ Expects(stage, obs, dataset, Calm)
  /\ Calm => db = dataset.db
  /\ stage # "end" => outcome = "running" /\ results = <<>>

WholeInv == LoadInv /\ ScoresTheWholeDataset

LEMMA LoadedAgain ==
  ASSUME NEW d, NEW absent
  PROVE  Loaded(d, absent) = Loaded(Loaded(d, absent), Loaded(d, absent).absent)
  BY DEF Loaded

LEMMA NothingLoaded ==
  /\ Nothing = Loaded(Nothing, Nothing.absent)
  /\ Nothing.tx = <<>> /\ Nothing.absent = {} /\ \A t \in Tables : Nothing[t] = <<>>
<1>1. Nothing = Loaded(Nothing, Nothing.absent)
  BY LoadedAgain DEF Nothing
<1>2. Nothing.tx = <<>> /\ Nothing.ins = <<>> /\ Nothing.outs = <<>> /\ Nothing.net = <<>>
      /\ Nothing.absent = {}
  BY DEF Nothing, Loaded, Tables
<1> QED
  BY <1>1, <1>2 DEF Tables

\* What is to be scored does not change during the call.
LEMMA WholeStays ==
  ASSUME dataset' = dataset, call' = call, NEW tx
  PROVE  Rows(Content(tx))' = Rows(Content(tx))
<1>1. Content(tx)' = Content(tx)
  BY DEF Content
<1>2. Limit' = Limit
  BY DEF Limit
<1> QED
  BY <1>1, <1>2 DEF Rows

LEMMA WholeKept ==
  ASSUME WholeInv, dataset' = dataset, call' = call, results' = results, outcome' = outcome,
         Calm' => Calm
  PROVE  ScoresTheWholeDataset'
<1> DEFINE features == [i \in DOMAIN results |-> results[i].features]
<1>1. CASE outcome = "scored"
  <2>1. PICK tx \in Sources(dataset) :
          features = Rows(Content(tx)) /\ (Calm => tx = dataset.db.tx)
    BY <1>1 DEF WholeInv, ScoresTheWholeDataset
  <2>2. Rows(Content(tx))' = Rows(Content(tx))
    BY WholeStays
  <2>3. features' = features
    OBVIOUS
  <2>4. features' = Rows(Content(tx))' /\ tx \in Sources(dataset') /\ (Calm' => tx = dataset'.db.tx)
    BY <2>1, <2>2, <2>3
  <2> QED
    BY <1>1, <2>4 DEF ScoresTheWholeDataset
<1>2. CASE outcome # "scored"
  BY <1>2 DEF WholeInv, ScoresTheWholeDataset
<1> QED
  BY <1>1, <1>2

LEMMA WholeUnscored ==
  ASSUME results' = <<>>, outcome' # "scored"
  PROVE  ScoresTheWholeDataset'
  BY DEF ScoresTheWholeDataset

LEMMA WholeInit ==
  ASSUME InferenceInit
  PROVE  WholeInv
<1>1. dataset \in Datasets /\ db = dataset.db /\ disk = dataset.disk /\ stage = "artifacts"
      /\ obs = Nothing /\ outcome = "running" /\ results = <<>>
  BY DEF InferenceInit
<1>2. DOMAIN db = Tables
  BY <1>1, DatasetRows
<1>3. obs = Loaded(obs, obs.absent) /\ Reading(obs, dataset)
  BY <1>1, NothingLoaded DEF Reading
<1>4. Expects(stage, obs, dataset, Calm)
  BY <1>1, <1>3 DEF Expects, Tables
<1>5. LoadInv
  BY <1>1, <1>2, <1>3, <1>4 DEF LoadInv
<1>6. ScoresTheWholeDataset
  BY <1>1 DEF ScoresTheWholeDataset
<1> QED
  BY <1>5, <1>6 DEF WholeInv

\* What the environment does.
LEMMA WholeEnvironment ==
  ASSUME WholeInv, UNCHANGED <<dataset, call, stage, obs, outcome, results>>,
         db' = db \/ \E t \in Tables : db' = [db EXCEPT ![t] = <<>>],
         disk' \in {disk, "gone"},
         Calm' => Calm /\ db' = db
  PROVE  WholeInv'
<1>1. ScoresTheWholeDataset'
  BY WholeKept
<1>2. LoadInv
  BY DEF WholeInv
<1>3. DOMAIN db' = Tables /\ \A t \in Tables : db'[t] \in {dataset'.db[t], <<>>}
  BY <1>2 DEF LoadInv
<1>4. disk' \in {dataset'.disk, "gone"}
  BY <1>2 DEF LoadInv
<1>5. obs' = Loaded(obs', obs'.absent)
  <2>1. obs = Loaded(obs, obs.absent)
    BY <1>2 DEF LoadInv
  <2> QED
    BY <2>1
<1>6. Expects(stage', obs', dataset', Calm')
  <2>1. Expects(stage, obs, dataset, Calm)
    BY <1>2 DEF LoadInv
  <2>2. Expects(stage, obs, dataset, Calm')
    BY <2>1, ExpectsLess
  <2> QED
    BY <2>2
<1>7. Calm' => db' = dataset'.db
  BY <1>2 DEF LoadInv
<1>8. LoadInv'
  BY <1>2, <1>3, <1>4, <1>5, <1>6, <1>7 DEF LoadInv
<1> QED
  BY <1>1, <1>8 DEF WholeInv

\* A call that raises returns nothing.
LEMMA WholeRaises ==
  ASSUME WholeInv, stage # "end", NEW error, error # "scored", RaiseError(error),
         UNCHANGED <<backend, call, faulted>>
  PROVE  WholeInv'
<1>1. stage' = "end" /\ outcome' = error /\ obs' = obs /\ results' = results
  BY DEF RaiseError
<1>2. LoadInv
  BY DEF WholeInv
<1>3. results' = <<>>
  BY <1>1, <1>2 DEF LoadInv
<1>4. ScoresTheWholeDataset'
  BY <1>1, <1>3, WholeUnscored
<1>5. dataset' = dataset /\ db' = db /\ disk' = disk
  BY DEF backend
<1>6. LoadInv'
  <2>1. obs' = Loaded(obs', obs'.absent)
    BY <1>1, <1>2 DEF LoadInv
  <2>2. Calm' = Calm
    BY DEF Calm, backend
  <2>3. Expects(stage', obs', dataset', Calm')
    BY <1>1 DEF Expects, Tables
  <2>4. Calm' => db' = dataset'.db
    BY <1>2, <1>5, <2>2 DEF LoadInv
  <2> QED
    BY <1>1, <1>2, <1>5, <2>1, <2>3, <2>4 DEF LoadInv
<1> QED
  BY <1>4, <1>6 DEF WholeInv

LEMMA WholeProceeds ==
  ASSUME WholeInv, stage # "end", NEW next, next # "end", Proceed(next),
         UNCHANGED <<backend, call>>, faulted' = faulted \/ faulted' = TRUE,
         obs' = Loaded(obs', obs'.absent), Expects(next, obs', dataset, Calm')
  PROVE  WholeInv'
<1>1. stage' = next /\ outcome' = outcome /\ results' = results
  BY DEF Proceed
<1>2. LoadInv
  BY DEF WholeInv
<1>3. dataset' = dataset /\ db' = db /\ disk' = disk
  BY DEF backend
<1>6. Calm' => Calm
  BY DEF Calm, backend
<1>4. ScoresTheWholeDataset'
  BY <1>1, <1>3, <1>6, WholeKept
<1>5. LoadInv'
  <2>1. Calm' => db' = dataset'.db
    BY <1>2, <1>3, <1>6 DEF LoadInv
  <2>2. Expects(stage', obs', dataset', Calm')
    BY <1>1, <1>3
  <2> QED
    BY <1>1, <1>2, <1>3, <2>1, <2>2 DEF LoadInv
<1> QED
  BY <1>4, <1>5 DEF WholeInv

LEMMA WholeRead ==
  ASSUME WholeInv, ReadTable
  PROVE  WholeInv'
<1>1. /\ stage \in Tables /\ obs' = [obs EXCEPT ![stage] = db[stage]]
      /\ Proceed(NextRead[stage]) /\ UNCHANGED <<backend, call, faulted>>
  BY DEF ReadTable
<1>2. LoadInv
  BY DEF WholeInv
<1>3. /\ obs = Loaded(obs, obs.absent) /\ Reading(obs, dataset)
      /\ db[stage] \in {dataset.db[stage], <<>>}
  BY <1>1, <1>2 DEF LoadInv, Expects
<1> DEFINE fields == {"tx", "ins", "outs", "net", "tagged", "absent"}
           o == obs'
           q == Loaded(o, o.absent)
<1>4. DOMAIN obs = fields /\ obs.tagged = {}
  BY <1>3 DEF Loaded
<1>5. /\ o = [f \in fields |-> o[f]] /\ o.tagged = {} /\ o.absent = obs.absent
      /\ \A t \in Tables : o[t] = IF t = stage THEN db[t] ELSE obs[t]
  BY <1>1, <1>4 DEF Tables
<1>6. o = q
  <2>1. /\ q = [f \in fields |-> q[f]] /\ q.tagged = {} /\ q.absent = o.absent
        /\ q.tx = o.tx /\ q.ins = o.ins /\ q.outs = o.outs /\ q.net = o.net
    BY DEF Loaded
  <2> HIDE DEF o, q
  <2>2. \A f \in fields : o[f] = q[f]
    BY <1>5, <2>1
  <2> HIDE DEF fields
  <2> QED
    BY <1>5, <2>1, <2>2
<1>7. Reading(o, dataset)
  <2> HIDE DEF o
  <2> QED
    BY <1>3, <1>5 DEF Reading
<1> DEFINE next == NextRead[stage]
<1>8. next \in {"ins", "outs", "net", "fallback"}
  BY <1>1 DEF NextRead, Tables
<1>13. Calm' => o.tx = dataset.db.tx
  <2> HIDE DEF o
  <2>1. Calm' => Calm
    BY <1>1 DEF Calm, backend
  <2>2. CASE stage = "tx"
    BY <1>2, <1>5, <2>1, <2>2 DEF LoadInv, Tables
  <2>3. CASE stage # "tx"
    <3>1. o.tx = obs.tx /\ stage \in {"ins", "outs", "net"}
      BY <1>1, <1>5, <2>3 DEF Tables
    <3>2. Calm => obs.tx = dataset.db.tx
      BY <1>2, <3>1 DEF LoadInv, Expects
    <3> QED
      BY <2>1, <3>1, <3>2
  <2> QED
    BY <2>2, <2>3
<1>9. Expects(next, o, dataset, Calm') /\ next # "end"
  <2> HIDE DEF o, next
  <2> QED
    BY <1>7, <1>8, <1>13 DEF Expects
<1>10. stage # "end"
  BY <1>1 DEF Tables
<1> HIDE DEF next, q
<1>11. obs' = Loaded(obs', obs'.absent)
  BY <1>6 DEF q
<1>12. Proceed(next)
  BY <1>1 DEF next
<1> QED
  BY <1>1, <1>9, <1>10, <1>11, <1>12, WholeProceeds

LEMMA WholeReadFails ==
  ASSUME WholeInv, ReadFails
  PROVE  WholeInv'
<1>1. /\ stage \in Tables /\ obs' = (IF stage = "net" THEN obs ELSE Nothing)
      /\ Proceed("fallback") /\ UNCHANGED <<backend, call>> /\ faulted' = TRUE
  BY DEF ReadFails
<1>2. obs = Loaded(obs, obs.absent) /\ Reading(obs, dataset)
  BY <1>1 DEF WholeInv, LoadInv, Expects
<1>3. obs' = Loaded(obs', obs'.absent) /\ Reading(obs', dataset)
  <2>1. CASE stage = "net"
    <3>1. obs' = obs
      BY <1>1, <2>1
    <3> QED
      BY <1>2, <3>1
  <2>2. CASE stage # "net"
    <3>1. obs' = Nothing
      BY <1>1, <2>2
    <3>2. Reading(Nothing, dataset)
      BY NothingLoaded DEF Reading
    <3> QED
      BY <3>1, <3>2, NothingLoaded
  <2> QED
    BY <2>1, <2>2
<1>4. Expects("fallback", obs', dataset, Calm')
  <2>1. ~Calm'
    BY <1>1 DEF Calm
  <2> QED
    BY <1>3, <2>1 DEF Expects
<1>5. stage # "end"
  BY <1>1 DEF Tables
<1> QED
  BY <1>1, <1>3, <1>4, <1>5, WholeProceeds

\* What is found on disk is the dataset, or nothing.
LEMMA DiskHoldsTheDataset ==
  ASSUME dataset \in Datasets, disk \in {dataset.disk, "gone"},
         NEW calm, calm => dataset.db.tx = <<>>
  PROVE  FromDisk = Loaded(FromDisk, FromDisk.absent) /\ Gathered(FromDisk, dataset, calm)
<1>1. CASE disk \in {"tables", "parquet"}
  <2> DEFINE onDisk == Files(dataset)
             absent == dataset.absent
             d == dataset.db
  <2>1. dataset.disk \in {"tables", "parquet"}
    BY <1>1
  <2>2. /\ \A t \in Tables \ {"tx"} : onDisk[t] = d[t]
        /\ DOMAIN onDisk.tx = DOMAIN d.tx
        /\ \A i \in DOMAIN d.tx : StoredAs(onDisk.tx[i], d.tx[i], d, absent)
    BY <2>1, DirectoryRows
  <2>3. FromDisk = Loaded(onDisk, absent)
    BY <1>1 DEF FromDisk
  <2> HIDE DEF onDisk, absent
  <2>4. /\ FromDisk.tx = onDisk.tx /\ FromDisk.ins = d.ins /\ FromDisk.outs = d.outs
        /\ FromDisk.net = d.net /\ FromDisk.absent = absent
    BY <2>2, <2>3 DEF Loaded, Tables
  <2>5. OfDirectory(FromDisk, dataset)
    BY <2>1, <2>2, <2>4 DEF OfDirectory, onDisk
  <2> QED
    BY <2>3, <2>4, <2>5, LoadedAgain DEF Gathered
<1>2. CASE disk \notin {"tables", "parquet"}
  <2>1. FromDisk = Nothing
    BY <1>2 DEF FromDisk
  <2> QED
    BY <2>1, NothingLoaded DEF Gathered
<1> QED
  BY <1>1, <1>2

LEMMA WholeFallback ==
  ASSUME WholeInv, LoadFallback
  PROVE  WholeInv'
<1>1. stage = "fallback" /\ stage # "end" /\ UNCHANGED <<backend, call, faulted>>
  BY DEF LoadFallback
<1>2. /\ obs = Loaded(obs, obs.absent) /\ Reading(obs, dataset)
      /\ dataset \in Datasets /\ disk \in {dataset.disk, "gone"}
      /\ Calm => obs.tx = dataset.db.tx
  BY <1>1 DEF WholeInv, LoadInv, Expects
<1>5. Calm' = Calm
  BY <1>1 DEF Calm, backend
<1>3. CASE obs.tx = <<>> /\ disk = "csv"
  <2>1. RaiseError("TypeError")
    BY <1>3 DEF LoadFallback
  <2> QED
    BY <1>1, <2>1, WholeRaises
<1>4. CASE ~(obs.tx = <<>> /\ disk = "csv")
  <2> DEFINE found == IF obs.tx # <<>> THEN obs ELSE FromDisk
  <2>1. /\ obs' = (IF found.net = <<>> /\ disk # "gone"
                   THEN [found EXCEPT !.net = dataset.netFile] ELSE found)
        /\ Proceed("align")
    BY <1>4 DEF LoadFallback
  <2>2. found = Loaded(found, found.absent) /\ Gathered(found, dataset, Calm)
    <3>1. CASE obs.tx # <<>>
      <4>1. OfDatabase(obs, dataset) /\ obs.net \in {dataset.db.net, <<>>}
        BY <1>2, <3>1 DEF Reading, OfDatabase, Tables
      <4> QED
        BY <1>2, <3>1, <4>1 DEF Gathered
    <3>2. CASE obs.tx = <<>>
      <4>1. Calm => dataset.db.tx = <<>>
        BY <1>2, <3>2
      <4>2. FromDisk = Loaded(FromDisk, FromDisk.absent) /\ Gathered(FromDisk, dataset, Calm)
        BY <1>2, <4>1, DiskHoldsTheDataset
      <4> QED
        BY <3>2, <4>2
    <3> QED
      BY <3>1, <3>2
  <2> HIDE DEF found
  <2> DEFINE net == dataset.netFile
             fields == {"tx", "ins", "outs", "net", "tagged", "absent"}
             r == [found EXCEPT !.net = net]
             q == Loaded(r, r.absent)
  <2>3. r = q /\ Gathered(r, dataset, Calm)
    <3>1. DOMAIN found = fields /\ found.tagged = {}
      BY <2>2 DEF Loaded
    <3> HIDE DEF net
    <3>2. /\ r = [f \in fields |-> r[f]]
          /\ r.tx = found.tx /\ r.ins = found.ins /\ r.outs = found.outs /\ r.net = net
          /\ r.tagged = found.tagged /\ r.absent = found.absent
      BY <3>1
    <3> HIDE DEF r
    <3>3. /\ q = [f \in fields |-> q[f]] /\ q.tagged = {} /\ q.absent = r.absent
          /\ q.tx = r.tx /\ q.ins = r.ins /\ q.outs = r.outs /\ q.net = r.net
      BY DEF Loaded
    <3> HIDE DEF q
    <3>4. \A f \in fields : r[f] = q[f]
      BY <3>1, <3>2, <3>3
    <3> HIDE DEF fields
    <3>5. r = q
      BY <3>2, <3>3, <3>4
    <3>6. Gathered(r, dataset, Calm)
      BY <2>2, <3>2 DEF Gathered, OfDatabase, OfDirectory, net
    <3> QED
      BY <3>5, <3>6
  <2>4. obs' = Loaded(obs', obs'.absent) /\ Gathered(obs', dataset, Calm)
    <3>1. CASE obs' = found
      BY <2>2, <3>1
    <3>2. CASE obs' = r
      <4> HIDE DEF r
      <4> QED
        BY <2>3, <3>2
    <3> QED
      BY <2>1, <3>1, <3>2
  <2>5. Expects("align", obs', dataset, Calm')
    BY <1>5, <2>4 DEF Expects, Tables
  <2> QED
    BY <1>1, <2>1, <2>4, <2>5, WholeProceeds
<1> QED
  BY <1>3, <1>4

LEMMA WholeAlign ==
  ASSUME WholeInv, Align
  PROVE  WholeInv'
<1>1. stage = "align" /\ stage # "end" /\ UNCHANGED <<backend, call, faulted>>
  BY DEF Align
<1>2. obs = Loaded(obs, obs.absent) /\ Gathered(obs, dataset, Calm) /\ dataset \in Datasets
  BY <1>1 DEF WholeInv, LoadInv, Expects
<1>5. Calm' = Calm
  BY <1>1 DEF Calm, backend
<1>3. CASE RaiseError("DatasetError") \/ RaiseError("InvalidFeaturesError")
  BY <1>1, <1>3, WholeRaises
<1>4. CASE obs.tx # <<>> /\ obs.net # <<>> /\ obs' = Aligned /\ Proceed("validate")
  <2>1. Aligned = Loaded(Aligned, Aligned.absent) /\ Prepared(Aligned, dataset, Calm)
    BY <1>2, <1>4, AlignPrepares
  <2> DEFINE a == Aligned
  <2>2. a = Loaded(a, a.absent) /\ Prepared(a, dataset, Calm) /\ obs' = a
    BY <1>4, <2>1
  <2> HIDE DEF a
  <2>3. obs' = Loaded(obs', obs'.absent) /\ Expects("validate", obs', dataset, Calm')
    BY <1>5, <2>2 DEF Expects, Tables
  <2> QED
    BY <1>1, <1>4, <2>3, WholeProceeds
<1> QED
  BY <1>3, <1>4 DEF Align

LEMMA WholeValidate ==
  ASSUME WholeInv, Validate
  PROVE  WholeInv'
<1>1. stage = "validate" /\ stage # "end" /\ UNCHANGED <<backend, call, faulted>>
  BY DEF Validate
<1>2. obs = Loaded(obs, obs.absent) /\ Prepared(obs, dataset, Calm)
  BY <1>1 DEF WholeInv, LoadInv, Expects
<1>5. Calm' = Calm
  BY <1>1 DEF Calm, backend
<1>3. CASE RaiseError("InvalidFeaturesError")
  BY <1>1, <1>3, WholeRaises
<1>4. CASE Errors(obs) = {} /\ Proceed("predict") /\ obs' = obs
  <2>1. obs' = Loaded(obs', obs'.absent) /\ Expects("predict", obs', dataset, Calm')
    BY <1>2, <1>4, <1>5 DEF Expects, Tables
  <2> QED
    BY <1>1, <1>4, <2>1, WholeProceeds
<1> QED
  BY <1>3, <1>4 DEF Validate

\* The features of a result are the row it was made of.
LEMMA EnvelopesKeepFeatures ==
  ASSUME NEW rows, rows = [i \in DOMAIN rows |-> rows[i]]
  PROVE  LET made == [i \in DOMAIN rows |-> Envelope(rows[i])]
         IN [i \in DOMAIN made |-> made[i].features] = rows
  BY DEF Envelope

LEMMA WholePredict ==
  ASSUME WholeInv, Predict
  PROVE  WholeInv'
<1> DEFINE c == Normalize(Clean(obs))
<1>1. stage = "predict" /\ stage # "end" /\ UNCHANGED <<backend, call, faulted>>
  BY DEF Predict
<1>2. /\ obs = Loaded(obs, obs.absent) /\ Prepared(obs, dataset, Calm) /\ Errors(obs) = {}
      /\ dataset \in Datasets
  BY <1>1 DEF WholeInv, LoadInv, Expects, Tables
<1>5. Calm' = Calm
  BY <1>1 DEF Calm, backend
<1>3. CASE \/ RaiseError("InvalidFeaturesError") \/ RaiseError("ModelLoadError")
           \/ RaiseError("MLError")
  BY <1>1, <1>3, WholeRaises
<1>4. CASE /\ CanExtract(c) /\ stage' = "end" /\ outcome' = "scored" /\ UNCHANGED obs
           /\ results' = [i \in DOMAIN Rows(c) |-> Envelope(Rows(c)[i])]
  <2>1. c = Clean(obs)
    BY NormalizeClean
  <2>2. CanExtract(Clean(obs))
    BY <1>4, <2>1
  <2>10. PICK tx \in Sources(dataset) :
           PreparedFrom(obs, dataset, tx) /\ (Calm => tx = dataset.db.tx)
    BY <1>2 DEF Prepared
  <2>3. c = Content(tx)
    BY <1>2, <2>1, <2>2, <2>10, PreparedIsWhole
  <2> DEFINE rows == Rows(c)
  <2>4. results' = [i \in DOMAIN rows |-> Envelope(rows[i])]
    BY <1>4
  <2>5. rows = [i \in DOMAIN rows |-> rows[i]]
    BY DEF Rows
  <2>6. Rows(Content(tx))' = rows
    <3>1. dataset' = dataset /\ call' = call
      BY <1>1 DEF backend
    <3>2. Rows(Content(tx))' = Rows(Content(tx))
      BY <3>1, WholeStays
    <3> HIDE DEF c
    <3> QED
      BY <2>3, <3>2
  <2> HIDE DEF c, rows
  <2>7. [i \in DOMAIN results' |-> results'[i].features] = rows
    BY <2>4, <2>5, EnvelopesKeepFeatures
  <2>11. tx \in Sources(dataset') /\ (Calm' => tx = dataset'.db.tx)
    BY <1>1, <1>5, <2>10 DEF backend
  <2>8. ScoresTheWholeDataset'
    BY <1>4, <2>6, <2>7, <2>11 DEF ScoresTheWholeDataset
  <2>9. LoadInv'
    <3>1. dataset' = dataset /\ db' = db /\ disk' = disk /\ obs' = obs /\ stage' = "end"
      BY <1>1, <1>4 DEF backend
    <3>2. obs' = Loaded(obs', obs'.absent)
      BY <1>2, <3>1
    <3>3. Expects(stage', obs', dataset', Calm')
      BY <3>1 DEF Expects, Tables
    <3>4. LoadInv
      BY DEF WholeInv
    <3>5. Calm' => db' = dataset'.db
      BY <1>5, <3>1, <3>4 DEF LoadInv
    <3> QED
      BY <3>1, <3>2, <3>3, <3>4, <3>5 DEF LoadInv
  <2> QED
    BY <2>8, <2>9 DEF WholeInv
<1> QED
  BY <1>3, <1>4 DEF Predict

LEMMA WholeResolves ==
  ASSUME WholeInv, ResolveModelPaths
  PROVE  WholeInv'
<1>1. stage = "artifacts" /\ stage # "end" /\ UNCHANGED <<backend, call, faulted>>
  BY DEF ResolveModelPaths
<1>2. obs = Loaded(obs, obs.absent) /\ Reading(obs, dataset)
  BY <1>1 DEF WholeInv, LoadInv, Expects
<1>3. CASE RaiseError("ModelLoadError")
  BY <1>1, <1>3, WholeRaises
<1>4. CASE Proceed("tx") /\ obs' = obs
  <2>1. obs' = Loaded(obs', obs'.absent) /\ Expects("tx", obs', dataset, Calm')
    BY <1>2, <1>4 DEF Expects, Tables
  <2> QED
    BY <1>1, <1>4, <2>1, WholeProceeds
<1> QED
  BY <1>3, <1>4 DEF ResolveModelPaths

LEMMA WholeStep ==
  ASSUME WholeInv, [InferenceNext]_inferenceVars
  PROVE  WholeInv'
<1>1. CASE RemoveFiles
  <2>1. UNCHANGED <<dataset, call, stage, obs, outcome, results>> /\ db' = db
        /\ disk' \in {disk, "gone"} /\ ~Calm'
    BY <1>1 DEF RemoveFiles, Calm
  <2> QED
    BY <2>1, WholeEnvironment
<1>2. CASE EraseTable
  <2>1. UNCHANGED <<dataset, call, stage, obs, outcome, results>> /\ disk' = disk
        /\ \E t \in Tables : db' = [db EXCEPT ![t] = <<>>]
    BY <1>2 DEF EraseTable
  <2>2. ~Calm'
    BY <1>2 DEF EraseTable, Calm, Step, Tables
  <2> QED
    BY <2>1, <2>2, WholeEnvironment
<1>3. CASE DropArtifact
  <2>1. UNCHANGED <<dataset, call, stage, obs, outcome, results>> /\ disk' = disk /\ db' = db
        /\ Calm' = Calm
    BY <1>3 DEF DropArtifact, Calm
  <2> QED
    BY <2>1, WholeEnvironment
<1>4. CASE Call
  BY <1>4, WholeResolves, WholeRead, WholeReadFails, WholeFallback, WholeAlign, WholeValidate,
     WholePredict DEF Call
<1>5. CASE UNCHANGED inferenceVars
  <2>1. UNCHANGED <<dataset, call, stage, obs, outcome, results>> /\ disk' = disk /\ db' = db
        /\ Calm' = Calm
    BY <1>5 DEF inferenceVars, Calm
  <2> QED
    BY <2>1, WholeEnvironment
<1> QED
  BY <1>1, <1>2, <1>3, <1>4, <1>5 DEF InferenceNext

LEMMA WholeInvariant == InferenceSpec => []WholeInv
<1>1. InferenceInit => WholeInv
  BY WholeInit
<1>2. WholeInv /\ [InferenceNext]_inferenceVars => WholeInv'
  BY WholeStep
<1> QED
  BY <1>1, <1>2, PTL DEF InferenceSpec

\* Whatever a dataset consists of, whatever part of it a concurrent deletion
\* has taken away while the call was reading and whatever fails: an analysis
\* that returns has scored the transactions of the whole dataset by the
\* features of the whole dataset, and one that raises returns nothing.  The
\* sizes are all as ingestion stored them or all as the directory has them,
\* and the latter only after a deletion or an error.
THEOREM ScoredWhole == InferenceSpec => []ScoresTheWholeDataset
<1>1. WholeInv => ScoresTheWholeDataset
  BY DEF WholeInv
<1> QED
  BY <1>1, WholeInvariant, PTL

-----------------------------------------------------------------------------
(* Valid datasets are scored *)

Healthy(d) == Valid(d.db) /\ \A e \in Range(d.db.net) : e.asn # Null
Smooth == Undisturbed /\ Healthy(dataset)

\* The tables an undisturbed call has read when it comes to a stage.
HasRead == [artifacts |-> {}, tx |-> {}, ins |-> {"tx"}, outs |-> {"tx", "ins"},
            net |-> {"tx", "ins", "outs"}, fallback |-> Tables, align |-> Tables,
            validate |-> Tables, predict |-> Tables]
Holds(o, tables, d) == o.absent = {} /\ \A t \in tables : o[t] = d.db[t]

SmoothInv ==
  Smooth => /\ db = dataset.db
            /\ outcome \in {"running", "scored"}
            /\ stage # "end" => Holds(obs, HasRead[stage], dataset)

LEMMA SmoothInit ==
  ASSUME InferenceInit
  PROVE  SmoothInv
<1>1. db = dataset.db /\ stage = "artifacts" /\ obs = Nothing /\ outcome = "running"
  BY DEF InferenceInit
<1>2. HasRead["artifacts"] = {}
  BY DEF HasRead
<1>3. Holds(Nothing, {}, dataset)
  BY NothingLoaded DEF Holds
<1> QED
  BY <1>1, <1>2, <1>3 DEF SmoothInv

LEMMA SmoothFails ==
  ASSUME ~Smooth, UNCHANGED <<backend, call, faulted>>
  PROVE  SmoothInv'
<1>1. /\ dataset' = dataset /\ deleting' = deleting /\ artifacts' = artifacts
      /\ call' = call /\ faulted' = faulted
  BY DEF backend
<1>2. ~Smooth'
  BY <1>1 DEF Smooth, Undisturbed, Calm, Healthy
<1> QED
  BY <1>2 DEF SmoothInv

LEMMA SmoothProceeds ==
  ASSUME SmoothInv, UNCHANGED <<backend, call, faulted>>, NEW next, Proceed(next),
         stage # "end", next # "end",
         Smooth /\ db = dataset.db /\ Holds(obs, HasRead[stage], dataset)
           => Holds(obs', HasRead[next], dataset)
  PROVE  SmoothInv'
<1>1. /\ dataset' = dataset /\ deleting' = deleting /\ artifacts' = artifacts
      /\ call' = call /\ faulted' = faulted /\ db' = db
      /\ stage' = next /\ outcome' = outcome
  BY DEF backend, Proceed
<1>2. Smooth' = Smooth
  BY <1>1 DEF Smooth, Undisturbed, Calm, Healthy
<1>3. ASSUME Smooth
      PROVE  db = dataset.db /\ outcome \in {"running", "scored"} /\ Holds(obs', HasRead[next], dataset)
  BY <1>3 DEF SmoothInv
<1> QED
  BY <1>1, <1>2, <1>3 DEF SmoothInv

LEMMA SmoothStays ==
  ASSUME SmoothInv, UNCHANGED <<dataset, db, call, stage, obs, outcome>>, Smooth' => Smooth
  PROVE  SmoothInv'
  BY DEF SmoothInv

LEMMA SmoothEnvironment ==
  ASSUME SmoothInv, RemoveFiles \/ EraseTable \/ DropArtifact
  PROVE  SmoothInv'
<1>1. ~Undisturbed'
  <2>1. CASE RemoveFiles
    BY <2>1 DEF RemoveFiles, Undisturbed, Calm
  <2>2. CASE EraseTable
    <3>1. deleting \in Tables /\ deleting' = Step[deleting]
      BY <2>2 DEF EraseTable
    <3>2. deleting' # "no"
      BY <3>1 DEF Tables, Step
    <3> QED
      BY <3>2 DEF Undisturbed, Calm
  <2>3. CASE DropArtifact
    <3>1. PICK lost \in {"xgb", "cat", "prep"} : artifacts = Artifacts /\ artifacts' = artifacts \ {lost}
      BY <2>3 DEF DropArtifact
    <3>2. artifacts' # Artifacts
      BY <3>1 DEF Artifacts
    <3> QED
      BY <3>2 DEF Undisturbed, Calm
  <2> QED
    BY <2>1, <2>2, <2>3
<1> QED
  BY <1>1 DEF SmoothInv, Smooth

LEMMA SmoothResolves ==
  ASSUME SmoothInv, ResolveModelPaths
  PROVE  SmoothInv'
<1>1. stage = "artifacts" /\ UNCHANGED <<backend, call, faulted>>
  BY DEF ResolveModelPaths
<1>2. CASE call.model \in Supported /\ artifacts = Artifacts
  <2>1. Proceed("tx") /\ obs' = obs
    BY <1>2 DEF ResolveModelPaths
  <2>2. Holds(obs, HasRead[stage], dataset) => Holds(obs', HasRead["tx"], dataset)
    BY <1>1, <2>1 DEF Holds, HasRead
  <2> QED
    BY <1>1, <2>1, <2>2, SmoothProceeds
<1>3. CASE ~(call.model \in Supported /\ artifacts = Artifacts)
  <2>1. ~Smooth
    BY <1>3 DEF Smooth, Undisturbed, Calm
  <2> QED
    BY <1>1, <2>1, SmoothFails
<1> QED
  BY <1>2, <1>3

LEMMA SmoothRead ==
  ASSUME WholeInv, SmoothInv, ReadTable
  PROVE  SmoothInv'
<1> DEFINE next == NextRead[stage]
<1>1. /\ stage \in Tables /\ obs' = [obs EXCEPT ![stage] = db[stage]]
      /\ Proceed(next) /\ UNCHANGED <<backend, call, faulted>>
  BY DEF ReadTable
<1>2. DOMAIN obs = {"tx", "ins", "outs", "net", "tagged", "absent"}
  BY DEF WholeInv, LoadInv, Loaded
<1>3. obs'.absent = obs.absent /\ \A t \in Tables : obs'[t] = IF t = stage THEN db[t] ELSE obs[t]
  BY <1>1, <1>2 DEF Tables
<1>4. HasRead[next] = HasRead[stage] \cup {stage} /\ HasRead[next] \subseteq Tables
      /\ stage # "end" /\ next # "end"
  BY <1>1 DEF NextRead, HasRead, Tables
<1> HIDE DEF next
<1>5. ASSUME db = dataset.db, Holds(obs, HasRead[stage], dataset)
      PROVE  Holds(obs', HasRead[next], dataset)
  BY <1>3, <1>4, <1>5 DEF Holds
<1> QED
  BY <1>1, <1>4, <1>5, SmoothProceeds

LEMMA SmoothReadFails ==
  ASSUME ReadFails
  PROVE  SmoothInv'
<1>1. faulted' = TRUE
  BY DEF ReadFails
<1> QED
  BY <1>1 DEF SmoothInv, Smooth, Undisturbed, Calm

\* A smooth call that has read everything holds a dataset without gaps.
LEMMA SmoothHolds ==
  ASSUME SmoothInv, Smooth, stage \in {"fallback", "align", "validate", "predict"}
  PROVE  /\ Holds(obs, Tables, dataset)
         /\ obs.tx = dataset.db.tx /\ obs.ins = dataset.db.ins
         /\ obs.outs = dataset.db.outs /\ obs.net = dataset.db.net /\ obs.absent = {}
         /\ obs.tx # <<>> /\ obs.ins # <<>> /\ obs.outs # <<>> /\ obs.net # <<>>
<1>1. Holds(obs, HasRead[stage], dataset)
  BY DEF SmoothInv
<1>2. HasRead[stage] = Tables
  BY DEF HasRead
<1>3. Holds(obs, Tables, dataset)
  BY <1>1, <1>2
<1>4. \A t \in Tables : dataset.db[t] # <<>>
  BY DEF Smooth, Healthy, Valid
<1> QED
  BY <1>3, <1>4 DEF Holds, Tables

LEMMA SmoothFallback ==
  ASSUME SmoothInv, LoadFallback
  PROVE  SmoothInv'
<1>1. stage = "fallback" /\ UNCHANGED <<backend, call, faulted>>
  BY DEF LoadFallback
<1>2. CASE Smooth
  <2>1. Holds(obs, Tables, dataset) /\ obs.tx # <<>> /\ obs.net # <<>>
    BY <1>1, <1>2, SmoothHolds
  <2>2. obs' = obs /\ Proceed("align")
    BY <2>1 DEF LoadFallback
  <2>3. Holds(obs', HasRead["align"], dataset)
    BY <2>1, <2>2 DEF HasRead
  <2> QED
    BY <1>1, <2>2, <2>3, SmoothProceeds
<1>3. CASE ~Smooth
  BY <1>1, <1>3, SmoothFails
<1> QED
  BY <1>2, <1>3

LEMMA SmoothAlign ==
  ASSUME WholeInv, SmoothInv, Align
  PROVE  SmoothInv'
<1>1. stage = "align" /\ UNCHANGED <<backend, call, faulted>>
  BY DEF Align
<1>2. CASE Smooth
  <2>1. /\ Holds(obs, Tables, dataset) /\ obs.absent = {}
        /\ obs.tx # <<>> /\ obs.net # <<>>
    BY <1>1, <1>2, SmoothHolds
  <2>2. obs' = Aligned /\ Proceed("validate")
    BY <2>1 DEF Align
  <2>3. dataset \in Datasets /\ obs = Loaded(obs, obs.absent)
    BY DEF WholeInv, LoadInv
  <2>4. Aligned.absent = {} /\ \A t \in Tables : Aligned[t] = dataset.db[t]
    <3>1. \A e \in Range(dataset.db.net) : e.asn # Null
      BY <1>2 DEF Smooth, Healthy
    <3>2. \A t \in Tables : obs[t] = dataset.db[t]
      BY <2>1 DEF Holds
    <3> QED
      BY <2>1, <2>3, <3>1, <3>2, AlignedAlready
  <2> DEFINE a == Aligned
  <2>5. a.absent = {} /\ (\A t \in Tables : a[t] = dataset.db[t]) /\ obs' = a
    BY <2>2, <2>4
  <2> HIDE DEF a
  <2>6. Holds(obs', HasRead["validate"], dataset)
    BY <2>5 DEF HasRead, Holds
  <2> QED
    BY <1>1, <2>2, <2>6, SmoothProceeds
<1>3. CASE ~Smooth
  BY <1>1, <1>3, SmoothFails
<1> QED
  BY <1>2, <1>3

LEMMA SmoothValidate ==
  ASSUME SmoothInv, Validate
  PROVE  SmoothInv'
<1>1. stage = "validate" /\ UNCHANGED <<backend, call, faulted>>
  BY DEF Validate
<1>2. CASE Smooth
  <2>1. /\ Holds(obs, Tables, dataset)
        /\ obs.tx = dataset.db.tx /\ obs.ins = dataset.db.ins
        /\ obs.outs = dataset.db.outs /\ obs.net = dataset.db.net
    BY <1>1, <1>2, SmoothHolds
  <2>2. Errors(obs) = Errors(dataset.db)
    BY <2>1, ErrorsAlike
  <2>3. Errors(obs) = {}
    BY <1>2, <2>2 DEF Smooth, Healthy, Valid
  <2>4. obs' = obs /\ Proceed("predict")
    BY <2>3 DEF Validate
  <2>5. Holds(obs', HasRead["predict"], dataset)
    BY <2>1, <2>4 DEF HasRead
  <2> QED
    BY <1>1, <2>4, <2>5, SmoothProceeds
<1>3. CASE ~Smooth
  BY <1>1, <1>3, SmoothFails
<1> QED
  BY <1>2, <1>3

LEMMA SmoothPredict ==
  ASSUME WholeInv, SmoothInv, Predict
  PROVE  SmoothInv'
<1>1. stage = "predict" /\ UNCHANGED <<backend, call, faulted>>
  BY DEF Predict
<1>2. CASE Smooth
  <2>1. /\ obs.tx = dataset.db.tx /\ obs.ins = dataset.db.ins
        /\ obs.outs = dataset.db.outs /\ obs.net = dataset.db.net
        /\ obs.tx # <<>> /\ obs.ins # <<>> /\ obs.outs # <<>> /\ obs.net # <<>>
    BY <1>1, <1>2, SmoothHolds
  <2>2. Tabular(obs)
    <3>1. Tabular(dataset.db)
      BY DatasetRows DEF WholeInv, LoadInv
    <3> QED
      BY <2>1, <3>1 DEF Tabular
  <2>3. Valid(obs)
    <3>1. Errors(obs) = {}
      BY <1>1 DEF WholeInv, LoadInv, Expects, Tables
    <3> QED
      BY <2>1, <3>1 DEF Valid, Tables
  <2>4. CanExtract(Normalize(Clean(obs)))
    BY <2>2, <2>3, NormalizeClean, ValidSurvivesCleaning
  <2>5. artifacts = Artifacts /\ db = dataset.db
    BY <1>2 DEF Smooth, Undisturbed, Calm, SmoothInv
  <2>6. "prep" \in artifacts /\ {"xgb", "cat"} \cap artifacts = {"xgb", "cat"}
    BY <2>5 DEF Artifacts
  <2>7. stage' = "end" /\ outcome' = "scored"
    BY <2>4, <2>6 DEF Predict
  <2>8. db' = db /\ dataset' = dataset
    BY <1>1 DEF backend
  <2> QED
    BY <2>5, <2>7, <2>8 DEF SmoothInv
<1>3. CASE ~Smooth
  BY <1>1, <1>3, SmoothFails
<1> QED
  BY <1>2, <1>3

LEMMA SmoothStep ==
  ASSUME WholeInv, SmoothInv, [InferenceNext]_inferenceVars
  PROVE  SmoothInv'
<1>1. CASE RemoveFiles \/ EraseTable \/ DropArtifact
  BY <1>1, SmoothEnvironment
<1>2. CASE Call
  BY <1>2, SmoothResolves, SmoothRead, SmoothReadFails, SmoothFallback, SmoothAlign,
     SmoothValidate, SmoothPredict DEF Call
<1>3. CASE UNCHANGED inferenceVars
  <2>1. /\ UNCHANGED <<dataset, db, call, stage, obs, outcome>>
        /\ deleting' = deleting /\ artifacts' = artifacts /\ faulted' = faulted
    BY <1>3 DEF inferenceVars
  <2>2. Smooth' => Smooth
    BY <2>1 DEF Smooth, Undisturbed, Calm, Healthy
  <2> QED
    BY <2>1, <2>2, SmoothStays
<1> QED
  BY <1>1, <1>2, <1>3 DEF InferenceNext

\* A call that nothing disturbs, of a dataset that is valid and whose events
\* all have an ASN, whatever else the dataset consists of, does not fail:
\* nothing between validation and scoring can empty a table of it.
THEOREM ValidAreScored == InferenceSpec => []ValidDatasetsAreScored
<1>1. InferenceInit => SmoothInv
  BY SmoothInit
<1>2. WholeInv /\ SmoothInv /\ [InferenceNext]_inferenceVars => SmoothInv'
  BY SmoothStep
<1>3. SmoothInv => ValidDatasetsAreScored
  BY DEF SmoothInv, Smooth, Healthy, ValidDatasetsAreScored
<1> QED
  BY <1>1, <1>2, <1>3, WholeInvariant, PTL DEF InferenceSpec

-----------------------------------------------------------------------------
(* Components *)

\* Of every arc, S has both ends or neither.
Closed(arcs, S) == \A arc \in arcs : arc[1] \in S <=> arc[2] \in S

\* C is what can be reached from x, along arcs in both directions.
IsComponent(C, arcs, x) ==
  /\ x \in C /\ Closed(arcs, C)
  /\ \A S : x \in S /\ Closed(arcs, S) => C \subseteq S

Ends(arcs) == {arc[1] : arc \in arcs} \cup {arc[2] : arc \in arcs}

LEMMA EndsFinite ==
  ASSUME NEW arcs, IsFiniteSet(arcs)
  PROVE  IsFiniteSet(Ends(arcs)) /\ Cardinality(Ends(arcs)) <= 2 * Cardinality(arcs)
<1> DEFINE A == {arc[1] : arc \in arcs}
           B == {arc[2] : arc \in arcs}
           f == [arc \in arcs |-> arc[1]]
           g == [arc \in arcs |-> arc[2]]
<1>1. f \in Surjection(arcs, A) /\ g \in Surjection(arcs, B)
  BY DEF Surjection
<1>2. Ends(arcs) = A \cup B
  BY DEF Ends
<1> HIDE DEF A, B, f, g
<1>3. IsFiniteSet(A) /\ Cardinality(A) <= Cardinality(arcs)
  BY <1>1, FS_Surjection
<1>4. IsFiniteSet(B) /\ Cardinality(B) <= Cardinality(arcs)
  BY <1>1, FS_Surjection
<1>5. IsFiniteSet(A \cap B)
  BY <1>3, FS_Intersection
<1>6. IsFiniteSet(A \cup B) /\ Cardinality(A \cup B) = Cardinality(A) + Cardinality(B) - Cardinality(A \cap B)
  BY <1>3, <1>4, FS_Union
<1>7. /\ Cardinality(A) \in Nat /\ Cardinality(B) \in Nat /\ Cardinality(A \cap B) \in Nat
      /\ Cardinality(arcs) \in Nat
  BY <1>3, <1>4, <1>5, FS_CardinalityType
<1> QED
  BY <1>2, <1>3, <1>4, <1>6, <1>7

\* After k rounds, what grew from x is part of its component, and the whole
\* of it or more than k nodes.
Growing(S, k, arcs, x) ==
  /\ x \in S /\ S \subseteq {x} \cup Ends(arcs)
  /\ \A Q : x \in Q /\ Closed(arcs, Q) => S \subseteq Q
  /\ Closed(arcs, S) \/ Cardinality(S) > k

LEMMA GrowsOn ==
  ASSUME NEW arcs, IsFiniteSet(arcs), NEW x, NEW k \in Nat, NEW S, Growing(S, k, arcs, x)
  PROVE  Growing(Grown(arcs, S), k + 1, arcs, x)
<1> DEFINE T == Grown(arcs, S)
<1>1. S \subseteq T /\ x \in T /\ T \subseteq {x} \cup Ends(arcs)
  BY DEF Grown, Growing, Ends
<1>2. ASSUME NEW Q, x \in Q, Closed(arcs, Q) PROVE T \subseteq Q
  BY <1>2 DEF Grown, Growing, Closed
<1>3. CASE Closed(arcs, S)
  <2>1. T = S
    BY <1>3 DEF Grown, Closed
  <2> QED
    BY <1>1, <1>2, <1>3, <2>1 DEF Growing
<1>4. CASE ~Closed(arcs, S)
  <2>1. PICK y : y \in T /\ y \notin S
    BY <1>4 DEF Grown, Closed
  <2>2. Cardinality(S) > k
    BY <1>4 DEF Growing
  <2> HIDE DEF T
  <2>3. IsFiniteSet({x} \cup Ends(arcs))
    <3>1. IsFiniteSet(Ends(arcs)) /\ IsFiniteSet({x})
      BY EndsFinite, FS_Singleton
    <3> QED
      BY <3>1, FS_Union
  <2>4. IsFiniteSet(T)
    BY <1>1, <2>3, FS_Subset
  <2>5. IsFiniteSet(S)
    BY <1>1, <2>4, FS_Subset
  <2>6. Cardinality(S) <= Cardinality(T) /\ (Cardinality(T) = Cardinality(S) => T = S)
    BY <1>1, <2>4, FS_Subset
  <2>7. Cardinality(S) \in Nat /\ Cardinality(T) \in Nat
    BY <2>4, <2>5, FS_CardinalityType
  <2>8. Cardinality(T) > k + 1
    BY <2>1, <2>2, <2>6, <2>7
  <2> QED
    BY <1>1, <1>2, <2>8 DEF Growing, T
<1> QED
  BY <1>3, <1>4

\* Twice as many rounds as there are arcs are enough.
LEMMA GrownOut ==
  ASSUME NEW arcs, IsFiniteSet(arcs), NEW x, NEW S,
         Growing(S, 2 * Cardinality(arcs), arcs, x)
  PROVE  IsComponent(S, arcs, x) /\ IsFiniteSet(S)
<1> DEFINE n == 2 * Cardinality(arcs)
           E == Ends(arcs)
           U == {x} \cup E
<1>1. x \in S /\ S \subseteq U /\ (Closed(arcs, S) \/ Cardinality(S) > n)
  BY DEF Growing
<1>2. n \in Nat
  BY FS_CardinalityType
<1>3. IsFiniteSet(E) /\ Cardinality(E) <= n
  BY EndsFinite
<1> HIDE DEF n, E
<1>4. IsFiniteSet(E \cup {x}) /\ Cardinality(E \cup {x}) = IF x \in E THEN Cardinality(E) ELSE Cardinality(E) + 1
  BY <1>3, FS_AddElement
<1>5. U = E \cup {x}
  OBVIOUS
<1> HIDE DEF U
<1>6. Cardinality(E) \in Nat
  BY <1>3, FS_CardinalityType
<1>7. IsFiniteSet(U) /\ Cardinality(U) <= n + 1 /\ Cardinality(U) \in Nat
  BY <1>2, <1>3, <1>4, <1>5, <1>6
<1>8. IsFiniteSet(S) /\ Cardinality(S) <= Cardinality(U) /\ (Cardinality(U) = Cardinality(S) => U = S)
  BY <1>1, <1>7, FS_Subset
<1>9. Cardinality(S) \in Nat
  BY <1>8, FS_CardinalityType
<1>10. Closed(arcs, S)
  <2> SUFFICES ASSUME Cardinality(S) > n PROVE Closed(arcs, S)
    BY <1>1
  <2>1. U = S
    BY <1>2, <1>7, <1>8, <1>9
  <2> QED
    BY <2>1 DEF U, E, Ends, Closed
<1> QED
  BY <1>1, <1>8, <1>10 DEF IsComponent, Growing

LEMMA ComponentIs ==
  ASSUME NEW arcs, IsFiniteSet(arcs), NEW x
  PROVE  IsComponent(Component(arcs, x), arcs, x) /\ IsFiniteSet(Component(arcs, x))
<1> DEFINE n == 2 * Cardinality(arcs)
           c == [arcs |-> arcs, node |-> x]
           seq == [k \in 1..n |-> k]
           eq(h) == h = [T \in SUBSET (1..n) |->
                           IF T = {} THEN {x} ELSE Grown(arcs, h[T \ {Max(T)}])]
           iter == CHOOSE h : eq(h)
<1>1. n \in Nat /\ DOMAIN seq = 1..n
  BY FS_CardinalityType
<1>2. Component(arcs, x) = iter[1..n]
  <2> DEFINE steps == [k \in 1..n |-> k]
  <2>1. Component(arcs, x) = FoldLeft(LAMBDA S, k : Grown(arcs, S), {x}, steps)
    BY DEF Component
  <2>2. DOMAIN steps = 1..n
    OBVIOUS
  <2> HIDE DEF steps
  <2> HIDE DEF n
  <2> QED
    BY <2>1, <2>2 DEF FoldLeft, MapThenFoldSet
<1> HIDE DEF n
<1>p. Passes(iter, n, "component", c, seq)
  <2>1. \A h : eq(h) <=> Passes(h, n, "component", c, seq)
    BY DEF Passes, Start, Turn
  <2> HIDE DEF eq
  <2>2. \E h : eq(h)
    BY <1>1, <2>1, PassesExist
  <2> QED
    BY <2>1, <2>2
<1> HIDE DEF iter
<1>4. /\ iter[1..0] = {x}
      /\ \A j \in 1..n : iter[1..j] = Grown(arcs, iter[1..(j - 1)])
  <2>1. /\ iter[1..0] = Start("component", c)
        /\ \A j \in 1..n : iter[1..j] = Turn("component", c, iter[1..(j - 1)], seq[j])
    BY <1>1, <1>p, PassTurns
  <2> QED
    BY <2>1 DEF Start, Turn
<1> HIDE DEF seq, c
<1> DEFINE D == {j \in Nat : j <= n => Growing(iter[1..j], j, arcs, x)}
<1>5. 0 \in D
  <2>1. Cardinality({x}) = 1
    BY FS_Singleton
  <2>2. Cardinality({x}) > 0
    BY <2>1
  <2>3. Growing({x}, 0, arcs, x)
    BY <2>2 DEF Growing
  <2> QED
    BY <1>4, <2>3
<1>6. ASSUME NEW j \in Nat, j \in D PROVE j + 1 \in D
  <2> SUFFICES ASSUME j + 1 <= n PROVE Growing(iter[1..(j + 1)], j + 1, arcs, x)
    OBVIOUS
  <2>1. j + 1 \in 1..n /\ (j + 1) - 1 = j /\ j <= n
    BY <1>1
  <2>2. Growing(iter[1..j], j, arcs, x)
    BY <1>6, <2>1
  <2>3. iter[1..(j + 1)] = Grown(arcs, iter[1..j])
    BY <1>4, <2>1
  <2> QED
    BY <2>2, <2>3, GrowsOn
<1>7. Nat \subseteq D
  <2> HIDE DEF D
  <2> QED
    BY <1>5, <1>6, InductionOnNat
<1>8. Growing(iter[1..n], n, arcs, x)
  BY <1>1, <1>7
<1> QED
  BY <1>2, <1>8, GrownOut DEF n

\* A component is one for each of its nodes, and there is no other.
LEMMA ComponentOfMember ==
  ASSUME NEW C, NEW arcs, NEW x, IsComponent(C, arcs, x), NEW y \in C
  PROVE  IsComponent(C, arcs, y)
<1> SUFFICES ASSUME NEW S, y \in S, Closed(arcs, S) PROVE C \subseteq S
  BY DEF IsComponent
<1>1. CASE x \in S
  BY <1>1 DEF IsComponent
<1>2. CASE x \notin S
  <2>1. x \in C \ S /\ Closed(arcs, C \ S)
    BY <1>2 DEF IsComponent, Closed
  <2>2. C \subseteq C \ S
    BY <2>1 DEF IsComponent
  <2> QED
    BY <2>2
<1> QED
  BY <1>1, <1>2

LEMMA OneComponent ==
  ASSUME NEW arcs, NEW links, \A S : Closed(arcs, S) <=> Closed(links, S),
         NEW x, NEW C, IsComponent(C, arcs, x), NEW D, IsComponent(D, links, x)
  PROVE  C = D
  BY DEF IsComponent

-----------------------------------------------------------------------------
(* The disjoint-set forest *)

\* The roots, and with a parent its child, and nothing else are in the forest.
Rooted(parent) ==
  \A S \in SUBSET DOMAIN parent :
    (\A y \in DOMAIN parent : parent[y] = y \/ parent[y] \in S => y \in S) => S = DOMAIN parent

\* r has the root of every node.
Leads(parent, r) ==
  /\ Rooted(parent)
  /\ \A y \in DOMAIN parent : parent[y] \in DOMAIN parent
  /\ r = [y \in DOMAIN parent |-> IF parent[y] = y THEN y ELSE r[parent[y]]]

LEMMA LeadsToRoots ==
  ASSUME NEW parent, NEW r, Leads(parent, r)
  PROVE  /\ DOMAIN r = DOMAIN parent
         /\ \A y \in DOMAIN parent : r[y] \in DOMAIN parent /\ parent[r[y]] = r[y]
         /\ \A y \in DOMAIN parent : r[parent[y]] = r[y]
         /\ \A y \in DOMAIN parent : parent[y] = y => r[y] = y
<1> DEFINE D == DOMAIN parent
           S == {y \in D : r[y] \in D /\ parent[r[y]] = r[y]}
<1>1. \A y \in D : parent[y] \in D
  BY DEF Leads
<1>2. DOMAIN r = D
  BY DEF Leads
<1>3. \A y \in D : r[y] = IF parent[y] = y THEN y ELSE r[parent[y]]
  BY DEF Leads
<1>4. \A y \in D : parent[y] = y \/ parent[y] \in S => y \in S
  BY <1>1, <1>3
<1>5. S \in SUBSET D
  OBVIOUS
<1> HIDE DEF S
<1>6. S = D
  BY <1>4, <1>5 DEF Leads, Rooted
<1>7. \A y \in D : r[parent[y]] = r[y]
  BY <1>1, <1>3
<1> QED
  BY <1>2, <1>3, <1>6, <1>7 DEF S

LEMMA RootIs ==
  ASSUME NEW parent, NEW r, Leads(parent, r), NEW x \in DOMAIN parent
  PROVE  Root(parent, x) = r[x]
<1> DEFINE D == DOMAIN parent
           eq(f) == f = [y \in D |-> IF parent[y] = y THEN y ELSE f[parent[y]]]
           f == CHOOSE g : eq(g)
<1>1. Root(parent, x) = f[x]
  BY DEF Root
<1>2. eq(r)
  BY DEF Leads
<1> HIDE DEF eq
<1>3. eq(f)
  BY <1>2
<1> HIDE DEF f
<1> USE DEF eq
<1> DEFINE S == {y \in D : f[y] = r[y]}
<1>4. \A y \in D : /\ f[y] = IF parent[y] = y THEN y ELSE f[parent[y]]
                   /\ r[y] = IF parent[y] = y THEN y ELSE r[parent[y]]
  BY <1>2, <1>3
<1>5. \A y \in D : parent[y] = y \/ parent[y] \in S => y \in S
  BY <1>4
<1>6. S \in SUBSET D
  OBVIOUS
<1> HIDE DEF S
<1>7. S = D
  BY <1>5, <1>6 DEF Leads, Rooted
<1> QED
  BY <1>1, <1>7 DEF S

\* The nodes from y upwards.
Upward(parent, S) == \A z \in S : parent[z] \in S
Above(parent, y) ==
  {z \in DOMAIN parent : \A S \in SUBSET DOMAIN parent : y \in S /\ Upward(parent, S) => z \in S}

LEMMA AboveIs ==
  ASSUME NEW parent, \A y \in DOMAIN parent : parent[y] \in DOMAIN parent,
         NEW y \in DOMAIN parent
  PROVE  Above(parent, y) = IF parent[y] = y THEN {y} ELSE {y} \cup Above(parent, parent[y])
<1> DEFINE D == DOMAIN parent
           p == parent[y]
<1>1. ASSUME NEW z \in D
      PROVE  y \in Above(parent, y) /\ Above(parent, z) \subseteq D /\ Upward(parent, Above(parent, z))
  BY DEF Above, Upward
<1>2. CASE p = y
  <2>1. {y} \in SUBSET D /\ Upward(parent, {y})
    BY <1>2 DEF Upward
  <2>2. Above(parent, y) \subseteq {y}
    BY <2>1 DEF Above
  <2> QED
    BY <1>1, <1>2, <2>2
<1>3. CASE p # y
  <2>1. p \in D /\ p \in Above(parent, p)
    BY DEF Above
  <2>2. {y} \cup Above(parent, p) \in SUBSET D /\ Upward(parent, {y} \cup Above(parent, p))
    BY <1>1, <2>1 DEF Upward
  <2>3. Above(parent, y) \subseteq {y} \cup Above(parent, p)
    BY <2>2 DEF Above
  <2>4. ASSUME NEW S \in SUBSET D, y \in S, Upward(parent, S) PROVE p \in S
    BY <2>4 DEF Upward
  <2>5. Above(parent, p) \subseteq Above(parent, y)
    <3> HIDE DEF p
    <3> QED
      BY <2>4 DEF Above
  <2> QED
    BY <1>1, <1>3, <2>3, <2>5
<1> QED
  BY <1>2, <1>3

\* The trail of a node has nodes below its root only.
LEMMA TrailIs ==
  ASSUME NEW parent, NEW r, Leads(parent, r), NEW x \in DOMAIN parent
  PROVE  \A z \in Trail(parent, x) : z \in DOMAIN parent /\ parent[z] # z /\ r[z] = r[x]
<1> DEFINE D == DOMAIN parent
           eq(f) == f = [y \in D |-> IF parent[y] = y THEN {} ELSE {y} \cup f[parent[y]]]
           f == CHOOSE g : eq(g)
           h == [y \in D |-> {z \in Above(parent, y) : parent[z] # z}]
<1>1. Trail(parent, x) = f[x]
  BY DEF Trail
<1>2. \A y \in D : parent[y] \in D
  BY DEF Leads
<1>3. ASSUME NEW y \in D PROVE h[y] = IF parent[y] = y THEN {} ELSE {y} \cup h[parent[y]]
  <2>1. Above(parent, y) = IF parent[y] = y THEN {y} ELSE {y} \cup Above(parent, parent[y])
    BY <1>2, AboveIs
  <2>2. h[y] = {z \in Above(parent, y) : parent[z] # z}
    OBVIOUS
  <2>3. h[parent[y]] = {z \in Above(parent, parent[y]) : parent[z] # z}
    BY <1>2
  <2> QED
    BY <2>1, <2>2, <2>3
<1>4. h = [y \in D |-> h[y]]
  OBVIOUS
<1> HIDE DEF h
<1>5. eq(h)
  BY <1>3, <1>4
<1> HIDE DEF eq
<1>6. eq(f)
  BY <1>5
<1> HIDE DEF f
<1> USE DEF eq
<1> DEFINE S == {y \in D : \A z \in f[y] : z \in D /\ parent[z] # z /\ r[z] = r[y]}
<1>7. \A y \in D : f[y] = IF parent[y] = y THEN {} ELSE {y} \cup f[parent[y]]
  BY <1>6
<1>8. \A y \in D : r[parent[y]] = r[y]
  BY LeadsToRoots
<1>9. ASSUME NEW y \in D, parent[y] = y \/ parent[y] \in S PROVE y \in S
  <2>1. CASE parent[y] = y
    BY <1>7, <2>1
  <2>2. CASE parent[y] # y /\ parent[y] \in S
    <3>1. f[y] = {y} \cup f[parent[y]] /\ r[parent[y]] = r[y]
      BY <1>7, <1>8, <2>2
    <3>2. \A z \in f[parent[y]] : z \in D /\ parent[z] # z /\ r[z] = r[parent[y]]
      BY <2>2
    <3> QED
      BY <2>2, <3>1, <3>2
  <2> QED
    BY <1>9, <2>1, <2>2
<1>10. S \in SUBSET D
  OBVIOUS
<1> HIDE DEF S
<1>11. S = D
  BY <1>9, <1>10 DEF Leads, Rooted
<1> QED
  BY <1>1, <1>11 DEF S

\* Hanging nodes from the root they lead to anyway.
LEMMA HungLeads ==
  ASSUME NEW parent, NEW r, Leads(parent, r), NEW path, NEW root \in DOMAIN parent,
         parent[root] = root,
         \A z \in path : z \in DOMAIN parent /\ parent[z] # z /\ r[z] = root
  PROVE  LET hung == [y \in DOMAIN parent |-> IF y \in path THEN root ELSE parent[y]] IN
         Leads(hung, r) /\ \A y \in DOMAIN parent : hung[y] = y <=> parent[y] = y
<1> DEFINE D == DOMAIN parent
           hung == [y \in D |-> IF y \in path THEN root ELSE parent[y]]
<1>1. /\ DOMAIN hung = D
      /\ \A y \in D : hung[y] = IF y \in path THEN root ELSE parent[y]
  OBVIOUS
<1>2. /\ Rooted(parent)
      /\ \A y \in D : parent[y] \in D
      /\ r = [y \in D |-> IF parent[y] = y THEN y ELSE r[parent[y]]]
  BY DEF Leads
<1> HIDE DEF hung
<1>3. \A y \in D : hung[y] = y <=> parent[y] = y
  BY <1>1
<1>4. Rooted(hung)
  <2> SUFFICES ASSUME NEW S \in SUBSET D, \A y \in D : hung[y] = y \/ hung[y] \in S => y \in S
               PROVE  S = D
    BY <1>1 DEF Rooted
  <2>1. root \in S
    BY <1>3
  <2>2. \A y \in D : parent[y] = y \/ parent[y] \in S => y \in S
    BY <1>1, <1>3, <2>1
  <2> QED
    BY <1>2, <2>2 DEF Rooted
<1>5. r[root] = root
  BY LeadsToRoots
<1>6. r = [y \in D |-> IF hung[y] = y THEN y ELSE r[hung[y]]]
  <2>1. \A y \in D : (IF hung[y] = y THEN y ELSE r[hung[y]]) = (IF parent[y] = y THEN y ELSE r[parent[y]])
    <3> SUFFICES ASSUME NEW y \in D
                 PROVE  (IF hung[y] = y THEN y ELSE r[hung[y]]) = (IF parent[y] = y THEN y ELSE r[parent[y]])
      OBVIOUS
    <3>1. CASE y \in path
      <4>1. r[parent[y]] = r[y] /\ r[y] = root /\ parent[y] # y
        BY <3>1, LeadsToRoots
      <4> QED
        BY <1>1, <1>3, <1>5, <3>1, <4>1
    <3>2. CASE y \notin path
      BY <1>1, <3>2
    <3> QED
      BY <3>1, <3>2
  <2> QED
    BY <1>2, <2>1
<1>7. \A y \in D : hung[y] \in D
  BY <1>1, <1>2
<1>8. Leads(hung, r)
  BY <1>1, <1>4, <1>6, <1>7 DEF Leads
<1> QED
  BY <1>3, <1>8 DEF hung

\* A node of its own.
Extended(r, x) ==
  IF x \in DOMAIN r THEN r ELSE [y \in DOMAIN r \cup {x} |-> IF y = x THEN x ELSE r[y]]

LEMMA PlantedLeads ==
  ASSUME NEW parent, NEW r, Leads(parent, r), NEW x, x \notin DOMAIN parent
  PROVE  Leads(Put(parent, x, x), Extended(r, x))
<1> DEFINE D == DOMAIN parent
           q == Put(parent, x, x)
           e == Extended(r, x)
<1>1. /\ Rooted(parent)
      /\ \A y \in D : parent[y] \in D
      /\ \A y \in D : r[y] = IF parent[y] = y THEN y ELSE r[parent[y]]
      /\ DOMAIN r = D
  BY DEF Leads
<1>2. DOMAIN q = D \cup {x} /\ q[x] = x /\ \A y \in D : q[y] = parent[y]
  BY DEF Put
<1>3. e = [y \in D \cup {x} |-> IF y = x THEN x ELSE r[y]]
  BY <1>1 DEF Extended
<1>e. DOMAIN e = D \cup {x} /\ e[x] = x /\ \A y \in D : e[y] = r[y]
  BY <1>3
<1> HIDE DEF q, e
<1>4. Rooted(q)
  <2> SUFFICES ASSUME NEW S \in SUBSET (D \cup {x}),
                      \A y \in D \cup {x} : q[y] = y \/ q[y] \in S => y \in S
               PROVE  S = D \cup {x}
    BY <1>2 DEF Rooted
  <2>1. x \in S
    BY <1>2
  <2>2. \A y \in D : parent[y] = y \/ parent[y] \in S \cap D => y \in S \cap D
    BY <1>2
  <2>3. S \cap D = D
    <3>1. S \cap D \in SUBSET D
      OBVIOUS
    <3> DEFINE V == S \cap D
    <3> HIDE DEF V
    <3>2. V = D
      BY <1>1, <2>2, <3>1 DEF Rooted, V
    <3> QED
      BY <3>2 DEF V
  <2> QED
    BY <2>1, <2>3
<1>5. \A y \in DOMAIN q : q[y] \in DOMAIN q
  BY <1>1, <1>2
<1>6. \A y \in DOMAIN q : e[y] = IF q[y] = y THEN y ELSE e[q[y]]
  BY <1>1, <1>2, <1>e
<1>7. e = [y \in DOMAIN q |-> e[y]]
  BY <1>2, <1>3, <1>e
<1>8. e = [y \in DOMAIN q |-> IF q[y] = y THEN y ELSE e[q[y]]]
  BY <1>6, <1>7
<1>9. Leads(q, e)
  BY <1>4, <1>5, <1>8 DEF Leads
<1> QED
  BY <1>9 DEF q, e

\* One tree under the root of another.
Merged(r, small, big) == [y \in DOMAIN r |-> IF r[y] = small THEN big ELSE r[y]]

LEMMA GraftedLeads ==
  ASSUME NEW parent, NEW r, Leads(parent, r),
         NEW small \in DOMAIN parent, NEW big \in DOMAIN parent, small # big,
         parent[small] = small, parent[big] = big
  PROVE  LET grafted == [parent EXCEPT ![small] = big] IN
         /\ Leads(grafted, Merged(r, small, big)) /\ DOMAIN grafted = DOMAIN parent
         /\ \A y \in DOMAIN parent : grafted[y] = y <=> parent[y] = y /\ y # small
<1> DEFINE D == DOMAIN parent
           q == [parent EXCEPT ![small] = big]
           e == Merged(r, small, big)
<1>1. /\ Rooted(parent)
      /\ \A y \in D : parent[y] \in D
      /\ \A y \in D : r[y] = IF parent[y] = y THEN y ELSE r[parent[y]]
      /\ DOMAIN r = D
      /\ r = [y \in D |-> IF parent[y] = y THEN y ELSE r[parent[y]]]
  BY DEF Leads
<1>2. DOMAIN q = D /\ q[small] = big /\ \A y \in D : y # small => q[y] = parent[y]
  OBVIOUS
<1>3. e = [y \in D |-> IF r[y] = small THEN big ELSE r[y]]
  BY <1>1 DEF Merged
<1>e. DOMAIN e = D /\ \A y \in D : e[y] = IF r[y] = small THEN big ELSE r[y]
  BY <1>3
<1> HIDE DEF q, e
<1>r. r[small] = small /\ r[big] = big
  BY <1>1
<1>4. \A y \in D : q[y] = y <=> parent[y] = y /\ y # small
  BY <1>2
<1>5. Rooted(q)
  <2> SUFFICES ASSUME NEW S \in SUBSET D, \A y \in D : q[y] = y \/ q[y] \in S => y \in S
               PROVE  S = D
    BY <1>2 DEF Rooted
  <2>1. big \in S
    BY <1>4
  <2>2. small \in S
    BY <1>2, <2>1
  <2>3. \A y \in D : parent[y] = y \/ parent[y] \in S => y \in S
    BY <1>2, <1>4, <2>2
  <2> QED
    BY <1>1, <2>3 DEF Rooted
<1>6. \A y \in D : q[y] \in D
  BY <1>1, <1>2
<1>7. ASSUME NEW y \in D PROVE e[y] = IF q[y] = y THEN y ELSE e[q[y]]
  <2>1. CASE y = small
    BY <1>2, <1>e, <1>r, <2>1
  <2>2. CASE y # small /\ parent[y] = y
    BY <1>1, <1>2, <1>e, <2>2
  <2>3. CASE y # small /\ parent[y] # y
    <3>1. r[y] = r[parent[y]] /\ parent[y] \in D /\ q[y] = parent[y]
      BY <1>1, <1>2, <2>3
    <3> QED
      BY <1>e, <2>3, <3>1
  <2> QED
    BY <2>1, <2>2, <2>3
<1>8. e = [y \in D |-> e[y]]
  BY <1>3, <1>e
<1>9. e = [y \in D |-> IF q[y] = y THEN y ELSE e[q[y]]]
  BY <1>7, <1>8
<1>10. Leads(q, e)
  BY <1>2, <1>5, <1>6, <1>9 DEF Leads
<1> QED
  BY <1>2, <1>4, <1>10 DEF q, e

\* The nodes of a root.
Class(r, root) == {z \in DOMAIN r : r[z] = root}

\* The tracker is a forest, and a root knows how many nodes it has.
Tracks(tk, r) ==
  /\ tk = [parent |-> tk.parent, size |-> tk.size]
  /\ Leads(tk.parent, r)
  /\ IsFiniteSet(DOMAIN tk.parent)
  /\ DOMAIN tk.size = DOMAIN tk.parent
  /\ \A y \in DOMAIN tk.parent : tk.parent[y] = y => tk.size[y] = Cardinality(Class(r, y))

LEMMA AddedTracks ==
  ASSUME NEW tk, NEW r, Tracks(tk, r), NEW x
  PROVE  /\ Tracks(Added(tk, x), Extended(r, x))
         /\ DOMAIN Added(tk, x).parent = DOMAIN tk.parent \cup {x}
<1> DEFINE D == DOMAIN tk.parent
           p == Put(tk.parent, x, x)
           z == Put(tk.size, x, 1)
           e == Extended(r, x)
<1>1. /\ tk = [parent |-> tk.parent, size |-> tk.size]
      /\ Leads(tk.parent, r) /\ IsFiniteSet(D) /\ DOMAIN tk.size = D
      /\ \A y \in D : tk.parent[y] = y => tk.size[y] = Cardinality(Class(r, y))
  BY DEF Tracks
<1>2. DOMAIN r = D
  BY <1>1, LeadsToRoots
<1>3. CASE x \in D
  <2>1. Added(tk, x) = tk /\ e = r
    BY <1>2, <1>3 DEF Added, Extended
  <2> QED
    BY <1>3, <2>1
<1>4. CASE x \notin D
  <2>1. Added(tk, x) = [parent |-> p, size |-> z]
    BY <1>4 DEF Added
  <2>2. Leads(p, e)
    BY <1>1, <1>4, PlantedLeads
  <2>3. DOMAIN p = D \cup {x} /\ DOMAIN z = D \cup {x} /\ z[x] = 1
        /\ \A y \in D : p[y] = tk.parent[y] /\ z[y] = tk.size[y]
    BY <1>1, <1>4 DEF Put
  <2>4. DOMAIN e = D \cup {x} /\ e[x] = x /\ \A y \in D : e[y] = r[y]
    BY <1>2, <1>4 DEF Extended
  <2>5. IsFiniteSet(D \cup {x})
    <3> HIDE DEF D
    <3> QED
      BY <1>1, FS_AddElement
  <2>6. \A y \in D : r[y] \in D
    BY <1>1, LeadsToRoots
  <2>7. Class(e, x) = {x}
    BY <1>4, <2>4, <2>6 DEF Class
  <2>8. \A y \in D : Class(e, y) = Class(r, y)
    BY <1>2, <1>4, <2>4 DEF Class
  <2>9. Cardinality({x}) = 1
    BY FS_Singleton
  <2> HIDE DEF p, z, e, D
  <2>10. \A y \in D \cup {x} : p[y] = y => z[y] = Cardinality(Class(e, y))
    BY <1>1, <2>3, <2>7, <2>8, <2>9
  <2>11. Tracks([parent |-> p, size |-> z], e)
    BY <2>2, <2>3, <2>5, <2>10 DEF Tracks
  <2> QED
    BY <2>1, <2>3, <2>11 DEF e, D
<1> QED
  BY <1>3, <1>4

LEMMA FoundTracks ==
  ASSUME NEW tk, NEW r, Tracks(tk, r), NEW x
  PROVE  /\ Tracks(Found(tk, x), Extended(r, x))
         /\ DOMAIN Found(tk, x).parent = DOMAIN tk.parent \cup {x}
<1> DEFINE t == Added(tk, x)
           e == Extended(r, x)
           root == Root(t.parent, x)
           path == Trail(t.parent, x)
           hung == [y \in DOMAIN t.parent |-> IF y \in path THEN root ELSE t.parent[y]]
<1>1. Tracks(t, e) /\ DOMAIN t.parent = DOMAIN tk.parent \cup {x}
  BY AddedTracks
<1>2. Found(tk, x) = [t EXCEPT !.parent = hung]
  BY DEF Found
<1> HIDE DEF t, e
<1>3. /\ t = [parent |-> t.parent, size |-> t.size]
      /\ Leads(t.parent, e) /\ IsFiniteSet(DOMAIN t.parent) /\ DOMAIN t.size = DOMAIN t.parent
      /\ \A y \in DOMAIN t.parent : t.parent[y] = y => t.size[y] = Cardinality(Class(e, y))
  BY <1>1 DEF Tracks
<1>4. x \in DOMAIN t.parent
  BY <1>1
<1>5. root = e[x]
  BY <1>3, <1>4, RootIs
<1>6. root \in DOMAIN t.parent /\ t.parent[root] = root
  BY <1>3, <1>4, <1>5, LeadsToRoots
<1>7. \A z \in path : z \in DOMAIN t.parent /\ t.parent[z] # z /\ e[z] = root
  BY <1>3, <1>4, <1>5, TrailIs
<1> HIDE DEF root, path
<1>8. Leads(hung, e) /\ \A y \in DOMAIN t.parent : hung[y] = y <=> t.parent[y] = y
  BY <1>3, <1>6, <1>7, HungLeads
<1>9. DOMAIN hung = DOMAIN t.parent
  OBVIOUS
<1> HIDE DEF hung
<1>10. Found(tk, x) = [parent |-> hung, size |-> t.size]
  BY <1>2, <1>3
<1>11. Tracks([parent |-> hung, size |-> t.size], e)
  BY <1>3, <1>8, <1>9 DEF Tracks
<1> QED
  BY <1>1, <1>9, <1>10, <1>11 DEF e

\* The nodes of two roots are those of the one under which they are merged.
LEMMA MergedClasses ==
  ASSUME NEW r, IsFiniteSet(DOMAIN r),
         NEW small, NEW big, small # big, r[small] = small, r[big] = big
  PROVE  /\ Class(Merged(r, small, big), big) = Class(r, big) \cup Class(r, small)
         /\ Cardinality(Class(Merged(r, small, big), big))
              = Cardinality(Class(r, big)) + Cardinality(Class(r, small))
         /\ \A y : y \notin {small, big} => Class(Merged(r, small, big), y) = Class(r, y)
<1> DEFINE A == Class(r, big)
           B == Class(r, small)
           e == Merged(r, small, big)
<1>1. DOMAIN e = DOMAIN r /\ \A y \in DOMAIN r : e[y] = IF r[y] = small THEN big ELSE r[y]
  BY DEF Merged
<1> HIDE DEF e
<1>2. Class(e, big) = A \cup B
  BY <1>1 DEF Class
<1>3. \A y : y \notin {small, big} => Class(e, y) = Class(r, y)
  BY <1>1 DEF Class
<1>4. A \in SUBSET DOMAIN r /\ B \in SUBSET DOMAIN r /\ A \cap B = {}
  BY DEF Class
<1> HIDE DEF A, B
<1>5. IsFiniteSet(A) /\ IsFiniteSet(B)
  BY <1>4, FS_Subset
<1>6. Cardinality(A \cup B) = Cardinality(A) + Cardinality(B) - Cardinality(A \cap B)
  BY <1>5, FS_Union
<1>7. Cardinality(A \cap B) = 0
  BY <1>4, FS_EmptySet
<1>8. Cardinality(A) \in Nat /\ Cardinality(B) \in Nat
  BY <1>5, FS_CardinalityType
<1>9. Cardinality(A \cup B) = Cardinality(A) + Cardinality(B)
  BY <1>6, <1>7, <1>8
<1> QED
  BY <1>2, <1>3, <1>9 DEF A, B, e

LEMMA UnionTracks ==
  ASSUME NEW tk, NEW r, Tracks(tk, r), NEW x, NEW y
  PROVE  LET e == Extended(Extended(r, x), y) IN
         /\ DOMAIN e = DOMAIN r \cup {x, y}
         /\ \/ e[x] = e[y] /\ Tracks(Union(tk, x, y), e)
            \/ \E small, big \in DOMAIN e :
                 /\ small # big /\ {small, big} = {e[x], e[y]} /\ e[small] = small /\ e[big] = big
                 /\ Tracks(Union(tk, x, y), Merged(e, small, big))
<1> DEFINE f == Found(tk, x)
           t == Found(f, y)
           e == Extended(Extended(r, x), y)
           a == Root(t.parent, x)
           b == Root(t.parent, y)
           big == IF t.size[a] < t.size[b] THEN b ELSE a
           small == IF big = a THEN b ELSE a
           grafted == [t.parent EXCEPT ![small] = big]
           sized == [t.size EXCEPT ![big] = @ + t.size[small]]
<1>1. Tracks(f, Extended(r, x)) /\ DOMAIN f.parent = DOMAIN tk.parent \cup {x}
  BY FoundTracks
<1> HIDE DEF f
<1>2. Tracks(t, e) /\ DOMAIN t.parent = DOMAIN f.parent \cup {y}
  BY <1>1, FoundTracks
<1>3. Union(tk, x, y) = IF a = b THEN t
        ELSE [t EXCEPT !.parent[small] = big, !.size[big] = @ + t.size[small]]
  BY DEF Union, f
<1> HIDE DEF t, e
<1>4. /\ t = [parent |-> t.parent, size |-> t.size]
      /\ Leads(t.parent, e) /\ IsFiniteSet(DOMAIN t.parent) /\ DOMAIN t.size = DOMAIN t.parent
      /\ \A z \in DOMAIN t.parent : t.parent[z] = z => t.size[z] = Cardinality(Class(e, z))
  BY <1>2 DEF Tracks
<1>5. x \in DOMAIN t.parent /\ y \in DOMAIN t.parent
  BY <1>1, <1>2
<1>6. a = e[x] /\ b = e[y]
  BY <1>4, <1>5, RootIs
<1>7. DOMAIN e = DOMAIN t.parent /\ DOMAIN r = DOMAIN tk.parent
  <2>1. Leads(tk.parent, r)
    BY DEF Tracks
  <2> QED
    BY <1>4, <2>1, LeadsToRoots
<1>8. /\ a \in DOMAIN e /\ b \in DOMAIN e /\ t.parent[a] = a /\ t.parent[b] = b
      /\ e[a] = a /\ e[b] = b
  BY <1>4, <1>5, <1>6, <1>7, LeadsToRoots
<1>9. DOMAIN e = DOMAIN r \cup {x, y}
  BY <1>1, <1>2, <1>7
<1> HIDE DEF a, b
<1>10. CASE a = b
  BY <1>2, <1>3, <1>6, <1>9, <1>10 DEF e
<1>11. CASE a # b
  <2>1. {small, big} = {a, b} /\ small # big
    BY <1>11
  <2>2. Union(tk, x, y) = [t EXCEPT !.parent[small] = big, !.size[big] = @ + t.size[small]]
    BY <1>3, <1>11
  <2> HIDE DEF small, big
  <2>3. /\ small \in DOMAIN e /\ big \in DOMAIN e /\ t.parent[small] = small /\ t.parent[big] = big
        /\ e[small] = small /\ e[big] = big
    BY <1>8, <2>1
  <2>4. Union(tk, x, y) = [parent |-> grafted, size |-> sized]
    <3> HIDE DEF grafted, sized
    <3> QED
      BY <1>4, <2>2, Zenon DEF grafted, sized
  <2>5. /\ Leads(grafted, Merged(e, small, big)) /\ DOMAIN grafted = DOMAIN t.parent
        /\ \A z \in DOMAIN t.parent : grafted[z] = z <=> t.parent[z] = z /\ z # small
    BY <1>4, <1>7, <2>1, <2>3, GraftedLeads
  <2>6. /\ DOMAIN sized = DOMAIN t.size /\ sized[big] = t.size[big] + t.size[small]
        /\ \A z \in DOMAIN t.size : z # big => sized[z] = t.size[z]
    BY <1>4, <1>7, <2>3
  <2>7. /\ Cardinality(Class(Merged(e, small, big), big))
             = Cardinality(Class(e, big)) + Cardinality(Class(e, small))
        /\ \A z : z \notin {small, big} => Class(Merged(e, small, big), z) = Class(e, z)
    BY <1>4, <1>7, <2>1, <2>3, MergedClasses
  <2> HIDE DEF grafted, sized
  <2>8. ASSUME NEW z \in DOMAIN t.parent, grafted[z] = z
        PROVE  sized[z] = Cardinality(Class(Merged(e, small, big), z))
    <3>1. t.parent[z] = z /\ z # small
      BY <2>5, <2>8
    <3>2. CASE z = big
      BY <1>4, <1>7, <2>3, <2>6, <2>7, <3>2
    <3>3. CASE z # big
      BY <1>4, <2>6, <2>7, <3>1, <3>3
    <3> QED
      BY <3>2, <3>3
  <2>9. Tracks([parent |-> grafted, size |-> sized], Merged(e, small, big))
    BY <1>4, <2>5, <2>6, <2>8 DEF Tracks
  <2>10. /\ small # big /\ {small, big} = {e[x], e[y]} /\ e[small] = small /\ e[big] = big
         /\ Tracks(Union(tk, x, y), Merged(e, small, big))
    BY <1>6, <2>1, <2>3, <2>4, <2>9
  <2> QED
    BY <1>9, <2>3, <2>10 DEF e
<1> QED
  BY <1>10, <1>11

-----------------------------------------------------------------------------
(* Trees are components *)

\* The trees of r are the components of the graph of the links.
Divides(r, links) ==
  /\ \A arc \in links : arc[1] \in DOMAIN r /\ arc[2] \in DOMAIN r
  /\ \A z \in DOMAIN r : IsComponent(Class(r, r[z]), links, z)

Matches(tk, links) == \E r : Tracks(tk, r) /\ Divides(r, links)

LEMMA ExtendedDivides ==
  ASSUME NEW r, NEW links, Divides(r, links), \A z \in DOMAIN r : r[z] \in DOMAIN r, NEW x
  PROVE  /\ Divides(Extended(r, x), links)
         /\ DOMAIN Extended(r, x) = DOMAIN r \cup {x}
         /\ \A z \in DOMAIN Extended(r, x) : Extended(r, x)[z] \in DOMAIN Extended(r, x)
<1> DEFINE e == Extended(r, x)
<1>1. CASE x \in DOMAIN r
  BY <1>1 DEF Extended
<1>2. CASE x \notin DOMAIN r
  <2>1. DOMAIN e = DOMAIN r \cup {x} /\ e[x] = x /\ \A z \in DOMAIN r : e[z] = r[z]
    BY <1>2 DEF Extended
  <2> HIDE DEF e
  <2>2. Class(e, x) = {x} /\ \A z \in DOMAIN r : Class(e, r[z]) = Class(r, r[z])
    BY <1>2, <2>1 DEF Class
  <2>3. IsComponent({x}, links, x)
    BY <1>2 DEF IsComponent, Closed, Divides
  <2>4. \A z \in DOMAIN e : IsComponent(Class(e, e[z]), links, z)
    BY <2>1, <2>2, <2>3 DEF Divides
  <2>5. \A arc \in links : arc[1] \in DOMAIN e /\ arc[2] \in DOMAIN e
    BY <2>1 DEF Divides
  <2>6. Divides(e, links)
    BY <2>4, <2>5 DEF Divides
  <2> QED
    BY <2>1, <2>6 DEF e
<1> QED
  BY <1>1, <1>2

LEMMA ClosedUnderMore ==
  ASSUME NEW links, NEW x, NEW y, NEW S
  PROVE  Closed(links \cup {<<x, y>>}, S) <=> Closed(links, S) /\ (x \in S <=> y \in S)
<1> DEFINE arc == <<x, y>>
<1>1. arc[1] = x /\ arc[2] = y
  OBVIOUS
<1> HIDE DEF arc
<1>2. Closed(links \cup {arc}, S) <=> Closed(links, S) /\ (x \in S <=> y \in S)
  BY <1>1 DEF Closed
<1> QED
  BY <1>2 DEF arc

\* A link within a component.
LEMMA LinkedWithin ==
  ASSUME NEW e, NEW links, Divides(e, links), NEW x \in DOMAIN e, NEW y \in DOMAIN e, e[x] = e[y]
  PROVE  Divides(e, links \cup {<<x, y>>})
<1> DEFINE more == links \cup {<<x, y>>}
<1>1. \A arc \in more : arc[1] \in DOMAIN e /\ arc[2] \in DOMAIN e
  BY DEF Divides
<1>2. ASSUME NEW z \in DOMAIN e PROVE IsComponent(Class(e, e[z]), more, z)
  <2> DEFINE C == Class(e, e[z])
  <2>1. IsComponent(C, links, z)
    BY DEF Divides
  <2>2. x \in C <=> y \in C
    BY DEF Class
  <2> HIDE DEF C
  <2>3. Closed(more, C)
    BY <2>1, <2>2 DEF Closed, IsComponent
  <2>4. \A S : Closed(more, S) => Closed(links, S)
    BY DEF Closed
  <2> QED
    BY <2>1, <2>3, <2>4 DEF IsComponent, C
<1> QED
  BY <1>1, <1>2 DEF Divides

\* m is e with two of its trees as one.
Joins(m, e, small, big) ==
  /\ small # big /\ DOMAIN m = DOMAIN e
  /\ \A z \in DOMAIN e : m[z] = IF e[z] = small THEN big ELSE e[z]
  /\ Class(m, big) = Class(e, big) \cup Class(e, small)
  /\ \A z : z \notin {small, big} => Class(m, z) = Class(e, z)

\* A link between two components.
LEMMA LinkedAcross ==
  ASSUME NEW e, NEW links, Divides(e, links), NEW x \in DOMAIN e, NEW y \in DOMAIN e,
         NEW small, NEW big, {small, big} = {e[x], e[y]}, NEW m, Joins(m, e, small, big)
  PROVE  Divides(m, links \cup {<<x, y>>})
<1> DEFINE more == links \cup {<<x, y>>}
           A == Class(e, e[x])
           B == Class(e, e[y])
<1> USE DEF Joins
<1>1. \A arc \in more : arc[1] \in DOMAIN m /\ arc[2] \in DOMAIN m
  BY DEF Divides
<1>2. Class(m, big) = A \cup B
  OBVIOUS
<1>3. \A z \in DOMAIN e : IsComponent(Class(e, e[z]), links, z)
  BY DEF Divides
<1>4. x \in A /\ y \in B
  BY DEF Class
<1>5. \A S : Closed(more, S) => Closed(links, S) /\ (x \in S <=> y \in S)
  BY ClosedUnderMore
<1>6. \A S : Closed(links, S) /\ (x \in S <=> y \in S) => Closed(more, S)
  BY ClosedUnderMore
<1>7. ASSUME NEW z \in DOMAIN e PROVE IsComponent(Class(m, m[z]), more, z)
  <2>1. CASE e[z] \in {small, big}
    <3>1. m[z] = big
      BY <2>1
    <3>2. z \in A \/ z \in B
      BY <2>1 DEF Class
    <3>3. IsComponent(A, links, x) /\ IsComponent(B, links, y)
      BY <1>3
    <3> HIDE DEF A, B
    <3>4. Closed(links, A) /\ Closed(links, B)
      BY <3>3 DEF IsComponent
    <3>5. Closed(links, A \cup B)
      BY <3>4 DEF Closed
    <3>6. Closed(more, A \cup B)
      BY <1>4, <1>6, <3>5
    <3>7. ASSUME NEW S, z \in S, Closed(more, S) PROVE A \cup B \subseteq S
      <4>1. Closed(links, S) /\ (x \in S <=> y \in S)
        BY <1>5, <3>7
      <4>2. CASE z \in A
        <5>1. IsComponent(A, links, z)
          BY <3>3, <4>2, ComponentOfMember
        <5>2. A \subseteq S
          BY <3>7, <4>1, <5>1 DEF IsComponent
        <5>3. y \in S
          BY <1>4, <4>1, <5>2
        <5>4. B \subseteq S
          BY <3>3, <4>1, <5>3 DEF IsComponent
        <5> QED
          BY <5>2, <5>4
      <4>3. CASE z \in B
        <5>1. IsComponent(B, links, z)
          BY <3>3, <4>3, ComponentOfMember
        <5>2. B \subseteq S
          BY <3>7, <4>1, <5>1 DEF IsComponent
        <5>3. x \in S
          BY <1>4, <4>1, <5>2
        <5>4. A \subseteq S
          BY <3>3, <4>1, <5>3 DEF IsComponent
        <5> QED
          BY <5>2, <5>4
      <4> QED
        BY <3>2, <4>2, <4>3
    <3>8. IsComponent(A \cup B, more, z)
      BY <3>2, <3>6, <3>7 DEF IsComponent
    <3> QED
      BY <1>2, <3>1, <3>8
  <2>2. CASE e[z] \notin {small, big}
    <3> DEFINE C == Class(e, e[z])
    <3>1. m[z] = e[z] /\ Class(m, m[z]) = C
      BY <2>2
    <3>2. x \notin C /\ y \notin C
      BY <2>2 DEF Class
    <3>3. IsComponent(C, links, z)
      BY <1>3
    <3> HIDE DEF C
    <3>4. Closed(more, C)
      BY <1>6, <3>2, <3>3 DEF IsComponent
    <3>5. IsComponent(C, more, z)
      BY <1>5, <3>3, <3>4 DEF IsComponent
    <3> QED
      BY <3>1, <3>5
  <2> QED
    BY <2>1, <2>2
<1> QED
  BY <1>1, <1>7 DEF Divides

LEMMA TracksRoots ==
  ASSUME NEW tk, NEW r, Tracks(tk, r)
  PROVE  DOMAIN r = DOMAIN tk.parent /\ \A z \in DOMAIN r : r[z] \in DOMAIN r
<1>1. Leads(tk.parent, r)
  BY DEF Tracks
<1> QED
  BY <1>1, LeadsToRoots

LEMMA AddedMatches ==
  ASSUME NEW tk, NEW links, Matches(tk, links), NEW x
  PROVE  Matches(Added(tk, x), links) /\ x \in DOMAIN Added(tk, x).parent
<1>1. PICK r : Tracks(tk, r) /\ Divides(r, links)
  BY DEF Matches
<1>2. Tracks(Added(tk, x), Extended(r, x)) /\ DOMAIN Added(tk, x).parent = DOMAIN tk.parent \cup {x}
  BY <1>1, AddedTracks
<1>3. \A z \in DOMAIN r : r[z] \in DOMAIN r
  BY <1>1, TracksRoots
<1>4. Divides(Extended(r, x), links)
  BY <1>1, <1>3, ExtendedDivides
<1> QED
  BY <1>2, <1>4 DEF Matches

LEMMA UnionMatches ==
  ASSUME NEW tk, NEW links, Matches(tk, links), NEW x, NEW y
  PROVE  /\ Matches(Union(tk, x, y), links \cup {<<x, y>>})
         /\ x \in DOMAIN Union(tk, x, y).parent
<1> DEFINE u == Union(tk, x, y)
           more == links \cup {<<x, y>>}
<1>1. PICK r : Tracks(tk, r) /\ Divides(r, links)
  BY DEF Matches
<1> DEFINE d == Extended(r, x)
           e == Extended(d, y)
<1>2. DOMAIN r = DOMAIN tk.parent /\ \A z \in DOMAIN r : r[z] \in DOMAIN r
  BY <1>1, TracksRoots
<1>3. /\ Divides(d, links) /\ DOMAIN d = DOMAIN r \cup {x}
      /\ \A z \in DOMAIN d : d[z] \in DOMAIN d
  BY <1>1, <1>2, ExtendedDivides
<1>u. /\ DOMAIN e = DOMAIN r \cup {x, y}
      /\ \/ e[x] = e[y] /\ Tracks(u, e)
         \/ \E small, big \in DOMAIN e :
              /\ small # big /\ {small, big} = {e[x], e[y]} /\ e[small] = small /\ e[big] = big
              /\ Tracks(u, Merged(e, small, big))
  BY <1>1, UnionTracks
<1> HIDE DEF d
<1>4. Divides(e, links)
  BY <1>3, ExtendedDivides
<1> HIDE DEF e, u
<1>5. x \in DOMAIN e /\ y \in DOMAIN e /\ DOMAIN e = DOMAIN tk.parent \cup {x, y}
  BY <1>2, <1>u
<1>6. CASE e[x] = e[y] /\ Tracks(u, e)
  <2>1. Divides(e, more)
    BY <1>4, <1>5, <1>6, LinkedWithin
  <2>2. DOMAIN e = DOMAIN u.parent
    BY <1>6, TracksRoots
  <2> QED
    BY <1>5, <1>6, <2>1, <2>2 DEF Matches, u
<1>7. CASE \E small, big \in DOMAIN e :
             /\ small # big /\ {small, big} = {e[x], e[y]} /\ e[small] = small /\ e[big] = big
             /\ Tracks(u, Merged(e, small, big))
  <2>1. PICK small \in DOMAIN e, big \in DOMAIN e :
             /\ small # big /\ {small, big} = {e[x], e[y]} /\ e[small] = small /\ e[big] = big
             /\ Tracks(u, Merged(e, small, big))
    BY <1>7
  <2> DEFINE m == Merged(e, small, big)
  <2>2. DOMAIN m = DOMAIN e /\ \A z \in DOMAIN e : m[z] = IF e[z] = small THEN big ELSE e[z]
    BY DEF Merged
  <2>3. IsFiniteSet(DOMAIN e)
    <3>1. IsFiniteSet(DOMAIN u.parent)
      BY <2>1 DEF Tracks
    <3>2. DOMAIN m = DOMAIN u.parent
      BY <2>1, TracksRoots
    <3> QED
      BY <2>2, <3>1, <3>2
  <2>4. /\ Class(m, big) = Class(e, big) \cup Class(e, small)
        /\ \A z : z \notin {small, big} => Class(m, z) = Class(e, z)
    BY <2>1, <2>3, MergedClasses
  <2>5. Tracks(u, m)
    BY <2>1
  <2> HIDE DEF m
  <2>j. Joins(m, e, small, big)
    BY <2>1, <2>2, <2>4 DEF Joins
  <2>6. Divides(m, more)
    BY <1>4, <1>5, <2>1, <2>j, LinkedAcross
  <2>7. DOMAIN m = DOMAIN u.parent
    BY <2>5, TracksRoots
  <2> QED
    BY <1>5, <2>2, <2>5, <2>6, <2>7 DEF Matches, u
<1> QED
  BY <1>6, <1>7, <1>u

\* The size a tracker has for a node is that of its component.
LEMMA SizeOfComponent ==
  ASSUME NEW tk, NEW links, Matches(tk, links), NEW x \in DOMAIN tk.parent,
         NEW C, IsComponent(C, links, x)
  PROVE  ComponentSize(tk, x) = Cardinality(C)
<1>1. PICK r : Tracks(tk, r) /\ Divides(r, links)
  BY DEF Matches
<1>2. Leads(tk.parent, r) /\ \A y \in DOMAIN tk.parent : tk.parent[y] = y => tk.size[y] = Cardinality(Class(r, y))
  BY <1>1 DEF Tracks
<1>3. Root(tk.parent, x) = r[x] /\ r[x] \in DOMAIN tk.parent /\ tk.parent[r[x]] = r[x]
      /\ DOMAIN r = DOMAIN tk.parent
  BY <1>2, RootIs, LeadsToRoots
<1>4. ComponentSize(tk, x) = Cardinality(Class(r, r[x]))
  BY <1>2, <1>3 DEF ComponentSize
<1>5. IsComponent(Class(r, r[x]), links, x)
  BY <1>1, <1>3 DEF Divides
<1>6. C = Class(r, r[x])
  BY <1>5, OneComponent
<1> QED
  BY <1>4, <1>6

LEMMA NothingMatches == Matches(NewTracker, {})
<1> DEFINE none == <<>>
<1>1. DOMAIN none = {} /\ none = [y \in {} |-> none[y]]
  OBVIOUS
<1> HIDE DEF none
<1>2. Leads(none, none)
  <2>1. Rooted(none)
    BY <1>1 DEF Rooted
  <2>2. none = [y \in DOMAIN none |-> IF none[y] = y THEN y ELSE none[none[y]]]
    BY <1>1
  <2> QED
    BY <1>1, <2>1, <2>2 DEF Leads
<1>3. NewTracker = [parent |-> none, size |-> none]
  BY DEF NewTracker, none
<1>4. IsFiniteSet(DOMAIN none)
  BY <1>1, FS_EmptySet
<1>5. Tracks(NewTracker, none)
  BY <1>1, <1>2, <1>3, <1>4 DEF Tracks
<1>6. Divides(none, {})
  BY <1>1 DEF Divides
<1> QED
  BY <1>5, <1>6 DEF Matches

-----------------------------------------------------------------------------
(* One transaction: it is joined with its addresses, and their degrees go up *)

JoinedTo(tk, x, rows) == FoldLeft(LAMBDA tracker, row : Union(tracker, x, AddrNode(row.addr)), tk, rows)
BumpedBy(deg, rows) == FoldLeft(Bumped, deg, rows)

RowLinks(x, rows, k) == {<<x, AddrNode(rows[i].addr)>> : i \in 1..k}
Hits(rows, k, a) == {i \in 1..k : rows[i].addr = a}

LEMMA JoinedMatches ==
  ASSUME NEW tk, NEW links, Matches(tk, links), NEW x, x \in DOMAIN tk.parent,
         NEW A, NEW rows \in Seq(A)
  PROVE  /\ Matches(JoinedTo(tk, x, rows), links \cup RowLinks(x, rows, Len(rows)))
         /\ x \in DOMAIN JoinedTo(tk, x, rows).parent
<1> DEFINE n == Len(rows)
           c == [before |-> tk, node |-> x]
           eq(h) == h = [T \in SUBSET (1..n) |->
                           IF T = {} THEN tk ELSE Union(h[T \ {Max(T)}], x, AddrNode(rows[Max(T)].addr))]
           iter == CHOOSE h : eq(h)
<1>1. n \in Nat /\ DOMAIN rows = 1..n
  OBVIOUS
<1> HIDE DEF n
<1>2. JoinedTo(tk, x, rows) = iter[1..n]
  BY <1>1 DEF JoinedTo, FoldLeft, MapThenFoldSet
<1>p. Passes(iter, n, "join", c, rows)
  <2>1. \A h : eq(h) <=> Passes(h, n, "join", c, rows)
    BY DEF Passes, Start, Turn
  <2> HIDE DEF eq
  <2>2. \E h : eq(h)
    BY <1>1, <2>1, PassesExist
  <2> QED
    BY <2>1, <2>2
<1> HIDE DEF iter
<1>4. /\ iter[1..0] = tk
      /\ \A j \in 1..n : iter[1..j] = Union(iter[1..(j - 1)], x, AddrNode(rows[j].addr))
  <2>1. /\ iter[1..0] = Start("join", c)
        /\ \A j \in 1..n : iter[1..j] = Turn("join", c, iter[1..(j - 1)], rows[j])
    BY <1>1, <1>p, PassTurns
  <2> QED
    BY <2>1 DEF Start, Turn
<1> HIDE DEF c
<1> DEFINE good(j) == /\ Matches(iter[1..j], links \cup RowLinks(x, rows, j))
                      /\ x \in DOMAIN iter[1..j].parent
           D == {j \in Nat : j <= n => good(j)}
<1>5. 0 \in D
  <2>1. links \cup RowLinks(x, rows, 0) = links
    BY DEF RowLinks
  <2> QED
    BY <1>4, <2>1
<1>6. ASSUME NEW j \in Nat, j \in D PROVE j + 1 \in D
  <2> SUFFICES ASSUME j + 1 <= n
               PROVE  good(j + 1)
    OBVIOUS
  <2>1. j + 1 \in 1..n /\ (j + 1) - 1 = j /\ j <= n
    BY <1>1
  <2> DEFINE y == AddrNode(rows[j + 1].addr)
             L == links \cup RowLinks(x, rows, j)
             t == iter[1..j]
  <2>2. Matches(t, L) /\ x \in DOMAIN t.parent
    BY <1>6, <2>1
  <2>3. iter[1..(j + 1)] = Union(t, x, y)
    BY <1>4, <2>1
  <2>4. 1..(j + 1) = 1..j \cup {j + 1}
    OBVIOUS
  <2>5. links \cup RowLinks(x, rows, j + 1) = L \cup {<<x, y>>}
    BY <2>4 DEF RowLinks
  <2>m. Matches(t, L)
    BY <2>2
  <2> HIDE DEF y, L, t, D
  <2>6. Matches(Union(t, x, y), L \cup {<<x, y>>}) /\ x \in DOMAIN Union(t, x, y).parent
    BY <2>m, UnionMatches
  <2> QED
    BY <2>2, <2>3, <2>5, <2>6
<1>7. Nat \subseteq D
  <2> HIDE DEF D
  <2> QED
    BY <1>5, <1>6, InductionOnNat
<1>8. good(n)
  <2> HIDE DEF good
  <2> QED
    BY <1>1, <1>7
<1> QED
  BY <1>2, <1>8 DEF n

LEMMA HitsGrow ==
  ASSUME NEW rows, NEW j \in Nat, NEW a
  PROVE  /\ IsFiniteSet(Hits(rows, j, a))
         /\ Cardinality(Hits(rows, j, a)) \in Nat
         /\ Cardinality(Hits(rows, j + 1, a))
              = Cardinality(Hits(rows, j, a)) + (IF rows[j + 1].addr = a THEN 1 ELSE 0)
<1> DEFINE H == Hits(rows, j, a)
           m == j + 1
<1>1. IsFiniteSet(1..j)
  BY FS_Interval
<1>2. H \in SUBSET (1..j) /\ m \notin H
  BY DEF Hits
<1>3. Hits(rows, m, a) = IF rows[m].addr = a THEN H \cup {m} ELSE H
  <2>1. 1..m = 1..j \cup {m}
    OBVIOUS
  <2> HIDE DEF m
  <2> QED
    BY <2>1 DEF Hits
<1> HIDE DEF H, m
<1>4. IsFiniteSet(H)
  BY <1>1, <1>2, FS_Subset
<1>5. Cardinality(H) \in Nat
  BY <1>4, FS_CardinalityType
<1>6. Cardinality(H \cup {m}) = IF m \in H THEN Cardinality(H) ELSE Cardinality(H) + 1
  BY <1>4, FS_AddElement
<1>7. Cardinality(Hits(rows, m, a)) = Cardinality(H) + (IF rows[m].addr = a THEN 1 ELSE 0)
  BY <1>2, <1>3, <1>5, <1>6
<1> QED
  BY <1>4, <1>5, <1>7 DEF H, m

LEMMA BumpedDegrees ==
  ASSUME NEW deg, \A a : Deg(deg, a) \in Nat, NEW A, NEW rows \in Seq(A)
  PROVE  \A a : Deg(BumpedBy(deg, rows), a) = Deg(deg, a) + Cardinality(Hits(rows, Len(rows), a))
<1> DEFINE n == Len(rows)
           c == [before |-> deg]
           eq(h) == h = [T \in SUBSET (1..n) |->
                           IF T = {} THEN deg ELSE Bumped(h[T \ {Max(T)}], rows[Max(T)])]
           iter == CHOOSE h : eq(h)
<1>1. n \in Nat /\ DOMAIN rows = 1..n
  OBVIOUS
<1> HIDE DEF n
<1>2. BumpedBy(deg, rows) = iter[1..n]
  BY <1>1 DEF BumpedBy, FoldLeft, MapThenFoldSet
<1>p. Passes(iter, n, "bump", c, rows)
  <2>1. \A h : eq(h) <=> Passes(h, n, "bump", c, rows)
    BY DEF Passes, Start, Turn
  <2> HIDE DEF eq
  <2>2. \E h : eq(h)
    BY <1>1, <2>1, PassesExist
  <2> QED
    BY <2>1, <2>2
<1> HIDE DEF iter
<1>4. /\ iter[1..0] = deg
      /\ \A j \in 1..n : iter[1..j] = Bumped(iter[1..(j - 1)], rows[j])
  <2>1. /\ iter[1..0] = Start("bump", c)
        /\ \A j \in 1..n : iter[1..j] = Turn("bump", c, iter[1..(j - 1)], rows[j])
    BY <1>1, <1>p, PassTurns
  <2> QED
    BY <2>1 DEF Start, Turn
<1> HIDE DEF c
<1> DEFINE D == {j \in Nat : j <= n =>
                   \A a : Deg(iter[1..j], a) = Deg(deg, a) + Cardinality(Hits(rows, j, a))}
<1>5. 0 \in D
  <2>1. \A a : Hits(rows, 0, a) = {}
    BY DEF Hits
  <2>2. Cardinality({}) = 0
    BY FS_EmptySet
  <2>3. ASSUME NEW a PROVE Deg(deg, a) = Deg(deg, a) + Cardinality(Hits(rows, 0, a))
    <3>1. Deg(deg, a) \in Nat /\ Cardinality(Hits(rows, 0, a)) = 0
      BY <2>1, <2>2
    <3> QED
      BY <3>1
  <2> QED
    BY <1>4, <2>3
<1>6. ASSUME NEW j \in Nat, j \in D PROVE j + 1 \in D
  <2> SUFFICES ASSUME j + 1 <= n, NEW a
               PROVE  Deg(iter[1..(j + 1)], a) = Deg(deg, a) + Cardinality(Hits(rows, j + 1, a))
    OBVIOUS
  <2>1. j + 1 \in 1..n /\ (j + 1) - 1 = j /\ j <= n
    BY <1>1
  <2> DEFINE d == iter[1..j]
             z == iter[1..(j + 1)]
             row == rows[j + 1]
  <2>2. Deg(d, a) = Deg(deg, a) + Cardinality(Hits(rows, j, a))
    BY <1>6, <2>1
  <2>3. z = Put(d, row.addr, Deg(d, row.addr) + 1)
    BY <1>4, <2>1 DEF Bumped
  <2>4. /\ Cardinality(Hits(rows, j, a)) \in Nat
        /\ Cardinality(Hits(rows, j + 1, a))
             = Cardinality(Hits(rows, j, a)) + (IF row.addr = a THEN 1 ELSE 0)
    BY HitsGrow
  <2> HIDE DEF d, z, row
  <2>5. CASE row.addr = a
    <3>1. Deg(z, a) = Deg(d, a) + 1
      BY <2>3, <2>5 DEF Put, Deg
    <3> QED
      BY <2>2, <2>4, <2>5, <3>1 DEF z
  <2>6. CASE row.addr # a
    <3>1. Deg(z, a) = Deg(d, a)
      BY <2>3, <2>6 DEF Put, Deg
    <3> QED
      BY <2>2, <2>4, <2>6, <3>1 DEF z
  <2> QED
    BY <2>5, <2>6
<1>7. Nat \subseteq D
  <2> HIDE DEF D
  <2> QED
    BY <1>5, <1>6, InductionOnNat
<1>8. \A a : Deg(iter[1..n], a) = Deg(deg, a) + Cardinality(Hits(rows, n, a))
  BY <1>1, <1>7
<1> QED
  BY <1>2, <1>8 DEF n

-----------------------------------------------------------------------------
(* The rows of some transactions *)

Within(rows, ids) == Where(rows, {i \in DOMAIN rows : rows[i].id \in ids})
Occurs(rows, ids, a) == {i \in DOMAIN rows : rows[i].id \in ids /\ rows[i].addr = a}
Uses(c, ids, a) == Cardinality(Occurs(c.ins, ids, a)) + Cardinality(Occurs(c.outs, ids, a))
AllHits(rows, a) == {i \in DOMAIN rows : rows[i].addr = a}

LEMMA OfIsWithin ==
  ASSUME NEW rows, NEW id
  PROVE  Of(rows, id) = Within(rows, {id})
<1>1. {i \in DOMAIN rows : rows[i].id = id} = {i \in DOMAIN rows : rows[i].id \in {id}}
  OBVIOUS
<1> QED
  BY <1>1 DEF Of, Within

LEMMA PlacesFinite ==
  ASSUME NEW A, NEW rows \in Seq(A), NEW ids, NEW a
  PROVE  /\ IsFiniteSet(Occurs(rows, ids, a)) /\ Cardinality(Occurs(rows, ids, a)) \in Nat
         /\ IsFiniteSet(AllHits(rows, a)) /\ Cardinality(AllHits(rows, a)) \in Nat
<1> DEFINE P == Occurs(rows, ids, a)
           H == AllHits(rows, a)
<1>1. P \in SUBSET DOMAIN rows /\ H \in SUBSET DOMAIN rows
  BY DEF Occurs, AllHits
<1>2. DOMAIN rows = 1..Len(rows) /\ Len(rows) \in Nat
  OBVIOUS
<1>3. IsFiniteSet(1..Len(rows))
  BY <1>2, FS_Interval
<1>4. IsFiniteSet(P) /\ IsFiniteSet(H)
  BY <1>1, <1>2, <1>3, FS_Subset
<1> QED
  BY <1>4, FS_CardinalityType

LEMMA WithinRows ==
  ASSUME NEW A, NEW rows \in Seq(A), NEW ids
  PROVE  /\ Within(rows, ids) \in Seq(A)
         /\ Range(Within(rows, ids)) = {r \in Range(rows) : r.id \in ids}
         /\ \A a : Cardinality(AllHits(Within(rows, ids), a)) = Cardinality(Occurs(rows, ids, a))
<1> DEFINE mask == {i \in DOMAIN rows : rows[i].id \in ids}
           W == Where(rows, mask)
           n == Cardinality(mask)
<1>1. mask \in SUBSET DOMAIN rows
  OBVIOUS
<1>2. Within(rows, ids) = W
  BY DEF Within
<1>3. /\ n \in Nat /\ \E p : Lists(p, mask) /\ W = [k \in 1..n |-> rows[p[k]]]
      /\ W \in Seq(A) /\ Len(W) = n /\ Range(W) = {rows[i] : i \in mask}
  <2> HIDE DEF mask
  <2> QED
    BY <1>1, WhereIs
<1>4. {rows[i] : i \in mask} = {r \in Range(rows) : r.id \in ids}
  BY DEF Range
<1> HIDE DEF W, n
<1>5. ASSUME NEW a PROVE Cardinality(AllHits(W, a)) = Cardinality(Occurs(rows, ids, a))
  <2> DEFINE H == AllHits(W, a)
             P == Occurs(rows, ids, a)
  <2>1. PICK p : Lists(p, mask) /\ W = [k \in 1..n |-> rows[p[k]]]
    BY <1>3
  <2>2. P = {i \in mask : rows[i].addr = a}
    BY DEF Occurs
  <2>3. H = {k \in 1..n : rows[p[k]].addr = a}
    BY <2>1 DEF AllHits
  <2> DEFINE f == [k \in H |-> p[k]]
  <2>4. /\ \A k \in 1..n : p[k] \in mask
        /\ \A i \in mask : \E k \in 1..n : p[k] = i
        /\ \A j, k \in 1..n : j < k => p[j] < p[k]
    BY <2>1 DEF Lists, n
  <2>5. \A k \in 1..n : p[k] \in Int
    BY <1>1, <2>4
  <2> HIDE DEF mask
  <2>6. \A j, k \in 1..n : p[j] = p[k] => j = k
    BY <1>3, <2>4, <2>5
  <2>7. f \in Injection(H, P)
    BY <2>2, <2>3, <2>4, <2>6 DEF Injection, IsInjective
  <2>8. f \in Surjection(H, P)
    <3>1. f \in [H -> P]
      BY <2>2, <2>3, <2>4
    <3>2. ASSUME NEW i \in P PROVE \E k \in H : f[k] = i
      BY <2>2, <2>3, <2>4
    <3> HIDE DEF f, H, P
    <3> QED
      BY <3>1, <3>2 DEF Surjection
  <2>9. IsFiniteSet(P)
    BY PlacesFinite
  <2> HIDE DEF f, H, P
  <2>10. IsFiniteSet(H) /\ Cardinality(H) = Cardinality(P)
    BY <2>7, <2>8, <2>9, FS_Injection
  <2> QED
    BY <2>10 DEF H, P
<1> QED
  BY <1>2, <1>3, <1>4, <1>5

\* One table after the other.
LEMMA ConcatRows ==
  ASSUME NEW A, NEW s \in Seq(A), NEW t \in Seq(A)
  PROVE  /\ s \o t \in Seq(A)
         /\ Range(s \o t) = Range(s) \cup Range(t)
         /\ \A a : Cardinality(AllHits(s \o t, a)) = Cardinality(AllHits(s, a)) + Cardinality(AllHits(t, a))
<1> DEFINE m == Len(s)
           n == Len(t)
           u == s \o t
<1>1. /\ m \in Nat /\ n \in Nat /\ DOMAIN s = 1..m /\ DOMAIN t = 1..n
      /\ u \in Seq(A) /\ DOMAIN u = 1..(m + n)
      /\ \A i \in 1..m : u[i] = s[i]
      /\ \A i \in (m + 1)..(m + n) : u[i] = t[i - m]
  OBVIOUS
<1> HIDE DEF m, n, u
<1>2. \A i \in 1..n : i + m \in (m + 1)..(m + n) /\ u[i + m] = t[i]
  <2>1. \A i \in 1..n : i + m \in (m + 1)..(m + n) /\ (i + m) - m = i
    BY <1>1
  <2> QED
    BY <1>1, <2>1
<1>3. \A i \in 1..(m + n) : i \in 1..m \/ (i - m \in 1..n /\ i \in (m + 1)..(m + n))
  BY <1>1
<1>4. 1..m \subseteq 1..(m + n) /\ (m + 1)..(m + n) \subseteq 1..(m + n)
  BY <1>1
<1>5. Range(u) = Range(s) \cup Range(t)
  <2>1. ASSUME NEW i \in 1..(m + n) PROVE u[i] \in Range(s) \cup Range(t)
    BY <1>1, <1>3 DEF Range
  <2>2. \A i \in 1..m : s[i] \in Range(u)
    BY <1>1, <1>4 DEF Range
  <2>3. \A i \in 1..n : t[i] \in Range(u)
    BY <1>1, <1>2, <1>4 DEF Range
  <2> QED
    BY <1>1, <2>1, <2>2, <2>3 DEF Range
<1>6. ASSUME NEW a PROVE Cardinality(AllHits(u, a)) = Cardinality(AllHits(s, a)) + Cardinality(AllHits(t, a))
  <2> DEFINE G == AllHits(s, a)
             H == AllHits(t, a)
             K == {i \in (m + 1)..(m + n) : u[i].addr = a}
             f == [i \in H |-> i + m]
  <2>1. G = {i \in 1..m : s[i].addr = a} /\ H = {i \in 1..n : t[i].addr = a}
        /\ AllHits(u, a) = {i \in 1..(m + n) : u[i].addr = a}
    BY <1>1 DEF AllHits
  <2>2. AllHits(u, a) = G \cup K
    BY <1>1, <1>3, <1>4, <2>1
  <2>3. G \cap K = {}
    BY <1>1, <2>1
  <2>4. f \in [H -> K]
    BY <1>1, <1>2, <2>1
  <2>5. \A i, j \in H : f[i] = f[j] => i = j
    BY <1>1, <2>1
  <2>6. \A k \in K : \E i \in H : f[i] = k
    <3> SUFFICES ASSUME NEW k \in K PROVE k - m \in H /\ (k - m) + m = k
      OBVIOUS
    <3>1. k - m \in 1..n /\ (k - m) + m = k /\ k \in (m + 1)..(m + n)
      BY <1>1
    <3>2. u[k] = t[k - m] /\ u[k].addr = a
      BY <1>1, <3>1
    <3> QED
      BY <2>1, <3>1, <3>2
  <2>7. IsFiniteSet(G) /\ IsFiniteSet(H) /\ Cardinality(G) \in Nat /\ Cardinality(H) \in Nat
    BY PlacesFinite
  <2> HIDE DEF G, H, K, f
  <2>8. f \in Bijection(H, K)
    BY <2>4, <2>5, <2>6 DEF Bijection, Injection, Surjection, IsInjective
  <2>9. ExistsBijection(H, K)
    BY <2>8 DEF ExistsBijection
  <2>10. IsFiniteSet(K) /\ Cardinality(K) = Cardinality(H)
    BY <2>7, <2>9, FS_Bijection
  <2>11. Cardinality(G \cup K) = Cardinality(G) + Cardinality(K) - Cardinality(G \cap K)
    BY <2>7, <2>10, FS_Union
  <2>12. Cardinality(G \cap K) = 0
    BY <2>3, FS_EmptySet
  <2>13. Cardinality(G \cup K) = Cardinality(G) + Cardinality(H)
    BY <2>7, <2>10, <2>11, <2>12
  <2> QED
    BY <2>2, <2>13 DEF G, H
<1> QED
  BY <1>1, <1>5, <1>6 DEF u

\* The rows of some transactions among the inputs and outputs.
RowsOf(c, ids) == Within(c.ins, ids) \o Within(c.outs, ids)

LEMMA RowsAre ==
  ASSUME NEW c, NEW A, c.ins \in Seq(A), c.outs \in Seq(A), NEW ids
  PROVE  /\ RowsOf(c, ids) \in Seq(A)
         /\ Range(RowsOf(c, ids)) = {r \in Range(c.ins) \cup Range(c.outs) : r.id \in ids}
         /\ \A a : Cardinality(AllHits(RowsOf(c, ids), a)) = Uses(c, ids, a)
         /\ \A a : Uses(c, ids, a) \in Nat
<1> DEFINE x == Within(c.ins, ids)
           y == Within(c.outs, ids)
<1>1. /\ x \in Seq(A) /\ Range(x) = {r \in Range(c.ins) : r.id \in ids}
      /\ \A a : Cardinality(AllHits(x, a)) = Cardinality(Occurs(c.ins, ids, a))
  BY WithinRows
<1>2. /\ y \in Seq(A) /\ Range(y) = {r \in Range(c.outs) : r.id \in ids}
      /\ \A a : Cardinality(AllHits(y, a)) = Cardinality(Occurs(c.outs, ids, a))
  BY WithinRows
<1>3. RowsOf(c, ids) = x \o y
  BY DEF RowsOf
<1> HIDE DEF x, y
<1>4. /\ x \o y \in Seq(A) /\ Range(x \o y) = Range(x) \cup Range(y)
      /\ \A a : Cardinality(AllHits(x \o y, a)) = Cardinality(AllHits(x, a)) + Cardinality(AllHits(y, a))
  BY <1>1, <1>2, ConcatRows
<1>5. \A a : Cardinality(Occurs(c.ins, ids, a)) \in Nat /\ Cardinality(Occurs(c.outs, ids, a)) \in Nat
  BY PlacesFinite
<1> QED
  BY <1>1, <1>2, <1>3, <1>4, <1>5 DEF Uses

LEMMA UsesGrow ==
  ASSUME NEW c, NEW A, c.ins \in Seq(A), c.outs \in Seq(A), NEW ids, NEW id, id \notin ids, NEW a
  PROVE  Uses(c, ids \cup {id}, a) = Uses(c, ids, a) + Uses(c, {id}, a)
<1>1. ASSUME NEW rows \in Seq(A)
      PROVE  /\ Cardinality(Occurs(rows, ids \cup {id}, a))
                  = Cardinality(Occurs(rows, ids, a)) + Cardinality(Occurs(rows, {id}, a))
             /\ Cardinality(Occurs(rows, ids, a)) \in Nat /\ Cardinality(Occurs(rows, {id}, a)) \in Nat
  <2> DEFINE P == Occurs(rows, ids, a)
             Q == Occurs(rows, {id}, a)
  <2>1. Occurs(rows, ids \cup {id}, a) = P \cup Q /\ P \cap Q = {}
    BY DEF Occurs
  <2>2. IsFiniteSet(P) /\ Cardinality(P) \in Nat
    BY PlacesFinite
  <2>3. IsFiniteSet(Q) /\ Cardinality(Q) \in Nat
    BY PlacesFinite
  <2> HIDE DEF P, Q
  <2>4. Cardinality(P \cup Q) = Cardinality(P) + Cardinality(Q) - Cardinality(P \cap Q)
    BY <2>2, <2>3, FS_Union
  <2>5. Cardinality(P \cap Q) = 0
    BY <2>1, FS_EmptySet
  <2>6. Cardinality(P \cup Q) = Cardinality(P) + Cardinality(Q)
    BY <2>2, <2>3, <2>4, <2>5
  <2> QED
    BY <2>1, <2>2, <2>3, <2>6 DEF P, Q
<1>2. /\ Cardinality(Occurs(c.ins, ids \cup {id}, a))
             = Cardinality(Occurs(c.ins, ids, a)) + Cardinality(Occurs(c.ins, {id}, a))
      /\ Cardinality(Occurs(c.ins, ids, a)) \in Nat /\ Cardinality(Occurs(c.ins, {id}, a)) \in Nat
  BY <1>1
<1>3. /\ Cardinality(Occurs(c.outs, ids \cup {id}, a))
             = Cardinality(Occurs(c.outs, ids, a)) + Cardinality(Occurs(c.outs, {id}, a))
      /\ Cardinality(Occurs(c.outs, ids, a)) \in Nat /\ Cardinality(Occurs(c.outs, {id}, a)) \in Nat
  BY <1>1
<1> QED
  BY <1>2, <1>3 DEF Uses

-----------------------------------------------------------------------------
(* The pass of the graph extractor *)

\* The links between some transactions and their addresses.
Links(c, ids) ==
  {<<TxNode(r.id), AddrNode(r.addr)>> : r \in {q \in Range(c.ins) \cup Range(c.outs) : q.id \in ids}}

LEMMA LinksGrow ==
  ASSUME NEW c, NEW A, c.ins \in Seq(A), c.outs \in Seq(A), NEW ids, NEW id
  PROVE  Links(c, ids \cup {id})
           = Links(c, ids) \cup RowLinks(TxNode(id), RowsOf(c, {id}), Len(RowsOf(c, {id})))
<1> DEFINE rows == RowsOf(c, {id})
           All == Range(c.ins) \cup Range(c.outs)
           L == RowLinks(TxNode(id), rows, Len(rows))
<1>1. rows \in Seq(A) /\ Range(rows) = {r \in All : r.id \in {id}}
  BY RowsAre
<1>2. DOMAIN rows = 1..Len(rows)
  BY <1>1
<1> HIDE DEF rows
<1>3. L = {<<TxNode(id), AddrNode(r.addr)>> : r \in Range(rows)}
  BY <1>2 DEF RowLinks, Range
<1>4. L = {<<TxNode(r.id), AddrNode(r.addr)>> : r \in {q \in All : q.id = id}}
  <2>1. Range(rows) = {q \in All : q.id = id}
    BY <1>1
  <2> HIDE DEF L, All
  <2> QED
    BY <1>3, <2>1
<1> HIDE DEF L
<1>5. Links(c, ids) = {<<TxNode(r.id), AddrNode(r.addr)>> : r \in {q \in All : q.id \in ids}}
  BY DEF Links
<1>6. Links(c, ids \cup {id})
        = {<<TxNode(r.id), AddrNode(r.addr)>> : r \in {q \in All : q.id \in ids \cup {id}}}
  BY DEF Links
<1>7. {q \in All : q.id \in ids \cup {id}} = {q \in All : q.id \in ids} \cup {q \in All : q.id = id}
  OBVIOUS
<1> HIDE DEF All
<1> QED
  BY <1>4, <1>5, <1>6, <1>7 DEF L, rows

\* The tracker when the transaction of an id has been joined with its addresses.
JoinedWith(c, s, id) == JoinedTo(Added(s.tracker, TxNode(id)), TxNode(id), RowsOf(c, {id}))

\* A row reads sizes after, and degrees before the transaction.
Reads(row, c, s, id) ==
  /\ row.component = ComponentSize(JoinedWith(c, s, id), TxNode(id))
  /\ row.degIn = SumFunction([a \in Addrs(Of(c.ins, id)) |-> Deg(s.deg, a)])
  /\ row.degOut = SumFunction([a \in Addrs(Of(c.outs, id)) |-> Deg(s.deg, a)])

LEMMA VisitIs ==
  ASSUME NEW c, NEW s, NEW t
  PROVE  /\ Visit(c, s, t).tracker = JoinedWith(c, s, t.id)
         /\ Visit(c, s, t).deg = BumpedBy(s.deg, RowsOf(c, {t.id}))
         /\ \E row : Visit(c, s, t).rows = Put(s.rows, t.id, row) /\ Reads(row, c, s, t.id)
<1> DEFINE ins == Of(c.ins, t.id)
           outs == Of(c.outs, t.id)
           joined(rows) == JoinedTo(Added(s.tracker, TxNode(t.id)), TxNode(t.id), rows)
           row(rows) ==
             [fanIn |-> Len(ins), fanOut |-> Len(outs),
              uniqueIn |-> Cardinality(Addrs(ins)), uniqueOut |-> Cardinality(Addrs(outs)),
              degIn |-> SumFunction([a \in Addrs(ins) |-> Deg(s.deg, a)]),
              degOut |-> SumFunction([a \in Addrs(outs) |-> Deg(s.deg, a)]),
              reused |-> Cardinality({i \in DOMAIN ins : Deg(s.deg, ins[i].addr) > 0}),
              component |-> ComponentSize(joined(rows), TxNode(t.id))]
           visited(rows) == [tracker |-> joined(rows), deg |-> BumpedBy(s.deg, rows),
                             rows |-> Put(s.rows, t.id, row(rows))]
<1>1. ins \o outs = RowsOf(c, {t.id})
  BY OfIsWithin DEF RowsOf
<1>2. Visit(c, s, t) = visited(ins \o outs)
  BY DEF Visit, JoinedTo, BumpedBy
<1>3. Visit(c, s, t) = visited(RowsOf(c, {t.id}))
  <2> HIDE DEF visited, ins, outs
  <2> QED
    BY <1>1, <1>2
<1> DEFINE r == row(RowsOf(c, {t.id}))
<1>4. Reads(r, c, s, t.id)
  BY DEF Reads, JoinedWith
<1>5. /\ visited(RowsOf(c, {t.id})).tracker = JoinedWith(c, s, t.id)
      /\ visited(RowsOf(c, {t.id})).deg = BumpedBy(s.deg, RowsOf(c, {t.id}))
      /\ visited(RowsOf(c, {t.id})).rows = Put(s.rows, t.id, r)
  <2> HIDE DEF row
  <2> QED
    BY DEF JoinedWith
<1> HIDE DEF r, visited
<1> QED
  BY <1>3, <1>4, <1>5

\* What the graph pipeline reads of a dataset.
Graphed(c) ==
  /\ TxTable(c.tx)
  /\ {"tx", "ins", "outs"} \subseteq DOMAIN c
  /\ \E A : c.ins \in Seq(A) /\ c.outs \in Seq(A)

IdsUpto(seq, k) == {seq[i].id : i \in 1..k}

DegreeSum(c, rows, ids) == SumFunction([a \in Addrs(rows) |-> Uses(c, ids, a)])

\* The features of the k-th transaction are those of the graph of the first k.
Snapshot(c, seq, k, row) ==
  /\ \A C : IsComponent(C, Links(c, IdsUpto(seq, k)), TxNode(seq[k].id)) =>
       row.component = Cardinality(C)
  /\ row.degIn = DegreeSum(c, Of(c.ins, seq[k].id), IdsUpto(seq, k - 1))
  /\ row.degOut = DegreeSum(c, Of(c.outs, seq[k].id), IdsUpto(seq, k - 1))

\* What the pass knows after k transactions.
GraphPass(c, seq, k, s) ==
  /\ Matches(s.tracker, Links(c, IdsUpto(seq, k)))
  /\ \A a : Deg(s.deg, a) = Uses(c, IdsUpto(seq, k), a)
  /\ DOMAIN s.rows = IdsUpto(seq, k)
  /\ \A i \in 1..k : Snapshot(c, seq, i, s.rows[seq[i].id])

LEMMA GraphStarts ==
  ASSUME NEW c, NEW seq
  PROVE  GraphPass(c, seq, 0, NoVisits)
<1>1. IdsUpto(seq, 0) = {} /\ 1..0 = {}
  BY DEF IdsUpto
<1>2. Links(c, {}) = {}
  BY DEF Links
<1>3. NoVisits.tracker = NewTracker /\ NoVisits.deg = <<>> /\ NoVisits.rows = <<>>
  BY DEF NoVisits
<1>4. Matches(NoVisits.tracker, Links(c, IdsUpto(seq, 0)))
  BY <1>1, <1>2, <1>3, NothingMatches
<1>5. ASSUME NEW a PROVE Deg(NoVisits.deg, a) = Uses(c, IdsUpto(seq, 0), a)
  <2>1. Occurs(c.ins, {}, a) = {} /\ Occurs(c.outs, {}, a) = {}
    BY DEF Occurs
  <2>2. Cardinality({}) = 0
    BY FS_EmptySet
  <2>3. Uses(c, {}, a) = 0
    BY <2>1, <2>2 DEF Uses
  <2>4. Deg(<<>>, a) = 0
    BY DEF Deg
  <2> QED
    BY <1>1, <1>3, <2>3, <2>4
<1>6. DOMAIN NoVisits.rows = IdsUpto(seq, 0)
  BY <1>1, <1>3
<1>7. \A i \in 1..0 : Snapshot(c, seq, i, NoVisits.rows[seq[i].id])
  BY <1>1
<1> QED
  BY <1>4, <1>5, <1>6, <1>7 DEF GraphPass

LEMMA GraphTurns ==
  ASSUME NEW c, Graphed(c), NEW seq, NEW n, InTime(seq, n, c.tx), NEW k \in 1..n,
         NEW s, GraphPass(c, seq, k - 1, s)
  PROVE  GraphPass(c, seq, k, Visit(c, s, seq[k]))
<1> DEFINE t == seq[k]
           x == TxNode(t.id)
           I == IdsUpto(seq, k - 1)
           rows == RowsOf(c, {t.id})
           tk == Added(s.tracker, x)
           joined == JoinedWith(c, s, t.id)
           z == Visit(c, s, t)
<1>1. PICK A : c.ins \in Seq(A) /\ c.outs \in Seq(A)
  BY DEF Graphed
<1>2. n \in Nat /\ \A i, j \in 1..n : seq[i].id = seq[j].id => i = j
  BY DEF InTime
<1>3. 1..k = 1..(k - 1) \cup {k} /\ \A i \in 1..(k - 1) : i \in 1..n /\ i # k
  BY <1>2
<1>4. IdsUpto(seq, k) = I \cup {t.id} /\ t.id \notin I
  BY <1>2, <1>3 DEF IdsUpto
<1>5. /\ Matches(s.tracker, Links(c, I))
      /\ \A a : Deg(s.deg, a) = Uses(c, I, a)
      /\ DOMAIN s.rows = I
      /\ \A i \in 1..(k - 1) : Snapshot(c, seq, i, s.rows[seq[i].id])
  BY DEF GraphPass
<1>6. /\ z.tracker = joined
      /\ z.deg = BumpedBy(s.deg, rows)
      /\ \E row : z.rows = Put(s.rows, t.id, row) /\ Reads(row, c, s, t.id)
  BY VisitIs
<1>7. /\ rows \in Seq(A)
      /\ \A a : Cardinality(AllHits(rows, a)) = Uses(c, {t.id}, a)
  BY <1>1, RowsAre
<1>8. Links(c, I \cup {t.id}) = Links(c, I) \cup RowLinks(x, rows, Len(rows))
  BY <1>1, LinksGrow
<1>j. joined = JoinedTo(tk, x, rows)
  BY DEF JoinedWith
<1> HIDE DEF t, x, I, rows, z, joined
<1>9. Matches(tk, Links(c, I)) /\ x \in DOMAIN tk.parent
  BY <1>5, AddedMatches
<1> HIDE DEF tk
<1>10. Matches(joined, Links(c, I \cup {t.id})) /\ x \in DOMAIN joined.parent
  <2>1. Matches(JoinedTo(tk, x, rows), Links(c, I) \cup RowLinks(x, rows, Len(rows)))
    BY <1>7, <1>9, JoinedMatches
  <2>2. x \in DOMAIN JoinedTo(tk, x, rows).parent
    BY <1>7, <1>9, JoinedMatches
  <2> QED
    BY <1>8, <1>j, <2>1, <2>2
<1>11. \A a : Uses(c, I, a) \in Nat
  BY <1>1, RowsAre
<1>12. ASSUME NEW a PROVE Deg(z.deg, a) = Uses(c, I \cup {t.id}, a)
  <2>1. \A b : Deg(s.deg, b) \in Nat
    BY <1>5, <1>11
  <2>2. Deg(BumpedBy(s.deg, rows), a) = Deg(s.deg, a) + Cardinality(Hits(rows, Len(rows), a))
    BY <1>7, <2>1, BumpedDegrees
  <2>3. Hits(rows, Len(rows), a) = AllHits(rows, a)
    <3>1. DOMAIN rows = 1..Len(rows)
      BY <1>7
    <3> QED
      BY <3>1 DEF Hits, AllHits
  <2>4. Uses(c, I \cup {t.id}, a) = Uses(c, I, a) + Uses(c, {t.id}, a)
    BY <1>1, <1>4, UsesGrow
  <2> QED
    BY <1>5, <1>6, <1>7, <2>2, <2>3, <2>4
<1>13. PICK row : z.rows = Put(s.rows, t.id, row) /\ Reads(row, c, s, t.id)
  BY <1>6
<1>14. Snapshot(c, seq, k, row)
  <2>0. /\ row.component = ComponentSize(joined, x)
        /\ row.degIn = SumFunction([a \in Addrs(Of(c.ins, t.id)) |-> Deg(s.deg, a)])
        /\ row.degOut = SumFunction([a \in Addrs(Of(c.outs, t.id)) |-> Deg(s.deg, a)])
    BY <1>13 DEF Reads, joined, x
  <2>1. ASSUME NEW C, IsComponent(C, Links(c, I \cup {t.id}), x)
        PROVE  row.component = Cardinality(C)
    BY <1>10, <2>0, <2>1, SizeOfComponent
  <2>2. \A S : [a \in S |-> Deg(s.deg, a)] = [a \in S |-> Uses(c, I, a)]
    BY <1>5
  <2>3. row.degIn = DegreeSum(c, Of(c.ins, t.id), I) /\ row.degOut = DegreeSum(c, Of(c.outs, t.id), I)
    BY <2>0, <2>2 DEF DegreeSum
  <2> QED
    BY <1>4, <2>1, <2>3 DEF Snapshot, t, x, I
<1>15. DOMAIN z.rows = I \cup {t.id}
  BY <1>5, <1>13 DEF Put
<1>16. ASSUME NEW i \in 1..k PROVE Snapshot(c, seq, i, z.rows[seq[i].id])
  <2>1. CASE i = k
    <3>1. z.rows[seq[i].id] = row
      BY <1>13, <2>1 DEF Put, t
    <3> QED
      BY <1>14, <2>1, <3>1
  <2>2. CASE i # k
    <3>1. i \in 1..(k - 1)
      BY <1>3, <2>2
    <3>2. seq[i].id \in I
      BY <3>1 DEF IdsUpto, I
    <3>3. z.rows[seq[i].id] = s.rows[seq[i].id]
      BY <1>4, <1>5, <1>13, <3>2 DEF Put
    <3> QED
      BY <1>5, <3>1, <3>3
  <2> QED
    BY <2>1, <2>2
<1>17. GraphPass(c, seq, k, z)
  BY <1>4, <1>6, <1>10, <1>12, <1>15, <1>16 DEF GraphPass
<1> QED
  BY <1>17 DEF z, t

\* The graph features of every transaction are those of the graph so far.
LEMMA GraphFeaturesAre ==
  ASSUME NEW c, Graphed(c)
  PROVE  LET seq == Chronological(c.tx)
             n == Len(c.tx)
         IN /\ InTime(seq, n, c.tx)
            /\ DOMAIN GraphFeatures(c) = IdsUpto(seq, n)
            /\ \A i \in 1..n : Snapshot(c, seq, i, GraphFeatures(c)[seq[i].id])
<1> DEFINE n == Len(c.tx)
           seq == Chronological(c.tx)
           eq(h) == h = [T \in SUBSET (1..n) |->
                           IF T = {} THEN NoVisits ELSE Visit(c, h[T \ {Max(T)}], seq[Max(T)])]
           iter == CHOOSE h : eq(h)
<1>1. InTime(seq, n, c.tx)
  BY ChronologicalIs DEF Graphed
<1>2. n \in Nat /\ DOMAIN seq = 1..n
  BY <1>1 DEF InTime
<1> HIDE DEF n, seq
<1>3. GraphFeatures(c) = iter[1..n].rows
  BY <1>2 DEF GraphFeatures, FoldLeft, MapThenFoldSet, NoVisits, seq
<1>p. Passes(iter, n, "graph", c, seq)
  <2>1. \A h : eq(h) <=> Passes(h, n, "graph", c, seq)
    BY DEF Passes, Start, Turn
  <2> HIDE DEF eq
  <2>2. \E h : eq(h)
    BY <1>2, <2>1, PassesExist
  <2> QED
    BY <2>1, <2>2
<1> HIDE DEF iter
<1>4. /\ iter[1..0] = NoVisits
      /\ \A j \in 1..n : iter[1..j] = Visit(c, iter[1..(j - 1)], seq[j])
  <2>1. /\ iter[1..0] = Start("graph", c)
        /\ \A j \in 1..n : iter[1..j] = Turn("graph", c, iter[1..(j - 1)], seq[j])
    BY <1>2, <1>p, PassTurns
  <2> QED
    BY <2>1 DEF Start, Turn
<1> DEFINE D == {j \in Nat : j <= n => GraphPass(c, seq, j, iter[1..j])}
<1>5. 0 \in D
  BY <1>4, GraphStarts
<1>6. ASSUME NEW j \in Nat, j \in D PROVE j + 1 \in D
  <2> SUFFICES ASSUME j + 1 <= n PROVE GraphPass(c, seq, j + 1, iter[1..(j + 1)])
    OBVIOUS
  <2> DEFINE k == j + 1
  <2>1. k \in 1..n /\ k - 1 = j /\ j <= n
    BY <1>2
  <2>2. GraphPass(c, seq, k - 1, iter[1..(k - 1)])
    BY <1>6, <2>1
  <2> HIDE DEF k
  <2>3. iter[1..k] = Visit(c, iter[1..(k - 1)], seq[k])
    BY <1>4, <2>1
  <2>4. GraphPass(c, seq, k, iter[1..k])
    BY <1>1, <2>1, <2>2, <2>3, GraphTurns
  <2> QED
    BY <2>4 DEF k
<1>7. Nat \subseteq D
  <2> HIDE DEF D
  <2> QED
    BY <1>5, <1>6, InductionOnNat
<1>8. GraphPass(c, seq, n, iter[1..n])
  BY <1>2, <1>7
<1> QED
  BY <1>1, <1>3, <1>8 DEF GraphPass, n, seq

-----------------------------------------------------------------------------
(* The graph that is built from the tables *)

\* Every row has both of its nodes in S or neither.
ClosedRows(rows, S) == \A r \in rows : TxNode(r.id) \in S <=> AddrNode(r.addr) \in S

LEMMA LinksClosed ==
  ASSUME NEW c, NEW ids, NEW S
  PROVE  Closed(Links(c, ids), S)
           <=> ClosedRows({r \in Range(c.ins) \cup Range(c.outs) : r.id \in ids}, S)
<1> DEFINE Q == {r \in Range(c.ins) \cup Range(c.outs) : r.id \in ids}
           pair(r) == <<TxNode(r.id), AddrNode(r.addr)>>
<1>1. Links(c, ids) = {pair(r) : r \in Q}
  BY DEF Links
<1>2. \A r \in Q : pair(r)[1] = TxNode(r.id) /\ pair(r)[2] = AddrNode(r.addr)
  OBVIOUS
<1> HIDE DEF pair, Q
<1>3. Closed(Links(c, ids), S) <=> \A r \in Q : pair(r)[1] \in S <=> pair(r)[2] \in S
  BY <1>1 DEF Closed
<1>4. Closed(Links(c, ids), S) <=> ClosedRows(Q, S)
  BY <1>2, <1>3 DEF ClosedRows
<1> QED
  BY <1>4 DEF Q

ArcOfInput(r) == <<AddrNode(r.addr), TxNode(r.id)>>
ArcOfOutput(r) == <<TxNode(r.id), AddrNode(r.addr)>>

LEMMA ArcsAre ==
  ASSUME NEW c, NEW A, c.ins \in Seq(A), c.outs \in Seq(A)
  PROVE  Arcs(EdgeRows(c)) = {ArcOfInput(r) : r \in Range(c.ins)} \cup {ArcOfOutput(r) : r \in Range(c.outs)}
<1> DEFINE f == [i \in DOMAIN c.ins |->
                   [source |-> AddrNode(c.ins[i].addr), target |-> TxNode(c.ins[i].id),
                    index |-> c.ins[i].index, amt |-> c.ins[i].amt, change |-> FALSE,
                    time |-> TimeOf(c, c.ins[i].id)]]
           g == [i \in DOMAIN c.outs |->
                   [source |-> TxNode(c.outs[i].id), target |-> AddrNode(c.outs[i].addr),
                    index |-> c.outs[i].index, amt |-> c.outs[i].amt, change |-> c.outs[i].change,
                    time |-> TimeOf(c, c.outs[i].id)]]
           Q == {f[i] : i \in DOMAIN c.ins} \cup {g[i] : i \in DOMAIN c.outs}
<1>1. EdgeRows(c) = f \o g
  BY DEF EdgeRows
<1>2. /\ DOMAIN c.ins = 1..Len(c.ins) /\ Len(c.ins) \in Nat
      /\ DOMAIN c.outs = 1..Len(c.outs) /\ Len(c.outs) \in Nat
  OBVIOUS
<1>3. \A i \in DOMAIN f : <<f[i].source, f[i].target>> = ArcOfInput(c.ins[i])
  BY DEF ArcOfInput
<1>4. \A i \in DOMAIN g : <<g[i].source, g[i].target>> = ArcOfOutput(c.outs[i])
  BY DEF ArcOfOutput
<1>5. /\ DOMAIN f = DOMAIN c.ins /\ f = [i \in DOMAIN c.ins |-> f[i]]
      /\ DOMAIN g = DOMAIN c.outs /\ g = [i \in DOMAIN c.outs |-> g[i]]
  OBVIOUS
<1>6. (\A i \in DOMAIN c.ins : f[i] \in Q) /\ (\A i \in DOMAIN c.outs : g[i] \in Q)
  OBVIOUS
<1> HIDE DEF f, g, Q
<1>7. f \in Seq(Q)
  BY <1>2, <1>5, <1>6, FunctionIsSeq
<1>8. g \in Seq(Q)
  BY <1>2, <1>5, <1>6, FunctionIsSeq
<1>9. Range(f \o g) = Range(f) \cup Range(g)
  BY <1>7, <1>8, ConcatRows
<1>10. {<<e.source, e.target>> : e \in Range(f)} = {ArcOfInput(r) : r \in Range(c.ins)}
  <2> HIDE DEF ArcOfInput
  <2>1. \A i \in DOMAIN c.ins : <<f[i].source, f[i].target>> = ArcOfInput(c.ins[i])
    BY <1>3, <1>5
  <2>2. {<<e.source, e.target>> : e \in Range(f)} = {<<f[i].source, f[i].target>> : i \in DOMAIN c.ins}
    BY <1>5 DEF Range
  <2>3. {ArcOfInput(r) : r \in Range(c.ins)} = {ArcOfInput(c.ins[i]) : i \in DOMAIN c.ins}
    BY DEF Range
  <2> QED
    BY <2>1, <2>2, <2>3
<1>11. {<<e.source, e.target>> : e \in Range(g)} = {ArcOfOutput(r) : r \in Range(c.outs)}
  <2> HIDE DEF ArcOfOutput
  <2>1. \A i \in DOMAIN c.outs : <<g[i].source, g[i].target>> = ArcOfOutput(c.outs[i])
    BY <1>4, <1>5
  <2>2. {<<e.source, e.target>> : e \in Range(g)} = {<<g[i].source, g[i].target>> : i \in DOMAIN c.outs}
    BY <1>5 DEF Range
  <2>3. {ArcOfOutput(r) : r \in Range(c.outs)} = {ArcOfOutput(c.outs[i]) : i \in DOMAIN c.outs}
    BY DEF Range
  <2> QED
    BY <2>1, <2>2, <2>3
<1>12. Arcs(EdgeRows(c)) = {<<e.source, e.target>> : e \in Range(f)} \cup {<<e.source, e.target>> : e \in Range(g)}
  BY <1>1, <1>9 DEF Arcs
<1> QED
  BY <1>10, <1>11, <1>12

LEMMA ArcsFinite ==
  ASSUME NEW c, NEW A, c.ins \in Seq(A), c.outs \in Seq(A)
  PROVE  IsFiniteSet(Arcs(EdgeRows(c)))
<1> DEFINE I == Range(c.ins)
           O == Range(c.outs)
           P == {ArcOfInput(r) : r \in I}
           Q == {ArcOfOutput(r) : r \in O}
           f == [r \in I |-> ArcOfInput(r)]
           g == [r \in O |-> ArcOfOutput(r)]
<1>1. IsFiniteSet(I) /\ IsFiniteSet(O)
  BY FiniteDomain
<1>2. f \in Surjection(I, P) /\ g \in Surjection(O, Q)
  BY DEF Surjection
<1>3. Arcs(EdgeRows(c)) = P \cup Q
  BY ArcsAre
<1> HIDE DEF I, O, P, Q, f, g
<1>4. IsFiniteSet(P)
  BY <1>1, <1>2, FS_Surjection
<1>5. IsFiniteSet(Q)
  BY <1>1, <1>2, FS_Surjection
<1> QED
  BY <1>3, <1>4, <1>5, FS_Union

LEMMA ArcsClosed ==
  ASSUME NEW c, NEW A, c.ins \in Seq(A), c.outs \in Seq(A), NEW S
  PROVE  Closed(Arcs(EdgeRows(c)), S) <=> ClosedRows(Range(c.ins) \cup Range(c.outs), S)
<1>1. Arcs(EdgeRows(c)) = {ArcOfInput(r) : r \in Range(c.ins)} \cup {ArcOfOutput(r) : r \in Range(c.outs)}
  BY ArcsAre
<1>2. \A r : /\ ArcOfInput(r)[1] = AddrNode(r.addr) /\ ArcOfInput(r)[2] = TxNode(r.id)
             /\ ArcOfOutput(r)[1] = TxNode(r.id) /\ ArcOfOutput(r)[2] = AddrNode(r.addr)
  BY DEF ArcOfInput, ArcOfOutput
<1>3. Closed(Arcs(EdgeRows(c)), S) <=>
        /\ \A r \in Range(c.ins) : ArcOfInput(r)[1] \in S <=> ArcOfInput(r)[2] \in S
        /\ \A r \in Range(c.outs) : ArcOfOutput(r)[1] \in S <=> ArcOfOutput(r)[2] \in S
  BY <1>1 DEF Closed
<1> QED
  BY <1>2, <1>3 DEF ClosedRows

\* The dataset with the inputs and outputs of some transactions only.
Restricted(c, ids) == [c EXCEPT !.ins = Within(@, ids), !.outs = Within(@, ids)]

LEMMA RestrictedIs ==
  ASSUME NEW c, Graphed(c), NEW ids
  PROVE  LET z == Restricted(c, ids) IN
         /\ IsFiniteSet(Arcs(EdgeRows(z)))
         /\ \A S : Closed(Arcs(EdgeRows(z)), S) <=> Closed(Links(c, ids), S)
         /\ \A a : Cardinality(AllHits(z.ins \o z.outs, a)) = Uses(c, ids, a)
<1> DEFINE z == Restricted(c, ids)
<1>1. PICK A : c.ins \in Seq(A) /\ c.outs \in Seq(A)
  BY DEF Graphed
<1>2. z.ins = Within(c.ins, ids) /\ z.outs = Within(c.outs, ids)
  <2>1. "ins" \in DOMAIN c /\ "outs" \in DOMAIN c
    BY DEF Graphed
  <2> QED
    BY <2>1 DEF Restricted
<1> HIDE DEF z
<1>3. z.ins \in Seq(A) /\ Range(z.ins) = {r \in Range(c.ins) : r.id \in ids}
  BY <1>1, <1>2, WithinRows
<1>4. z.outs \in Seq(A) /\ Range(z.outs) = {r \in Range(c.outs) : r.id \in ids}
  BY <1>1, <1>2, WithinRows
<1>5. IsFiniteSet(Arcs(EdgeRows(z)))
  BY <1>3, <1>4, ArcsFinite
<1>6. ASSUME NEW S PROVE Closed(Arcs(EdgeRows(z)), S) <=> Closed(Links(c, ids), S)
  <2> DEFINE Q == {r \in Range(c.ins) \cup Range(c.outs) : r.id \in ids}
  <2>1. Closed(Arcs(EdgeRows(z)), S) <=> ClosedRows(Range(z.ins) \cup Range(z.outs), S)
    BY <1>3, <1>4, ArcsClosed
  <2>2. Range(z.ins) \cup Range(z.outs) = Q
    BY <1>3, <1>4
  <2>3. Closed(Links(c, ids), S) <=> ClosedRows(Q, S)
    BY LinksClosed
  <2> HIDE DEF Q
  <2> QED
    BY <2>1, <2>2, <2>3
<1>7. z.ins \o z.outs = RowsOf(c, ids)
  BY <1>2 DEF RowsOf
<1>8. \A a : Cardinality(AllHits(RowsOf(c, ids), a)) = Uses(c, ids, a)
  BY <1>1, RowsAre
<1> QED
  BY <1>5, <1>6, <1>7, <1>8 DEF z

\* The last transaction of a component has seen all of it.
LEMMA LastSeesAll ==
  ASSUME NEW c, NEW seq, NEW n \in Nat,
         NEW C, NEW v, IsComponent(C, Links(c, IdsUpto(seq, n)), v),
         NEW j \in 1..n, TxNode(seq[j].id) \in C
  PROVE  \E k \in 1..n : IsComponent(C, Links(c, IdsUpto(seq, k)), TxNode(seq[k].id))
<1> DEFINE T == {i \in 1..n : TxNode(seq[i].id) \in C}
           k == Max(T)
           x == TxNode(seq[k].id)
           All == Range(c.ins) \cup Range(c.outs)
           now == IdsUpto(seq, n)
           then == IdsUpto(seq, k)
<1>1. T \in SUBSET (1..n) /\ j \in T
  OBVIOUS
<1>2. IsFiniteSet(T) /\ T \in SUBSET Int /\ T # {}
  <2>1. IsFiniteSet(1..n)
    BY FS_Interval
  <2>2. IsFiniteSet(T)
    BY <1>1, <2>1, FS_Subset
  <2> QED
    BY <1>1, <2>2
<1>3. k \in T /\ \A i \in T : i <= k
  <2> HIDE DEF T
  <2> QED
    BY <1>2, MaxIsGreatest
<1>4. k \in 1..n /\ x \in C /\ \A i \in 1..n : k < i => TxNode(seq[i].id) \notin C
  <2>1. k \in 1..n /\ x \in C
    BY <1>3
  <2> HIDE DEF k
  <2>2. \A i \in 1..n : k < i => i \notin T
    BY <1>3, <2>1
  <2> QED
    BY <2>1, <2>2
<1> HIDE DEF T, k
<1>5. IsComponent(C, Links(c, now), x)
  BY <1>4, ComponentOfMember
<1>6. ClosedRows({r \in All : r.id \in now}, C)
  BY <1>5, LinksClosed DEF IsComponent
<1>7. then \subseteq now
  BY <1>4 DEF IdsUpto
<1>8. Closed(Links(c, then), C)
  <2>1. ClosedRows({r \in All : r.id \in then}, C)
    <3> HIDE DEF now, then, All
    <3> QED
      BY <1>6, <1>7 DEF ClosedRows
  <2> QED
    BY <2>1, LinksClosed
<1>9. ASSUME NEW S, x \in S, Closed(Links(c, then), S) PROVE C \subseteq S
  <2>1. ClosedRows({r \in All : r.id \in then}, S)
    BY <1>9, LinksClosed
  <2>2. ASSUME NEW r \in All, r.id \in now
        PROVE  TxNode(r.id) \in S \cap C <=> AddrNode(r.addr) \in S \cap C
    <3>1. TxNode(r.id) \in C <=> AddrNode(r.addr) \in C
      <4> HIDE DEF All, now
      <4> QED
        BY <1>6, <2>2 DEF ClosedRows
    <3>2. PICK i \in 1..n : r.id = seq[i].id
      BY <2>2 DEF IdsUpto
    <3>3. CASE i <= k
      <4>1. r.id \in then
        BY <1>4, <3>2, <3>3 DEF IdsUpto
      <4>2. TxNode(r.id) \in S <=> AddrNode(r.addr) \in S
        <5> HIDE DEF All, then
        <5> QED
          BY <2>1, <4>1 DEF ClosedRows
      <4> QED
        BY <3>1, <4>2
    <3>4. CASE k < i
      BY <1>4, <3>1, <3>2, <3>4
    <3> QED
      BY <1>4, <3>3, <3>4
  <2>3. ClosedRows({r \in All : r.id \in now}, S \cap C)
    <3> HIDE DEF All, now
    <3> QED
      BY <2>2 DEF ClosedRows
  <2>4. Closed(Links(c, now), S \cap C)
    BY <2>3, LinksClosed
  <2>5. x \in S \cap C
    BY <1>4, <1>9
  <2>6. C \subseteq S \cap C
    <3> HIDE DEF x, now
    <3> QED
      BY <1>5, <2>4, <2>5 DEF IsComponent
  <2> QED
    BY <2>6
<1> HIDE DEF then, x
<1>10. IsComponent(C, Links(c, then), x)
  BY <1>4, <1>8, <1>9 DEF IsComponent
<1> QED
  BY <1>4, <1>10 DEF then, x

-----------------------------------------------------------------------------
(* What a row says of the graph so far *)

IdsIn(txs) == {u.id : u \in txs}

\* What SnapshotsMatchTheGraph says of the row of t.
RowMatches(row, c, t) ==
  LET before == Restricted(c, IdsIn(Prior(c, t)))
      upto == Restricted(c, IdsIn(Prior(c, t) \cup {t}))
      rows == before.ins \o before.outs
  IN /\ row.component = Cardinality(Component(Arcs(EdgeRows(upto)), TxNode(t.id)))
     /\ row.degIn = SumFunction([a \in Addrs(Of(c.ins, t.id)) |-> Cardinality(AllHits(rows, a))])
     /\ row.degOut = SumFunction([a \in Addrs(Of(c.outs, t.id)) |-> Cardinality(AllHits(rows, a))])

LEMMA PriorIds ==
  ASSUME NEW c, NEW seq, NEW n, InTime(seq, n, c.tx), NEW k \in 1..n
  PROVE  /\ IdsIn(Prior(c, seq[k])) = IdsUpto(seq, k - 1)
         /\ IdsIn(Prior(c, seq[k]) \cup {seq[k]}) = IdsUpto(seq, k)
<1> DEFINE P == Prior(c, seq[k])
<1>1. P = {seq[i] : i \in 1..(k - 1)}
  BY PriorIs DEF Upto
<1>2. n \in Nat
  BY DEF InTime
<1>3. 1..k = 1..(k - 1) \cup {k}
  BY <1>2
<1> HIDE DEF P
<1>4. {u.id : u \in P} = IdsUpto(seq, k - 1)
  BY <1>1 DEF IdsUpto
<1>5. {u.id : u \in P \cup {seq[k]}} = {u.id : u \in P} \cup {seq[k].id}
  OBVIOUS
<1>6. IdsUpto(seq, k) = IdsUpto(seq, k - 1) \cup {seq[k].id}
  BY <1>3 DEF IdsUpto
<1> QED
  BY <1>4, <1>5, <1>6 DEF P, IdsIn

LEMMA SnapshotMatches ==
  ASSUME NEW c, Graphed(c), NEW seq, NEW n, InTime(seq, n, c.tx), NEW k \in 1..n,
         NEW row, Snapshot(c, seq, k, row)
  PROVE  RowMatches(row, c, seq[k])
<1> DEFINE t == seq[k]
           x == TxNode(t.id)
           past == IdsUpto(seq, k - 1)
           now == IdsUpto(seq, k)
           before == Restricted(c, past)
           upto == Restricted(c, now)
           rows == before.ins \o before.outs
           C == Component(Arcs(EdgeRows(upto)), x)
<1>1. IdsIn(Prior(c, t)) = past /\ IdsIn(Prior(c, t) \cup {t}) = now
  BY PriorIds
<1>2. /\ IsFiniteSet(Arcs(EdgeRows(upto)))
      /\ \A S : Closed(Arcs(EdgeRows(upto)), S) <=> Closed(Links(c, now), S)
  BY RestrictedIs
<1>3. \A a : Cardinality(AllHits(rows, a)) = Uses(c, past, a)
  BY RestrictedIs
<1>s. /\ \A D : IsComponent(D, Links(c, now), x) => row.component = Cardinality(D)
      /\ row.degIn = DegreeSum(c, Of(c.ins, t.id), past)
      /\ row.degOut = DegreeSum(c, Of(c.outs, t.id), past)
  BY DEF Snapshot
<1> HIDE DEF past, now, rows, x
<1>4. row.component = Cardinality(C)
  <2> HIDE DEF upto
  <2>1. IsComponent(C, Arcs(EdgeRows(upto)), x)
    BY <1>2, ComponentIs
  <2> HIDE DEF C
  <2>2. IsComponent(C, Links(c, now), x)
    BY <1>2, <2>1 DEF IsComponent
  <2> QED
    BY <1>s, <2>2
<1>5. /\ row.degIn = SumFunction([a \in Addrs(Of(c.ins, t.id)) |-> Cardinality(AllHits(rows, a))])
      /\ row.degOut = SumFunction([a \in Addrs(Of(c.outs, t.id)) |-> Cardinality(AllHits(rows, a))])
  <2> HIDE DEF t
  <2>1. \A S : [a \in S |-> Uses(c, past, a)] = [a \in S |-> Cardinality(AllHits(rows, a))]
    BY <1>3
  <2> QED
    BY <1>s, <2>1 DEF DegreeSum
<1>6. /\ Restricted(c, IdsIn(Prior(c, t))) = before
      /\ Restricted(c, IdsIn(Prior(c, t) \cup {t})) = upto
  BY <1>1
<1>7. RowMatches(row, c, t)
  <2> HIDE DEF t, before, upto
  <2> QED
    BY <1>4, <1>5, <1>6 DEF RowMatches, rows, x
<1> QED
  BY <1>7

-----------------------------------------------------------------------------
(* The giant component *)

\* The nodes of the graph, and how many can be reached from one of them.
Nodes(c) ==
  {TxNode(id) : id \in Ids(c.tx)} \cup UNION {{arc[1], arc[2]} : arc \in Arcs(EdgeRows(c))}
Size(c, v) == Cardinality(Component(Arcs(EdgeRows(c)), v))

LEMMA GiantOfNodes ==
  ASSUME NEW c
  PROVE  Summary(c).giant = Max({Size(c, v) : v \in Nodes(c)})
<1> DEFINE arcs == Arcs(EdgeRows(c))
           Kind(v) == IF v \in {TxNode(id) : id \in Ids(c.tx)} THEN "transaction"
                      ELSE IF v[1] = "addr" THEN "address" ELSE "unknown"
           R(v) == [node |-> v, kind |-> Kind(v),
                    ins |-> Cardinality({arc \in arcs : arc[2] = v}),
                    outs |-> Cardinality({arc \in arcs : arc[1] = v})]
           rows == NodeRows(c)
           components == {Component(arcs, row.node) : row \in rows}
<1>1. rows = {R(v) : v \in Nodes(c)}
  BY DEF NodeRows, Nodes
<1>2. Summary(c).giant = Max({Cardinality(comp) : comp \in components})
  BY DEF Summary
<1>3. \A v : R(v).node = v
  OBVIOUS
<1> HIDE DEF rows, R
<1>4. components = {Component(arcs, v) : v \in Nodes(c)}
  BY <1>1, <1>3
<1> HIDE DEF components
<1>5. {Cardinality(comp) : comp \in components} = {Size(c, v) : v \in Nodes(c)}
  BY <1>4 DEF Size
<1> QED
  BY <1>2, <1>5

LEMMA SameMax ==
  ASSUME NEW A, NEW B, A \subseteq B, B \in SUBSET Int, IsFiniteSet(B), A # {},
         \A b \in B : \E a \in A : b <= a
  PROVE  Max(A) = Max(B)
<1>1. IsFiniteSet(A) /\ A \in SUBSET Int /\ B # {}
  BY FS_Subset
<1>2. Max(A) \in A /\ \A a \in A : a <= Max(A)
  BY <1>1, MaxIsGreatest
<1>3. Max(B) \in B /\ \A b \in B : b <= Max(B)
  BY <1>1, MaxIsGreatest
<1>4. PICK a \in A : Max(B) <= a
  BY <1>3
<1>5. Max(A) <= Max(B) /\ a <= Max(A)
  BY <1>2, <1>3, <1>4
<1>6. Max(A) \in Int /\ Max(B) \in Int /\ a \in Int
  BY <1>1, <1>2, <1>3
<1> QED
  BY <1>4, <1>5, <1>6

\* The ids of all transactions.
LEMMA AllIds ==
  ASSUME NEW rows, NEW seq, NEW n, InTime(seq, n, rows)
  PROVE  IdsUpto(seq, n) = Ids(rows)
<1>1. /\ \A i \in 1..n : seq[i] \in Range(rows)
      /\ \A u \in Range(rows) : \E i \in 1..n : seq[i] = u
  BY DEF InTime
<1> QED
  BY <1>1 DEF IdsUpto, Ids

\* No input or output is of an unknown transaction.
NoOrphans(c) == Ids(c.ins) \cup Ids(c.outs) \subseteq Ids(c.tx)

\* Then every component has a transaction, and the rows link what the arcs do.
LEMMA EveryRowLinks ==
  ASSUME NEW c, Graphed(c), NoOrphans(c), NEW S
  PROVE  Closed(Arcs(EdgeRows(c)), S) <=> Closed(Links(c, Ids(c.tx)), S)
<1> DEFINE All == Range(c.ins) \cup Range(c.outs)
<1>1. \A r \in All : r.id \in Ids(c.tx)
  BY DEF NoOrphans, Ids
<1>2. {r \in All : r.id \in Ids(c.tx)} = All
  BY <1>1
<1>3. Closed(Arcs(EdgeRows(c)), S) <=> ClosedRows(All, S)
  BY ArcsClosed DEF Graphed
<1>4. Closed(Links(c, Ids(c.tx)), S) <=> ClosedRows({r \in All : r.id \in Ids(c.tx)}, S)
  BY LinksClosed
<1> HIDE DEF All
<1> QED
  BY <1>2, <1>3, <1>4

LEMMA TransactionInComponent ==
  ASSUME NEW c, Graphed(c), NoOrphans(c), NEW v \in Nodes(c),
         NEW C, IsComponent(C, Arcs(EdgeRows(c)), v)
  PROVE  \E id \in Ids(c.tx) : TxNode(id) \in C
<1> DEFINE arcs == Arcs(EdgeRows(c))
<1>1. PICK A : c.ins \in Seq(A) /\ c.outs \in Seq(A)
  BY DEF Graphed
<1>2. arcs = {ArcOfInput(r) : r \in Range(c.ins)} \cup {ArcOfOutput(r) : r \in Range(c.outs)}
  BY <1>1, ArcsAre
<1>3. v \in C /\ Closed(arcs, C)
  BY DEF IsComponent
<1>4. \A r \in Range(c.ins) \cup Range(c.outs) : r.id \in Ids(c.tx)
  BY DEF NoOrphans, Ids
<1>5. \/ v \in {TxNode(id) : id \in Ids(c.tx)}
      \/ \E arc \in arcs : v \in {arc[1], arc[2]}
  BY DEF Nodes
<1> HIDE DEF arcs
<1>6. CASE v \in {TxNode(id) : id \in Ids(c.tx)}
  BY <1>3, <1>6
<1>7. CASE \E arc \in arcs : v \in {arc[1], arc[2]}
  <2>1. PICK arc \in arcs : v \in {arc[1], arc[2]}
    BY <1>7
  <2>2. arc[1] \in C /\ arc[2] \in C
    BY <1>3, <2>1 DEF Closed
  <2>3. CASE \E r \in Range(c.ins) : arc = ArcOfInput(r)
    <3>1. PICK r \in Range(c.ins) : arc = ArcOfInput(r)
      BY <2>3
    <3>2. arc[2] = TxNode(r.id)
      BY <3>1 DEF ArcOfInput
    <3> QED
      BY <1>4, <2>2, <3>2
  <2>4. CASE \E r \in Range(c.outs) : arc = ArcOfOutput(r)
    <3>1. PICK r \in Range(c.outs) : arc = ArcOfOutput(r)
      BY <2>4
    <3>2. arc[1] = TxNode(r.id)
      BY <3>1 DEF ArcOfOutput
    <3> QED
      BY <1>4, <2>2, <3>2
  <2> QED
    BY <1>2, <2>3, <2>4
<1> QED
  BY <1>5, <1>6, <1>7

\* The rows of every transaction, as the pass leaves them.
Snapshots(c, seq, n, f) ==
  DOMAIN f = IdsUpto(seq, n) /\ \A i \in 1..n : Snapshot(c, seq, i, f[seq[i].id])

LEMMA LastSnapshot ==
  ASSUME NEW c, Graphed(c), NoOrphans(c), NEW seq, NEW n, InTime(seq, n, c.tx),
         NEW f, Snapshots(c, seq, n, f), NEW v \in Nodes(c)
  PROVE  \E k \in 1..n : f[seq[k].id].component = Size(c, v)
<1> DEFINE arcs == Arcs(EdgeRows(c))
           C == Component(arcs, v)
           all == IdsUpto(seq, n)
<1>1. n \in Nat /\ all = Ids(c.tx)
  BY AllIds DEF InTime
<1>2. IsFiniteSet(arcs)
  BY ArcsFinite DEF Graphed
<1>3. \A S : Closed(arcs, S) <=> Closed(Links(c, all), S)
  BY <1>1, EveryRowLinks
<1> HIDE DEF arcs, all
<1>4. IsComponent(C, arcs, v)
  BY <1>2, ComponentIs
<1> HIDE DEF C
<1>5. IsComponent(C, Links(c, all), v)
  BY <1>3, <1>4 DEF IsComponent
<1>6. PICK id \in Ids(c.tx) : TxNode(id) \in C
  BY <1>4, TransactionInComponent DEF arcs
<1>7. PICK j \in 1..n : TxNode(seq[j].id) \in C
  BY <1>1, <1>6 DEF all, IdsUpto
<1>8. PICK k \in 1..n : IsComponent(C, Links(c, IdsUpto(seq, k)), TxNode(seq[k].id))
  BY <1>1, <1>5, <1>7, LastSeesAll DEF all
<1>9. f[seq[k].id].component = Cardinality(C)
  BY <1>8 DEF Snapshots, Snapshot
<1> QED
  BY <1>9 DEF C, arcs, Size

LEMMA SnapshotWithin ==
  ASSUME NEW c, Graphed(c), NoOrphans(c), NEW seq, NEW n, InTime(seq, n, c.tx),
         NEW f, Snapshots(c, seq, n, f), NEW k \in 1..n
  PROVE  /\ TxNode(seq[k].id) \in Nodes(c)
         /\ f[seq[k].id].component \in Nat
         /\ f[seq[k].id].component <= Size(c, TxNode(seq[k].id))
<1> DEFINE x == TxNode(seq[k].id)
           now == IdsUpto(seq, k)
           all == IdsUpto(seq, n)
           arcs == Arcs(EdgeRows(c))
           some == Arcs(EdgeRows(Restricted(c, now)))
           C == Component(arcs, x)
           D == Component(some, x)
<1>1. n \in Nat /\ all = Ids(c.tx) /\ seq[k].id \in all /\ now \subseteq all
  <2>1. n \in Nat
    BY DEF InTime
  <2>2. all = Ids(c.tx)
    BY AllIds
  <2>3. seq[k].id \in all /\ now \subseteq all
    BY <2>1 DEF IdsUpto
  <2> QED
    BY <2>1, <2>2, <2>3
<1>2. IsFiniteSet(arcs) /\ \A S : Closed(arcs, S) <=> Closed(Links(c, all), S)
  BY <1>1, ArcsFinite, EveryRowLinks DEF Graphed
<1>3. IsFiniteSet(some) /\ \A S : Closed(some, S) <=> Closed(Links(c, now), S)
  BY RestrictedIs
<1>4. x \in Nodes(c)
  BY <1>1 DEF Nodes
<1>5. f[seq[k].id].component = Cardinality(D)
  <2> HIDE DEF some
  <2>1. IsComponent(D, some, x)
    BY <1>3, ComponentIs
  <2> HIDE DEF D
  <2>2. IsComponent(D, Links(c, now), x)
    BY <1>3, <2>1 DEF IsComponent
  <2> QED
    BY <2>2 DEF Snapshots, Snapshot
<1>6. Links(c, now) \subseteq Links(c, all)
  BY <1>1 DEF Links
<1> HIDE DEF x, now, all, arcs, some
<1>7. IsComponent(C, arcs, x) /\ IsFiniteSet(C)
  BY <1>2, ComponentIs
<1>8. IsComponent(D, some, x) /\ IsFiniteSet(D)
  BY <1>3, ComponentIs
<1> HIDE DEF C, D
<1>9. D \subseteq C
  <2>1. x \in C /\ Closed(Links(c, now), C)
    BY <1>2, <1>6, <1>7 DEF IsComponent, Closed
  <2> QED
    BY <1>3, <1>8, <2>1 DEF IsComponent
<1>10. Cardinality(D) <= Cardinality(C)
  BY <1>7, <1>9, FS_Subset
<1>11. Cardinality(D) \in Nat
  BY <1>8, FS_CardinalityType
<1> QED
  BY <1>4, <1>5, <1>10, <1>11 DEF C, arcs, x, Size

\* When the graph has a transaction, and none of its rows is an orphan, the
\* largest component that a transaction has seen is the giant one.
LEMMA GiantIs ==
  ASSUME NEW c, Graphed(c), NoOrphans(c), NEW seq, NEW n, InTime(seq, n, c.tx), n > 0,
         NEW f, Snapshots(c, seq, n, f)
  PROVE  Summary(c).giant = Max({f[id].component : id \in DOMAIN f})
<1> DEFINE A == {Size(c, v) : v \in Nodes(c)}
           seen == [k \in 1..n |-> f[seq[k].id].component]
           B == {seen[k] : k \in 1..n}
<1>1. n \in Nat /\ 1 \in 1..n
  BY DEF InTime
<1>2. {f[id].component : id \in DOMAIN f} = B
  BY DEF Snapshots, IdsUpto
<1>3. \A v \in Nodes(c) : \E k \in 1..n : seen[k] = Size(c, v)
  BY LastSnapshot
<1>4. \A k \in 1..n : /\ TxNode(seq[k].id) \in Nodes(c) /\ seen[k] \in Nat
                      /\ seen[k] <= Size(c, TxNode(seq[k].id))
  BY SnapshotWithin
<1>5. IsFiniteSet(B)
  <2>1. IsFiniteSet(1..n)
    BY <1>1, FS_Interval
  <2> DEFINE I == 1..n
  <2>2. seen \in Surjection(I, B)
    BY DEF Surjection
  <2> HIDE DEF I, B, seen
  <2> QED
    BY <2>1, <2>2, FS_Surjection DEF I
<1> HIDE DEF seen
<1>6. A \subseteq B /\ A # {} /\ B \in SUBSET Int
  BY <1>1, <1>3, <1>4
<1>7. \A b \in B : \E a \in A : b <= a
  BY <1>4
<1> HIDE DEF A, B
<1>8. Max(A) = Max(B)
  BY <1>5, <1>6, <1>7, SameMax
<1> QED
  BY <1>2, <1>8, GiantOfNodes DEF A

-----------------------------------------------------------------------------
(* What the graph pipeline leaves *)

\* The tables a graph is built from.
LEMMA StoredTables ==
  ASSUME IInv, ~Missing("table", {"tx", "ins", "outs"})
  PROVE  Graphed(Stored("table"))
<1> DEFINE c == Stored("table")
<1>1. \A t \in {"tx", "ins", "outs"} : <<"table", t>> \in DOMAIN store
  BY DEF Missing
<1>2. TxTable(c.tx)
  BY <1>1, StoredTx
<1>3. \A t \in {"tx", "ins", "outs"} : t \in DOMAIN c /\ c[t] = store[<<"table", t>>]
  <2>1. \A t \in {"tx", "ins", "outs"} : t \in {u \in Canonical : <<"table", u>> \in DOMAIN store}
    BY <1>1 DEF Canonical
  <2> QED
    BY <2>1 DEF Stored
<1>4. \A t \in {"ins", "outs"} : \E A : store[<<"table", t>>] \in Seq(A)
  <2>1. \A t \in {"ins", "outs"} : Fits(<<"table", t>>, store[<<"table", t>>])
    BY <1>1 DEF IInv, StoreOK
  <2> QED
    BY <2>1 DEF Fits
<1> HIDE DEF c
<1>5. PICK A, B : c.ins \in Seq(A) /\ c.outs \in Seq(B)
  BY <1>3, <1>4
<1>6. c.ins \in Seq(A \cup B) /\ c.outs \in Seq(A \cup B)
  BY <1>5
<1>7. Graphed(c)
  BY <1>2, <1>3, <1>6 DEF Graphed
<1> QED
  BY <1>7 DEF c

\* What SnapshotsMatchTheGraph says of features computed from c.
AreSnapshots(f, giant, c) ==
  /\ \A t \in Range(c.tx) : RowMatches(f[t.id], c, t)
  /\ NoOrphans(c) => giant = Max({f[id].component : id \in DOMAIN f})

LEMMA FeaturesMatch ==
  ASSUME NEW c, Graphed(c), Clustered(c) # {}
  PROVE  AreSnapshots(GraphFeatures(c), Summary(c).giant, c)
<1> DEFINE f == GraphFeatures(c)
           seq == Chronological(c.tx)
           n == Len(c.tx)
<1>1. InTime(seq, n, c.tx) /\ Snapshots(c, seq, n, f)
  BY GraphFeaturesAre DEF Snapshots
<1> HIDE DEF f, seq, n
<1>2. ASSUME NEW t \in Range(c.tx) PROVE RowMatches(f[t.id], c, t)
  <2>1. PICK k \in 1..n : seq[k] = t
    BY <1>1 DEF InTime
  <2>2. Snapshot(c, seq, k, f[seq[k].id])
    BY <1>1 DEF Snapshots
  <2>3. RowMatches(f[seq[k].id], c, seq[k])
    BY <1>1, <2>2, SnapshotMatches
  <2> QED
    BY <2>1, <2>3
<1>3. n > 0
  <2>1. Ids(c.tx) # {}
    BY DEF Clustered
  <2>2. PICK u : u \in Range(c.tx)
    BY <2>1 DEF Ids
  <2>3. n \in Nat /\ \E i \in 1..n : seq[i] = u
    BY <1>1, <2>2 DEF InTime
  <2> QED
    BY <2>3
<1>4. ASSUME NoOrphans(c) PROVE Summary(c).giant = Max({f[id].component : id \in DOMAIN f})
  BY <1>1, <1>3, <1>4, GiantIs
<1>5. AreSnapshots(f, Summary(c).giant, c)
  BY <1>2, <1>4 DEF AreSnapshots
<1> QED
  BY <1>5 DEF f

\* The graph pipeline leaves the tables, and its summary.
LEMMA GraphLeaves ==
  ASSUME NEW nodes, NEW edges, NEW features, NEW clusters, NEW summary,
         store' = Written(GraphFiles(nodes, edges, features)
                            \o GraphRest(nodes, edges, features, clusters, summary), 9)
  PROVE  Stored("table")' = Stored("table") /\ store'[<<"file", "summary">>] = summary
<1> DEFINE writes == GraphFiles(nodes, edges, features)
                       \o GraphRest(nodes, edges, features, clusters, summary)
           what == GraphContents(nodes, edges, features, clusters, summary)
           k == 9
           p == <<"file", "summary">>
           w == Written(writes, k)
<1>1. Len(writes) = 9 /\ \A i \in 1..9 : writes[i] = To(GraphKinds[i], GraphStems[i], what[i])
  BY GraphWritesListed
<1>2. \A i \in 1..9 : /\ GraphStems[i] \notin Canonical
                      /\ GraphStems[i] = "summary" => what[i] = summary
  <2>1. \A i \in 1..9 : i = 1 \/ i = 2 \/ i = 3 \/ i = 4 \/ i = 5 \/ i = 6 \/ i = 7 \/ i = 8 \/ i = 9
    OBVIOUS
  <2> QED
    BY <2>1 DEF GraphStems, GraphContents, Canonical
<1>3. 5 \in 1..9 /\ GraphKinds[5] = "file" /\ GraphStems[5] = "summary"
  BY DEF GraphKinds, GraphStems
<1>4. \A i \in 1..9 : writes[i].at = <<GraphKinds[i], GraphStems[i]>> /\ writes[i].what = what[i]
  <2>1. \A a, b, x : To(a, b, x).at = <<a, b>> /\ To(a, b, x).what = x
    BY DEF To
  <2> HIDE DEF writes, what
  <2> QED
    BY <1>1, <2>1
<1>5. store' = w /\ k \in Nat /\ k = 9
  OBVIOUS
<1> HIDE DEF writes, what, k
<1>6. Stored("table")' = Stored("table")
  <2>1. \A i \in 1..k : \A u \in Canonical : writes[i].at # <<"table", u>>
    BY <1>2, <1>4, <1>5
  <2> QED
    BY <1>5, <2>1, StoredStays
<1>7. w[p] = summary
  <2>1. /\ DOMAIN w = DOMAIN store \cup {writes[i].at : i \in 1..k}
        /\ \A q \in DOMAIN w :
             \/ q \in DOMAIN store /\ w[q] = store[q] /\ \A i \in 1..k : writes[i].at # q
             \/ \E i \in 1..k : writes[i].at = q /\ w[q] = writes[i].what
    BY <1>5, WrittenIs
  <2> HIDE DEF w
  <2>2. writes[5].at = p /\ 5 \in 1..k
    BY <1>3, <1>4, <1>5
  <2>3. PICK i \in 1..k : writes[i].at = p /\ w[p] = writes[i].what
    <3> HIDE DEF p
    <3> QED
      BY <2>1, <2>2
  <2>4. i \in 1..9 /\ GraphStems[i] = "summary"
    BY <1>4, <1>5, <2>3
  <2> QED
    BY <1>2, <1>4, <2>3, <2>4
<1> QED
  BY <1>5, <1>6, <1>7

LEMMA SnapshotsUnfold ==
  ASSUME Did("graph")' =>
           AreSnapshots(computed', store'[<<"file", "summary">>].giant, Stored("table")')
  PROVE  SnapshotsMatchTheGraph'
  BY DEF SnapshotsMatchTheGraph, AreSnapshots, RowMatches, NoOrphans, IdsIn, Restricted, Within, AllHits

LEMMA RunGraphMatches ==
  ASSUME IInv, RunGraph
  PROVE  SnapshotsMatchTheGraph'
<1> DEFINE c == Stored("table")
           features == GraphFeatures(c)
           files == GraphFiles(NodeRows(c), EdgeRows(c), features)
           rest == GraphRest(NodeRows(c), EdgeRows(c), features, Clustered(c), Summary(c))
           writes == files \o rest
<1>1. \/ Raise("graph")
      \/ Finish("graph", files, "error", Null)
      \/ /\ ~Missing("table", {"tx", "ins", "outs"}) /\ Clustered(c) # {}
         /\ Finish("graph", writes, "ok", features)
  BY DEF RunGraph, GraphFiles, GraphRest
<1>2. ASSUME computed' = Null PROVE SnapshotsMatchTheGraph'
  BY <1>2 DEF SnapshotsMatchTheGraph, Did
<1>3. CASE Raise("graph")
  BY <1>2, <1>3 DEF Raise
<1>4. CASE Finish("graph", files, "error", Null)
  <2> HIDE DEF files
  <2> QED
    BY <1>2, <1>4 DEF Finish
<1>5. CASE /\ ~Missing("table", {"tx", "ins", "outs"}) /\ Clustered(c) # {}
           /\ Finish("graph", writes, "ok", features)
  <2>1. AreSnapshots(features, Summary(c).giant, c)
    BY <1>5, StoredTables, FeaturesMatch
  <2>2. Len(writes) = 9
    BY GraphWritesListed
  <2>3. computed' # Null => computed' = features /\ store' = Written(writes, 9)
    <3> HIDE DEF writes, features
    <3>1. Finish("graph", writes, "ok", features) /\ Len(writes) \in Nat
      BY <1>5, <2>2
    <3>2. computed' # Null => computed' = features /\ store' = Written(writes, Len(writes))
      BY <3>1, FinishWrites
    <3> QED
      BY <2>2, <3>2
  <2>4. store' = Written(writes, 9) =>
          Stored("table")' = c /\ store'[<<"file", "summary">>] = Summary(c)
    <3> HIDE DEF features
    <3> QED
      BY GraphLeaves
  <2> HIDE DEF writes, features, c
  <2>5. Did("graph")' =>
          /\ computed' = features /\ Stored("table")' = c
          /\ store'[<<"file", "summary">>] = Summary(c)
    BY <2>3, <2>4 DEF Did
  <2>6. Did("graph")' => AreSnapshots(computed', store'[<<"file", "summary">>].giant, Stored("table")')
    BY <2>1, <2>5
  <2> QED
    BY <2>6, SnapshotsUnfold
<1> QED
  BY <1>1, <1>3, <1>4, <1>5

\* Whenever the graph pipeline reports features: the size of the component that
\* the disjoint-set forest keeps for a transaction is the number of nodes that
\* can be reached from it in the graph of the transactions up to it, its degrees
\* are counted in the graph of those before it, and, unless a row is of an
\* unknown transaction, the largest size is the giant component of the summary.
THEOREM SnapshotsOfTheGraph == Spec => []SnapshotsMatchTheGraph
<1>1. Init => SnapshotsMatchTheGraph
  BY DEF Init, SnapshotsMatchTheGraph, Did
<1>2. ASSUME IInv, SnapshotsMatchTheGraph, [Next]_vars PROVE SnapshotsMatchTheGraph'
  <2>1. CASE RunGraph
    BY <1>2, <2>1, RunGraphMatches
  <2>2. CASE \/ \E s \in Samples : Deliver(s)
             \/ RunFeatures \/ RunModeling \/ RunPipeline
    <3>1. last'.script # "graph"
      BY <2>2, Signed
    <3> QED
      BY <3>1 DEF SnapshotsMatchTheGraph, Did
  <2>3. CASE UNCHANGED vars
    <3>1. store' = store /\ computed' = computed /\ last' = last
      BY <2>3 DEF vars
    <3>2. Stored("table")' = Stored("table")
      BY <3>1 DEF Stored
    <3>3. Did("graph")' => Did("graph")
      BY <3>1 DEF Did
    <3>4. Did("graph") => AreSnapshots(computed, store[<<"file", "summary">>].giant, Stored("table"))
      BY <1>2 DEF SnapshotsMatchTheGraph, AreSnapshots, RowMatches, NoOrphans, IdsIn, Restricted,
                  Within, AllHits
    <3>5. Did("graph")' =>
            AreSnapshots(computed', store'[<<"file", "summary">>].giant, Stored("table")')
      BY <3>1, <3>2, <3>3, <3>4
    <3> QED
      BY <3>5, SnapshotsUnfold
  <2> QED
    BY <1>2, <2>1, <2>2, <2>3 DEF Next
<1>3. IInv /\ SnapshotsMatchTheGraph /\ [Next]_vars => SnapshotsMatchTheGraph'
  BY <1>2
<1> QED
  BY <1>1, <1>3, Invariant, PTL DEF Spec

=============================================================================
