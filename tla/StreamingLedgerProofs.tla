----------------------- MODULE StreamingLedgerProofs -----------------------
(***************************************************************************)
(* Proofs about StreamingLedger, for files of any number of rows, chunks   *)
(* and pools of any size, and whatever amounts are drawn.                  *)
(***************************************************************************)
EXTENDS StreamingLedger, SumTheorems

-----------------------------------------------------------------------------
(* Sums of amounts. *)

LEMMA TotalIsSum ==
  ASSUME NEW s \in Seq(Int)
  PROVE  Total(s) = SumFunctionOnSet(s, 1..Len(s)) /\ Total(s) \in Int
<1>1. Total(s) = SumFunctionOnSet(s, 1..Len(s))
  BY SeqSum DEF Total
<1>2. IsFiniteSet(1..Len(s)) /\ \A i \in 1..Len(s) : s[i] \in Int
  <2>1. Len(s) \in Nat
    OBVIOUS
  <2> QED
    BY <2>1, FS_Interval
<1> QED
  BY <1>1, <1>2, SumType

LEMMA TotalEmpty == Total(<<>>) = 0
<1>1. <<>> \in Seq(Int) /\ 1..Len(<<>>) = {}
  OBVIOUS
<1> QED
  BY <1>1, TotalIsSum, SumEmpty

LEMMA TotalAppend ==
  ASSUME NEW s \in Seq(Int), NEW a \in Int
  PROVE  Total(Append(s, a)) = Total(s) + a
<1> DEFINE n == Len(s)
           t == Append(s, a)
<1>1. /\ n \in Nat /\ t \in Seq(Int) /\ Len(t) = n + 1 /\ t[n + 1] = a
      /\ \A i \in 1..n : t[i] = s[i] /\ t[i] \in Int
  OBVIOUS
<1>n. n \in Nat /\ n \in Int
  OBVIOUS
<1> HIDE DEF t, n
<1>i. IsFiniteSet(1..n)
  BY <1>n, FS_Interval
<1>2. 1..(n + 1) = 1..n \cup {n + 1} /\ n + 1 \notin 1..n
  BY <1>n
<1>s. \A i \in 1..n \cup {n + 1} : t[i] \in Int
  BY <1>1, <1>n
<1>3. SumFunctionOnSet(t, 1..n \cup {n + 1}) = t[n + 1] + SumFunctionOnSet(t, 1..n)
  BY <1>i, <1>2, <1>s, SumAdd
<1>4. SumFunctionOnSet(t, 1..n) = SumFunctionOnSet(s, 1..n)
  BY <1>i, <1>1, SumAgree
<1>5. Total(t) = SumFunctionOnSet(t, 1..(n + 1)) /\ Total(s) = SumFunctionOnSet(s, 1..n) /\ Total(s) \in Int
  BY <1>1, TotalIsSum DEF n
<1>6. Total(t) = a + Total(s)
  BY <1>1, <1>2, <1>3, <1>4, <1>5
<1> QED
  BY <1>5, <1>6 DEF t

LEMMA TotalOfOneOrTwo ==
  ASSUME NEW a \in Int, NEW b \in Int
  PROVE  Total(<<a>>) = a /\ Total(<<a, b>>) = a + b
<1>1. <<>> \in Seq(Int) /\ <<a>> = Append(<<>>, a)
  OBVIOUS
<1>2. Total(<<a>>) = a
  <2>1. Total(Append(<<>>, a)) = Total(<<>>) + a
    BY <1>1, TotalAppend
  <2> QED
    BY <1>1, <2>1, TotalEmpty
<1>3. <<a>> \in Seq(Int) /\ <<a, b>> = Append(<<a>>, b)
  OBVIOUS
<1> QED
  BY <1>2, <1>3, TotalAppend

LEMMA TotalRaised ==
  ASSUME NEW s \in Seq(Int), s # <<>>, NEW by \in Int
  PROVE  /\ Raised(s, by) \in Seq(Int) /\ Len(Raised(s, by)) = Len(s)
         /\ Total(Raised(s, by)) = Total(s) + by
<1> DEFINE n == Len(s)
           t == Raised(s, by)
<1>1. /\ n \in Nat /\ 1 \in 1..n /\ s[1] \in Int
      /\ t \in Seq(Int) /\ Len(t) = n /\ t[1] = s[1] + by
      /\ \A i \in 1..n \ {1} : t[i] = s[i]
      /\ \A i \in 1..n : t[i] \in Int /\ s[i] \in Int
  BY DEF Raised
<1>n. n \in Int
  OBVIOUS
<1> HIDE DEF t, n
<1>i. IsFiniteSet(1..n)
  BY <1>n, FS_Interval
<1>2. IsFiniteSet(1..n \ {1})
  BY <1>i, FS_RemoveElement
<1>3. /\ SumFunctionOnSet(t, 1..n) = t[1] + SumFunctionOnSet(t, 1..n \ {1})
      /\ SumFunctionOnSet(s, 1..n) = s[1] + SumFunctionOnSet(s, 1..n \ {1})
  <2>1. 1 \in 1..n /\ \A i \in 1..n : t[i] \in Int /\ s[i] \in Int
    BY <1>1
  <2> QED
    BY <1>i, <2>1, SumRemove
<1>4. /\ SumFunctionOnSet(t, 1..n \ {1}) = SumFunctionOnSet(s, 1..n \ {1})
      /\ SumFunctionOnSet(s, 1..n \ {1}) \in Int
  <2>1. \A i \in 1..n \ {1} : s[i] \in Int /\ t[i] = s[i]
    BY <1>1
  <2> QED
    BY <1>2, <2>1, SumAgree, SumType
<1>5. Total(t) = SumFunctionOnSet(t, 1..n) /\ Total(s) = SumFunctionOnSet(s, 1..n)
  BY <1>1, TotalIsSum DEF n
<1>6. Total(t) = Total(s) + by
  BY <1>1, <1>3, <1>4, <1>5
<1> QED
  BY <1>1, <1>6 DEF t, n

-----------------------------------------------------------------------------
(* What a row pays. *)

LEMMA MaxMin ==
  ASSUME NEW a \in Int, NEW b \in Int
  PROVE  /\ Max({a, b}) = IF a >= b THEN a ELSE b
         /\ Min({a, b}) = IF a <= b THEN a ELSE b
<1>1. ASSUME NEW x \in {a, b}, \A y \in {a, b} : x >= y,
             NEW z \in {a, b}, \A y \in {a, b} : z <= y
      PROVE  x = (IF a >= b THEN a ELSE b) /\ z = (IF a <= b THEN a ELSE b)
  BY <1>1
<1>2. (\E x \in {a, b} : \A y \in {a, b} : x >= y) /\ (\E x \in {a, b} : \A y \in {a, b} : x <= y)
  OBVIOUS
<1> QED
  BY <1>1, <1>2 DEF Max, Min

\* The inputs of a row pay for a fee of 500 and for 1000 to every output.
LEMMA FundedPays ==
  ASSUME NEW s \in Scenarios, NEW amts \in Seq(Int), amts # <<>>, NEW n \in Nat,
         NEW t \in Funded(s, amts, n)
  PROVE  t \in Seq(Int) /\ Len(t) = Len(amts) /\ Total(t) \in Int /\ Total(t) > n * 1000 + 500
<1>1. PICK boosted : /\ boosted = amts \/ \E by \in Boosts : boosted = Raised(amts, by)
                     /\ t = IF Total(boosted) <= n * 1000 + 500
                            THEN Raised(boosted, n * 1000 + 1500 - Total(boosted)) ELSE boosted
  BY DEF Funded
<1>2. boosted \in Seq(Int) /\ Len(boosted) = Len(amts) /\ boosted # <<>>
  BY <1>1, TotalRaised, SizesAssumption
<1>3. Total(boosted) \in Int /\ n * 1000 \in Int
  BY <1>2, TotalIsSum
<1>4. CASE Total(boosted) <= n * 1000 + 500
  <2> DEFINE by == n * 1000 + 1500 - Total(boosted)
  <2>1. by \in Int /\ t = Raised(boosted, by)
    BY <1>1, <1>3, <1>4
  <2> HIDE DEF by
  <2>2. /\ Raised(boosted, by) \in Seq(Int) /\ Len(Raised(boosted, by)) = Len(boosted)
        /\ Total(Raised(boosted, by)) = Total(boosted) + by
    BY <1>2, <2>1, TotalRaised
  <2> QED
    BY <1>2, <1>3, <2>1, <2>2 DEF by
<1>5. CASE ~(Total(boosted) <= n * 1000 + 500)
  BY <1>1, <1>2, <1>3, <1>5
<1> QED
  BY <1>4, <1>5

LEMMA FeeLeavesEnough ==
  ASSUME NEW rate \in Int, NEW total \in Int, NEW ins \in Nat, NEW n \in Nat,
         total > n * 1000 + 500
  PROVE  /\ FeeAt(rate, total, ins, n) \in Int /\ FeeAt(rate, total, ins, n) >= 500
         /\ total - FeeAt(rate, total, ins, n) >= n * 1000
<1> DEFINE asked == (10 + ins * 148 + n * 34) * rate
           most == total - n * 1000
           least == Min({asked, most})
<1>1. asked \in Int /\ most \in Int /\ most > 500
  OBVIOUS
<1> HIDE DEF asked, most
<1>2. least \in Int /\ least <= most
  <2>1. least = IF asked <= most THEN asked ELSE most
    BY <1>1, MaxMin
  <2> QED
    BY <1>1, <2>1
<1>3. FeeAt(rate, total, ins, n) = Max({500, least})
  BY DEF FeeAt, asked, most
<1> HIDE DEF least
<1>4. Max({500, least}) = IF 500 >= least THEN 500 ELSE least
  BY <1>2, MaxMin
<1>5. /\ FeeAt(rate, total, ins, n) \in Int /\ FeeAt(rate, total, ins, n) >= 500
      /\ FeeAt(rate, total, ins, n) <= most
  BY <1>1, <1>2, <1>3, <1>4
<1> QED
  BY <1>5 DEF most

LEMMA PercentBounds ==
  ASSUME NEW a \in Int, a >= 0, NEW p \in {10, 25, 30, 40, 50, 55, 60, 70}
  PROVE  Percent(a, p) \in Int /\ 0 <= Percent(a, p) /\ 10 * Percent(a, p) <= 7 * a
<1>1. /\ a \div 100 \in Nat /\ a % 100 \in 0..99
      /\ a = 100 * (a \div 100) + (a % 100)
  OBVIOUS
<1>2. CASE p = 10 BY <1>1, <1>2 DEF Percent
<1>3. CASE p = 25 BY <1>1, <1>3 DEF Percent
<1>4. CASE p = 30 BY <1>1, <1>4 DEF Percent
<1>5. CASE p = 40 BY <1>1, <1>5 DEF Percent
<1>6. CASE p = 50 BY <1>1, <1>6 DEF Percent
<1>7. CASE p = 55 BY <1>1, <1>7 DEF Percent
<1>8. CASE p = 60 BY <1>1, <1>8 DEF Percent
<1>9. CASE p = 70 BY <1>1, <1>9 DEF Percent
<1> QED
  BY <1>2, <1>3, <1>4, <1>5, <1>6, <1>7, <1>8, <1>9

\* A part is at least 1000, and leaves 1000 for each of those to come.
LEMMA PartLeavesEnough ==
  ASSUME NEW rem \in Int, NEW left \in Nat, NEW u \in Quarters, NEW r \in Quarters,
         rem >= (left + 1) * 1000
  PROVE  /\ Part(rem, left, u, r) \in Int /\ Part(rem, left, u, r) >= 1000
         /\ rem - Part(rem, left, u, r) >= left * 1000
<1> DEFINE most == rem - left * 1000
           share == Percent(most, 10 + 15 * u)
           top == Max({1001, share})
<1>1. most \in Int /\ most >= 0 /\ most >= 1000
  OBVIOUS
<1>2. u \in 0..4 /\ r \in 0..4
  BY SizesAssumption
<1>3. 10 + 15 * u \in {10, 25, 30, 40, 50, 55, 60, 70}
  BY <1>2
<1>4. Part(rem, left, u, r) = IF most <= 1000 THEN 1000 ELSE 1000 + ((top - 1000) * r) \div 4
  BY DEF Part
<1> HIDE DEF most
<1>5. share \in Int /\ 10 * share <= 7 * most
  <2> DEFINE p == 10 + 15 * u
  <2>1. p \in {10, 25, 30, 40, 50, 55, 60, 70} /\ share = Percent(most, p)
    BY <1>3
  <2> HIDE DEF p, share
  <2>2. Percent(most, p) \in Int /\ 10 * Percent(most, p) <= 7 * most
    BY <1>1, <2>1, PercentBounds
  <2> QED
    BY <2>1, <2>2
<1> HIDE DEF share
<1>6. top = IF 1001 >= share THEN 1001 ELSE share
  BY <1>5, MaxMin
<1> HIDE DEF top
<1>7. top \in Int /\ top >= 1001 /\ (most > 1000 => top <= most)
  BY <1>1, <1>5, <1>6
<1>8. ((top - 1000) * r) \div 4 \in Int /\ 0 <= ((top - 1000) * r) \div 4
        /\ ((top - 1000) * r) \div 4 <= top - 1000
  <2>1. r = 0 \/ r = 1 \/ r = 2 \/ r = 3 \/ r = 4
    BY <1>2
  <2> QED
    BY <1>7, <2>1
<1>9. /\ Part(rem, left, u, r) \in Int /\ Part(rem, left, u, r) >= 1000
      /\ Part(rem, left, u, r) <= most
  BY <1>1, <1>4, <1>7, <1>8
<1> QED
  BY <1>9 DEF most

LEMMA PartIsInt ==
  ASSUME NEW rem \in Int, NEW left \in Nat, NEW u \in Quarters, NEW r \in Quarters
  PROVE  Part(rem, left, u, r) \in Int
<1>1. CASE rem >= (left + 1) * 1000
  BY <1>1, PartLeavesEnough
<1>2. CASE ~(rem >= (left + 1) * 1000)
  BY <1>2 DEF Part
<1> QED
  BY <1>1, <1>2

\* A split has the parts asked for, each of 1000 or more, and is the amount.
LEMMA SplitIsWhole ==
  ASSUME NEW amt \in Int, NEW n \in Nat, n >= 1, amt >= n * 1000,
         NEW us \in [1..(n - 1) -> Quarters], NEW rs \in [1..(n - 1) -> Quarters]
  PROVE  /\ Split(amt, n, us, rs) \in Seq(Int) /\ Len(Split(amt, n, us, rs)) = n
         /\ Total(Split(amt, n, us, rs)) = amt
         /\ \A i \in 1..n : Split(amt, n, us, rs)[i] >= 1000
<1> DEFINE m == n - 1
           next(parts, i) == Append(parts, Part(amt - Total(parts), n - i, us[i], rs[i]))
           idx == [i \in 1..(n - 1) |-> i]
           eq(h) == h = [T \in SUBSET DOMAIN idx |->
                           IF T = {} THEN <<>> ELSE next(h[T \ {Max(T)}], idx[Max(T)])]
           iter == CHOOSE h : eq(h)
           parts == iter[DOMAIN idx]
<1>1. Split(amt, n, us, rs) = Append(parts, amt - Total(parts))
  BY DEF Split, FoldLeft, MapThenFoldSet
<1>2. m \in Nat /\ DOMAIN idx = 1..m /\ \A i \in 1..m : idx[i] = i
  OBVIOUS
<1>3. ASSUME NEW i \in 1..m, NEW x \in Seq(Int)
      PROVE  next(x, i) \in Seq(Int) /\ Total(x) \in Int /\ n - i \in Nat
  <2>1. Total(x) \in Int
    BY TotalIsSum
  <2>2. n - i \in Nat /\ us[i] \in Quarters /\ rs[i] \in Quarters
    OBVIOUS
  <2> DEFINE rem == amt - Total(x)
             left == n - i
             u == us[i]
             r == rs[i]
  <2>3. rem \in Int /\ left \in Nat /\ u \in Quarters /\ r \in Quarters
    BY <2>1, <2>2
  <2> HIDE DEF rem, left, u, r
  <2>4. Part(rem, left, u, r) \in Int
    BY <2>3, PartIsInt
  <2>5. next(x, i) = Append(x, Part(rem, left, u, r))
    BY DEF rem, left, u, r
  <2> QED
    BY <2>1, <2>2, <2>4, <2>5
<1> HIDE DEF m, idx
<1>4. \E h : eq(h)
  <2> DEFINE nx == [i \in 1..m |-> [x \in Seq(Int) |-> next(x, i)]]
  <2>1. \A x \in Seq(Int) : \A i \in 1..m : nx[i][x] = next(x, i) /\ nx[i][x] \in Seq(Int)
    <3> HIDE DEF next
    <3> QED
      BY <1>3
  <2> HIDE DEF nx
  <2>2. <<>> \in Seq(Int)
    OBVIOUS
  <2> DEFINE X == Seq(Int)
             base == <<>>
  <2>n. m \in Nat
    BY <1>2
  <2>x. base \in X /\ \A x \in X : \A i \in 1..m : nx[i][x] \in X
    BY <2>1, <2>2
  <2>f. \E h : Iterates(h, m, X, base, nx)
    <3> HIDE DEF X, base
    <3> QED
      BY <2>n, <2>x, FoldExists
  <2>3. PICK h : Iterates(h, m, X, base, nx)
    BY <2>f
  <2>h. /\ h \in [SUBSET (1..m) -> Seq(Int)] /\ h[{}] = <<>>
        /\ \A T \in SUBSET (1..m) : T # {} => h[T] = nx[Max(T)][h[T \ {Max(T)}]]
    BY <2>3 DEF Iterates
  <2> HIDE DEF next
  <2>4. ASSUME NEW T \in SUBSET (1..m), T # {}
        PROVE  h[T] = next(h[T \ {Max(T)}], idx[Max(T)])
    <3>1. Max(T) \in 1..m
      BY <2>4, <1>2, MaxInRange
    <3>2. h[T \ {Max(T)}] \in Seq(Int)
      BY <2>h
    <3> QED
      BY <2>1, <2>h, <2>4, <3>1, <3>2, <1>2
  <2>5. eq(h)
    <3>1. \A T \in SUBSET (1..m) : h[T] = IF T = {} THEN <<>> ELSE next(h[T \ {Max(T)}], idx[Max(T)])
      BY <2>h, <2>4
    <3>2. h = [T \in SUBSET (1..m) |-> h[T]]
      BY <2>h
    <3> QED
      BY <1>2, <3>1, <3>2
  <2> QED
    BY <2>5
<1>5. eq(iter)
  BY <1>4
<1> HIDE DEF iter
<1>6. iter[{}] = <<>> /\ \A T \in SUBSET (1..m) : T # {} => iter[T] = next(iter[T \ {Max(T)}], idx[Max(T)])
  BY <1>2, <1>5
<1>7. ASSUME NEW i \in Nat, i + 1 <= m PROVE iter[1..(i + 1)] = next(iter[1..i], i + 1)
  <2>1. Max(1..(i + 1)) = i + 1
    BY MaxOfInterval
  <2> DEFINE T == 1..(i + 1)
  <2>m. m \in Nat
    BY <1>2
  <2>2. i + 1 \in 1..m /\ i + 1 \in T
    BY <2>m, <1>7
  <2>3. T \in SUBSET (1..m)
    BY <2>m, <1>7
  <2>4. T \ {i + 1} = 1..i
    OBVIOUS
  <2>5. idx[i + 1] = i + 1
    BY <1>2, <2>2
  <2>6. Max(T) = i + 1
    BY <2>1
  <2> HIDE DEF next, T
  <2>7. iter[T] = next(iter[T \ {Max(T)}], idx[Max(T)])
    BY <1>6, <2>2, <2>3
  <2> QED
    BY <2>4, <2>5, <2>6, <2>7 DEF T
<1> DEFINE Good(x, i) ==
             /\ x \in Seq(Int) /\ Len(x) = i
             /\ \A j \in 1..i : x[j] >= 1000
             /\ amt - Total(x) >= (n - i) * 1000
           D == {i \in Nat : i <= m => Good(iter[1..i], i)}
<1>8. 0 \in D
  <2>1. 1..0 = {} /\ iter[1..0] = <<>>
    BY <1>6
  <2>2. <<>> \in Seq(Int) /\ Len(<<>>) = 0
    OBVIOUS
  <2>3. amt - 0 >= (n - 0) * 1000
    OBVIOUS
  <2>4. Good(iter[1..0], 0)
    BY <2>1, <2>2, <2>3, TotalEmpty
  <2> HIDE DEF Good
  <2> QED
    BY <2>4
<1>9. ASSUME NEW i \in Nat, i \in D PROVE i + 1 \in D
  <2> SUFFICES ASSUME i + 1 <= m PROVE Good(iter[1..(i + 1)], i + 1)
    OBVIOUS
  <2> DEFINE x == iter[1..i]
             p == Part(amt - Total(x), n - (i + 1), us[i + 1], rs[i + 1])
  <2>1. Good(x, i) /\ i + 1 \in 1..m
    BY <1>2, <1>9
  <2>2. iter[1..(i + 1)] = Append(x, p)
    BY <1>7
  <2> HIDE DEF x
  <2>3. Total(x) \in Int
    BY <2>1, TotalIsSum
  <2> DEFINE rem == amt - Total(x)
             left == n - (i + 1)
             u == us[i + 1]
             r == rs[i + 1]
  <2>4. left \in Nat /\ u \in Quarters /\ r \in Quarters
    BY <2>1 DEF m
  <2>r. rem \in Int /\ rem >= (left + 1) * 1000
    BY <2>1, <2>3
  <2>p. p = Part(rem, left, u, r)
    OBVIOUS
  <2> HIDE DEF rem, left, u, r, p
  <2>q. p \in Int /\ p >= 1000 /\ rem - p >= left * 1000
    BY <2>4, <2>r, <2>p, PartLeavesEnough
  <2>5. p \in Int /\ p >= 1000 /\ (amt - Total(x)) - p >= (n - (i + 1)) * 1000
    BY <2>q DEF rem, left
  <2>6. Total(Append(x, p)) = Total(x) + p
    BY <2>1, <2>5, TotalAppend
  <2>7. Append(x, p) \in Seq(Int) /\ Len(Append(x, p)) = i + 1 /\ \A j \in 1..(i + 1) : Append(x, p)[j] >= 1000
    BY <2>1, <2>5
  <2>8. amt - Total(Append(x, p)) >= (n - (i + 1)) * 1000
    BY <2>3, <2>5, <2>6
  <2> QED
    BY <2>2, <2>7, <2>8
<1>10. Good(parts, m)
  <2>1. Nat \subseteq D
    <3> HIDE DEF D
    <3> QED
      BY <1>8, <1>9, InductionOnNat
  <2>2. m \in D
    BY <2>1, <1>2
  <2> QED
    BY <2>2, <1>2
<1> HIDE DEF parts
<1>11. Total(parts) \in Int /\ amt - Total(parts) >= 1000
  BY <1>10, TotalIsSum DEF m
<1> DEFINE last == amt - Total(parts)
<1>12. last \in Int /\ last >= 1000
  BY <1>11
<1> HIDE DEF last
<1>13. /\ Append(parts, last) \in Seq(Int) /\ Len(Append(parts, last)) = n
       /\ \A i \in 1..n : Append(parts, last)[i] >= 1000
  BY <1>10, <1>12 DEF m
<1>14. Total(Append(parts, last)) = Total(parts) + last
  BY <1>10, <1>12, TotalAppend
<1> QED
  BY <1>1, <1>11, <1>13, <1>14 DEF last

\* What the outputs of a row are worth together, and the least one of them is.
Least(s) == IF s = "SCEN_ADDRESS_REUSE" THEN 600 ELSE 1000

LEMMA TwoParts ==
  ASSUME NEW a \in Int, NEW amt \in Int, NEW low \in Int, a >= low, amt - a >= low,
         NEW outs, outs = <<a, amt - a>>
  PROVE  /\ outs \in Seq(Int) /\ Len(outs) = 2 /\ Total(outs) = amt
         /\ \A i \in 1..2 : outs[i] >= low
<1> DEFINE b == amt - a
<1>1. b \in Int /\ b >= low /\ a + b = amt
  OBVIOUS
<1> HIDE DEF b
<1>2. Total(<<a, b>>) = amt
  BY <1>1, TotalOfOneOrTwo
<1>3. <<a, b>> \in Seq(Int) /\ Len(<<a, b>>) = 2 /\ \A i \in 1..2 : <<a, b>>[i] >= low
  BY <1>1
<1> QED
  BY <1>2, <1>3 DEF b

LEMMA PeeledPart ==
  ASSUME NEW r \in Int, r >= 1000, NEW amt \in Int, amt >= 2000,
         NEW third \in Int, 3 * third <= amt
  PROVE  /\ Min({r, Max({1000, third})}) \in Int /\ Min({r, Max({1000, third})}) >= 1000
         /\ amt - Min({r, Max({1000, third})}) >= 1000
<1> DEFINE most == Max({1000, third})
<1>1. most = IF 1000 >= third THEN 1000 ELSE third
  BY MaxMin
<1> HIDE DEF most
<1>2. most \in Int /\ most >= 1000 /\ amt - most >= 1000
  BY <1>1
<1>3. Min({r, most}) = IF r <= most THEN r ELSE most
  BY <1>2, MaxMin
<1>4. Min({r, most}) \in Int /\ Min({r, most}) >= 1000 /\ amt - Min({r, most}) >= 1000
  BY <1>2, <1>3
<1> QED
  BY <1>4 DEF most

LEMMA ReusedPart ==
  ASSUME NEW amt \in Int, amt >= 2000, NEW part \in Int, 10 * part <= 7 * amt
  PROVE  /\ Max({1000, part}) \in Int /\ Max({1000, part}) >= 600
         /\ amt - Max({1000, part}) >= 600
<1>1. Max({1000, part}) = IF 1000 >= part THEN 1000 ELSE part
  BY MaxMin
<1> QED
  BY <1>1

LEMMA OutputsAreWhole ==
  ASSUME NEW s \in Scenarios, NEW n \in OutCounts(s), NEW amt, amt \in Int, amt >= n * 1000,
         NEW outs \in Outputs(s, amt, n)
  PROVE  /\ outs \in Seq(Int) /\ Len(outs) >= 1 /\ Total(outs) = amt
         /\ \A i \in 1..Len(outs) : outs[i] >= Least(s)
<1>1. n \in Nat /\ n >= 1
  BY SizesAssumption DEF OutCounts
<1>q. \A q \in Quarters : q \in 0..4
  BY SizesAssumption
<1>2. CASE s = "SCEN_PEELING"
  <2> DEFINE D == Draw(10000, 500000)
             Parts(x) == <<Min({x, Max({1000, amt \div 3})}), amt - Min({x, Max({1000, amt \div 3})})>>
  <2>0. Outputs(s, amt, n) = {Parts(x) : x \in D}
    BY <1>2, SMT DEF Outputs
  <2> HIDE DEF D, Parts
  <2>1. PICK r \in D : outs = Parts(r)
    BY <2>0
  <2>2. r \in Int /\ r >= 10000
    <3>1. PICK q \in Quarters : r = 10000 + ((500000 - 10000) * q) \div 4
      BY SMT DEF D, Draw
    <3> QED
      BY <3>1, <1>q, SMT
  <2>3. n = 2
    BY <1>2 DEF OutCounts
  <2> DEFINE third == amt \div 3
             a == Min({r, Max({1000, third})})
  <2>4. third \in Int /\ 3 * third <= amt /\ amt >= 2000
    BY <2>3
  <2>5. r >= 1000
    BY <2>2
  <2>7. outs = <<a, amt - a>>
    BY <2>1 DEF Parts
  <2> HIDE DEF third
  <2>9. a \in Int /\ a >= 1000 /\ amt - a >= 1000
    BY <2>2, <2>4, <2>5, PeeledPart
  <2> HIDE DEF a
  <2>10. /\ outs \in Seq(Int) /\ Len(outs) = 2 /\ Total(outs) = amt
         /\ \A i \in 1..2 : outs[i] >= 1000
    BY <2>7, <2>9, TwoParts
  <2> QED
    BY <2>10, <1>2 DEF Least
<1>3. CASE s = "SCEN_ADDRESS_REUSE" /\ n > 1
  <2> DEFINE D == Draw(30, 70)
             Parts(x) == <<Max({1000, Percent(amt, x)}), amt - Max({1000, Percent(amt, x)})>>
  <2>s. s # "SCEN_PEELING" /\ s = "SCEN_ADDRESS_REUSE" /\ n > 1 /\ n # 1 /\ n \in Nat
    BY <1>1, <1>3
  <2>0. Outputs(s, amt, n) = {Parts(x) : x \in D}
    BY <2>s, SMT DEF Outputs
  <2> HIDE DEF D, Parts
  <2>1. PICK p \in D : outs = Parts(p)
    BY <2>0
  <2>2. p \in {30, 40, 50, 60, 70}
    <3>1. PICK q \in Quarters : p = 30 + ((70 - 30) * q) \div 4
      BY DEF D, Draw
    <3>2. q = 0 \/ q = 1 \/ q = 2 \/ q = 3 \/ q = 4
      BY <1>q
    <3> QED
      BY <3>1, <3>2
  <2> DEFINE part == Percent(amt, p)
             a == Max({1000, part})
  <2>3. amt \in Nat /\ amt >= 2000 /\ p \in {10, 25, 30, 40, 50, 55, 60, 70}
    BY <1>1, <1>3, <2>2
  <2>a. amt \in Int /\ amt >= 0
    BY <2>3
  <2>4. \A q \in {10, 25, 30, 40, 50, 55, 60, 70} :
          Percent(amt, q) \in Int /\ 10 * Percent(amt, q) <= 7 * amt
    BY <2>a, PercentBounds
  <2>5. part \in Int /\ 10 * part <= 7 * amt
    BY <2>3, <2>4
  <2>6. outs = <<a, amt - a>>
    BY <2>1 DEF Parts
  <2> HIDE DEF part
  <2>7. a \in Int /\ a >= 600 /\ amt - a >= 600
    BY <2>3, <2>5, ReusedPart
  <2> HIDE DEF a
  <2>8. /\ outs \in Seq(Int) /\ Len(outs) = 2 /\ Total(outs) = amt
        /\ \A i \in 1..2 : outs[i] >= 600
    BY <2>6, <2>7, TwoParts
  <2> QED
    BY <2>8, <1>3 DEF Least
<1>4. CASE s # "SCEN_PEELING" /\ n = 1
  <2>1. outs = <<amt>>
    BY <1>4, SMT DEF Outputs
  <2>2. Total(<<amt>>) = amt
    BY TotalOfOneOrTwo
  <2>3. amt >= 1000
    BY <1>4
  <2> QED
    BY <2>1, <2>2, <2>3 DEF Least
<1>5. CASE s # "SCEN_PEELING" /\ n # 1 /\ ~(s = "SCEN_ADDRESS_REUSE" /\ n > 1)
  <2>1. PICK us \in [1..(n - 1) -> Quarters], rs \in [1..(n - 1) -> Quarters] :
          outs = Split(amt, n, us, rs)
    BY <1>5, SMT DEF Outputs
  <2>2. /\ Split(amt, n, us, rs) \in Seq(Int) /\ Len(Split(amt, n, us, rs)) = n
        /\ Total(Split(amt, n, us, rs)) = amt
        /\ \A i \in 1..n : Split(amt, n, us, rs)[i] >= 1000
    BY <1>1, SplitIsWhole
  <2>3. /\ outs \in Seq(Int) /\ Len(outs) = n /\ Total(outs) = amt
        /\ \A i \in 1..n : outs[i] >= 1000
    BY <2>1, <2>2
  <2>4. \A i \in 1..n : outs[i] \in Int
    BY <2>3
  <2>5. \A i \in 1..n : outs[i] >= Least(s)
    BY <2>3, <2>4 DEF Least
  <2> QED
    BY <2>3, <2>5, <1>1
<1> QED
  BY <1>2, <1>3, <1>4, <1>5

-----------------------------------------------------------------------------
(* The pool. *)

LEMMA OrdersAreOrders ==
  ASSUME NEW n \in Nat, NEW p, NEW s \in Orders(p, n)
  PROVE  s \in Seq(p) /\ Len(s) = n /\ Cardinality(Range(s)) = Len(s)
<1>1. s \in [1..n -> p] /\ \A i, j \in 1..n : s[i] = s[j] => i = j
  BY DEF Orders
<1>2. s \in Seq(p) /\ Len(s) = n /\ DOMAIN s = 1..n
  BY <1>1
<1>3. s \in Bijection(1..n, Range(s))
  BY <1>1, <1>2 DEF Bijection, Injection, Surjection, IsInjective, Range
<1>4. ExistsBijection(1..n, Range(s))
  BY <1>3 DEF ExistsBijection
<1>5. IsFiniteSet(1..n) /\ Cardinality(1..n) = n
  BY FS_Interval
<1>6. Cardinality(Range(s)) = Cardinality(1..n)
  BY <1>4, <1>5, FS_Bijection
<1> QED
  BY <1>2, <1>5, <1>6

LEMMA RangeIsFinite ==
  ASSUME NEW X, NEW s \in Seq(X)
  PROVE  /\ IsFiniteSet(Range(s)) /\ Range(s) \subseteq X
         /\ \A i \in 1..Len(s) : s[i] \in Range(s)
         /\ \A x \in Range(s) : \E i \in 1..Len(s) : x = s[i]
<1>1. Len(s) \in Nat /\ DOMAIN s = 1..Len(s) /\ \A i \in 1..Len(s) : s[i] \in X
  OBVIOUS
<1>2. s \in Surjection(1..Len(s), Range(s))
  <2>1. s = [i \in 1..Len(s) |-> s[i]]
    OBVIOUS
  <2> QED
    BY <1>1, <2>1 DEF Surjection, Range
<1>3. IsFiniteSet(1..Len(s))
  BY <1>1, FS_Interval
<1>4. IsFiniteSet(Range(s))
  BY <1>2, <1>3, FS_Surjection
<1> QED
  BY <1>1, <1>4 DEF Range

\* Outputs have the same name when they are the same output of the same row.
SameName(c, d) == c.tx = d.tx /\ c.out = d.out

\* A bootstrap adds outputs with names of their own.
LEMMA ReplenishAdds ==
  ASSUME pool \subseteq Coins, IsFiniteSet(pool), boots \in Nat, NEW n, NEW p \in Replenish(n)
  PROVE  /\ IsFiniteSet(p) /\ p \subseteq Coins /\ pool \subseteq p
         /\ \A c \in p \ pool : c.tx = -boots
         /\ \A c, d \in p \ pool : SameName(c, d) => c = d
<1>1. CASE p = pool
  BY <1>1
<1>2. CASE p # pool
  <2>1. PICK amts \in [1..Boot -> Seeds] :
          p = pool \cup {[tx |-> -boots, out |-> i, amt |-> amts[i]] : i \in 1..Boot}
    BY <1>2 DEF Replenish
  <2> DEFINE f == [i \in 1..Boot |-> [tx |-> -boots, out |-> i, amt |-> amts[i]]]
             new == {f[i] : i \in 1..Boot}
  <2>2. p = pool \cup new
    BY <2>1
  <2>3. Boot \in Nat /\ \A i \in 1..Boot : amts[i] \in Nat
    BY SizesAssumption
  <2>4. \A i \in 1..Boot : f[i] \in Coins /\ f[i].tx = -boots /\ f[i].out = i
    BY <2>3 DEF Coins
  <2>5. IsFiniteSet(new)
    <3>1. f \in Surjection(1..Boot, new)
      BY DEF Surjection
    <3>2. IsFiniteSet(1..Boot)
      BY <2>3, FS_Interval
    <3> HIDE DEF f, new
    <3> QED
      BY <3>1, <3>2, FS_Surjection
  <2> HIDE DEF f
  <2>6. \A c \in p \ pool : \E i \in 1..Boot : c = f[i]
    BY <2>2
  <2>7. IsFiniteSet(p)
    <3> HIDE DEF new
    <3> QED
      BY <2>2, <2>5, FS_Union
  <2>8. \A c, d \in p \ pool : SameName(c, d) => c = d
    BY <2>4, <2>6 DEF SameName
  <2> QED
    BY <2>2, <2>4, <2>6, <2>7, <2>8
<1> QED
  BY <1>1, <1>2

\* The pool is never larger than it may be.
LEMMA AddCoinsFits ==
  ASSUME NEW p, IsFiniteSet(p), NEW coins \in Seq(Coins), NEW q \in AddCoins(p, coins)
  PROVE  /\ q \subseteq p \cup Range(coins)
         /\ IsFiniteSet(q) /\ Cardinality(q) <= PoolMax
<1> DEFINE all == p \cup Range(coins)
           over == Max({0, Cardinality(all) - PoolMax})
<1>1. PICK evicted \in kSubset(over, all \ {Last(coins)}) : q = all \ evicted
  BY DEF AddCoins
<1>2. evicted \subseteq all /\ Cardinality(evicted) = over
  BY DEF kSubset
<1>3. IsFiniteSet(all)
  BY RangeIsFinite, FS_Union
<1> HIDE DEF all
<1>4. Cardinality(all) \in Nat /\ IsFiniteSet(evicted) /\ Cardinality(evicted) \in Nat
  <2>1. IsFiniteSet(evicted)
    BY <1>2, <1>3, FS_Subset
  <2> QED
    BY <1>3, <2>1, FS_CardinalityType
<1>5. IsFiniteSet(q) /\ Cardinality(q) = Cardinality(all) - Cardinality(evicted)
  <2>1. all \cap evicted = evicted
    BY <1>2
  <2>2. /\ IsFiniteSet(all \ evicted)
        /\ Cardinality(all \ evicted) = Cardinality(all) - Cardinality(all \cap evicted)
    BY <1>3, FS_Difference
  <2> QED
    BY <1>1, <2>1, <2>2
<1>6. PoolMax \in Nat
  BY SizesAssumption
<1>7. over >= Cardinality(all) - PoolMax
  <2> DEFINE d == Cardinality(all) - PoolMax
  <2>1. d \in Int
    BY <1>4, <1>6
  <2> HIDE DEF d
  <2>2. Max({0, d}) = IF 0 >= d THEN 0 ELSE d
    BY <2>1, MaxMin
  <2>3. over = Max({0, d})
    BY DEF d
  <2>4. over >= d
    BY <2>1, <2>2, <2>3
  <2> QED
    BY <2>4 DEF d
<1> HIDE DEF over
<1>8. Cardinality(q) <= PoolMax
  BY <1>2, <1>4, <1>5, <1>6, <1>7
<1> QED
  BY <1>1, <1>5, <1>8 DEF all

-----------------------------------------------------------------------------
(* The inductive invariant. *)

\* The rows, and what each of them pays.
RowSet == [seq : Nat, scenario : Scenarios, spent : Seq(Coins),
           ins : Seq(Int), outs : Seq(Int), fee : Int]

Pays(row) ==
  /\ Cardinality(Range(row.spent)) = Len(row.spent)
  /\ Total(row.ins) = Total(row.outs) + row.fee
  /\ row.fee >= 500
  /\ \A i \in 1..Len(row.outs) : row.outs[i] >= Least(row.scenario)

PoolInv ==
  /\ pool \subseteq Coins /\ gone \subseteq Coins /\ boots \in Nat
  /\ IsFiniteSet(pool) /\ Cardinality(pool) <= PoolMax

\* The names are those of rows and bootstraps so far; outputs of the pool
\* have different names, and none has the name of one that is gone.
NamesInv ==
  /\ \A c \in pool \cup gone : -boots < c.tx /\ c.tx <= seq
  /\ \A c, d \in pool : SameName(c, d) => c = d
  /\ \A c \in pool, d \in gone : ~SameName(c, d)

\* A row made by a step: it spends outputs that were not gone, and are now.
RowOf(row, s) ==
  /\ row \in RowSet /\ row.seq = seq + 1 /\ row.scenario = s /\ Pays(row)
  /\ Range(row.spent) \subseteq gone'
  /\ \A c \in Range(row.spent), d \in gone : ~SameName(c, d)

\* The pool p loses what is spent, and some of it makes room for what is new.
Moves(p, spent, new) ==
  /\ spent \subseteq p /\ new \subseteq Coins
  /\ \A c \in new : c.tx = seq + 1
  /\ \A c, d \in new : SameName(c, d) => c = d
  /\ pool' \subseteq (p \ spent) \cup new
  /\ gone' = gone \cup ((p \cup new) \ pool')
  /\ boots' = IF p = pool THEN boots ELSE boots + 1
  /\ seq' = seq + 1

LEMMA NamesMove ==
  ASSUME PoolInv, NamesInv, seq \in Nat, NEW n, NEW p \in Replenish(n), NEW spent, NEW new,
         Moves(p, spent, new)
  PROVE  /\ NamesInv' /\ gone' \subseteq Coins /\ boots' \in Nat /\ spent \subseteq gone'
         /\ \A c \in p, d \in gone : ~SameName(c, d)
<1> USE DEF Moves
<1>1. /\ p \subseteq Coins /\ pool \subseteq p
      /\ \A c \in p \ pool : c.tx = -boots
      /\ \A c, d \in p \ pool : SameName(c, d) => c = d
  BY ReplenishAdds DEF PoolInv
<1>2. boots \in Nat /\ boots' \in Nat /\ boots' >= boots /\ (p # pool => boots' = boots + 1)
  BY DEF PoolInv
<1>3. \A c \in p \cup gone \cup new : c \in Coins /\ c.tx \in Int
  BY <1>1 DEF PoolInv, Coins
<1>4. \A c \in p \cup gone : -boots' < c.tx /\ c.tx <= seq
  <2>1. \A c \in pool \cup gone : -boots < c.tx /\ c.tx <= seq
    BY DEF NamesInv
  <2>2. \A c \in pool \cup gone : -boots' < c.tx /\ c.tx <= seq
    BY <1>2, <1>3, <1>1, <2>1
  <2>3. \A c \in p \ pool : c.tx = -boots /\ boots' = boots + 1
    BY <1>1, <1>2
  <2>4. \A c \in p \ pool : -boots' < c.tx /\ c.tx <= seq
    BY <1>2, <2>3
  <2> QED
    BY <2>2, <2>4
<1>5. \A c \in p, d \in gone : ~SameName(c, d)
  <2>1. \A c \in pool, d \in gone : ~SameName(c, d)
    BY DEF NamesInv
  <2>2. \A d \in gone : -boots < d.tx
    BY DEF NamesInv
  <2>3. \A c \in p \ pool, d \in gone : c.tx # d.tx
    BY <1>1, <1>2, <1>3, <2>2
  <2> QED
    BY <2>1, <2>3 DEF SameName
<1>6. \A c, d \in p : SameName(c, d) => c = d
  <2>1. \A c, d \in pool : SameName(c, d) => c = d
    BY DEF NamesInv
  <2>2. \A c \in p \ pool, d \in pool : c.tx # d.tx
    <3>1. \A d \in pool : -boots < d.tx
      BY DEF NamesInv
    <3> QED
      BY <1>1, <1>2, <1>3, <3>1
  <2> QED
    BY <1>1, <2>1, <2>2 DEF SameName
<1>7. \A c \in new, d \in p \cup gone : ~SameName(c, d) /\ ~SameName(d, c)
  <2>1. \A c \in new, d \in p \cup gone : c.tx # d.tx
    BY <1>3, <1>4
  <2> QED
    BY <2>1 DEF SameName
<1>8. \A c, d \in p \cup new : SameName(c, d) => c = d
  BY <1>6, <1>7
<1>9. \A c \in pool' \cup gone' : -boots' < c.tx /\ c.tx <= seq'
  <2>1. \A c \in new : -boots' < c.tx /\ c.tx <= seq + 1
    BY <1>2
  <2>2. \A c \in p \cup gone : -boots' < c.tx /\ c.tx <= seq + 1
    BY <1>3, <1>4
  <2> QED
    BY <2>1, <2>2
<1>10. \A c \in pool', d \in gone' : ~SameName(c, d)
  <2>1. \A c \in pool', d \in gone : ~SameName(c, d)
    BY <1>5, <1>7
  <2>2. \A c \in pool', d \in (p \cup new) \ pool' : ~SameName(c, d)
    BY <1>8
  <2> QED
    BY <2>1, <2>2
<1>11. spent \subseteq gone'
  <2>1. \A c \in spent : c \notin new
    <3>1. \A c \in spent : c.tx # seq + 1
      BY <1>3, <1>4
    <3> QED
      BY <3>1
  <2> QED
    BY <2>1
<1>12. NamesInv'
  BY <1>8, <1>9, <1>10 DEF NamesInv
<1>13. gone' \subseteq Coins
  BY <1>3
<1> QED
  BY <1>2, <1>5, <1>11, <1>12, <1>13

\* What an input set is worth, and what its row pays.
LEMMA PaysItsInputs ==
  ASSUME NEW s \in Scenarios, NEW ins \in InCounts(s), NEW n \in OutCounts(s), NEW rate \in Int,
         NEW p \in SUBSET Coins, NEW spent \in Orders(p, ins),
         NEW amts \in Funded(s, Amounts(spent), n),
         NEW fee, fee = FeeAt(rate, Total(amts), ins, n),
         NEW outs \in Outputs(s, Total(amts) - fee, n)
  PROVE  LET row == [seq |-> seq + 1, scenario |-> s, spent |-> spent,
                     ins |-> amts, outs |-> outs, fee |-> fee] IN
         (seq \in Nat => row \in RowSet) /\ Pays(row) /\ Len(outs) >= 1
<1>1. ins \in Nat /\ ins >= 1 /\ n \in Nat /\ n >= 1
  BY SizesAssumption DEF InCounts, OutCounts
<1>2. spent \in Seq(p) /\ Len(spent) = ins /\ Cardinality(Range(spent)) = Len(spent)
  BY <1>1, OrdersAreOrders
<1>3. spent \in Seq(Coins)
  BY <1>2
<1>4. Amounts(spent) \in Seq(Int) /\ Amounts(spent) # <<>>
  <2>1. \A i \in 1..ins : spent[i] \in Coins /\ spent[i].amt \in Int
    BY <1>2, <1>3 DEF Coins
  <2>2. DOMAIN spent = 1..ins
    BY <1>2
  <2>3. Amounts(spent) = [i \in 1..ins |-> spent[i].amt]
    BY <2>2 DEF Amounts
  <2>4. 1 \in 1..ins
    BY <1>1
  <2> QED
    BY <1>1, <2>1, <2>3, <2>4
<1>5. amts \in Seq(Int) /\ Total(amts) \in Int /\ Total(amts) > n * 1000 + 500
  BY <1>1, <1>4, FundedPays
<1> DEFINE total == Total(amts)
           amt == total - fee
<1>6. total \in Int /\ total > n * 1000 + 500 /\ fee = FeeAt(rate, total, ins, n)
  BY <1>5
<1>o. outs \in Outputs(s, amt, n)
  OBVIOUS
<1> HIDE DEF total
<1>7. fee \in Int /\ fee >= 500 /\ total - fee >= n * 1000
  BY <1>1, <1>6, FeeLeavesEnough
<1>8. amt \in Int /\ amt >= n * 1000
  BY <1>6, <1>7
<1>9. total = amt + fee
  BY <1>6, <1>7
<1> HIDE DEF amt
<1>10. /\ outs \in Seq(Int) /\ Len(outs) >= 1 /\ Total(outs) = amt
       /\ \A i \in 1..Len(outs) : outs[i] >= Least(s)
  BY <1>8, <1>o, OutputsAreWhole
<1> DEFINE row == [seq |-> seq + 1, scenario |-> s, spent |-> spent,
                   ins |-> amts, outs |-> outs, fee |-> fee]
<1>11. seq \in Nat => row \in RowSet
  BY <1>3, <1>5, <1>7, <1>10 DEF RowSet
<1>12. Pays(row)
  <2>1. Total(amts) = Total(outs) + fee
    BY <1>9, <1>10 DEF total
  <2> QED
    BY <1>2, <1>7, <1>10, <2>1 DEF Pays
<1> QED
  BY <1>10, <1>11, <1>12

\* What a transaction does with what was drawn for it.
Deal(s, tel, p, spent, amts, outs, fee) ==
  LET coins == [i \in DOMAIN outs |-> [tx |-> seq + 1, out |-> i - 1, amt |-> outs[i]]]
  IN /\ pool' \in AddCoins(p \ Range(spent), coins)
     /\ gone' = gone \cup ((p \cup Range(coins)) \ pool')
     /\ boots' = IF p = pool THEN boots ELSE boots + 1
     /\ counts' = Count(s, tel)
     /\ Store([seq |-> seq + 1, scenario |-> s, spent |-> spent,
               ins |-> amts, outs |-> outs, fee |-> fee])
     /\ seq' = seq + 1

LEMMA TransactionStep ==
  ASSUME PoolInv, NamesInv, seq \in Nat, NEW s \in Scenarios, NEW tel, Transaction(s, tel)
  PROVE  /\ PoolInv' /\ NamesInv' /\ seq' = seq + 1 /\ counts' = Count(s, tel)
         /\ \E row : RowOf(row, s) /\ Store(row)
         /\ pool \subseteq pool' \cup gone' /\ gone \subseteq gone'
<1> DEFINE Fee(rate, amts, ins, n) == FeeAt(rate, Total(amts), ins, n)
           Given(amts, ins, n, rate, p, spent) ==
             \E outs \in Outputs(s, Total(amts) - Fee(rate, amts, ins, n), n) :
               Deal(s, tel, p, spent, amts, outs, Fee(rate, amts, ins, n))
<1>1. \E ins \in InCounts(s), n \in OutCounts(s), rate \in Draw(8, 45) :
      \E p \in Replenish(ins) : \E spent \in Orders(p, ins) : \E amts \in Funded(s, Amounts(spent), n) :
        Given(amts, ins, n, rate, p, spent)
  BY ZenonT(30) DEF Transaction, Deal
<1> HIDE DEF Given
<1>2. PICK ins \in InCounts(s), n \in OutCounts(s), rate \in Draw(8, 45) :
      \E p \in Replenish(ins) : \E spent \in Orders(p, ins) : \E amts \in Funded(s, Amounts(spent), n) :
        Given(amts, ins, n, rate, p, spent)
  BY <1>1
<1>3. PICK p \in Replenish(ins) : \E spent \in Orders(p, ins) : \E amts \in Funded(s, Amounts(spent), n) :
        Given(amts, ins, n, rate, p, spent)
  BY <1>2
<1>a. PICK spent \in Orders(p, ins) : \E amts \in Funded(s, Amounts(spent), n) :
        Given(amts, ins, n, rate, p, spent)
  BY <1>3
<1>b. PICK amts \in Funded(s, Amounts(spent), n) : Given(amts, ins, n, rate, p, spent)
  BY <1>a
<1> DEFINE fee == FeeAt(rate, Total(amts), ins, n)
<1>c. PICK outs \in Outputs(s, Total(amts) - fee, n) : Deal(s, tel, p, spent, amts, outs, fee)
  BY <1>b DEF Given
<1> DEFINE coins == [i \in DOMAIN outs |-> [tx |-> seq + 1, out |-> i - 1, amt |-> outs[i]]]
           row == [seq |-> seq + 1, scenario |-> s, spent |-> spent,
                   ins |-> amts, outs |-> outs, fee |-> fee]
<1>4. /\ pool' \in AddCoins(p \ Range(spent), coins)
      /\ gone' = gone \cup ((p \cup Range(coins)) \ pool')
      /\ boots' = IF p = pool THEN boots ELSE boots + 1
      /\ counts' = Count(s, tel) /\ Store(row) /\ seq' = seq + 1
  BY <1>c DEF Deal
<1>5. IsFiniteSet(p) /\ p \subseteq Coins /\ pool \subseteq p
  BY ReplenishAdds DEF PoolInv
<1>r. rate \in Int
  <2>1. \A q \in Quarters : q \in Int
    BY SizesAssumption
  <2> QED
    BY <2>1 DEF Draw
<1>6. row \in RowSet /\ Pays(row) /\ Len(outs) >= 1
  <2> DEFINE f == FeeAt(rate, Total(amts), ins, n)
  <2>1. fee = f
    OBVIOUS
  <2> HIDE DEF fee
  <2> QED
    BY <1>5, <1>r, <2>1, PaysItsInputs
<1> HIDE DEF fee
<1>7. /\ outs \in Seq(Int) /\ spent \in Seq(Coins)
      /\ \A i \in 1..Len(outs) : outs[i] >= Least(s)
  BY <1>6 DEF RowSet, Pays
<1>8. /\ coins \in Seq(Coins) /\ \A c \in Range(coins) : c.tx = seq + 1
      /\ \A c, d \in Range(coins) : SameName(c, d) => c = d
  <2>1. DOMAIN outs = 1..Len(outs) /\ Len(outs) \in Nat
    BY <1>7
  <2>2. \A i \in 1..Len(outs) : outs[i] \in Nat
    <3>1. Least(s) \in Nat
      BY DEF Least
    <3> QED
      BY <1>7, <3>1
  <2>3. \A i \in 1..Len(outs) : coins[i] \in Coins /\ coins[i].tx = seq + 1 /\ coins[i].out = i - 1
    BY <2>1, <2>2 DEF Coins
  <2>4. coins \in Seq(Coins) /\ DOMAIN coins = 1..Len(outs)
    BY <2>1, <2>3
  <2>5. \A c \in Range(coins) : \E i \in 1..Len(outs) : c = coins[i]
    BY <2>4 DEF Range
  <2> HIDE DEF coins
  <2>6. \A c \in Range(coins) : c.tx = seq + 1
    BY <2>3, <2>5
  <2>7. \A c, d \in Range(coins) : SameName(c, d) => c = d
    <3> SUFFICES ASSUME NEW c \in Range(coins), NEW d \in Range(coins), SameName(c, d)
                 PROVE  c = d
      OBVIOUS
    <3>1. PICK i \in 1..Len(outs), j \in 1..Len(outs) : c = coins[i] /\ d = coins[j]
      BY <2>5
    <3>2. i - 1 = j - 1
      BY <2>3, <3>1 DEF SameName
    <3> QED
      BY <2>1, <3>1, <3>2
  <2> QED
    BY <2>4, <2>6, <2>7
<1> HIDE DEF coins
<1>9. Range(spent) \subseteq p
  BY DEF Orders, Range
<1> DEFINE gives == Range(spent)
           new == Range(coins)
<1>10. gives \in SUBSET p /\ new \in SUBSET Coins
  BY <1>8, <1>9, RangeIsFinite
<1>11. /\ pool' \subseteq (p \ gives) \cup new
       /\ IsFiniteSet(pool') /\ Cardinality(pool') <= PoolMax
  <2> DEFINE kept == p \ gives
             q == pool'
  <2>1. IsFiniteSet(kept)
    BY <1>5, FS_Difference
  <2>2. q \in AddCoins(kept, coins)
    BY <1>4
  <2> HIDE DEF kept, q, gives, new
  <2>3. q \subseteq kept \cup Range(coins) /\ IsFiniteSet(q) /\ Cardinality(q) <= PoolMax
    BY <1>8, <2>1, <2>2, AddCoinsFits
  <2> QED
    BY <2>3 DEF kept, q, gives, new
<1>12. /\ gone' = gone \cup ((p \cup new) \ pool')
       /\ \A c \in new : c.tx = seq + 1
       /\ \A c, d \in new : SameName(c, d) => c = d
       /\ boots' = IF p = pool THEN boots ELSE boots + 1
       /\ seq' = seq + 1
  BY <1>4, <1>8
<1> HIDE DEF row
<1> HIDE DEF gives, new
<1>m. Moves(p, gives, new)
  BY <1>10, <1>11, <1>12 DEF Moves
<1>13. /\ NamesInv' /\ gone' \subseteq Coins /\ boots' \in Nat /\ gives \subseteq gone'
       /\ \A c \in p, d \in gone : ~SameName(c, d)
  BY <1>m, NamesMove
<1>14. PoolInv'
  BY <1>5, <1>10, <1>11, <1>13 DEF PoolInv
<1>15. RowOf(row, s)
  <2>1. row.spent = spent /\ row.seq = seq + 1 /\ row.scenario = s
    BY DEF row
  <2> QED
    BY <1>6, <1>9, <1>13, <2>1 DEF RowOf, gives
<1>16. pool \subseteq pool' \cup gone' /\ gone \subseteq gone'
  BY <1>5, <1>12
<1> QED
  BY <1>4, <1>13, <1>14, <1>15, <1>16

\* The rows so far are numbered, each pays what it spends, and no output is
\* spent by two of them.
LinesInv ==
  /\ file \in Seq(RowSet) /\ buffer \in Seq(RowSet) /\ Len(Lines) = seq
  /\ \A i \in 1..seq : Lines[i].seq = i /\ Pays(Lines[i]) /\ Range(Lines[i].spent) \subseteq gone
  /\ \A i, j \in 1..seq : i # j =>
       \A c \in Range(Lines[i].spent), d \in Range(Lines[j].spent) : ~SameName(c, d)

\* The manifest counts the rows so far.
Categories == {"mapped", "unmapped", "private"}

CountsInv ==
  /\ counts \in [scenario : [Scenarios -> Nat], telemetry : [Categories -> Nat]]
  /\ \A s \in Scenarios : counts.scenario[s] = Cardinality({i \in 1..seq : Lines[i].scenario = s})
  /\ SumFunctionOnSet(counts.telemetry, Categories) = seq

\* A burst is over where the rows and what is left of it say.
BurstsInv ==
  /\ burst \in Nat /\ clusters \in Seq([start : Nat, count : Nat])
  /\ \A k \in 1..Len(clusters) :
       /\ clusters[k].start >= 1
       /\ clusters[k].start + clusters[k].count - 1 <= seq + burst
       /\ \A i \in 1..seq : clusters[k].start <= i /\ i <= clusters[k].start + clusters[k].count - 1
            => Lines[i].scenario = "SCEN_BURST"

StageInv ==
  /\ chunk \in Nat /\ seq \in 0..Rows /\ done \in BOOLEAN
  /\ done => seq = Rows /\ buffer = <<>>

IInv == PoolInv /\ NamesInv /\ LinesInv /\ CountsInv /\ BurstsInv /\ StageInv

\* A sequence is the same wherever it is cut.
LEMMA Joined ==
  ASSUME NEW X, NEW s \in Seq(X), NEW t \in Seq(X), NEW x \in X
  PROVE  /\ s \o t \in Seq(X) /\ Len(s \o t) = Len(s) + Len(t)
         /\ s \o Append(t, x) = Append(s \o t, x)
         /\ (s \o Append(t, x)) \o <<>> = Append(s \o t, x)
         /\ (s \o t) \o <<>> = s \o t
<1>1. s \o t \in Seq(X) /\ Len(s \o t) = Len(s) + Len(t)
  OBVIOUS
<1>2. s \o Append(t, x) = Append(s \o t, x)
  OBVIOUS
<1>3. \A u \in Seq(X) : u \o <<>> = u
  OBVIOUS
<1>4. Append(s \o t, x) \in Seq(X)
  BY <1>1
<1> QED
  BY <1>1, <1>2, <1>3, <1>4

LEMMA StoreLine ==
  ASSUME file \in Seq(RowSet), buffer \in Seq(RowSet), NEW row \in RowSet, Store(row)
  PROVE  /\ file' \in Seq(RowSet) /\ buffer' \in Seq(RowSet)
         /\ Lines \in Seq(RowSet) /\ Len(Lines') = Len(Lines) + 1
         /\ \A i \in 1..Len(Lines) : Lines'[i] = Lines[i]
         /\ Lines'[Len(Lines) + 1] = row
<1>1. /\ file' \in Seq(RowSet) /\ buffer' \in Seq(RowSet)
      /\ Lines \in Seq(RowSet) /\ Lines' = Append(Lines, row)
  <2>1. Lines \in Seq(RowSet) /\ Append(buffer, row) \in Seq(RowSet)
    BY Joined DEF Lines
  <2>2. CASE Len(buffer) + 1 >= chunk
    <3>1. file' = file \o Append(buffer, row) /\ buffer' = <<>>
      BY <2>2 DEF Store
    <3>2. file \o Append(buffer, row) \in Seq(RowSet) /\ <<>> \in Seq(RowSet)
      BY <2>1, Joined
    <3>3. (file \o Append(buffer, row)) \o <<>> = Append(file \o buffer, row)
      BY Joined
    <3> QED
      BY <2>1, <3>1, <3>2, <3>3 DEF Lines
  <2>3. CASE ~(Len(buffer) + 1 >= chunk)
    <3>1. file' = file /\ buffer' = Append(buffer, row)
      BY <2>3 DEF Store
    <3>2. file \o Append(buffer, row) = Append(file \o buffer, row)
      BY Joined
    <3> QED
      BY <2>1, <3>1, <3>2 DEF Lines
  <2> QED
    BY <2>2, <2>3
<1> DEFINE L == Lines
           M == Lines'
<1>2. L \in Seq(RowSet) /\ M = Append(L, row)
  BY <1>1
<1> HIDE DEF L, M
<1>3. Len(M) = Len(L) + 1 /\ (\A i \in 1..Len(L) : M[i] = L[i]) /\ M[Len(L) + 1] = row
  BY <1>2
<1> QED
  BY <1>1, <1>3 DEF L, M

LEMMA LinesStep ==
  ASSUME LinesInv, seq \in Nat, seq' = seq + 1, gone \subseteq gone',
         NEW s, NEW row, RowOf(row, s), Store(row)
  PROVE  /\ LinesInv'
         /\ \A i \in 1..seq : Lines'[i] = Lines[i]
         /\ Lines'[seq + 1].scenario = s
<1>1. /\ file' \in Seq(RowSet) /\ buffer' \in Seq(RowSet) /\ Len(Lines') = seq + 1
      /\ \A i \in 1..seq : Lines'[i] = Lines[i]
      /\ Lines'[seq + 1] = row
  BY StoreLine DEF LinesInv, RowOf
<1> DEFINE L == Lines
           M == Lines'
<1>2. \A i \in 1..(seq + 1) : i \in 1..seq \/ i = seq + 1
  OBVIOUS
<1>3. \A i \in 1..(seq + 1) : M[i].seq = i /\ Pays(M[i]) /\ Range(M[i].spent) \subseteq gone'
  <2>1. \A i \in 1..seq : M[i] = L[i] /\ L[i].seq = i /\ Pays(L[i]) /\ Range(L[i].spent) \subseteq gone
    BY <1>1 DEF LinesInv
  <2>2. M[seq + 1] = row /\ row.seq = seq + 1 /\ Pays(row) /\ Range(row.spent) \subseteq gone'
    BY <1>1 DEF RowOf
  <2> HIDE DEF L, M
  <2> QED
    BY <1>2, <2>1, <2>2
<1>4. ASSUME NEW i \in 1..(seq + 1), NEW j \in 1..(seq + 1), i # j,
             NEW c \in Range(M[i].spent), NEW d \in Range(M[j].spent)
      PROVE  ~SameName(c, d)
  <2>1. \A k \in 1..seq : M[k] = L[k] /\ Range(L[k].spent) \subseteq gone
    BY <1>1 DEF LinesInv
  <2>2. /\ M[seq + 1] = row
        /\ \A x \in Range(row.spent), y \in gone : ~SameName(x, y)
    BY <1>1 DEF RowOf
  <2>3. \A x, y \in gone' : SameName(x, y) => SameName(y, x)
    BY DEF SameName
  <2>4. \A k, l \in 1..seq : k # l =>
          \A x \in Range(L[k].spent), y \in Range(L[l].spent) : ~SameName(x, y)
    BY DEF LinesInv
  <2>5. c \in gone' /\ d \in gone'
    BY <1>3
  <2> HIDE DEF L, M
  <2>6. CASE i \in 1..seq /\ j \in 1..seq
    BY <2>1, <2>4, <2>6, <1>4
  <2>7. CASE i = seq + 1 /\ j \in 1..seq
    <3>1. c \in Range(row.spent) /\ d \in gone
      BY <2>1, <2>2, <2>7, <1>4
    <3> QED
      BY <2>2, <3>1
  <2>8. CASE i \in 1..seq /\ j = seq + 1
    <3>1. d \in Range(row.spent) /\ c \in gone
      BY <2>1, <2>2, <2>8, <1>4
    <3> QED
      BY <2>2, <2>3, <2>5, <3>1
  <2> QED
    BY <1>2, <1>4, <2>6, <2>7, <2>8
<1>5. Lines'[seq + 1].scenario = s
  BY <1>1 DEF RowOf
<1>6. LinesInv'
  <2>1. \A i, j \in 1..(seq + 1) : i # j =>
          \A c \in Range(M[i].spent), d \in Range(M[j].spent) : ~SameName(c, d)
    BY <1>4
  <2> QED
    BY <1>1, <1>3, <2>1 DEF LinesInv
<1> QED
  BY <1>1, <1>5, <1>6

LEMMA CategoriesAreFinite == IsFiniteSet(Categories)
<1>1. Categories = ({"mapped"} \cup {"unmapped"}) \cup {"private"}
  BY DEF Categories
<1>2. IsFiniteSet({"mapped"}) /\ IsFiniteSet({"unmapped"}) /\ IsFiniteSet({"private"})
  BY FS_Singleton
<1>3. IsFiniteSet({"mapped"} \cup {"unmapped"})
  BY <1>2, FS_Union
<1> QED
  BY <1>1, <1>2, <1>3, FS_Union

LEMMA CountsStep ==
  ASSUME CountsInv, seq \in Nat, seq' = seq + 1, \A i \in 1..seq : Lines'[i] = Lines[i],
         NEW s \in Scenarios, Lines'[seq + 1].scenario = s, NEW tel \in Categories,
         counts' = Count(s, tel)
  PROVE  CountsInv'
<1> DEFINE Old(t) == {i \in 1..seq : Lines[i].scenario = t}
           New(t) == {i \in 1..(seq + 1) : Lines'[i].scenario = t}
           sc == counts.scenario
           te == counts.telemetry
           te1 == [te EXCEPT ![tel] = @ + 1]
<1>1. /\ sc \in [Scenarios -> Nat] /\ te \in [Categories -> Nat]
      /\ \A t \in Scenarios : sc[t] = Cardinality(Old(t))
      /\ SumFunctionOnSet(te, Categories) = seq
  BY DEF CountsInv
<1>2. counts' = [scenario |-> [sc EXCEPT ![s] = @ + 1], telemetry |-> te1]
  BY <1>1 DEF Count, CountsInv
<1>3. counts' \in [scenario : [Scenarios -> Nat], telemetry : [Categories -> Nat]]
  <2>1. [sc EXCEPT ![s] = @ + 1] \in [Scenarios -> Nat] /\ te1 \in [Categories -> Nat]
    BY <1>1
  <2> HIDE DEF sc, te1
  <2> QED
    BY <1>2, <2>1
<1>4. \A i \in 1..(seq + 1) : i \in 1..seq \/ i = seq + 1
  OBVIOUS
<1>5. ASSUME NEW t \in Scenarios PROVE counts'.scenario[t] = Cardinality(New(t))
  <2>1. IsFiniteSet(Old(t))
    <3>1. IsFiniteSet(1..seq)
      BY FS_Interval
    <3> QED
      BY <3>1, FS_Subset
  <2>2. Cardinality(Old(t)) = sc[t]
    BY <1>1
  <2>3. CASE t = s
    <3>1. New(t) = Old(t) \cup {seq + 1} /\ seq + 1 \notin Old(t)
      BY <1>4, <2>3
    <3>2. Cardinality(Old(t) \cup {seq + 1}) = Cardinality(Old(t)) + 1
      <4> HIDE DEF Old
      <4> QED
        BY <2>1, <3>1, FS_AddElement
    <3>3. counts'.scenario[t] = sc[t] + 1
      BY <1>1, <1>2, <2>3
    <3> HIDE DEF Old, New, sc
    <3> QED
      BY <2>2, <3>1, <3>2, <3>3
  <2>4. CASE t # s
    <3>1. New(t) = Old(t)
      BY <1>4, <2>4
    <3>2. counts'.scenario[t] = sc[t]
      BY <1>1, <1>2, <2>4
    <3> HIDE DEF Old, New, sc
    <3> QED
      BY <2>2, <3>1, <3>2
  <2> QED
    BY <2>3, <2>4
<1>6. SumFunctionOnSet(counts'.telemetry, Categories) = seq + 1
  <2> DEFINE rest == Categories \ {tel}
  <2>1. IsFiniteSet(Categories)
    BY CategoriesAreFinite
  <2>2. IsFiniteSet(rest)
    BY <2>1, FS_RemoveElement
  <2>3. /\ \A t \in Categories : te[t] \in Int /\ te1[t] \in Int
        /\ \A t \in rest : te[t] = te1[t]
        /\ te1[tel] = te[tel] + 1
    BY <1>1
  <2> HIDE DEF te, te1
  <2>4. SumFunctionOnSet(te, Categories) = te[tel] + SumFunctionOnSet(te, rest)
    BY <2>1, <2>3, SumRemove
  <2>5. SumFunctionOnSet(te1, Categories) = te1[tel] + SumFunctionOnSet(te1, rest)
    BY <2>1, <2>3, SumRemove
  <2>6. SumFunctionOnSet(te, rest) = SumFunctionOnSet(te1, rest) /\ SumFunctionOnSet(te, rest) \in Int
    <3>1. \A t \in rest : te[t] \in Int /\ te[t] = te1[t]
      BY <2>3
    <3> HIDE DEF rest
    <3> QED
      BY <2>2, <3>1, SumAgree, SumType
  <2>7. te[tel] \in Int
    BY <2>3
  <2>8. SumFunctionOnSet(te1, Categories) = seq + 1
    BY <1>1, <2>3, <2>4, <2>5, <2>6, <2>7
  <2>9. counts'.telemetry = te1
    BY <1>2
  <2> QED
    BY <2>8, <2>9
<1> QED
  BY <1>3, <1>5, <1>6 DEF CountsInv

\* A row of its own, the first of a burst, or the next of one.
BurstMoves ==
  \/ burst = 0 /\ burst' = 0 /\ clusters' = clusters
  \/ /\ Lines'[seq + 1].scenario = "SCEN_BURST"
     /\ \/ \E n \in BurstSizes : /\ burst = 0 /\ burst' = n - 1
                                 /\ clusters' = Append(clusters, [start |-> seq + 1, count |-> n])
        \/ burst > 0 /\ burst' = burst - 1 /\ clusters' = clusters

LEMMA BurstsStep ==
  ASSUME BurstsInv, seq \in Nat, seq' = seq + 1, \A i \in 1..seq : Lines'[i] = Lines[i],
         BurstMoves
  PROVE  BurstsInv'
<1> DEFINE Kept(c) ==
             /\ c.start >= 1
             /\ c.start + c.count - 1 <= seq + burst
             /\ \A i \in 1..seq : c.start <= i /\ i <= c.start + c.count - 1
                  => Lines[i].scenario = "SCEN_BURST"
           Stays(c) ==
             /\ c.start >= 1
             /\ c.start + c.count - 1 <= seq + 1 + burst'
             /\ \A i \in 1..(seq + 1) : c.start <= i /\ i <= c.start + c.count - 1
                  => Lines'[i].scenario = "SCEN_BURST"
<1>0. /\ burst \in Nat /\ clusters \in Seq([start : Nat, count : Nat])
      /\ \A k \in 1..Len(clusters) : Kept(clusters[k])
      /\ \A i \in 1..(seq + 1) : i \in 1..seq \/ i = seq + 1
  <2>1. burst \in Nat
    BY DEF BurstsInv
  <2>2. clusters \in Seq([start : Nat, count : Nat])
    BY DEF BurstsInv
  <2>3. \A k \in 1..Len(clusters) : Kept(clusters[k])
    BY Zenon DEF BurstsInv
  <2>4. \A i \in 1..(seq + 1) : i \in 1..seq \/ i = seq + 1
    OBVIOUS
  <2> QED
    BY Zenon, <2>1, <2>2, <2>3, <2>4
<1>b. \A n \in BurstSizes : n \in Nat /\ n >= 1
  BY SizesAssumption
<1>t. burst \in Nat /\ seq \in Nat
  BY <1>0
<1>k. \A k \in 1..Len(clusters) : clusters[k] \in [start : Nat, count : Nat]
  <2> DEFINE CS == [start : Nat, count : Nat]
  <2>1. clusters \in Seq(CS)
    BY <1>0
  <2> HIDE DEF CS
  <2>2. \A k \in 1..Len(clusters) : clusters[k] \in CS
    BY <2>1
  <2> QED
    BY <2>2 DEF CS
<1>1. burst' \in Nat /\ burst' + 1 >= burst
  <2>1. \/ burst' = 0 /\ burst = 0
        \/ \E n \in BurstSizes : burst = 0 /\ burst' = n - 1
        \/ burst > 0 /\ burst' = burst - 1
    BY DEF BurstMoves
  <2> QED
    BY <2>1, <1>t, <1>b
<1>2. ASSUME NEW c \in [start : Nat, count : Nat], Kept(c) PROVE Stays(c)
  <2>1. c.start \in Nat /\ c.count \in Nat
    OBVIOUS
  <2>e. c.start + c.count - 1 <= seq + burst
    BY <1>2
  <2> DEFINE end == c.start + c.count - 1
  <2>i. end \in Int /\ end <= seq + burst
    BY <2>1, <2>e
  <2> HIDE DEF end
  <2> DEFINE was == burst
             left == burst'
             at == seq
  <2>l1. was \in Int
    BY <1>t
  <2>l2. left \in Int
    BY <1>1
  <2>l3. at \in Int
    BY <1>t
  <2>l4. left + 1 >= was
    BY <1>1
  <2>l5. end <= at + was
    BY <2>i
  <2>l. was \in Int /\ left \in Int /\ at \in Int /\ left + 1 >= was /\ end <= at + was
    BY <2>l1, <2>l2, <2>l3, <2>l4, <2>l5
  <2> HIDE DEF was, left, at
  <2>m. end <= at + 1 + left
    BY <2>i, <2>l
  <2>j. end <= seq + 1 + burst'
    BY <2>m DEF left, at
  <2>2. c.start + c.count - 1 <= seq + 1 + burst'
    BY <2>j DEF end
  <2>3. ASSUME NEW i \in 1..(seq + 1), c.start <= i, i <= c.start + c.count - 1
        PROVE  Lines'[i].scenario = "SCEN_BURST"
    <3>1. CASE i \in 1..seq
      BY <1>2, <2>3, <3>1
    <3>2. CASE i = seq + 1
      <4>1. ~(burst = 0)
        BY <1>0, <1>2, <2>1, <2>3, <3>2
      <4> QED
        BY <3>2, <4>1 DEF BurstMoves
    <3> QED
      BY <1>0, <3>1, <3>2
  <2> QED
    BY <1>2, <2>2, <2>3
<1>3. \A k \in 1..Len(clusters) : clusters[k] \in [start : Nat, count : Nat] /\ Stays(clusters[k])
  <2>1. \A k \in 1..Len(clusters) : Kept(clusters[k])
    BY <1>0
  <2> HIDE DEF Kept, Stays
  <2> QED
    BY <1>k, <1>2, <2>1
<1>4. CASE clusters' = clusters
  BY <1>0, <1>1, <1>3, <1>4 DEF BurstsInv
<1>5. CASE \E n \in BurstSizes : /\ burst = 0 /\ burst' = n - 1
                                 /\ clusters' = Append(clusters, [start |-> seq + 1, count |-> n])
                                 /\ Lines'[seq + 1].scenario = "SCEN_BURST"
  <2>1. PICK n \in BurstSizes : /\ burst = 0 /\ burst' = n - 1
                                /\ clusters' = Append(clusters, [start |-> seq + 1, count |-> n])
                                /\ Lines'[seq + 1].scenario = "SCEN_BURST"
    BY <1>5
  <2> DEFINE c == [start |-> seq + 1, count |-> n]
  <2>2. c \in [start : Nat, count : Nat] /\ c.start = seq + 1 /\ c.count = n
    BY <1>b
  <2> HIDE DEF c
  <2>3. Stays(c)
    <3>1. c.start >= 1 /\ c.start + c.count - 1 <= seq + 1 + burst'
      BY <1>b, <2>1, <2>2
    <3>2. \A i \in 1..(seq + 1) : c.start <= i => i = seq + 1
      BY <2>2
    <3> QED
      BY <2>1, <3>1, <3>2
  <2>4. /\ clusters' \in Seq([start : Nat, count : Nat]) /\ Len(clusters') = Len(clusters) + 1
        /\ \A k \in 1..Len(clusters) : clusters'[k] = clusters[k]
        /\ clusters'[Len(clusters) + 1] = c
        /\ \A k \in 1..(Len(clusters) + 1) : k \in 1..Len(clusters) \/ k = Len(clusters) + 1
    <3>1. clusters' = Append(clusters, c)
      BY <2>1 DEF c
    <3> QED
      BY <1>0, <2>2, <3>1
  <2>5. \A k \in 1..Len(clusters') : Stays(clusters'[k])
    <3> HIDE DEF Stays
    <3> QED
      BY <1>3, <2>3, <2>4
  <2> QED
    BY <1>1, <2>4, <2>5 DEF BurstsInv
<1> QED
  BY <1>4, <1>5 DEF BurstMoves

LEMMA InvInit == Init => IInv
<1> SUFFICES ASSUME Init PROVE IInv
  OBVIOUS
<1>1. PICK amts \in [1..Boot -> Seeds] :
        pool = {[tx |-> 0, out |-> i, amt |-> amts[i]] : i \in 1..Boot}
  BY DEF Init
<1> DEFINE f == [i \in 1..Boot |-> [tx |-> 0, out |-> i, amt |-> amts[i]]]
<1>2. Boot \in Nat /\ Boot <= PoolMax /\ PoolMax \in Nat /\ \A i \in 1..Boot : amts[i] \in Nat
  BY SizesAssumption
<1>3. \A i \in 1..Boot : f[i] \in Coins /\ f[i].tx = 0 /\ f[i].out = i
  BY <1>2 DEF Coins
<1>4. pool = {f[i] : i \in 1..Boot}
  BY <1>1
<1>5. f \in Surjection(1..Boot, pool)
  BY <1>4 DEF Surjection
<1> HIDE DEF f
<1>6. /\ boots = 1 /\ seq = 0 /\ burst = 0 /\ buffer = <<>> /\ file = <<>> /\ clusters = <<>>
      /\ counts = [scenario |-> [s \in Scenarios |-> 0], telemetry |-> [t \in Categories |-> 0]]
      /\ done = FALSE /\ gone = {} /\ chunk \in ChunkSizes
  BY DEF Init, Categories
<1>7. PoolInv
  <2>1. IsFiniteSet(1..Boot) /\ Cardinality(1..Boot) = Boot
    BY <1>2, FS_Interval
  <2>2. IsFiniteSet(pool) /\ Cardinality(pool) <= Boot
    BY <1>5, <2>1, FS_Surjection
  <2>3. Cardinality(pool) \in Nat
    BY <2>2, FS_CardinalityType
  <2>4. Cardinality(pool) <= PoolMax
    BY <1>2, <2>2, <2>3
  <2> QED
    BY <1>3, <1>4, <1>6, <2>2, <2>4 DEF PoolInv
<1>8. NamesInv
  <2>1. \A c \in pool : c.tx = 0
    BY <1>3, <1>4
  <2>2. \A c, d \in pool : SameName(c, d) => c = d
    BY <1>3, <1>4 DEF SameName
  <2> QED
    BY <1>6, <2>1, <2>2 DEF NamesInv
<1>9. <<>> \in Seq(RowSet) /\ <<>> \o <<>> = <<>> /\ Len(<<>>) = 0 /\ 1..0 = {}
  OBVIOUS
<1>10. LinesInv
  <2>1. Lines = <<>>
    BY <1>6, <1>9 DEF Lines
  <2> QED
    BY <1>6, <1>9, <2>1 DEF LinesInv
<1>11. CountsInv
  <2> DEFINE z == [t \in Categories |-> 0]
  <2>1. counts.telemetry = z /\ \A s \in Scenarios : counts.scenario[s] = 0
    BY <1>6
  <2>2. SumFunctionOnSet(z, Categories) = 0
    <3>1. IsFiniteSet(Categories)
      BY CategoriesAreFinite
    <3>2. \A t \in Categories : z[t] = 0
      OBVIOUS
    <3> HIDE DEF z
    <3> QED
      BY <3>1, <3>2, SumOfZeros
  <2>3. \A s \in Scenarios : {i \in 1..seq : Lines[i].scenario = s} = {}
    BY <1>6, <1>9
  <2>4. Cardinality({}) = 0
    BY FS_EmptySet
  <2>5. counts \in [scenario : [Scenarios -> Nat], telemetry : [Categories -> Nat]]
    BY <1>6
  <2>6. \A s \in Scenarios : counts.scenario[s] = Cardinality({i \in 1..seq : Lines[i].scenario = s})
    BY <2>1, <2>3, <2>4
  <2>7. SumFunctionOnSet(counts.telemetry, Categories) = seq
    BY <1>6, <2>1, <2>2
  <2> QED
    BY <2>5, <2>6, <2>7 DEF CountsInv
<1>12. BurstsInv
  BY <1>6, <1>9 DEF BurstsInv
<1>13. StageInv
  <2>1. Rows \in Nat /\ \A c \in ChunkSizes : c \in Nat
    BY SizesAssumption
  <2>2. seq \in 0..Rows
    BY <1>6, <2>1
  <2> QED
    BY <1>6, <2>1, <2>2 DEF StageInv
<1> QED
  BY <1>7, <1>8, <1>10, <1>11, <1>12, <1>13 DEF IInv

\* A step that makes a row.
LEMMA RowStep ==
  ASSUME IInv, Room, NEW s \in Scenarios, NEW tel \in Categories, Transaction(s, tel),
         UNCHANGED <<chunk, done>>,
         \/ burst = 0 /\ UNCHANGED <<burst, clusters>>
         \/ /\ s = "SCEN_BURST"
            /\ \/ \E n \in BurstSizes :
                    /\ burst = 0 /\ burst' = n - 1
                    /\ clusters' = Append(clusters, [start |-> seq + 1, count |-> n])
               \/ burst > 0 /\ burst' = burst - 1 /\ UNCHANGED clusters
  PROVE  IInv' /\ gone \subseteq gone'
<1>1. seq \in Nat /\ seq < Rows /\ ~done /\ Rows \in Nat
  BY SizesAssumption DEF IInv, StageInv, Room
<1>2. /\ PoolInv' /\ NamesInv' /\ seq' = seq + 1 /\ counts' = Count(s, tel)
      /\ \E row : RowOf(row, s) /\ Store(row)
  BY <1>1, TransactionStep DEF IInv
<1>3. PICK row : RowOf(row, s) /\ Store(row)
  BY <1>2
<1>4. gone \subseteq gone'
  BY DEF Transaction
<1>5. /\ LinesInv' /\ Lines'[seq + 1].scenario = s
      /\ \A i \in 1..seq : Lines'[i] = Lines[i]
  BY <1>1, <1>2, <1>3, <1>4, LinesStep DEF IInv
<1>6. CountsInv'
  BY <1>1, <1>2, <1>5, CountsStep DEF IInv
<1>7. BurstMoves
  BY <1>5 DEF BurstMoves
<1>8. BurstsInv'
  BY <1>1, <1>2, <1>5, <1>7, BurstsStep DEF IInv
<1>9. StageInv'
  BY <1>1, <1>2 DEF IInv, StageInv
<1> QED
  BY <1>2, <1>4, <1>5, <1>6, <1>8, <1>9 DEF IInv

LEMMA FinishStep ==
  ASSUME IInv, Finish
  PROVE  IInv' /\ gone' = gone /\ pool' = pool
<1>1. /\ seq = Rows /\ file' = file \o buffer /\ buffer' = <<>> /\ done' = TRUE
      /\ UNCHANGED <<chunk, pool, boots, seq, burst, counts, clusters, gone>>
  BY DEF Finish
<1>2. Lines' = Lines /\ file' \in Seq(RowSet) /\ buffer' \in Seq(RowSet)
  <2>1. file \in Seq(RowSet) /\ buffer \in Seq(RowSet)
    BY DEF IInv, LinesInv
  <2>2. file \o buffer \in Seq(RowSet)
    BY <2>1
  <2>3. \A u \in Seq(RowSet) : u \o <<>> = u /\ <<>> \in Seq(RowSet)
    OBVIOUS
  <2> QED
    BY <1>1, <2>2, <2>3 DEF Lines
<1>3. LinesInv'
  BY <1>1, <1>2 DEF IInv, LinesInv
<1>4. CountsInv' /\ BurstsInv'
  BY <1>1, <1>2 DEF IInv, CountsInv, BurstsInv
<1>5. PoolInv' /\ NamesInv' /\ StageInv'
  BY <1>1 DEF IInv, PoolInv, NamesInv, StageInv
<1> QED
  BY <1>1, <1>3, <1>4, <1>5 DEF IInv

LEMMA InvStep == IInv /\ [Next]_vars => IInv'
<1> SUFFICES ASSUME IInv, [Next]_vars PROVE IInv'
  OBVIOUS
<1>0. "SCEN_BURST" \in Scenarios /\ "mapped" \in Categories /\ Telemetry \subseteq Categories
  BY SizesAssumption DEF Scenarios, Categories
<1>1. CASE SingleRow
  <2>1. PICK s \in Scenarios, tel \in Telemetry : Transaction(s, tel)
    BY <1>1 DEF SingleRow
  <2>2. Room /\ burst = 0 /\ UNCHANGED <<chunk, burst, clusters, done>>
    BY <1>1 DEF SingleRow
  <2> QED
    BY <1>0, <2>1, <2>2, RowStep
<1>2. CASE FirstOfBurst
  BY <1>0, <1>2, RowStep DEF FirstOfBurst
<1>3. CASE NextOfBurst
  BY <1>0, <1>3, RowStep DEF NextOfBurst
<1>4. CASE Finish
  BY <1>4, FinishStep
<1>5. CASE UNCHANGED vars
  <2>1. Lines' = Lines
    BY <1>5 DEF vars, Lines
  <2>2. LinesInv' /\ CountsInv' /\ BurstsInv'
    BY <1>5, <2>1 DEF vars, IInv, LinesInv, CountsInv, BurstsInv
  <2>3. PoolInv' /\ NamesInv' /\ StageInv'
    BY <1>5 DEF vars, IInv, PoolInv, NamesInv, StageInv
  <2> QED
    BY <2>2, <2>3 DEF IInv
<1> QED
  BY <1>1, <1>2, <1>3, <1>4, <1>5 DEF Next

LEMMA Invariance == Spec => []IInv
  BY InvInit, InvStep, PTL DEF Spec

-----------------------------------------------------------------------------
\* The state is well-typed, and the pool never larger than it may be.
THEOREM TypeCorrect == Spec => []TypeOK
<1>1. IInv => TypeOK
  <2> SUFFICES ASSUME IInv PROVE TypeOK
    OBVIOUS
  <2>1. Lines \in Seq(RowSet) /\ Len(Lines) = seq
    BY Joined DEF IInv, LinesInv, Lines
  <2>2. DOMAIN Lines = 1..seq
    BY <2>1
  <2>3. \A i \in 1..seq : Lines[i].scenario \in Scenarios
    <3>1. \A i \in 1..Len(Lines) : Lines[i] \in RowSet
      <4> DEFINE L == Lines
      <4>1. L \in Seq(RowSet)
        BY <2>1
      <4> HIDE DEF L
      <4>2. \A i \in 1..Len(L) : L[i] \in RowSet
        BY <4>1
      <4> QED
        BY <4>2 DEF L
    <3> QED
      BY <2>1, <3>1 DEF RowSet
  <2>4. \A i \in DOMAIN Lines : Lines[i].seq = i /\ Lines[i].scenario \in Scenarios
    BY <2>2, <2>3 DEF IInv, LinesInv
  <2>5. counts.scenario \in [Scenarios -> Nat]
    BY DEF IInv, CountsInv
  <2> QED
    BY <2>4, <2>5 DEF TypeOK, IInv, PoolInv, BurstsInv, StageInv
<1> QED
  BY Invariance, <1>1, PTL

\* Every row pays what it spends, spends different outputs, and leaves no dust.
THEOREM RowsPay == Spec => [](\A i \in DOMAIN Lines : RowIsSound(Lines[i]))
<1>1. IInv => \A i \in DOMAIN Lines : RowIsSound(Lines[i])
  <2> SUFFICES ASSUME IInv, NEW i \in DOMAIN Lines
               PROVE  LET row == Lines[i] IN
                      /\ Cardinality(Range(row.spent)) = Len(row.spent)
                      /\ Total(row.ins) = Total(row.outs) + row.fee
                      /\ row.fee >= 500
                      /\ \A o \in Range(row.outs) :
                           o >= IF row.scenario = "SCEN_ADDRESS_REUSE" THEN 600 ELSE 1000
    BY DEF RowIsSound
  <2> DEFINE L == Lines
             row == L[i]
  <2>1. L \in Seq(RowSet) /\ Len(L) = seq
    BY Joined DEF IInv, LinesInv, Lines
  <2>2. i \in 1..Len(L)
    <3>0. i \in DOMAIN L
      OBVIOUS
    <3> HIDE DEF L
    <3> QED
      BY <2>1, <3>0
  <2>3. row \in RowSet
    <3> HIDE DEF L
    <3> QED
      BY <2>1, <2>2
  <2>4. Pays(row)
    BY <2>1, <2>2 DEF IInv, LinesInv
  <2> HIDE DEF row
  <2>5. \A o \in Range(row.outs) : \E k \in 1..Len(row.outs) : o = row.outs[k]
    <3>1. row.outs \in Seq(Int)
      BY <2>3 DEF RowSet
    <3> QED
      BY <3>1, RangeIsFinite
  <2>6. \A o \in Range(row.outs) :
          o >= IF row.scenario = "SCEN_ADDRESS_REUSE" THEN 600 ELSE 1000
    BY <2>4, <2>5 DEF Pays, Least
  <2> QED
    BY <2>4, <2>6 DEF Pays, row
<1> QED
  BY Invariance, <1>1, PTL

\* No output is spent by two rows.
THEOREM NoDoubleSpend == Spec => []SpentOnce
<1>1. IInv => SpentOnce
  <2> SUFFICES ASSUME IInv, NEW i \in DOMAIN Lines, NEW j \in DOMAIN Lines, i # j,
                      NEW k, k \in KeyOf(Range(Lines[i].spent)), k \in KeyOf(Range(Lines[j].spent))
               PROVE  FALSE
    BY DEF SpentOnce
  <2>1. DOMAIN Lines = 1..seq
    <3>1. Lines \in Seq(RowSet) /\ Len(Lines) = seq
      BY Joined DEF IInv, LinesInv, Lines
    <3> QED
      BY <3>1
  <2>2. PICK c \in Range(Lines[i].spent) : k = [tx |-> c.tx, out |-> c.out]
    BY DEF KeyOf
  <2>3. PICK d \in Range(Lines[j].spent) : k = [tx |-> d.tx, out |-> d.out]
    BY DEF KeyOf
  <2>4. SameName(c, d)
    BY <2>2, <2>3 DEF SameName
  <2> QED
    BY <2>1, <2>4 DEF IInv, LinesInv
<1> QED
  BY Invariance, <1>1, PTL

\* Both together: every row is sound, and no two of them spend the same output.
THEOREM RowsSound == Spec => []RowsAreSound
<1>1. (\A i \in DOMAIN Lines : RowIsSound(Lines[i])) /\ SpentOnce => RowsAreSound
  BY DEF RowsAreSound
<1> QED
  BY RowsPay, NoDoubleSpend, <1>1, PTL

\* The manifest counts what is in the file.
THEOREM ManifestCounts == Spec => []ManifestMatchesFile
<1>1. IInv => ManifestMatchesFile
  <2> SUFFICES ASSUME IInv, done PROVE
         /\ Len(file) = Rows /\ buffer = <<>>
         /\ \A s \in Scenarios :
              counts.scenario[s] = Cardinality({i \in DOMAIN file : file[i].scenario = s})
         /\ SumFunction(counts.telemetry) = Len(file)
         /\ \A c \in Range(clusters) : \A i \in c.start..Min({Rows, c.start + c.count - 1}) :
              file[i].scenario = "SCEN_BURST"
    BY DEF ManifestMatchesFile
  <2>1. seq = Rows /\ buffer = <<>> /\ Rows \in Nat
    BY SizesAssumption DEF IInv, StageInv
  <2>2. Lines = file /\ file \in Seq(RowSet) /\ Len(file) = seq
    <3>1. file \in Seq(RowSet) /\ Len(Lines) = seq
      BY DEF IInv, LinesInv
    <3>2. file \o <<>> = file
      BY <3>1
    <3> QED
      BY <2>1, <3>1, <3>2 DEF Lines
  <2>3. DOMAIN file = 1..seq
    BY <2>2
  <2>4. \A s \in Scenarios :
          counts.scenario[s] = Cardinality({i \in DOMAIN file : file[i].scenario = s})
    BY <2>2, <2>3 DEF IInv, CountsInv
  <2>5. SumFunction(counts.telemetry) = Len(file)
    <3>1. DOMAIN counts.telemetry = Categories /\ SumFunctionOnSet(counts.telemetry, Categories) = seq
      BY DEF IInv, CountsInv
    <3>2. SumFunction(counts.telemetry) = SumFunctionOnSet(counts.telemetry, DOMAIN counts.telemetry)
      BY DEF SumFunction
    <3> QED
      BY <2>2, <3>1, <3>2
  <2>6. ASSUME NEW c \in Range(clusters), NEW i \in c.start..Min({Rows, c.start + c.count - 1})
        PROVE  file[i].scenario = "SCEN_BURST"
    <3> DEFINE CS == [start : Nat, count : Nat]
    <3>1. clusters \in Seq(CS)
      BY DEF IInv, BurstsInv
    <3> HIDE DEF CS
    <3>2. PICK k \in 1..Len(clusters) : c = clusters[k]
      BY <3>1, RangeIsFinite
    <3>3. c \in CS
      BY <3>1, <3>2
    <3>4. c.start \in Nat /\ c.count \in Nat
      BY <3>3 DEF CS
    <3>5. c.start >= 1 /\ \A r \in 1..seq : c.start <= r /\ r <= c.start + c.count - 1
            => Lines[r].scenario = "SCEN_BURST"
      BY <3>2 DEF IInv, BurstsInv
    <3> DEFINE last == c.start + c.count - 1
    <3>6. last \in Int
      BY <3>4
    <3> HIDE DEF last
    <3>7. Min({Rows, last}) = IF Rows <= last THEN Rows ELSE last
      <4>1. Rows \in Int
        BY <2>1
      <4> QED
        BY <3>6, <4>1, MaxMin
    <3>8. i \in c.start..Min({Rows, last})
      BY <2>6 DEF last
    <3>9. i \in Int /\ c.start <= i /\ i <= Rows /\ i <= last
      BY <2>1, <3>4, <3>6, <3>7, <3>8
    <3>10. i \in 1..seq
      BY <2>1, <3>4, <3>5, <3>9
    <3> QED
      BY <2>2, <3>5, <3>9, <3>10 DEF last
  <2> QED
    BY <2>1, <2>2, <2>4, <2>5, <2>6
<1> QED
  BY Invariance, <1>1, PTL

\* The pool keeps the book of the outputs.
THEOREM KeepsTheBook == Spec => ImplementsCoinBook
<1> DEFINE Names == [tx : Int, out : Nat]
<1>1. ASSUME NEW X, X \subseteq Coins PROVE KeyOf(X) \subseteq Names
  BY <1>1 DEF KeyOf, Coins
<1>2. Init => CoinBook!Init
  <2> SUFFICES ASSUME Init PROVE CoinBook!Init
    OBVIOUS
  <2>1. pool \subseteq Coins
    BY InvInit DEF IInv, PoolInv
  <2>2. KeyOf(gone) = {}
    BY DEF Init, KeyOf
  <2> QED
    BY <1>1, <2>1, <2>2 DEF CoinBook!Init
<1>3. IInv /\ IInv' /\ [Next]_vars => [CoinBook!Move]_<<KeyOf(pool), KeyOf(gone)>>
  <2> SUFFICES ASSUME IInv, IInv', [Next]_vars
               PROVE  [CoinBook!Move]_<<KeyOf(pool), KeyOf(gone)>>
    OBVIOUS
  <2>1. CASE \E s \in Scenarios, tel \in Categories : Transaction(s, tel)
    <3>1. /\ pool \subseteq pool' \cup gone' /\ gone \subseteq gone'
      <4>1. PICK s \in Scenarios, tel \in Categories : Transaction(s, tel)
        BY <2>1
      <4>2. seq \in Nat
        BY DEF IInv, StageInv
      <4> QED
        BY <4>1, <4>2, TransactionStep DEF IInv
    <3>2. KeyOf(pool') \subseteq Names /\ KeyOf(gone') \subseteq Names
      BY <1>1 DEF IInv, PoolInv
    <3>3. KeyOf(gone) \subseteq KeyOf(gone')
      BY <3>1 DEF KeyOf
    <3>4. KeyOf(pool) \subseteq KeyOf(pool') \cup KeyOf(gone')
      BY <3>1 DEF KeyOf
    <3>5. KeyOf(pool') \cap KeyOf(gone') = {}
      <4>1. \A c \in pool', d \in gone' : ~(c.tx = d.tx /\ c.out = d.out)
        BY DEF IInv, NamesInv, SameName
      <4>2. \A c, d : [tx |-> c.tx, out |-> c.out] = [tx |-> d.tx, out |-> d.out]
              => c.tx = d.tx /\ c.out = d.out
        OBVIOUS
      <4> QED
        BY <4>1, <4>2 DEF KeyOf
    <3>6. KeyOf(pool)' = KeyOf(pool') /\ KeyOf(gone)' = KeyOf(gone')
      OBVIOUS
    <3> QED
      BY <3>2, <3>3, <3>4, <3>5, <3>6 DEF CoinBook!Move
  <2>2. CASE Finish \/ UNCHANGED vars
    <3>1. pool' = pool /\ gone' = gone
      BY <2>2 DEF Finish, vars
    <3> QED
      BY <3>1 DEF KeyOf
  <2>3. CASE SingleRow \/ FirstOfBurst \/ NextOfBurst
    <3>1. "SCEN_BURST" \in Scenarios /\ "mapped" \in Categories /\ Telemetry \subseteq Categories
      BY SizesAssumption DEF Scenarios, Categories
    <3>2. \E s \in Scenarios, tel \in Categories : Transaction(s, tel)
      BY <2>3, <3>1 DEF SingleRow, FirstOfBurst, NextOfBurst
    <3> QED
      BY <2>1, <3>2
  <2> QED
    BY <2>2, <2>3 DEF Next
<1> QED
  BY <1>2, <1>3, Invariance, PTL DEF Spec, ImplementsCoinBook, CoinBook!Spec
=============================================================================
