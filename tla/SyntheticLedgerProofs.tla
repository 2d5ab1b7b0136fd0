---------------------- MODULE SyntheticLedgerProofs ----------------------
(***************************************************************************)
(* Theorems about the dataset generator and the validator, for any number  *)
(* of entities, any amounts and any lengths of the scenarios.              *)
(*                                                                         *)
(* Two books are kept of the same outputs, and between two of their        *)
(* updates a scenario works on a book of its own.  So the invariant is     *)
(* about a book, the outputs spent so far and the rows recorded so far,    *)
(* and is shown for every book that a scenario can hold in hand.           *)
(***************************************************************************)
EXTENDS DatasetValidator, SumTheorems, FiniteSetTheorems, SequenceTheorems, TLAPS

Owners == UNION {[A -> Entities] : A \in SUBSET Ids}
Books == [pool : SUBSET Coins, wallet : [Entities -> SUBSET Coins], owner : Owners]
Wanted == [addr : Ids, amt : Int, change : BOOLEAN]
InRows == [txid : Ids, index : Nat, addr : Ids, amt : Int, prev : Keys]
OutRows == [txid : Ids, out : Nat, addr : Ids, amt : Int, change : BOOLEAN]

\* Pool and wallets hold the same outputs, each under a key of its own.
BookOK(b) ==
  /\ b \in Books
  /\ IsFiniteSet(b.pool)
  /\ \A e \in Entities : b.wallet[e] = {u \in b.pool : u.owner = e}
  /\ \A u, v \in b.pool : Key(u) = Key(v) => u = v

\* Nothing in the book has been spent, and every recorded output has been or
\* is in the book.
RowKey(r) == [tx |-> r.txid, out |-> r.out]
Accounted(b, gone, rows) ==
  /\ \A u \in b.pool : Key(u) \notin gone
  /\ \A r \in rows : \/ RowKey(r) \in gone
                     \/ \E u \in b.pool : Key(u) = RowKey(r) /\ u.addr = r.addr

\* No name is of a step to come; in the step itself, none is of a transaction.
Old(b, n) == \A u \in b.pool : u.tx.step < n
InHand(b, n) == \A u \in b.pool : u.tx.step < n \/ (u.tx.step = n /\ u.tx.tag # "tx")

BookInv ==
  /\ names \in Nat /\ names >= 1
  /\ BookOK(book) /\ Old(book, names)
  /\ spent \subseteq Keys /\ \A k \in spent : k.tx.step < names
  /\ Accounted(book, spent, tables.output)

\* What a scenario may hand to CreateTransaction.
Usable(b) == BookOK(b) /\ InHand(b, names) /\ Accounted(b, spent, tables.output)

InputsInv ==
  /\ tables.input \subseteq InRows
  /\ \A r \in tables.input : r.prev \in spent
  /\ \A r, q \in tables.input : r.prev = q.prev => r = q

OutputsInv == tables.output \subseteq OutRows

\* What is left of the scenario being played.
Bursts == [kind : {"transaction_burst", "temporal_anomaly"}, left : Nat \ {0}, who : Entities]
Chains == [kind : {"rapid_multihop", "peeling_chain"}, left : Nat \ {0}, who : Entities, key : Keys]
Joints == [kind : {"coordinated_activity"}, actors : Seq(Entities) \ {<<>>}, sink : Ids]
Scenes == {NoScen} \cup Bursts \cup Chains \cup Joints

SceneInv == scen \in Scenes /\ phase \in {"generate", "exported", "failed"}

LedgerInv == BookInv /\ InputsInv /\ OutputsInv /\ SceneInv
-----------------------------------------------------------------------------
(* Names, amounts and draws *)

\* The image of a finite set is finite.
LEMMA ImageIsFinite ==
  ASSUME NEW S, IsFiniteSet(S), NEW f
  PROVE  IsFiniteSet({f[x] : x \in S})
<1> DEFINE T == {f[x] : x \in S}
           g == [x \in S |-> f[x]]
<1>1. g \in Surjection(S, T)
  BY DEF Surjection
<1> HIDE DEF g, T
<1>2. IsFiniteSet(T)
  BY <1>1, FS_Surjection
<1> QED
  BY <1>2 DEF T

LEMMA OwnersAre ==
  ASSUME NEW f
  PROVE  f \in Owners <=> /\ f = [a \in DOMAIN f |-> f[a]] /\ DOMAIN f \subseteq Ids
                          /\ \A a \in DOMAIN f : f[a] \in Entities
<1>1. ASSUME f \in Owners
      PROVE  /\ f = [a \in DOMAIN f |-> f[a]] /\ DOMAIN f \subseteq Ids
             /\ \A a \in DOMAIN f : f[a] \in Entities
  <2>1. PICK A \in SUBSET Ids : f \in [A -> Entities]
    BY <1>1 DEF Owners
  <2> QED
    BY <2>1
<1>2. ASSUME f = [a \in DOMAIN f |-> f[a]], DOMAIN f \subseteq Ids,
             \A a \in DOMAIN f : f[a] \in Entities
      PROVE  f \in Owners
  <2>1. f \in [DOMAIN f -> Entities]
    BY <1>2
  <2> QED
    BY <1>2, <2>1 DEF Owners
<1> QED
  BY <1>1, <1>2

LEMMA UpdatedOwners ==
  ASSUME NEW f \in Owners, NEW g \in Owners
  PROVE  Updated(f, g) \in Owners
<1> DEFINE h == Updated(f, g)
<1>1. DOMAIN h = DOMAIN f \cup DOMAIN g
  BY DEF Updated
<1>2. h = [a \in DOMAIN h |-> h[a]]
  BY DEF Updated
<1>3. DOMAIN h \subseteq Ids
  BY <1>1, OwnersAre
<1>4. \A a \in DOMAIN h : h[a] \in Entities
  BY OwnersAre DEF Updated
<1>5. h \in Owners
  <2> HIDE DEF h
  <2> QED
    BY <1>2, <1>3, <1>4, OwnersAre
<1> QED
  BY <1>5

LEMMA OwnersOf ==
  ASSUME NEW A \in SUBSET Ids, NEW e \in Entities
  PROVE  [a \in A |-> e] \in Owners
<1>1. [a \in A |-> e] \in [A -> Entities]
  OBVIOUS
<1> QED
  BY <1>1 DEF Owners

LEMMA NamesAre ==
  ASSUME names \in Nat, NEW tag \in Tags, NEW e \in Entities, NEW i \in Nat
  PROVE  /\ Name(tag, e, i) \in Ids /\ Primary(e) \in Ids
         /\ Name(tag, e, i).step = names /\ Name(tag, e, i).tag = tag
         /\ Name(tag, e, i).i = i /\ Name(tag, e, i).e = e
<1>1. "primary" \in Tags
  BY DEF Tags
<1>2. Primary(e) \in Ids
  BY <1>1 DEF Primary, Ids
<1>3. Name(tag, e, i) \in Ids
  BY DEF Name, Ids
<1> QED
  BY <1>2, <1>3 DEF Name

LEMMA CoinsAre ==
  ASSUME NEW tx \in Ids, NEW out \in Nat, NEW addr \in Ids, NEW amt \in Int, NEW e \in Entities
  PROVE  /\ Coin(tx, out, addr, amt, e) \in Coins
         /\ Coin(tx, out, addr, amt, e).tx = tx /\ Coin(tx, out, addr, amt, e).out = out
         /\ Coin(tx, out, addr, amt, e).addr = addr /\ Coin(tx, out, addr, amt, e).amt = amt
         /\ Coin(tx, out, addr, amt, e).owner = e
  BY DEF Coin, Coins

LEMMA CoinFields ==
  ASSUME NEW u \in Coins
  PROVE  /\ u.tx \in Ids /\ u.out \in Nat /\ u.addr \in Ids /\ u.amt \in Int /\ u.owner \in Entities
         /\ u.tx.step \in Nat /\ Key(u) \in Keys /\ Key(u).tx = u.tx
  BY DEF Coins, Ids, Keys, Key

LEMMA SameKey ==
  ASSUME NEW u, NEW v
  PROVE  Key(u) = Key(v) <=> u.tx = v.tx /\ u.out = v.out
  BY DEF Key

LEMMA PercentType ==
  ASSUME NEW a \in Int, NEW p \in Int
  PROVE  Percent(a, p) \in Int
<1> DEFINE part(x) == (x \div 100) * p + ((x % 100) * p) \div 100
<1>1. ASSUME NEW x \in Int PROVE part(x) \in Int
  <2>1. x \div 100 \in Int /\ x % 100 \in Int
    OBVIOUS
  <2>2. (x \div 100) * p \in Int /\ (x % 100) * p \in Int
    BY <2>1
  <2>3. ((x % 100) * p) \div 100 \in Int
    BY <2>2
  <2> QED
    BY <2>2, <2>3
<1>2. part(a) \in Int /\ part(-a) \in Int /\ -part(-a) \in Int
  BY <1>1
<1> QED
  BY <1>2 DEF Percent

LEMMA DrawType ==
  ASSUME NEW lo \in Int, NEW hi \in Int
  PROVE  Draw(lo, hi) \subseteq Int
<1> SUFFICES ASSUME NEW q \in Quarters PROVE lo + ((hi - lo) * q) \div 4 \in Int
  BY DEF Draw
<1>1. q \in Int
  BY DrawsAssumption
<1>2. (hi - lo) * q \in Int
  BY <1>1
<1>3. ((hi - lo) * q) \div 4 \in Int
  BY <1>2
<1> QED
  BY <1>3

LEMMA ShareType ==
  ASSUME NEW a \in Int, NEW lo \in Int, NEW hi \in Int
  PROVE  Share(a, lo, hi) \subseteq Int
  BY DrawType, PercentType DEF Share

\* A set of outputs is worth a number.
LEMMA ValueType ==
  ASSUME NEW coins \in SUBSET Coins, IsFiniteSet(coins)
  PROVE  Value(coins) \in Int
<1> DEFINE f == [u \in coins |-> u.amt]
<1>1. \A u \in coins : f[u] \in Int
  BY DEF Coins
<1>2. SumFunctionOnSet(f, coins) \in Int
  <2> HIDE DEF f
  <2> QED
    BY <1>1, SumType
<1> QED
  BY <1>2 DEF Value, SumFunction

LEMMA PaidType ==
  ASSUME NEW outs \in Seq(Wanted)
  PROVE  Paid(outs) \in Int
<1> DEFINE f == [i \in DOMAIN outs |-> outs[i].amt]
<1>1. IsFiniteSet(DOMAIN outs)
  <2>1. Len(outs) \in Nat /\ DOMAIN outs = 1..Len(outs)
    OBVIOUS
  <2> QED
    BY <2>1, FS_Interval
<1>2. \A i \in DOMAIN outs : f[i] \in Int
  <2>1. \A i \in DOMAIN outs : outs[i] \in Wanted
    OBVIOUS
  <2> QED
    BY <2>1 DEF Wanted
<1>3. SumFunctionOnSet(f, DOMAIN outs) \in Int
  <2> HIDE DEF f
  <2> QED
    BY <1>1, <1>2, SumType
<1> QED
  BY <1>3 DEF Paid, SumFunction
-----------------------------------------------------------------------------
(* Books *)

LEMMA OwnedOK ==
  ASSUME NEW b, BookOK(b), NEW o \in Owners
  PROVE  /\ BookOK([b EXCEPT !.owner = o])
         /\ [b EXCEPT !.owner = o].pool = b.pool /\ [b EXCEPT !.owner = o].wallet = b.wallet
         /\ [b EXCEPT !.owner = o].owner = o
  BY DEF BookOK, Books

\* New outputs go to the pool and to the wallets of their owners.
LEMMA AddCoinsOK ==
  ASSUME NEW b, BookOK(b), NEW new \in SUBSET Coins, IsFiniteSet(new),
         \A u, v \in new : Key(u) = Key(v) => u = v,
         \A u \in new : \A v \in b.pool : Key(u) # Key(v)
  PROVE  /\ BookOK(AddCoins(b, new))
         /\ AddCoins(b, new).pool = b.pool \cup new
         /\ AddCoins(b, new).owner = b.owner
<1> DEFINE c == AddCoins(b, new)
<1>1. /\ b \in Books /\ IsFiniteSet(b.pool) /\ b.pool \subseteq Coins
      /\ b.wallet \in [Entities -> SUBSET Coins] /\ b.owner \in Owners
  BY DEF BookOK, Books
<1>2. /\ c.pool = b.pool \cup new
      /\ c.wallet = [e \in Entities |-> b.wallet[e] \cup {u \in new : u.owner = e}]
      /\ c.owner = b.owner
      /\ c = [pool |-> c.pool, wallet |-> c.wallet, owner |-> c.owner]
  <2>1. b = [pool |-> b.pool, wallet |-> b.wallet, owner |-> b.owner]
    BY <1>1 DEF Books
  <2> DEFINE p == b.pool \cup new
             w == [e \in Entities |-> b.wallet[e] \cup {u \in new : u.owner = e}]
  <2>2. c = [b EXCEPT !.pool = p, !.wallet = w]
    BY DEF AddCoins
  <2> HIDE DEF c, w, p
  <2>3. c = [pool |-> p, wallet |-> w, owner |-> b.owner]
    BY <2>1, <2>2
  <2>4. c.pool = p /\ c.wallet = w /\ c.owner = b.owner
    BY <2>3
  <2> QED
    BY <2>3, <2>4 DEF p, w
<1>3. IsFiniteSet(c.pool)
  <2>1. IsFiniteSet(b.pool \cup new)
    BY <1>1, FS_Union
  <2> QED
    BY <1>2, <2>1
<1>4. \A e \in Entities : c.wallet[e] = {u \in c.pool : u.owner = e}
  BY <1>2 DEF BookOK
<1>5. c \in Books
  <2>1. c.wallet \in [Entities -> SUBSET Coins]
    BY <1>1, <1>2
  <2>2. c.pool \in SUBSET Coins /\ c.owner \in Owners
    BY <1>1, <1>2
  <2> HIDE DEF c
  <2> QED
    BY <1>2, <2>1, <2>2 DEF Books
<1>6. \A u, v \in c.pool : Key(u) = Key(v) => u = v
  BY <1>2 DEF BookOK
<1> QED
  BY <1>2, <1>3, <1>4, <1>5, <1>6 DEF BookOK

LEMMA RemoveCoinsOK ==
  ASSUME NEW b, BookOK(b), NEW gone
  PROVE  /\ BookOK(RemoveCoins(b, gone))
         /\ RemoveCoins(b, gone).pool = b.pool \ gone
         /\ RemoveCoins(b, gone).owner = b.owner
<1> DEFINE c == RemoveCoins(b, gone)
<1>1. /\ b \in Books /\ IsFiniteSet(b.pool) /\ b.pool \subseteq Coins
      /\ b.wallet \in [Entities -> SUBSET Coins] /\ b.owner \in Owners
  BY DEF BookOK, Books
<1>2. /\ c.pool = b.pool \ gone
      /\ c.wallet = [e \in Entities |-> b.wallet[e] \ {u \in gone : u.owner = e}]
      /\ c.owner = b.owner
      /\ c = [pool |-> c.pool, wallet |-> c.wallet, owner |-> c.owner]
  <2>1. b = [pool |-> b.pool, wallet |-> b.wallet, owner |-> b.owner]
    BY <1>1 DEF Books
  <2> DEFINE p == b.pool \ gone
             w == [e \in Entities |-> b.wallet[e] \ {u \in gone : u.owner = e}]
  <2>2. c = [b EXCEPT !.pool = p, !.wallet = w]
    BY DEF RemoveCoins
  <2> HIDE DEF c, w, p
  <2>3. c = [pool |-> p, wallet |-> w, owner |-> b.owner]
    BY <2>1, <2>2
  <2>4. c.pool = p /\ c.wallet = w /\ c.owner = b.owner
    BY <2>3
  <2> QED
    BY <2>3, <2>4 DEF p, w
<1>3. IsFiniteSet(c.pool)
  BY <1>1, <1>2, FS_Subset
<1>4. \A e \in Entities : c.wallet[e] = {u \in c.pool : u.owner = e}
  BY <1>2 DEF BookOK
<1>5. c \in Books
  <2>1. c.wallet \in [Entities -> SUBSET Coins]
    BY <1>1, <1>2
  <2>2. c.pool \in SUBSET Coins /\ c.owner \in Owners
    BY <1>1, <1>2
  <2> HIDE DEF c
  <2> QED
    BY <1>2, <2>1, <2>2 DEF Books
<1>6. \A u, v \in c.pool : Key(u) = Key(v) => u = v
  BY <1>2 DEF BookOK
<1> QED
  BY <1>2, <1>3, <1>4, <1>5, <1>6 DEF BookOK

\* A book with other addresses is as usable.
LEMMA OwnedUsable ==
  ASSUME NEW b, Usable(b), NEW o \in Owners
  PROVE  /\ Usable([b EXCEPT !.owner = o])
         /\ [b EXCEPT !.owner = o].pool = b.pool /\ [b EXCEPT !.owner = o].wallet = b.wallet
         /\ [b EXCEPT !.owner = o].owner = o
<1> DEFINE c == [b EXCEPT !.owner = o]
<1>1. BookOK(c) /\ c.pool = b.pool /\ c.wallet = b.wallet /\ c.owner = o
  BY OwnedOK DEF Usable
<1> HIDE DEF c
<1>2. Usable(c)
  BY <1>1 DEF Usable, InHand, Accounted
<1> QED
  BY <1>1, <1>2 DEF c

LEMMA WithAddresses ==
  ASSUME NEW b, Usable(b), NEW addrs \in SUBSET Ids, NEW e \in Entities
  PROVE  /\ Usable(AddAddresses(b, addrs, e))
         /\ AddAddresses(b, addrs, e).pool = b.pool /\ AddAddresses(b, addrs, e).wallet = b.wallet
<1>1. b.owner \in Owners
  BY DEF Usable, BookOK, Books
<1>2. Updated(b.owner, [a \in addrs |-> e]) \in Owners
  BY <1>1, OwnersOf, UpdatedOwners
<1>3. AddAddresses(b, addrs, e) = [b EXCEPT !.owner = Updated(b.owner, [a \in addrs |-> e])]
  BY DEF AddAddresses
<1> QED
  BY <1>2, <1>3, OwnedUsable

LEMMA WithAddressesTwice ==
  ASSUME NEW b, Usable(b), NEW A \in SUBSET Ids, NEW d \in Entities,
         NEW B \in SUBSET Ids, NEW e \in Entities
  PROVE  /\ Usable(AddAddresses(AddAddresses(b, A, d), B, e))
         /\ AddAddresses(AddAddresses(b, A, d), B, e).pool = b.pool
<1> DEFINE c == AddAddresses(b, A, d)
<1>1. Usable(c) /\ c.pool = b.pool
  BY WithAddresses
<1> HIDE DEF c
<1>2. Usable(AddAddresses(c, B, e)) /\ AddAddresses(c, B, e).pool = b.pool
  BY <1>1, WithAddresses
<1> QED
  BY <1>2 DEF c

\* Outputs under names of this step can be put in, unless a transaction's.
LEMMA NewUsable ==
  ASSUME BookInv, NEW b, Usable(b), Old(b, names), NEW new \in SUBSET Coins, IsFiniteSet(new),
         \A u, v \in new : Key(u) = Key(v) => u = v,
         \A u \in new : u.tx.step = names /\ u.tx.tag # "tx"
  PROVE  Usable(AddCoins(b, new)) /\ AddCoins(b, new).pool = b.pool \cup new
<1> DEFINE c == AddCoins(b, new)
<1>0. names \in Nat /\ b.pool \subseteq Coins
  BY DEF BookInv, Usable, BookOK, Books
<1>1. \A u \in new : \A v \in b.pool : Key(u) # Key(v)
  <2> SUFFICES ASSUME NEW u \in new, NEW v \in b.pool, Key(u) = Key(v) PROVE FALSE
    OBVIOUS
  <2>1. u.tx = v.tx
    BY SameKey
  <2>2. v.tx.step < names /\ v.tx.step = names
    BY <2>1 DEF Old
  <2> QED
    BY <2>2, <1>0
<1>2. BookOK(c) /\ c.pool = b.pool \cup new
  BY <1>1, AddCoinsOK DEF Usable
<1>3. InHand(c, names)
  BY <1>2 DEF Usable, InHand
<1>4. \A u \in new : Key(u) \notin spent
  <2> SUFFICES ASSUME NEW u \in new, Key(u) \in spent PROVE FALSE
    OBVIOUS
  <2>1. Key(u).tx.step < names
    BY DEF BookInv
  <2>2. Key(u).tx.step = names
    BY CoinFields
  <2> QED
    BY <2>1, <2>2, <1>0
<1> HIDE DEF c
<1>5. Accounted(c, spent, tables.output)
  BY <1>2, <1>4 DEF Accounted, Usable
<1> QED
  BY <1>2, <1>3, <1>5 DEF Usable, c

LEMMA BookUsable ==
  ASSUME BookInv
  PROVE  Usable(book) /\ Old(book, names)
  BY DEF BookInv, Usable, Old, InHand

\* An entity that has no output of min gets one; the book is usable and holds it.
LEMMA Funded ==
  ASSUME BookInv, NEW e \in Entities, NEW min \in Int, NEW f \in FundIfNeeded(book, e, min)
  PROVE  Usable(f.book) /\ f.coin \in f.book.pool /\ f.coin \in f.book.wallet[e]
<1>1. CASE f \in {[book |-> book, coin |-> u] : u \in {v \in book.wallet[e] : v.amt >= min}}
  <2>1. f.book = book /\ f.coin \in book.wallet[e]
    BY <1>1
  <2>2. book.wallet[e] = {u \in book.pool : u.owner = e}
    BY DEF BookInv, BookOK
  <2> QED
    BY <2>1, <2>2, BookUsable
<1>2. CASE \E amt \in Int : f = Income(book, e, "topup", 0, amt)
  <2>1. PICK amt \in Int : f = Income(book, e, "topup", 0, amt)
    BY <1>2
  <2> DEFINE name == Name("topup", e, 0)
             coin == Coin(name, 0, name, amt, e)
             b == AddAddresses(book, {coin.addr}, e)
  <2>2. f.book = AddCoins(b, {coin}) /\ f.coin = coin
    BY <2>1 DEF Income
  <2>3. name \in Ids /\ name.step = names /\ name.tag = "topup"
    BY NamesAre DEF BookInv, Tags
  <2> HIDE DEF name
  <2>4. coin \in Coins /\ coin.tx = name /\ coin.addr = name /\ coin.owner = e
    BY <2>3, CoinsAre
  <2> HIDE DEF coin
  <2>5. Usable(b) /\ b.pool = book.pool
    BY <2>4, <2>3, BookUsable, WithAddresses
  <2>6. Old(b, names)
    BY <2>5, BookUsable DEF Old
  <2> HIDE DEF b
  <2>7. Usable(AddCoins(b, {coin})) /\ AddCoins(b, {coin}).pool = b.pool \cup {coin}
    <3>1. {coin} \in SUBSET Coins /\ IsFiniteSet({coin})
      BY <2>4, FS_Singleton
    <3>2. \A u \in {coin} : u.tx.step = names /\ u.tx.tag # "tx"
      BY <2>3, <2>4
    <3>3. \A u, v \in {coin} : Key(u) = Key(v) => u = v
      OBVIOUS
    <3> QED
      BY <2>5, <2>6, <3>1, <3>2, <3>3, NewUsable
  <2>8. f.coin \in f.book.pool /\ f.coin.owner = e
    BY <2>2, <2>4, <2>7
  <2>9. f.book.wallet[e] = {u \in f.book.pool : u.owner = e}
    BY <2>2, <2>7 DEF Usable, BookOK
  <2> QED
    BY <2>2, <2>7, <2>8, <2>9
<1>3. Max({2 * min, 100000}) \in Int
  <2>1. {2 * min, 100000} \in SUBSET Int /\ {2 * min, 100000} # {}
    BY SMT
  <2>2. IsFiniteSet({2 * min, 100000})
    <3> DEFINE least == 100000
    <3> HIDE DEF least
    <3>1. IsFiniteSet({least})
      BY FS_Singleton
    <3>2. IsFiniteSet({2 * min} \cup {least})
      BY <3>1, FS_AddElement, FS_Singleton, FS_Union
    <3>3. {2 * min} \cup {least} = {2 * min, least}
      OBVIOUS
    <3>4. IsFiniteSet({2 * min, least})
      BY <3>2, <3>3
    <3> QED
      BY SMT, <3>4 DEF least
  <2> QED
    BY SMT, <2>1, <2>2, MaxIsGreatest
<1> QED
  BY SMT, <1>1, <1>2, <1>3 DEF FundIfNeeded, Oldest
-----------------------------------------------------------------------------
(* One transaction *)

\* A recipient without an address gets one; then everybody's is known.
LEMMA HeirsOK ==
  ASSUME NEW b, BookOK(b), NEW outs \in Seq(Wanted), NEW heirs \in Heirs(b, outs)
  PROVE  /\ heirs \in Owners /\ Updated(b.owner, heirs) \in Owners
         /\ \A i \in DOMAIN outs : ~outs[i].change =>
              Updated(b.owner, heirs)[outs[i].addr] \in Entities
<1> DEFINE A == {o.addr : o \in {o \in ToSet(outs) : ~o.change}} \ DOMAIN b.owner
           owner == Updated(b.owner, heirs)
<1>1. heirs \in [A -> Entities]
  BY DEF Heirs
<1>2. \A i \in DOMAIN outs : outs[i] \in Wanted /\ outs[i].addr \in Ids /\ outs[i] \in ToSet(outs)
  <2>1. \A i \in DOMAIN outs : outs[i] \in Wanted
    OBVIOUS
  <2> QED
    BY <2>1 DEF Wanted, ToSet
<1>3. A \in SUBSET Ids
  <2>1. \A o \in ToSet(outs) : o.addr \in Ids
    BY <1>2 DEF ToSet
  <2> QED
    BY <2>1
<1>4. heirs \in Owners /\ b.owner \in Owners
  <2>1. b.owner \in Owners
    BY DEF BookOK, Books
  <2> HIDE DEF A
  <2>2. heirs \in Owners
    BY <1>1, <1>3 DEF Owners
  <2> QED
    BY <2>1, <2>2
<1>5. owner \in Owners
  BY <1>4, UpdatedOwners
<1>6. ASSUME NEW i \in DOMAIN outs, ~outs[i].change PROVE owner[outs[i].addr] \in Entities
  <2>1. outs[i].addr \in A \/ outs[i].addr \in DOMAIN b.owner
    BY <1>2, <1>6
  <2>2. outs[i].addr \in DOMAIN owner
    BY <1>1, <2>1 DEF Updated
  <2> HIDE DEF owner
  <2> QED
    BY <1>5, <2>2, OwnersAre
<1> QED
  BY <1>4, <1>5, <1>6

LEMMA ReceivedOK ==
  ASSUME NEW b, BookOK(b), NEW outs \in Seq(Wanted), NEW heirs \in Heirs(b, outs),
         NEW txid \in Ids, NEW who \in Entities
  PROVE  LET new == Received(b, txid, outs, who, heirs) IN
         /\ new \in SUBSET Coins /\ IsFiniteSet(new)
         /\ \A u, v \in new : Key(u) = Key(v) => u = v
         /\ \A u \in new : u.tx = txid
         /\ \A i \in DOMAIN outs : \E u \in new :
              /\ Key(u) = [tx |-> txid, out |-> i - 1] /\ u.addr = outs[i].addr
<1> DEFINE new == Received(b, txid, outs, who, heirs)
           D == DOMAIN outs
           heir == [i \in D |-> IF outs[i].change THEN who ELSE Updated(b.owner, heirs)[outs[i].addr]]
           coin == [i \in D |-> Coin(txid, i - 1, outs[i].addr, outs[i].amt, heir[i])]
<1>1. new = {coin[i] : i \in D}
  BY DEF Received
<1>2. D = 1..Len(outs) /\ Len(outs) \in Nat /\ \A i \in D : outs[i] \in Wanted
  OBVIOUS
<1>3. \A i \in D : i - 1 \in Nat /\ outs[i].addr \in Ids /\ outs[i].amt \in Int
  BY <1>2 DEF Wanted
<1>4. \A i \in D : heir[i] \in Entities
  BY HeirsOK
<1> HIDE DEF heir
<1>5. \A i \in D : /\ coin[i] \in Coins /\ coin[i].tx = txid /\ coin[i].out = i - 1
                   /\ coin[i].addr = outs[i].addr
  BY <1>3, <1>4, CoinsAre
<1>6. IsFiniteSet({coin[i] : i \in D})
  <2>1. IsFiniteSet(D)
    BY <1>2, FS_Interval
  <2> HIDE DEF coin, D
  <2> QED
    BY <2>1, ImageIsFinite
<1> HIDE DEF coin, new
<1>7. \A i, j \in D : Key(coin[i]) = Key(coin[j]) => coin[i] = coin[j]
  <2> SUFFICES ASSUME NEW i \in D, NEW j \in D, Key(coin[i]) = Key(coin[j]) PROVE i = j
    OBVIOUS
  <2>1. i - 1 = j - 1
    BY <1>5, SameKey
  <2>2. i \in Int /\ j \in Int
    BY <1>2
  <2> QED
    BY <2>1, <2>2
<1>8. \A i \in D : Key(coin[i]) = [tx |-> txid, out |-> i - 1]
  BY <1>5 DEF Key
<1>9. \A u, v \in new : Key(u) = Key(v) => u = v
  BY <1>1, <1>7
<1>10. \A i \in D : \E u \in new : Key(u) = [tx |-> txid, out |-> i - 1] /\ u.addr = outs[i].addr
  BY <1>1, <1>5, <1>8
<1>11. new \in SUBSET Coins /\ IsFiniteSet(new) /\ \A u \in new : u.tx = txid
  BY <1>1, <1>5, <1>6
<1> QED
  BY <1>9, <1>10, <1>11 DEF new

LEMMA SettledOK ==
  ASSUME BookInv, NEW b, Usable(b), NEW ins \in SUBSET b.pool, NEW outs \in Seq(Wanted),
         NEW who \in Entities, NEW heirs \in Heirs(b, outs),
         NEW txid, txid = Name("tx", who, 0)
  PROVE  LET c == Settled(b, txid, ins, outs, who, heirs) IN
         /\ BookOK(c) /\ Old(c, names + 1)
         /\ Accounted(c, spent \cup {Key(u) : u \in ins}, tables.output \cup OutputRows(txid, outs))
<1> DEFINE new == Received(b, txid, outs, who, heirs)
           left == RemoveCoins(b, ins)
           kept == [left EXCEPT !.owner = Updated(left.owner, heirs)]
           c == Settled(b, txid, ins, outs, who, heirs)
           gone == spent \cup {Key(u) : u \in ins}
<1>0. /\ names \in Nat /\ b.pool \subseteq Coins /\ BookOK(b)
      /\ \A u \in b.pool : u.tx.step \in Nat
  <2>1. b.pool \subseteq Coins
    BY DEF Usable, BookOK, Books
  <2> QED
    BY <2>1, CoinFields DEF BookInv, Usable
<1>1. txid \in Ids /\ txid.step = names /\ txid.tag = "tx"
  BY NamesAre DEF BookInv, Tags
<1>2. /\ new \in SUBSET Coins /\ IsFiniteSet(new)
      /\ \A u, v \in new : Key(u) = Key(v) => u = v
      /\ \A u \in new : u.tx = txid
      /\ \A i \in DOMAIN outs : \E u \in new :
           /\ Key(u) = [tx |-> txid, out |-> i - 1] /\ u.addr = outs[i].addr
  BY <1>0, <1>1, ReceivedOK
<1>3. BookOK(left) /\ left.pool = b.pool \ ins /\ left.owner = b.owner
  BY <1>0, RemoveCoinsOK
<1>4. BookOK(kept) /\ kept.pool = b.pool \ ins
  <2>1. Updated(left.owner, heirs) \in Owners
    BY <1>0, <1>3, HeirsOK
  <2> HIDE DEF left
  <2> QED
    BY <1>3, <2>1, OwnedOK
<1>5. \A u \in new : \A v \in b.pool : Key(u) # Key(v)
  <2> SUFFICES ASSUME NEW u \in new, NEW v \in b.pool, Key(u) = Key(v) PROVE FALSE
    OBVIOUS
  <2>1. v.tx = txid
    BY <1>2, SameKey
  <2>2. v.tx.step < names \/ v.tx.tag # "tx"
    BY DEF Usable, InHand
  <2> QED
    BY <1>0, <1>1, <2>1, <2>2
<1>6. c = AddCoins(kept, new)
  BY DEF Settled
<1> HIDE DEF new, kept, left
<1>7. BookOK(c) /\ c.pool = (b.pool \ ins) \cup new
  BY <1>2, <1>4, <1>5, <1>6, AddCoinsOK
<1> HIDE DEF c
<1>8. Old(c, names + 1)
  <2> SUFFICES ASSUME NEW u \in c.pool PROVE u.tx.step < names + 1
    BY DEF Old
  <2>1. CASE u \in new
    BY <1>0, <1>1, <1>2, <2>1
  <2>2. CASE u \in b.pool
    BY <1>0, <2>2 DEF Usable, InHand
  <2> QED
    BY <1>7, <2>1, <2>2
<1>9. ASSUME NEW u \in c.pool PROVE Key(u) \notin gone
  <2>1. CASE u \in new
    <3>1. Key(u) \notin spent
      <4>1. Key(u).tx.step = names
        BY <1>1, <1>2, <2>1 DEF Key
      <4>2. \A k \in spent : k.tx.step < names
        BY DEF BookInv
      <4> QED
        BY <4>1, <4>2, <1>0
    <3>2. \A v \in ins : Key(u) # Key(v)
      BY <1>5, <2>1
    <3> QED
      BY <3>1, <3>2
  <2>2. CASE u \in b.pool \ ins
    <3>1. Key(u) \notin spent
      BY <2>2 DEF Usable, Accounted
    <3>2. \A v \in ins : Key(u) # Key(v)
      BY <2>2, <1>0 DEF BookOK
    <3> QED
      BY <3>1, <3>2
  <2> QED
    BY <1>7, <2>1, <2>2
<1>10. ASSUME NEW r \in tables.output \cup OutputRows(txid, outs)
       PROVE  RowKey(r) \in gone \/ \E u \in c.pool : Key(u) = RowKey(r) /\ u.addr = r.addr
  <2>1. CASE r \in tables.output
    <3>1. RowKey(r) \in spent \/ \E u \in b.pool : Key(u) = RowKey(r) /\ u.addr = r.addr
      BY <2>1 DEF Usable, Accounted
    <3>2. ASSUME NEW u \in b.pool, Key(u) = RowKey(r), u.addr = r.addr
          PROVE  RowKey(r) \in gone \/ \E v \in c.pool : Key(v) = RowKey(r) /\ v.addr = r.addr
      <4>1. CASE u \in ins
        BY <3>2, <4>1
      <4>2. CASE u \notin ins
        <5>1. u \in c.pool
          BY <1>7, <4>2
        <5> QED
          BY <3>2, <5>1
      <4> QED
        BY <4>1, <4>2
    <3> QED
      BY <3>1, <3>2
  <2>2. CASE r \in OutputRows(txid, outs)
    <3>1. PICK i \in DOMAIN outs :
            r = [txid |-> txid, out |-> i - 1, addr |-> outs[i].addr, amt |-> outs[i].amt,
                 change |-> outs[i].change]
      BY <2>2 DEF OutputRows
    <3>2. RowKey(r) = [tx |-> txid, out |-> i - 1] /\ r.addr = outs[i].addr
      BY <3>1 DEF RowKey
    <3> QED
      BY <3>2, <1>2, <1>7
  <2> QED
    BY <2>1, <2>2
<1>11. Accounted(c, gone, tables.output \cup OutputRows(txid, outs))
  <2> HIDE DEF gone
  <2> QED
    BY <1>9, <1>10 DEF Accounted
<1> QED
  BY <1>7, <1>8, <1>11 DEF c
-----------------------------------------------------------------------------
(* Every action is one of three turns: a transaction, an abort, or the first *)
(* move of a scenario, which only changes the book.                          *)

Creation(b, ins, outs, fee, kind, who, next) ==
  /\ Usable(b) /\ ins \in SUBSET b.pool /\ ins # {}
  /\ outs \in Seq(Wanted) /\ outs # <<>>
  /\ who \in Entities /\ next \in Scenes
  /\ CreateTransaction(b, ins, outs, fee, kind, who, next)

Creates == \E b, ins, outs, fee, kind, who, next : Creation(b, ins, outs, fee, kind, who, next)

Moves ==
  /\ Usable(book') /\ scen' \in Scenes
  /\ UNCHANGED <<tables, phase, spent>>

Turns == Creates \/ Abort \/ Moves

LEMMA MovedBook ==
  ASSUME NEW b, Usable(b), book' = b, scen' \in Scenes, UNCHANGED <<tables, phase, spent>>
  PROVE  Moves
  BY DEF Moves

LEMMA CreateTurns ==
  ASSUME NEW b, Usable(b), NEW ins, ins \in SUBSET b.pool, ins # {},
         NEW outs, outs \in Seq(Wanted), outs # <<>>, NEW fee, NEW kind,
         NEW who \in Entities, NEW next \in Scenes,
         CreateTransaction(b, ins, outs, fee, kind, who, next)
  PROVE  Turns
<1>1. Creation(b, ins, outs, fee, kind, who, next)
  BY DEF Creation
<1> QED
  BY <1>1 DEF Turns, Creates

LEMMA PayType ==
  ASSUME NEW addr \in Ids, NEW amt \in Int
  PROVE  Pay(addr, amt) \in Wanted /\ Change(addr, amt) \in Wanted
  BY DEF Pay, Change, Wanted

LEMMA OneOut == ASSUME NEW x \in Wanted PROVE <<x>> \in Seq(Wanted) /\ <<x>> # <<>>
<1> HIDE DEF Wanted
<1> QED
  OBVIOUS

LEMMA TwoOuts ==
  ASSUME NEW x \in Wanted, NEW y \in Wanted
  PROVE  <<x, y>> \in Seq(Wanted) /\ <<x, y>> # <<>>
<1>1. \A S : \A a, b \in S : <<a, b>> \in Seq(S) /\ <<a, b>> # <<>>
  OBVIOUS
<1> QED
  BY <1>1

LEMMA ManyOuts ==
  ASSUME NEW n \in Nat, NEW f \in [1..n -> Wanted], NEW x \in Wanted
  PROVE  f \o <<x>> \in Seq(Wanted) /\ f \o <<x>> # <<>>
<1>1. ASSUME NEW S, NEW g \in [1..n -> S], NEW y \in S
      PROVE  g \o <<y>> \in Seq(S) /\ g \o <<y>> # <<>>
  <2>1. g \in Seq(S) /\ Len(g) = n /\ <<y>> \in Seq(S) /\ Len(<<y>>) = 1
    OBVIOUS
  <2>2. g \o <<y>> \in Seq(S) /\ Len(g \o <<y>>) = n + 1
    BY <2>1
  <2>3. n + 1 # 0
    OBVIOUS
  <2> QED
    BY <2>2, <2>3
<1> QED
  BY <1>1

\* Outputs of one wallet, at least one if it has any.
LEMMA ChosenCoins ==
  ASSUME NEW b, Usable(b), NEW e \in Entities, b.wallet[e] # {}, NEW n \in Nat, n >= 1,
         NEW ins \in SomeCoins(b, e, n)
  PROVE  ins \in SUBSET b.pool /\ ins # {}
<1> DEFINE w == b.wallet[e]
           m == Cardinality(w)
           k == Min({n, m})
<1>1. w \in SUBSET b.pool /\ IsFiniteSet(b.pool) /\ w # {}
  BY DEF Usable, BookOK
<1>2. IsFiniteSet(w)
  BY <1>1, FS_Subset
<1>3. m \in Nat /\ m # 0
  <2> HIDE DEF w
  <2> QED
    BY <1>1, <1>2, FS_CardinalityType, FS_EmptySet
<1>4. k = n \/ k = m
  <2> HIDE DEF m
  <2>1. \E x \in {n, m} : \A y \in {n, m} : x <= y
    <3>1. n <= m \/ m <= n
      BY <1>3
    <3>2. n <= n /\ m <= m
      BY <1>3
    <3> QED
      BY <3>1, <3>2
  <2> QED
    BY <2>1 DEF Min
<1>5. k # 0
  BY <1>3, <1>4
<1>6. ins \in SUBSET w /\ Cardinality(ins) = k
  BY DEF SomeCoins, kSubset
<1> HIDE DEF w, k
<1>7. ins # {}
  BY <1>5, <1>6, FS_EmptySet
<1> QED
  BY <1>1, <1>6, <1>7

LEMMA CoinsWorth ==
  ASSUME NEW b, Usable(b), NEW ins \in SUBSET b.pool
  PROVE  Value(ins) \in Int
<1>1. b.pool \subseteq Coins /\ IsFiniteSet(b.pool)
  BY DEF Usable, BookOK, Books
<1>2. ins \in SUBSET Coins /\ IsFiniteSet(ins)
  BY <1>1, FS_Subset
<1> QED
  BY <1>2, ValueType

LEMMA NoSceneIsOne == NoScen \in Scenes
  BY DEF Scenes

\* Two numbers have a greatest one.
LEMMA MaxOfTwo ==
  ASSUME NEW a \in Int, NEW b \in Int
  PROVE  Max({a, b}) \in {a, b} /\ Max({a, b}) >= a /\ Max({a, b}) >= b
<1>1. IsFiniteSet({a, b})
  <2>1. IsFiniteSet({a}) /\ IsFiniteSet({b}) /\ {a, b} = {a} \cup {b}
    BY FS_Singleton
  <2> QED
    BY <2>1, FS_Union
<1>2. {a, b} \in SUBSET Int /\ {a, b} # {}
  OBVIOUS
<1>3. Max({a, b}) \in {a, b} /\ \A x \in {a, b} : x <= Max({a, b})
  BY <1>1, <1>2, MaxIsGreatest
<1> HIDE DEF Max
<1> QED
  BY <1>3

LEMMA PayOneTurns ==
  ASSUME BookInv, NEW f, Usable(f.book), NEW ins \in SUBSET f.book.pool, ins # {},
         NEW sender \in Entities, NEW recipient \in Entities, NEW mode,
         PayOne(f, ins, sender, recipient, mode)
  PROVE  Turns
<1> DEFINE avail(fee) == Value(ins) - fee
           fresh == Name("change", sender, 0)
<1>1. PICK fee \in Draw(2, 15) :
        IF ~(avail(fee) > 0) THEN Abort
        ELSE \E part \in Share(avail(fee), 15, 85) :
             LET send == Max({10, part})
             IN IF mode = "sweep" \/ avail(fee) - send < 5
                THEN CreateTransaction(f.book, ins, <<Pay(Primary(recipient), avail(fee))>>,
                                       fee, "normal", sender, NoScen)
                ELSE CreateTransaction(AddAddresses(f.book, {fresh}, sender), ins,
                       <<Pay(Primary(recipient), send), Change(fresh, avail(fee) - send)>>,
                       fee, "normal", sender, NoScen)
  BY DEF PayOne, Covered
<1>2. avail(fee) \in Int
  <2>1. fee \in Int
    BY DrawType
  <2>2. Value(ins) \in Int
    BY CoinsWorth
  <2> QED
    BY <2>1, <2>2
<1> DEFINE rest == avail(fee)
<1>n. Primary(recipient) \in Ids /\ fresh \in Ids
  BY NamesAre DEF BookInv, Tags
<1> HIDE DEF fresh
<1>3. CASE ~(rest > 0)
  BY <1>1, <1>3 DEF Turns
<1>4. CASE rest > 0
  <2>1. PICK part \in Share(rest, 15, 85) :
          LET send == Max({10, part})
          IN IF mode = "sweep" \/ rest - send < 5
             THEN CreateTransaction(f.book, ins, <<Pay(Primary(recipient), rest)>>,
                                    fee, "normal", sender, NoScen)
             ELSE CreateTransaction(AddAddresses(f.book, {fresh}, sender), ins,
                    <<Pay(Primary(recipient), send), Change(fresh, rest - send)>>,
                    fee, "normal", sender, NoScen)
    BY <1>1, <1>4
  <2> DEFINE send == Max({10, part})
  <2> HIDE DEF rest
  <2>2. part \in Int
    <3>1. rest \in Int
      BY <1>2 DEF rest
    <3> QED
      BY <3>1, ShareType
  <2>3. send \in Int
    <3>1. 10 \in Int
      OBVIOUS
    <3>2. Max({10, part}) \in {10, part}
      BY Zenon, <2>2, <3>1, MaxOfTwo
    <3> QED
      BY <2>2, <3>2
  <2> HIDE DEF send
  <2>4. rest \in Int /\ rest - send \in Int
    BY <1>2, <2>3 DEF rest
  <2>5. CASE mode = "sweep" \/ rest - send < 5
    <3> DEFINE outs == <<Pay(Primary(recipient), rest)>>
    <3>1. CreateTransaction(f.book, ins, outs, fee, "normal", sender, NoScen)
      BY <2>1, <2>5 DEF send
    <3>2. outs \in Seq(Wanted) /\ outs # <<>>
      BY <1>n, <2>4, PayType, OneOut
    <3> HIDE DEF outs
    <3> QED
      BY <3>1, <3>2, NoSceneIsOne, CreateTurns
  <2>6. CASE ~(mode = "sweep" \/ rest - send < 5)
    <3> DEFINE outs == <<Pay(Primary(recipient), send), Change(fresh, rest - send)>>
               b == AddAddresses(f.book, {fresh}, sender)
    <3>1. CreateTransaction(b, ins, outs, fee, "normal", sender, NoScen)
      BY <2>1, <2>6 DEF send
    <3>2. outs \in Seq(Wanted) /\ outs # <<>>
      BY <1>n, <2>3, <2>4, PayType, TwoOuts
    <3>3. Usable(b) /\ ins \in SUBSET b.pool
      BY <1>n, WithAddresses
    <3> HIDE DEF outs, b
    <3> QED
      BY <3>1, <3>2, <3>3, NoSceneIsOne, CreateTurns
  <2> QED
    BY <2>5, <2>6
<1> QED
  BY <1>3, <1>4

LEMMA NormalFromOne ==
  ASSUME BookInv, NEW sender \in Entities, NEW recipient \in Entities, NEW min \in Int,
         NEW mode, NEW f \in FundIfNeeded(book, sender, min),
         PayOne(f, Sole(f), sender, recipient, mode)
  PROVE  Turns
<1>1. Usable(f.book) /\ f.coin \in f.book.pool
  BY Funded
<1>2. Sole(f) \in SUBSET f.book.pool /\ Sole(f) # {}
  BY <1>1 DEF Sole
<1> QED
  BY <1>1, <1>2, PayOneTurns

LEMMA NormalFromSome ==
  ASSUME BookInv, NEW sender \in Entities, NEW recipient \in Entities, NEW min \in Int,
         NEW f \in FundIfNeeded(book, sender, min),
         NEW n \in {2, 3}, NEW ins \in SomeCoins(f.book, sender, n),
         PayOne(f, ins, sender, recipient, "split")
  PROVE  Turns
<1>1. Usable(f.book) /\ f.book.wallet[sender] # {}
  BY Funded
<1>2. n \in Nat /\ n >= 1
  OBVIOUS
<1>3. ins \in SUBSET f.book.pool /\ ins # {}
  BY <1>1, <1>2, ChosenCoins
<1> QED
  BY <1>1, <1>3, PayOneTurns

LEMMA NormalTurn ==
  ASSUME BookInv, Normal
  PROVE  Turns
<1>1. PICK sender \in Entities, recipient \in Entities :
       \/ \E f \in FundIfNeeded(book, sender, 30000) :
            PayOne(f, Sole(f), sender, recipient, "split")
       \/ \E f \in FundIfNeeded(book, sender, 15000) :
            \E ins \in SomeCoins(f.book, sender, 2) : PayOne(f, ins, sender, recipient, "split")
       \/ \E f \in FundIfNeeded(book, sender, 10000) :
            \E ins \in SomeCoins(f.book, sender, 3) : PayOne(f, ins, sender, recipient, "split")
       \/ \E f \in FundIfNeeded(book, sender, 20000) :
            PayOne(f, Sole(f), sender, recipient, "sweep")
  BY SMT DEF Normal
<1>2. \A min \in Int : \A f \in FundIfNeeded(book, sender, min) :
        /\ PayOne(f, Sole(f), sender, recipient, "split") => Turns
        /\ PayOne(f, Sole(f), sender, recipient, "sweep") => Turns
        /\ \A n \in {2, 3} : \A ins \in SomeCoins(f.book, sender, n) :
             PayOne(f, ins, sender, recipient, "split") => Turns
  BY NormalFromOne, NormalFromSome
<1> QED
  BY SMT, <1>1, <1>2

LEMMA PayBatchTurns ==
  ASSUME BookInv, NEW f, Usable(f.book), NEW sender \in Entities, f.book.wallet[sender] # {},
         PayBatch(f, sender)
  PROVE  Turns
<1> DEFINE fresh == Name("change", sender, 0)
           b == AddAddresses(f.book, {fresh}, sender)
           outs(recipients, m, each, avail) ==
             [i \in 1..m |-> Pay(Primary(recipients[i]), each)] \o <<Change(fresh, avail - each * m)>>
<1>1. PICK n \in Many, m \in Many, fee \in Draw(10, 50) :
        \E ins \in SomeCoins(f.book, sender, n), recipients \in [1..m -> Entities] :
          \E kept \in Share(Value(ins) - fee, 15, 65) :
            CreateTransaction(b, ins,
              outs(recipients, m, (Value(ins) - fee - kept) \div m, Value(ins) - fee),
              fee, "benign_high_volume", sender, NoScen)
  BY DEF PayBatch
<1>2. PICK ins \in SomeCoins(f.book, sender, n), recipients \in [1..m -> Entities] :
        \E kept \in Share(Value(ins) - fee, 15, 65) :
          CreateTransaction(b, ins,
            outs(recipients, m, (Value(ins) - fee - kept) \div m, Value(ins) - fee),
            fee, "benign_high_volume", sender, NoScen)
  BY <1>1
<1> DEFINE avail == Value(ins) - fee
<1>3. PICK kept \in Share(avail, 15, 65) :
        CreateTransaction(b, ins, outs(recipients, m, (avail - kept) \div m, avail),
                          fee, "benign_high_volume", sender, NoScen)
  BY <1>2
<1> DEFINE each == (avail - kept) \div m
<1>4. n \in Nat /\ n >= 1 /\ m \in Nat /\ m >= 1 /\ fee \in Int
  <2>1. fee \in Int
    BY DrawType
  <2>2. \A k \in Many : k \in Nat /\ k >= 1
    BY DrawsAssumption
  <2> QED
    BY <2>1, <2>2
<1>5. ins \in SUBSET f.book.pool /\ ins # {}
  BY <1>4, ChosenCoins
<1>6. avail \in Int
  <2>1. Value(ins) \in Int
    BY <1>5, CoinsWorth
  <2> QED
    BY <1>4, <2>1
<1> HIDE DEF avail
<1>7. kept \in Int
  BY <1>6, ShareType
<1>8. each \in Int
  BY <1>4, <1>6, <1>7
<1> HIDE DEF each
<1>9. fresh \in Ids
  BY NamesAre DEF BookInv, Tags
<1> HIDE DEF fresh
<1>10. outs(recipients, m, each, avail) \in Seq(Wanted) /\ outs(recipients, m, each, avail) # <<>>
  <2>1. \A i \in 1..m : Pay(Primary(recipients[i]), each) \in Wanted
    <3>1. \A e \in Entities : Primary(e) \in Ids
      BY DEF Primary, Ids, Tags
    <3> QED
      BY <1>8, <3>1, PayType
  <2>2. avail - each * m \in Int
    BY <1>4, <1>6, <1>8
  <2>3. Change(fresh, avail - each * m) \in Wanted
    BY <1>9, <2>2, PayType
  <2>4. [i \in 1..m |-> Pay(Primary(recipients[i]), each)] \in [1..m -> Wanted]
    BY <2>1
  <2> QED
    BY <1>4, <2>3, <2>4, ManyOuts
<1>11. Usable(b) /\ ins \in SUBSET b.pool
  BY <1>5, <1>9, WithAddresses
<1> DEFINE all == outs(recipients, m, each, avail)
<1>12. CreateTransaction(b, ins, all, fee, "benign_high_volume", sender, NoScen)
  BY <1>3 DEF each
<1> HIDE DEF all, outs, b
<1>13. all \in Seq(Wanted) /\ all # <<>>
  BY <1>10 DEF all
<1> QED
  BY <1>5, <1>11, <1>12, <1>13, NoSceneIsOne, CreateTurns

LEMMA BenignTurn ==
  ASSUME BookInv, BenignHighVolume
  PROVE  Turns
<1>1. PICK sender \in Entities, min \in Int :
        \E f \in FundIfNeeded(book, sender, min) : PayBatch(f, sender)
  BY SMT, EntitiesAssumption DEF BenignHighVolume
<1>2. PICK f \in FundIfNeeded(book, sender, min) : PayBatch(f, sender)
  BY <1>1
<1>3. Usable(f.book) /\ f.book.wallet[sender] # {}
  BY Funded
<1> QED
  BY <1>2, <1>3, PayBatchTurns

\* A scenario goes on with what is left of it.
LEMMA BurstScenes ==
  ASSUME scen \in Scenes, scen.kind \in {"transaction_burst", "temporal_anomaly"}
  PROVE  scen \in Bursts /\ scen.who \in Entities /\ OneFewer \in Scenes
<1>1. scen \in Bursts
  BY DEF Scenes, Bursts, Chains, Joints, NoScen
<1>2. scen.left \in Nat /\ scen.left # 0 /\ scen.who \in Entities
  BY <1>1 DEF Bursts
<1>3. CASE scen.left = 1
  BY <1>1, <1>2, <1>3, NoSceneIsOne DEF OneFewer
<1>4. CASE scen.left # 1
  <2>1. scen.left - 1 \in Nat \ {0}
    BY <1>2, <1>4
  <2>2. [scen EXCEPT !.left = @ - 1] \in Bursts
    BY <1>1, <2>1 DEF Bursts
  <2> QED
    BY <1>1, <1>2, <1>4, <2>2 DEF OneFewer, Scenes
<1> QED
  BY <1>3, <1>4

LEMMA ChainScenes ==
  ASSUME scen \in Scenes, scen.kind \in {"rapid_multihop", "peeling_chain"},
         NEW key \in Keys, NEW who \in Entities
  PROVE  scen \in Chains /\ scen.who \in Entities /\ Follow(key, who) \in Scenes
<1>1. scen \in Chains
  BY DEF Scenes, Bursts, Chains, Joints, NoScen
<1>2. scen.left \in Nat /\ scen.left # 0 /\ scen.who \in Entities
  BY <1>1 DEF Chains
<1>3. CASE scen.left = 1
  BY <1>1, <1>2, <1>3, NoSceneIsOne DEF Follow
<1>4. CASE scen.left # 1
  <2>1. scen.left - 1 \in Nat \ {0}
    BY <1>2, <1>4
  <2>2. [scen EXCEPT !.left = @ - 1, !.who = who, !.key = key] \in Chains
    BY <1>1, <2>1 DEF Chains
  <2> QED
    BY <1>1, <1>2, <1>4, <2>2 DEF Follow, Scenes
<1> QED
  BY <1>3, <1>4

LEMMA ChainSender ==
  ASSUME scen \in Scenes, scen.kind \in {"rapid_multihop", "peeling_chain"}
  PROVE  scen.who \in Entities
<1>1. scen \in Chains
  BY DEF Scenes, Bursts, Chains, Joints, NoScen
<1> QED
  BY <1>1 DEF Chains

LEMMA JointScenes ==
  ASSUME scen \in Scenes, scen.kind = "coordinated_activity"
  PROVE  Head(scen.actors) \in Entities /\ scen.sink \in Ids /\ NextActor \in Scenes
<1>1. scen \in Joints
  BY DEF Scenes, Bursts, Chains, Joints, NoScen
<1> DEFINE actors == scen.actors
<1>2. actors \in Seq(Entities) /\ actors # <<>> /\ scen.sink \in Ids
  BY <1>1 DEF Joints
<1>3. Head(actors) \in Entities /\ Tail(actors) \in Seq(Entities) /\ Len(actors) \in Nat
  BY <1>2
<1>4. CASE Len(actors) = 1
  BY <1>2, <1>3, <1>4, NoSceneIsOne DEF NextActor
<1>5. CASE Len(actors) # 1
  <2>1. Tail(actors) # <<>>
    <3>1. Len(actors) # 0 /\ Len(Tail(actors)) = Len(actors) - 1
      BY <1>2
    <3>2. Len(Tail(actors)) # 0
      BY <1>3, <1>5, <3>1
    <3>3. Len(<<>>) = 0
      OBVIOUS
    <3> HIDE DEF actors
    <3> QED
      BY <3>2, <3>3
  <2> HIDE DEF actors
  <2>2. [scen EXCEPT !.actors = Tail(actors)] \in Joints
    BY <1>1, <1>3, <2>1 DEF Joints
  <2>3. NextActor = [scen EXCEPT !.actors = Tail(actors)]
    BY <1>5 DEF NextActor, actors
  <2> QED
    BY <1>2, <1>3, <2>2, <2>3 DEF Scenes, actors
<1> QED
  BY <1>4, <1>5

LEMMA SplitTurns ==
  ASSUME BookInv, NEW e \in Entities, NEW min \in Int, NEW f \in FundIfNeeded(book, e, min),
         NEW to \in Ids, NEW fee \in Int, NEW lo \in Int, NEW hi \in Int, NEW next \in Scenes,
         Split(f, e, to, fee, lo, hi, next)
  PROVE  Turns
<1> DEFINE avail == f.coin.amt - fee
           fresh == Name("change", e, 0)
           ins == {f.coin}
           b == AddAddresses(f.book, {fresh}, e)
<1>1. PICK send \in Share(avail, lo, hi) :
        CreateTransaction(b, ins, <<Pay(to, send), Change(fresh, avail - send)>>,
                          fee, scen.kind, e, next)
  BY DEF Split
<1>2. Usable(f.book) /\ f.coin \in f.book.pool
  BY Funded
<1>3. f.coin.amt \in Int
  <2>1. f.coin \in Coins
    BY <1>2 DEF Usable, BookOK, Books
  <2> QED
    BY <2>1, CoinFields
<1>4. avail \in Int /\ fresh \in Ids
  BY <1>3, NamesAre DEF BookInv, Tags
<1>5. ins \in SUBSET f.book.pool /\ ins # {}
  BY <1>2
<1> HIDE DEF avail, fresh, ins
<1>6. send \in Int /\ avail - send \in Int
  BY <1>4, ShareType
<1>7. Usable(b) /\ ins \in SUBSET b.pool
  BY <1>2, <1>4, <1>5, WithAddresses
<1> DEFINE outs == <<Pay(to, send), Change(fresh, avail - send)>>
<1>8. outs \in Seq(Wanted) /\ outs # <<>>
  BY <1>4, <1>6, PayType, TwoOuts
<1>9. CreateTransaction(b, ins, outs, fee, scen.kind, e, next)
  BY <1>1
<1> HIDE DEF outs, b
<1> QED
  BY <1>5, <1>7, <1>8, <1>9, CreateTurns

LEMMA BurstTurn ==
  ASSUME BookInv, SceneInv, BurstPayment \/ NightPayment \/ Coordinated
  PROVE  Turns
<1>0. scen \in Scenes
  BY DEF SceneInv
<1>1. CASE BurstPayment
  <2>1. PICK min \in Int, recipient \in Entities, fee \in Draw(5, 20) :
          \E f \in FundIfNeeded(book, scen.who, min) :
            Split(f, scen.who, Primary(recipient), fee, 25, 75, OneFewer)
    BY SMT, <1>1 DEF BurstPayment
  <2>2. scen.who \in Entities /\ OneFewer \in Scenes
    BY <1>0, <1>1, BurstScenes DEF BurstPayment, Playing
  <2>3. fee \in Int /\ Primary(recipient) \in Ids
    BY DrawType, NamesAre DEF Primary, Ids, Tags
  <2> QED
    BY <2>1, <2>2, <2>3, SplitTurns
<1>2. CASE NightPayment
  <2>1. PICK min \in Int, fee \in Draw(4, 9) :
          \E f \in FundIfNeeded(book, scen.who, min) :
            Split(f, scen.who, Name("dest", scen.who, 0), fee, 20, 75, OneFewer)
    BY SMT, <1>2 DEF NightPayment
  <2>2. scen.who \in Entities /\ OneFewer \in Scenes
    BY <1>0, <1>2, BurstScenes DEF NightPayment, Playing
  <2>3. fee \in Int /\ Name("dest", scen.who, 0) \in Ids
    BY <2>2, DrawType, NamesAre DEF BookInv, Tags
  <2> QED
    BY <2>1, <2>2, <2>3, SplitTurns
<1>3. CASE Coordinated
  <2>1. PICK min \in Int, fee \in Draw(3, 10) :
          \E f \in FundIfNeeded(book, Head(scen.actors), min) :
            Split(f, Head(scen.actors), scen.sink, fee, 30, 70, NextActor)
    BY SMT, <1>3 DEF Coordinated
  <2>2. Head(scen.actors) \in Entities /\ scen.sink \in Ids /\ NextActor \in Scenes
    BY <1>0, <1>3, JointScenes DEF Coordinated, Playing
  <2>3. fee \in Int
    BY DrawType
  <2> QED
    BY <2>1, <2>2, <2>3, SplitTurns
<1> QED
  BY <1>1, <1>2, <1>3

LEMMA BeginTurns ==
  ASSUME BookInv, NEW e \in Entities, NEW min \in Int, NEW f \in FundIfNeeded(book, e, min),
         NEW next \in Scenes, Begin(f, next)
  PROVE  Turns
<1>1. Usable(f.book)
  BY Funded
<1>2. book' = f.book /\ scen' = next /\ UNCHANGED <<tables, phase, spent>>
  BY DEF Begin
<1>3. Moves
  BY <1>1, <1>2 DEF Moves
<1> QED
  BY <1>3 DEF Turns

LEMMA StartTurn ==
  ASSUME BookInv, SceneInv, StartBurst \/ StartMultihop \/ StartPeeling \/ StartCoordinated
  PROVE  Turns
<1>n. \A n \in Rounds \cup Many : n \in Nat \ {0}
  BY DrawsAssumption
<1>1. CASE StartBurst
  <2>1. PICK e \in Entities, n \in Rounds, kind \in {"transaction_burst", "temporal_anomaly"},
             min \in Int :
          \E f \in FundIfNeeded(book, e, min) : Begin(f, [kind |-> kind, left |-> n, who |-> e])
    BY SMT, <1>1 DEF StartBurst
  <2>2. [kind |-> kind, left |-> n, who |-> e] \in Scenes
    BY <1>n DEF Scenes, Bursts
  <2> QED
    BY <2>1, <2>2, BeginTurns
<1>k. \A e \in Entities : \A min \in Int : \A f \in FundIfNeeded(book, e, min) : Key(f.coin) \in Keys
  <2> SUFFICES ASSUME NEW e \in Entities, NEW min \in Int, NEW f \in FundIfNeeded(book, e, min)
               PROVE  Key(f.coin) \in Keys
    OBVIOUS
  <2>1. f.coin \in f.book.pool /\ Usable(f.book)
    BY Funded
  <2>2. f.coin \in Coins
    BY <2>1 DEF Usable, BookOK, Books
  <2> QED
    BY <2>2, CoinFields
<1>c. \A kind \in {"rapid_multihop", "peeling_chain"} : \A e \in Entities : \A n \in Rounds :
        \A key \in Keys : [kind |-> kind, left |-> n, who |-> e, key |-> key] \in Scenes
  BY <1>n DEF Scenes, Chains
<1>2. CASE StartMultihop
  <2>1. PICK e \in Entities, n \in Rounds, min \in Int :
          \E f \in FundIfNeeded(book, e, min) :
            Begin(f, [kind |-> "rapid_multihop", left |-> n, who |-> e, key |-> Key(f.coin)])
    BY SMT, <1>2 DEF StartMultihop
  <2> QED
    BY <2>1, <1>k, <1>c, BeginTurns
<1>3. CASE StartPeeling
  <2>1. PICK e \in Entities, n \in Rounds, min \in Int :
          \E f \in FundIfNeeded(book, e, min) :
            Begin(f, [kind |-> "peeling_chain", left |-> n, who |-> e, key |-> Key(f.coin)])
    BY SMT, <1>3 DEF StartPeeling
  <2> QED
    BY <2>1, <1>k, <1>c, BeginTurns
<1>4. CASE StartCoordinated
  <2>0. PICK n \in Many :
          \E actors \in Injection(1..n, Entities) :
            /\ scen' = [kind |-> "coordinated_activity", actors |-> actors,
                        sink |-> Name("sink", actors[1], 0)]
            /\ UNCHANGED <<book, tables, phase, spent>>
    BY <1>4 DEF StartCoordinated
  <2>1. PICK actors \in Injection(1..n, Entities) :
          /\ scen' = [kind |-> "coordinated_activity", actors |-> actors,
                      sink |-> Name("sink", actors[1], 0)]
          /\ UNCHANGED <<book, tables, phase, spent>>
    BY <2>0
  <2>2. n \in Nat /\ n # 0 /\ actors \in [1..n -> Entities]
    BY <1>n DEF Injection
  <2>3. actors \in Seq(Entities) /\ Len(actors) = n /\ actors # <<>> /\ actors[1] \in Entities
    BY <2>2
  <2>4. Name("sink", actors[1], 0) \in Ids
    BY <2>3, NamesAre DEF BookInv, Tags
  <2>5. scen' \in Scenes
    BY <2>1, <2>3, <2>4 DEF Scenes, Joints
  <2>6. Moves
    BY <2>1, <2>5, BookUsable DEF Moves
  <2> QED
    BY <2>6 DEF Turns
<1> QED
  BY <1>1, <1>2, <1>3, <1>4

LEMMA ScatterTurns ==
  ASSUME BookInv, NEW f, Usable(f.book), NEW e \in Entities,
         NEW ins \in SUBSET f.book.pool, ins # {}, Scatter(f, ins, e)
  PROVE  Turns
<1> DEFINE avail(fee) == Value(ins) - fee
           fresh == Name("change", e, 0)
           b == AddAddresses(f.book, {fresh}, e)
           outs(n, each, rest) ==
             [i \in 1..n |-> Pay(Name("out", e, i), each)] \o <<Change(fresh, rest - each * n)>>
<1>1. PICK fee \in Draw(20, 60), n \in Many :
        \E out \in Share(avail(fee), 60, 90) :
          CreateTransaction(b, ins, outs(n, out \div n, avail(fee)), fee, "high_fan_out", e, NoScen)
  BY DEF Scatter
<1> DEFINE rest == avail(fee)
<1>2. PICK out \in Share(rest, 60, 90) :
        CreateTransaction(b, ins, outs(n, out \div n, rest), fee, "high_fan_out", e, NoScen)
  BY <1>1
<1> DEFINE each == out \div n
<1>3. n \in Nat /\ n >= 1
  BY DrawsAssumption
<1>4. rest \in Int
  <2>1. Value(ins) \in Int /\ fee \in Int
    BY CoinsWorth, DrawType
  <2> QED
    BY <2>1
<1> HIDE DEF rest
<1>5. each \in Int
  <2>1. out \in Int
    BY <1>4, ShareType
  <2> QED
    BY <1>3, <2>1
<1> DEFINE all == outs(n, each, rest)
<1>6. CreateTransaction(b, ins, all, fee, "high_fan_out", e, NoScen)
  BY <1>2
<1>7. fresh \in Ids /\ \A i \in 1..n : Name("out", e, i) \in Ids
  <2>1. "change" \in Tags /\ "out" \in Tags /\ names \in Nat /\ \A i \in 1..n : i \in Nat
    BY <1>3 DEF Tags, BookInv
  <2> QED
    BY <2>1, NamesAre
<1> HIDE DEF fresh, each
<1>8. all \in Seq(Wanted) /\ all # <<>>
  <2>1. \A i \in 1..n : Pay(Name("out", e, i), each) \in Wanted
    BY <1>5, <1>7, PayType
  <2>2. rest - each * n \in Int
    BY <1>3, <1>4, <1>5
  <2>3. Change(fresh, rest - each * n) \in Wanted
    BY <1>7, <2>2, PayType
  <2>4. [i \in 1..n |-> Pay(Name("out", e, i), each)] \in [1..n -> Wanted]
    BY <2>1
  <2> QED
    BY <1>3, <2>3, <2>4, ManyOuts
<1>9. Usable(b) /\ ins \in SUBSET b.pool
  BY <1>7, WithAddresses
<1> HIDE DEF all, b
<1> QED
  BY <1>6, <1>8, <1>9, NoSceneIsOne, CreateTurns

LEMMA FanOutTurn ==
  ASSUME BookInv, FanOut
  PROVE  Turns
<1>1. PICK e \in Entities, min \in Int :
        \E f \in FundIfNeeded(book, e, min) :
          \/ Scatter(f, Sole(f), e)
          \/ \E ins \in SomeCoins(f.book, e, 2) : Scatter(f, ins, e)
  BY SMT DEF FanOut
<1>2. PICK f \in FundIfNeeded(book, e, min) :
          \/ Scatter(f, Sole(f), e)
          \/ \E ins \in SomeCoins(f.book, e, 2) : Scatter(f, ins, e)
  BY <1>1
<1>3. Usable(f.book) /\ f.coin \in f.book.pool /\ f.book.wallet[e] # {}
  BY Funded
<1>4. Sole(f) \in SUBSET f.book.pool /\ Sole(f) # {}
  BY <1>3 DEF Sole
<1>5. \A ins \in SomeCoins(f.book, e, 2) : ins \in SUBSET f.book.pool /\ ins # {}
  BY <1>3, ChosenCoins
<1> QED
  BY <1>2, <1>3, <1>4, <1>5, ScatterTurns

LEMMA PayDustTurns ==
  ASSUME BookInv, NEW e \in Entities, NEW min \in Int, NEW f \in FundIfNeeded(book, e, min),
         PayDust(f, e)
  PROVE  Turns
<1> DEFINE fresh == Name("change", e, 0)
           ins == {f.coin}
           b == AddAddresses(f.book, {fresh}, e)
           outs(n, rest) == [i \in 1..n |-> Pay(Name("out", e, i), 1)] \o <<Change(fresh, rest)>>
<1>1. PICK fee \in Draw(5, 15), n \in Many :
        CreateTransaction(b, ins, outs(n, f.coin.amt - n - fee), fee, "amount_anomaly", e, NoScen)
  BY DEF PayDust
<1>2. Usable(f.book) /\ f.coin \in f.book.pool
  BY Funded
<1>3. n \in Nat /\ n >= 1
  BY DrawsAssumption
<1> DEFINE rest == f.coin.amt - n - fee
           all == outs(n, rest)
<1>4. rest \in Int
  <2>1. f.coin \in Coins
    BY <1>2 DEF Usable, BookOK, Books
  <2>2. f.coin.amt \in Int /\ fee \in Int
    BY <2>1, CoinFields, DrawType
  <2> QED
    BY <1>3, <2>2
<1>5. CreateTransaction(b, ins, all, fee, "amount_anomaly", e, NoScen)
  BY <1>1
<1> HIDE DEF rest
<1>6. fresh \in Ids /\ \A i \in 1..n : Name("out", e, i) \in Ids
  <2>1. "change" \in Tags /\ "out" \in Tags /\ names \in Nat /\ \A i \in 1..n : i \in Nat
    BY <1>3 DEF Tags, BookInv
  <2> QED
    BY <2>1, NamesAre
<1> HIDE DEF fresh
<1>7. all \in Seq(Wanted) /\ all # <<>>
  <2>1. \A i \in 1..n : Pay(Name("out", e, i), 1) \in Wanted
    <3>1. 1 \in Int
      OBVIOUS
    <3> QED
      BY <3>1, <1>6, PayType
  <2>2. Change(fresh, rest) \in Wanted
    BY <1>4, <1>6, PayType
  <2>3. [i \in 1..n |-> Pay(Name("out", e, i), 1)] \in [1..n -> Wanted]
    BY <2>1
  <2> QED
    BY <1>3, <2>2, <2>3, ManyOuts
<1>8. Usable(b) /\ b.pool = f.book.pool
  BY <1>2, <1>6, WithAddresses
<1>9. ins \in SUBSET b.pool /\ ins # {}
  BY <1>2, <1>8
<1> HIDE DEF all, b, ins
<1> QED
  BY <1>5, <1>7, <1>8, <1>9, NoSceneIsOne, CreateTurns

LEMMA DustTurn ==
  ASSUME BookInv, Dust
  PROVE  Turns
<1>1. PICK e \in Entities, min \in Int : \E f \in FundIfNeeded(book, e, min) : PayDust(f, e)
  BY SMT DEF Dust
<1> QED
  BY <1>1, PayDustTurns

\* The wallet a fan-in gathers from has enough outputs, some of them new.
LEMMA CrowdedOK ==
  ASSUME BookInv, NEW e \in Entities, NEW amts \in [Needed(e) -> Int], NEW addrs \in SUBSET Ids
  PROVE  Usable(Crowded(e, amts, addrs)) /\ Crowded(e, amts, addrs).wallet[e] # {}
<1> DEFINE w == book.wallet[e]
           needed == Max({0, Crowd - Cardinality(w)})
           D == 1..needed
           coin == [i \in D |-> Coin(Name("fund", e, i), i - 1, Name("fund", e, i), amts[i], e)]
           income == {Coin(Name("fund", e, i), i - 1, Name("fund", e, i), amts[i], e) :
                      i \in DOMAIN amts}
           known == {u.addr : u \in income} \cup addrs
           b == AddAddresses(book, known, e)
           c == Crowded(e, amts, addrs)
<1>0. names \in Nat /\ BookOK(book) /\ Usable(book) /\ Old(book, names)
  BY BookUsable DEF BookInv
<1>1. w = {u \in book.pool : u.owner = e} /\ IsFiniteSet(book.pool)
  BY <1>0 DEF BookOK
<1>2. Cardinality(w) \in Nat /\ (w = {} => Cardinality(w) = 0)
  <2>1. IsFiniteSet(w)
    BY <1>1, FS_Subset
  <2> HIDE DEF w
  <2> QED
    BY <2>1, FS_CardinalityType, FS_EmptySet
<1>3. needed \in Nat /\ (w = {} => needed >= 1)
  <2> DEFINE gap == Crowd - Cardinality(w)
  <2>1. gap \in Int /\ (w = {} => gap >= 1) /\ 0 \in Int
    BY <1>2, DrawsAssumption
  <2> HIDE DEF gap
  <2>2. Max({0, gap}) \in {0, gap} /\ Max({0, gap}) >= 0 /\ Max({0, gap}) >= gap
    BY Zenon, <2>1, MaxOfTwo
  <2>3. needed = Max({0, gap})
    BY DEF gap
  <2> HIDE DEF needed, w
  <2> QED
    BY <2>1, <2>2, <2>3
<1>4. c = AddCoins(b, income)
  BY DEF Crowded
<1>d. DOMAIN amts = D /\ \A i \in D : amts[i] \in Int
  BY DEF Needed
<1> HIDE DEF needed
<1>5. income = {coin[i] : i \in D}
  BY <1>d
<1>6. ASSUME NEW i \in D
      PROVE  /\ coin[i] \in Coins /\ coin[i].tx = Name("fund", e, i) /\ coin[i].owner = e
             /\ coin[i].addr \in Ids /\ coin[i].tx.step = names /\ coin[i].tx.tag = "fund"
             /\ coin[i].tx.i = i
  <2>1. i \in Nat /\ i - 1 \in Nat /\ "fund" \in Tags
    BY <1>3 DEF Tags
  <2>2. /\ Name("fund", e, i) \in Ids /\ Name("fund", e, i).step = names
        /\ Name("fund", e, i).tag = "fund" /\ Name("fund", e, i).i = i
    BY <1>0, <2>1, NamesAre
  <2>3. coin[i] = Coin(Name("fund", e, i), i - 1, Name("fund", e, i), amts[i], e) /\ amts[i] \in Int
    BY <1>d
  <2> HIDE DEF coin
  <2> QED
    BY <2>1, <2>2, <2>3, CoinsAre
<1>7. IsFiniteSet(income)
  <2>1. IsFiniteSet(D)
    BY <1>3, FS_Interval
  <2> HIDE DEF coin, D, income
  <2> QED
    BY <1>5, <2>1, ImageIsFinite
<1> HIDE DEF coin, income
<1>8. income \in SUBSET Coins /\ \A u \in income : u.tx.step = names /\ u.tx.tag # "tx"
  BY <1>5, <1>6
<1>9. \A u, v \in income : Key(u) = Key(v) => u = v
  <2>1. \A i, j \in D : Key(coin[i]) = Key(coin[j]) => i = j
    BY <1>6, SameKey
  <2> QED
    BY <1>5, <2>1
<1>10. Usable(b) /\ b.pool = book.pool
  <2>1. known \in SUBSET Ids
    BY <1>8, CoinFields
  <2> HIDE DEF known
  <2> QED
    BY <1>0, <2>1, WithAddresses
<1>11. Old(b, names)
  BY <1>0, <1>10 DEF Old
<1> HIDE DEF b
<1>12. Usable(AddCoins(b, income)) /\ AddCoins(b, income).pool = b.pool \cup income
  BY <1>7, <1>8, <1>9, <1>10, <1>11, NewUsable
<1> HIDE DEF c
<1>13. c.wallet[e] = {u \in c.pool : u.owner = e} /\ c.pool = book.pool \cup income
  BY <1>4, <1>10, <1>12 DEF Usable, BookOK
<1>14. c.wallet[e] # {}
  <2>1. CASE w = {}
    <3>1. 1 \in D
      BY <1>3, <2>1
    <3>2. coin[1] \in income /\ coin[1].owner = e
      BY <3>1, <1>5, <1>6
    <3> QED
      BY <3>2, <1>13
  <2>2. CASE w # {}
    BY <2>2, <1>1, <1>13
  <2> QED
    BY <2>1, <2>2
<1> QED
  BY <1>4, <1>12, <1>14 DEF c

LEMMA GatherTurns ==
  ASSUME BookInv, NEW e \in Entities, NEW amts \in [Needed(e) -> Int], Gather(e, amts)
  PROVE  Turns
<1> DEFINE dest == Name("dest", e, 0)
           fresh == Name("change", e, 0)
           two == Crowded(e, amts, {dest, fresh})
           one == Crowded(e, amts, {dest})
<1>1. PICK fee \in Draw(15, 45), n \in Many :
       \/ \E ins \in SomeCoins(two, e, n) :
          \E kept \in Share(Value(ins) - fee, 10, 30) :
            CreateTransaction(two, ins,
              <<Pay(dest, Value(ins) - fee - kept), Change(fresh, kept)>>,
              fee, "high_fan_in", e, NoScen)
       \/ \E ins \in SomeCoins(one, e, n) :
            CreateTransaction(one, ins, <<Pay(dest, Value(ins) - fee)>>,
              fee, "high_fan_in", e, NoScen)
  BY DEF Gather
<1>2. dest \in Ids /\ fresh \in Ids
  BY NamesAre DEF BookInv, Tags
<1> HIDE DEF dest, fresh
<1>3. Usable(two) /\ two.wallet[e] # {} /\ Usable(one) /\ one.wallet[e] # {}
  <2>1. {dest, fresh} \in SUBSET Ids /\ {dest} \in SUBSET Ids
    BY <1>2
  <2> QED
    BY Zenon, <2>1, CrowdedOK
<1> HIDE DEF one, two
<1>4. fee \in Int /\ n \in Nat /\ n >= 1
  <2>1. fee \in Int
    BY DrawType
  <2>2. \A k \in Many : k \in Nat /\ k >= 1
    BY DrawsAssumption
  <2> QED
    BY <2>1, <2>2
<1>5. ASSUME NEW ins \in SomeCoins(two, e, n), NEW kept \in Share(Value(ins) - fee, 10, 30),
             CreateTransaction(two, ins,
               <<Pay(dest, Value(ins) - fee - kept), Change(fresh, kept)>>,
               fee, "high_fan_in", e, NoScen)
      PROVE  Turns
  <2> DEFINE rest == Value(ins) - fee
             outs == <<Pay(dest, rest - kept), Change(fresh, kept)>>
  <2>1. ins \in SUBSET two.pool /\ ins # {}
    BY <1>3, <1>4, ChosenCoins
  <2>2. rest \in Int
    <3>1. Value(ins) \in Int
      BY <1>3, <2>1, CoinsWorth
    <3> QED
      BY <1>4, <3>1
  <2>3. CreateTransaction(two, ins, outs, fee, "high_fan_in", e, NoScen)
    BY <1>5
  <2> HIDE DEF rest
  <2>4. kept \in Int
    BY <2>2, ShareType DEF rest
  <2>5. rest - kept \in Int
    BY <2>2, <2>4
  <2>6. outs \in Seq(Wanted) /\ outs # <<>>
    BY <1>2, <2>4, <2>5, PayType, TwoOuts
  <2> HIDE DEF outs
  <2> QED
    BY <1>3, <2>1, <2>3, <2>6, NoSceneIsOne, CreateTurns
<1>6. ASSUME NEW ins \in SomeCoins(one, e, n),
             CreateTransaction(one, ins, <<Pay(dest, Value(ins) - fee)>>,
               fee, "high_fan_in", e, NoScen)
      PROVE  Turns
  <2> DEFINE outs == <<Pay(dest, Value(ins) - fee)>>
  <2>1. ins \in SUBSET one.pool /\ ins # {}
    BY <1>3, <1>4, ChosenCoins
  <2>2. Value(ins) - fee \in Int
    <3>1. Value(ins) \in Int
      BY <1>3, <2>1, CoinsWorth
    <3> QED
      BY <1>4, <3>1
  <2>3. outs \in Seq(Wanted) /\ outs # <<>>
    BY <1>2, <2>2, PayType, OneOut
  <2> HIDE DEF outs
  <2> QED
    BY <1>3, <1>6, <2>1, <2>3, NoSceneIsOne, CreateTurns DEF outs
<1> QED
  BY <1>1, <1>5, <1>6

LEMMA FanInTurn ==
  ASSUME BookInv, FanIn
  PROVE  Turns
<1>1. PICK e \in Entities : \E amts \in [Needed(e) -> Draw(5000, 20000)] : Gather(e, amts)
  BY DEF FanIn
<1>2. PICK amts \in [Needed(e) -> Int] : Gather(e, amts)
  <2>1. Draw(5000, 20000) \subseteq Int
    BY SMT, DrawType
  <2>2. [Needed(e) -> Draw(5000, 20000)] \subseteq [Needed(e) -> Int]
    BY <2>1
  <2> QED
    BY <1>1, <2>2
<1> QED
  BY <1>2, GatherTurns

LEMMA HopTurn ==
  ASSUME BookInv, SceneInv, Hop
  PROVE  Turns
<1> DEFINE who == scen.who
           coins == {u \in book.pool : Key(u) = scen.key}
           dest(to) == Name("dest", to, 0)
           fresh == Name("change", who, 0)
           tx == Name("tx", who, 0)
           key == [tx |-> tx, out |-> 0]
           b(to) == AddAddresses(book, {dest(to)}, to)
           c(to) == AddAddresses(b(to), {fresh}, who)
<1>0. names \in Nat /\ Usable(book) /\ scen \in Scenes
  BY BookUsable DEF BookInv, SceneInv
<1>1. PICK coin \in coins, to \in Entities, fee \in Draw(3, 10), partial \in BOOLEAN :
        \E kept \in IF partial THEN Share(coin.amt - fee, 5, 25) ELSE {0} :
          CreateTransaction(
            IF partial THEN c(to) ELSE b(to), {coin},
            IF partial THEN <<Pay(dest(to), coin.amt - fee - kept), Change(fresh, kept)>>
                       ELSE <<Pay(dest(to), coin.amt - fee)>>,
            fee, "rapid_multihop", who, Follow(key, to))
  BY DEF Hop
<1>2. scen.kind = "rapid_multihop"
  BY DEF Hop, Playing
<1>3. who \in Entities
  BY <1>0, <1>2, ChainSender
<1>4. dest(to) \in Ids /\ fresh \in Ids /\ tx \in Ids
  BY <1>0, <1>3, NamesAre DEF Tags
<1>5. Follow(key, to) \in Scenes
  <2>1. key \in Keys
    BY <1>4 DEF Keys
  <2> QED
    BY <1>0, <1>2, <2>1, ChainScenes
<1>6. coin \in book.pool /\ coin.amt \in Int /\ fee \in Int
  <2>1. coin \in book.pool /\ book.pool \subseteq Coins
    BY <1>0 DEF Usable, BookOK, Books
  <2> QED
    BY <2>1, CoinFields, DrawType
<1> DEFINE address == dest(to)
           hop == b(to)
           part == c(to)
           avail == coin.amt - fee
           next == Follow(key, to)
<1>7. Usable(hop) /\ hop.pool = book.pool
  BY <1>0, <1>4, WithAddresses
<1>8. Usable(part) /\ part.pool = book.pool
  <2>1. {dest(to)} \in SUBSET Ids /\ {fresh} \in SUBSET Ids
    BY <1>4
  <2> QED
    BY Zenon, <1>0, <1>3, <2>1, WithAddressesTwice
<1>9. avail \in Int
  BY <1>6
<1>10. PICK kept \in IF partial THEN Share(avail, 5, 25) ELSE {0} :
          CreateTransaction(
            IF partial THEN part ELSE hop, {coin},
            IF partial THEN <<Pay(address, avail - kept), Change(fresh, kept)>>
                       ELSE <<Pay(address, avail)>>,
            fee, "rapid_multihop", who, next)
  BY <1>1
<1> DEFINE ins == {coin}
<1>11. ins \in SUBSET book.pool /\ ins # {}
  BY <1>6
<1> HIDE DEF ins, address, hop, part, avail, next, fresh, who
<1>12. CASE partial
  <2> DEFINE outs == <<Pay(address, avail - kept), Change(fresh, kept)>>
  <2>1. kept \in Int
    BY <1>9, <1>10, <1>12, ShareType
  <2>2. avail - kept \in Int
    BY <1>9, <2>1
  <2>3. outs \in Seq(Wanted) /\ outs # <<>>
    BY <1>4, <2>1, <2>2, PayType, TwoOuts DEF address
  <2>4. CreateTransaction(part, ins, outs, fee, "rapid_multihop", who, next)
    BY <1>10, <1>12 DEF ins
  <2> HIDE DEF outs
  <2> QED
    BY <1>3, <1>5, <1>8, <1>11, <2>3, <2>4, CreateTurns DEF next, who
<1>13. CASE ~partial
  <2> DEFINE outs == <<Pay(address, avail)>>
  <2>1. outs \in Seq(Wanted) /\ outs # <<>>
    BY <1>4, <1>9, PayType, OneOut DEF address
  <2>2. CreateTransaction(hop, ins, outs, fee, "rapid_multihop", who, next)
    BY <1>10, <1>13 DEF ins
  <2> HIDE DEF outs
  <2> QED
    BY <1>3, <1>5, <1>7, <1>11, <2>1, <2>2, CreateTurns DEF next, who
<1> QED
  BY <1>12, <1>13

LEMMA PeelTurn ==
  ASSUME BookInv, SceneInv, Peel
  PROVE  Turns
<1> DEFINE e == scen.who
           coins == {u \in book.pool : Key(u) = scen.key}
           dest == Name("dest", e, 0)
           fresh == Name("change", e, 0)
           tx == Name("tx", e, 0)
           key == [tx |-> tx, out |-> 1]
           onward == Follow(key, e)
           b == AddAddresses(book, {fresh}, e)
<1>0. names \in Nat /\ Usable(book) /\ scen \in Scenes
  BY BookUsable DEF BookInv, SceneInv
<1>1. PICK coin \in coins, fee \in Draw(2, 8) : \E part \in Share(coin.amt, 5, 30) :
        IF coin.amt - part - fee <= 10
        THEN /\ book' = b
             /\ scen' = NoScen
             /\ UNCHANGED <<tables, phase, spent>>
        ELSE CreateTransaction(b, {coin},
               <<Pay(dest, part), Change(fresh, coin.amt - part - fee)>>,
               fee, "peeling_chain", e, onward)
  BY DEF Peel
<1>p. PICK part \in Share(coin.amt, 5, 30) :
        IF coin.amt - part - fee <= 10
        THEN /\ book' = b
             /\ scen' = NoScen
             /\ UNCHANGED <<tables, phase, spent>>
        ELSE CreateTransaction(b, {coin},
               <<Pay(dest, part), Change(fresh, coin.amt - part - fee)>>,
               fee, "peeling_chain", e, onward)
  BY <1>1
<1>2. scen.kind = "peeling_chain"
  BY DEF Peel, Playing
<1>3. e \in Entities
  BY <1>0, <1>2, ChainSender
<1>4. dest \in Ids /\ fresh \in Ids /\ tx \in Ids
  BY <1>0, <1>3, NamesAre DEF Tags
<1>5. onward \in Scenes
  <2>1. key \in Keys
    BY <1>4 DEF Keys
  <2> QED
    BY <1>0, <1>2, <1>3, <2>1, ChainScenes
<1>6. coin \in book.pool /\ coin.amt \in Int /\ fee \in Int
  <2>1. coin \in book.pool /\ book.pool \subseteq Coins
    BY <1>0 DEF Usable, BookOK, Books
  <2> QED
    BY <2>1, CoinFields, DrawType
<1>7. part \in Int
  BY <1>6, ShareType
<1> DEFINE rest == coin.amt - part - fee
<1>8. rest \in Int
  BY <1>6, <1>7
<1> HIDE DEF fresh, dest, onward, rest, e
<1>9. Usable(b) /\ b.pool = book.pool
  BY <1>0, <1>3, <1>4, WithAddresses
<1> HIDE DEF b
<1>10. CASE rest <= 10
  <2>1. book' = b /\ scen' = NoScen /\ UNCHANGED <<tables, phase, spent>>
    BY <1>p, <1>10 DEF rest
  <2>2. Moves
    BY <2>1, <1>9, NoSceneIsOne, MovedBook
  <2> QED
    BY <2>2 DEF Turns
<1>11. CASE ~(rest <= 10)
  <2> DEFINE outs == <<Pay(dest, part), Change(fresh, rest)>>
             ins == {coin}
  <2>1. outs \in Seq(Wanted) /\ outs # <<>>
    BY <1>4, <1>7, <1>8, PayType, TwoOuts
  <2>2. CreateTransaction(b, ins, outs, fee, "peeling_chain", e, onward)
    BY <1>p, <1>11 DEF rest
  <2>3. ins \in SUBSET b.pool /\ ins # {}
    BY <1>6, <1>9
  <2> HIDE DEF outs, ins
  <2> QED
    BY <1>3, <1>5, <1>9, <2>1, <2>2, <2>3, CreateTurns
<1> QED
  BY <1>10, <1>11

\* The amount of an output can be changed before it is spent.
LEMMA SwapUsable ==
  ASSUME BookInv, NEW b, Usable(b), NEW u \in b.pool, NEW v \in Coins, Key(v) = Key(u),
         v.tx = u.tx, v.addr = u.addr
  PROVE  /\ Usable(AddCoins(RemoveCoins(b, {u}), {v}))
         /\ v \in AddCoins(RemoveCoins(b, {u}), {v}).pool
<1> DEFINE left == RemoveCoins(b, {u})
           c == AddCoins(left, {v})
<1>1. BookOK(b) /\ InHand(b, names) /\ Accounted(b, spent, tables.output)
  BY DEF Usable
<1>2. BookOK(left) /\ left.pool = b.pool \ {u}
  BY <1>1, RemoveCoinsOK
<1> HIDE DEF left
<1>3. BookOK(c) /\ c.pool = (b.pool \ {u}) \cup {v}
  <2> DEFINE new == {v}
  <2>1. new \in SUBSET Coins /\ IsFiniteSet(new)
    BY FS_Singleton
  <2>2. \A x, y \in new : Key(x) = Key(y) => x = y
    OBVIOUS
  <2>3. \A x \in new : \A y \in left.pool : Key(x) # Key(y)
    BY <1>1, <1>2 DEF BookOK
  <2> HIDE DEF new
  <2>4. BookOK(AddCoins(left, new)) /\ AddCoins(left, new).pool = left.pool \cup new
    BY <1>2, <2>1, <2>2, <2>3, AddCoinsOK
  <2> QED
    BY <2>4, <1>2 DEF new
<1> HIDE DEF c
<1>4. InHand(c, names)
  BY <1>1, <1>3 DEF InHand
<1>5. Accounted(c, spent, tables.output)
  <2>1. \A x \in c.pool : Key(x) \notin spent
    BY <1>1, <1>3 DEF Accounted
  <2>2. ASSUME NEW r \in tables.output, RowKey(r) \notin spent
        PROVE  \E x \in c.pool : Key(x) = RowKey(r) /\ x.addr = r.addr
    <3>1. PICK x \in b.pool : Key(x) = RowKey(r) /\ x.addr = r.addr
      BY <1>1, <2>2 DEF Accounted
    <3> QED
      BY <1>3, <3>1
  <2> QED
    BY <2>1, <2>2 DEF Accounted
<1>6. Usable(c) /\ v \in c.pool
  BY <1>3, <1>4, <1>5 DEF Usable
<1> QED
  BY <1>6 DEF c, left

LEMMA PayAsWhaleTurns ==
  ASSUME BookInv, NEW e \in Entities, NEW min \in Int, NEW f \in FundIfNeeded(book, e, min),
         NEW sats \in Int, PayAsWhale(f, e, sats)
  PROVE  Turns
<1> DEFINE coin == [f.coin EXCEPT !.amt = sats]
           b == AddCoins(RemoveCoins(f.book, {f.coin}), {coin})
           ins == {coin}
<1>1. PICK fee \in Draw(30, 150) :
        CreateTransaction(b, ins, <<Pay(Name("dest", e, 0), sats - fee)>>,
                          fee, "amount_anomaly", e, NoScen)
  BY DEF PayAsWhale
<1>2. Usable(f.book) /\ f.coin \in f.book.pool
  BY Funded
<1>3. f.coin \in Coins
  BY <1>2 DEF Usable, BookOK, Books
<1>4. /\ coin \in Coins /\ coin.tx = f.coin.tx /\ coin.out = f.coin.out
      /\ coin.addr = f.coin.addr
  BY <1>3 DEF Coins
<1> HIDE DEF coin
<1>5. Key(coin) = Key(f.coin)
  BY <1>4, SameKey
<1>6. Usable(b) /\ coin \in b.pool
  BY <1>2, <1>4, <1>5, SwapUsable
<1> HIDE DEF b
<1>7. ins \in SUBSET b.pool /\ ins # {}
  BY <1>6
<1> DEFINE outs == <<Pay(Name("dest", e, 0), sats - fee)>>
<1>8. outs \in Seq(Wanted) /\ outs # <<>>
  <2>1. Name("dest", e, 0) \in Ids
    BY NamesAre DEF BookInv, Tags
  <2>2. fee \in Int
    BY DrawType
  <2>3. sats - fee \in Int
    BY <2>2
  <2> QED
    BY <2>1, <2>3, PayType, OneOut
<1>9. CreateTransaction(b, ins, outs, fee, "amount_anomaly", e, NoScen)
  BY <1>1
<1> HIDE DEF outs, ins
<1> QED
  BY <1>6, <1>7, <1>8, <1>9, NoSceneIsOne, CreateTurns

LEMMA WhaleTurn ==
  ASSUME BookInv, Whale
  PROVE  Turns
<1>1. PICK e \in Entities, sats \in Int, min \in Int :
        \E f \in FundIfNeeded(book, e, min) : PayAsWhale(f, e, sats)
  <2>1. Draw(1000000, 25000000) \subseteq Int
    BY SMT, DrawType
  <2>2. \A sats \in Int : sats + 500000 \in Int
    BY SMT
  <2> QED
    BY SMT, <2>1, <2>2 DEF Whale
<1> QED
  BY <1>1, PayAsWhaleTurns

\* A participant puts in an output of the pool or a new one.
LEMMA MixCoinsOK ==
  ASSUME BookInv, NEW e \in Entities, NEW i \in Nat, NEW need \in Int, NEW u \in MixCoins(e, i, need)
  PROVE  /\ u \in Coins /\ u.owner = e
         /\ \/ u \in book.pool
            \/ /\ u.tx = Name("fund", e, i) /\ u.addr = Name("fund", e, i)
               /\ u.tx.step = names /\ u.tx.tag = "fund" /\ u.tx.i = i /\ u.addr.e = e
<1>0. names \in Nat /\ BookOK(book) /\ book.pool \subseteq Coins
  BY DEF BookInv, BookOK, Books
<1> DEFINE new == Coin(Name("fund", e, i), 0, Name("fund", e, i), need, e)
<1>1. u \in book.wallet[e] \/ u = new
  BY DEF MixCoins, Oldest
<1>2. CASE u \in book.wallet[e]
  <2>1. u \in book.pool /\ u.owner = e
    BY <1>0, <1>2 DEF BookOK
  <2> QED
    BY <1>0, <2>1
<1>3. CASE u = new
  <2>1. /\ Name("fund", e, i) \in Ids /\ Name("fund", e, i).step = names
        /\ Name("fund", e, i).tag = "fund" /\ Name("fund", e, i).i = i /\ Name("fund", e, i).e = e
    BY <1>0, NamesAre DEF Tags
  <2>2. /\ new \in Coins /\ new.tx = Name("fund", e, i) /\ new.addr = Name("fund", e, i)
        /\ new.owner = e
    BY <2>1, CoinsAre
  <2> HIDE DEF new
  <2> QED
    BY <1>3, <2>1, <2>2
<1> QED
  BY <1>1, <1>2, <1>3

\* What the participants put in: new outputs have keys of their own.
LEMMA AddedOK ==
  ASSUME BookInv, NEW n \in Nat, n >= 1, NEW who \in [1..n -> Entities],
         NEW needs \in [1..n -> Int], NEW coins \in Contributions(who, needs)
  PROVE  LET added == Range(coins) \ book.pool IN
         /\ DOMAIN coins = 1..n /\ \A i \in 1..n : coins[i] \in Coins
         /\ Range(coins) \in SUBSET Coins /\ IsFiniteSet(Range(coins)) /\ Range(coins) # {}
         /\ \A u \in added : u.tx.step = names /\ u.tx.tag # "tx" /\ u.addr \in Ids
         /\ \A u, v \in added : Key(u) = Key(v) => u = v
<1> DEFINE all == Range(coins)
           added == all \ book.pool
<1>1. DOMAIN coins = 1..n /\ \A i \in 1..n : coins[i] \in MixCoins(who[i], i, needs[i])
  BY DEF Contributions
<1>2. all = {coins[i] : i \in 1..n}
  BY <1>1 DEF Range
<1>3. \A i \in 1..n :
        /\ coins[i] \in Coins
        /\ \/ coins[i] \in book.pool
           \/ /\ coins[i].tx.step = names /\ coins[i].tx.tag = "fund" /\ coins[i].tx.i = i
  <2> SUFFICES ASSUME NEW i \in 1..n
               PROVE  /\ coins[i] \in Coins
                      /\ \/ coins[i] \in book.pool
                         \/ /\ coins[i].tx.step = names /\ coins[i].tx.tag = "fund"
                            /\ coins[i].tx.i = i
    OBVIOUS
  <2>1. /\ i \in Nat /\ who[i] \in Entities /\ needs[i] \in Int
        /\ coins[i] \in MixCoins(who[i], i, needs[i])
    BY <1>1
  <2> QED
    BY <2>1, MixCoinsOK
<1>4. IsFiniteSet(all)
  <2>1. IsFiniteSet(1..n)
    BY FS_Interval
  <2> HIDE DEF all
  <2> QED
    BY <1>2, <2>1, ImageIsFinite
<1>5. coins[1] \in all
  BY <1>2
<1> HIDE DEF all
<1>6. \A u \in added : \E i \in 1..n :
        u = coins[i] /\ u \in Coins /\ u.tx.step = names /\ u.tx.tag = "fund" /\ u.tx.i = i
  BY <1>2, <1>3
<1>7. \A u, v \in added : Key(u) = Key(v) => u = v
  <2> SUFFICES ASSUME NEW u \in added, NEW v \in added, Key(u) = Key(v) PROVE u = v
    OBVIOUS
  <2>1. u.tx.i = v.tx.i
    BY SameKey
  <2>2. PICK i \in 1..n : u = coins[i] /\ u.tx.i = i
    BY <1>6
  <2>3. PICK j \in 1..n : v = coins[j] /\ v.tx.i = j
    BY <1>6
  <2> QED
    BY <2>1, <2>2, <2>3
<1>8. \A u \in added : u.tx.step = names /\ u.tx.tag # "tx" /\ u.addr \in Ids
  BY <1>6, CoinFields
<1>9. all \in SUBSET Coins
  BY <1>2, <1>3
<1> QED
  BY <1>1, <1>3, <1>4, <1>5, <1>7, <1>8, <1>9 DEF all

LEMMA ManyPairs ==
  ASSUME NEW n \in Nat, n >= 1, NEW f \in [1..n -> Wanted], NEW g \in [1..n -> Wanted]
  PROVE  f \o g \in Seq(Wanted) /\ f \o g # <<>>
<1>1. ASSUME NEW S, NEW p \in [1..n -> S], NEW q \in [1..n -> S]
      PROVE  p \o q \in Seq(S) /\ p \o q # <<>>
  <2>1. p \in Seq(S) /\ q \in Seq(S) /\ Len(p) = n /\ Len(q) = n
    OBVIOUS
  <2>2. p \o q \in Seq(S) /\ Len(p \o q) = n + n
    BY <2>1
  <2>3. n + n # 0 /\ Len(<<>>) = 0
    OBVIOUS
  <2> QED
    BY <2>2, <2>3
<1> QED
  BY <1>1

LEMMA MixTogetherTurns ==
  ASSUME BookInv, NEW n \in Nat, n >= 1, NEW who \in [1..n -> Entities],
         NEW denom \in Int, NEW feePer \in Int, NEW needs \in [1..n -> Int],
         NEW coins \in Contributions(who, needs), NEW paidFirst,
         MixTogether(who, coins, denom, feePer, paidFirst)
  PROVE  Turns
<1> DEFINE ins == Range(coins)
           added == ins \ book.pool
           fresh == {Name(tag, who[i], i) : tag \in {"mix", "change"}, i \in DOMAIN who}
                      \cup {u.addr : u \in added}
           mixed(i) == Pay(Name("mix", who[i], i), denom)
           rest(i) == Change(Name("change", who[i], i), coins[i].amt - denom - feePer)
           early == [i \in 1..n |-> IF i \in paidFirst THEN mixed(i) ELSE rest(i)]
           late == [i \in 1..n |-> IF i \in paidFirst THEN rest(i) ELSE mixed(i)]
           outs == early \o late
           owner == Updated(book.owner, [a \in fresh |-> a.e])
           known == [book EXCEPT !.owner = owner]
           b == AddCoins(known, added)
<1>0. names \in Nat /\ Usable(book) /\ Old(book, names) /\ DOMAIN who = 1..n
  BY BookUsable DEF BookInv
<1>1. CreateTransaction(b, ins, outs, Value(ins) - Paid(outs), "mixing_like", who[1], NoScen)
  BY <1>0 DEF MixTogether
<1>2. /\ \A i \in 1..n : coins[i] \in Coins
      /\ ins \in SUBSET Coins /\ IsFiniteSet(ins) /\ ins # {}
      /\ \A u \in added : u.tx.step = names /\ u.tx.tag # "tx" /\ u.addr \in Ids
      /\ \A u, v \in added : Key(u) = Key(v) => u = v
  BY AddedOK
<1>3. ASSUME NEW i \in 1..n
      PROVE  Name("mix", who[i], i) \in Ids /\ Name("change", who[i], i) \in Ids
  <2>1. "mix" \in Tags /\ "change" \in Tags /\ i \in Nat /\ who[i] \in Entities
    BY DEF Tags
  <2> QED
    BY <1>0, <2>1, NamesAre
<1>4. fresh \in SUBSET Ids
  <2>1. \A u \in added : u.addr \in Ids
    BY <1>2
  <2> HIDE DEF added
  <2> QED
    BY <1>0, <1>3, <2>1
<1> HIDE DEF ins, fresh
<1>5. owner \in Owners
  <2>1. \A a \in fresh : a.e \in Entities
    BY <1>4 DEF Ids
  <2>2. [a \in fresh |-> a.e] \in [fresh -> Entities]
    BY <2>1
  <2>3. [a \in fresh |-> a.e] \in Owners
    BY <1>4, <2>2 DEF Owners
  <2>4. book.owner \in Owners
    BY <1>0 DEF Usable, BookOK, Books
  <2> QED
    BY <2>3, <2>4, UpdatedOwners
<1> HIDE DEF owner
<1>6. Usable(known) /\ known.pool = book.pool
  BY <1>0, <1>5, OwnedUsable
<1>7. Old(known, names)
  BY <1>0, <1>6 DEF Old
<1> HIDE DEF known
<1>8. Usable(b) /\ b.pool = known.pool \cup added
  <2>1. added \in SUBSET Coins /\ IsFiniteSet(added)
    BY <1>2, FS_Subset
  <2>2. \A u \in added : u.tx.step = names /\ u.tx.tag # "tx"
    BY <1>2
  <2>3. \A u, v \in added : Key(u) = Key(v) => u = v
    BY <1>2
  <2> HIDE DEF added
  <2> QED
    BY <1>6, <1>7, <2>1, <2>2, <2>3, NewUsable
<1>9. ins \in SUBSET b.pool
  BY <1>6, <1>8
<1>10. outs \in Seq(Wanted) /\ outs # <<>>
  <2>1. \A i \in 1..n : mixed(i) \in Wanted
    BY <1>3, PayType
  <2>2. \A i \in 1..n : rest(i) \in Wanted
    <3>1. \A i \in 1..n : coins[i].amt \in Int
      BY <1>2, CoinFields
    <3>2. \A i \in 1..n : coins[i].amt - denom - feePer \in Int
      BY <3>1
    <3> QED
      BY <1>3, <3>2, PayType
  <2> HIDE DEF mixed, rest
  <2>3. early \in [1..n -> Wanted] /\ late \in [1..n -> Wanted]
    BY <2>1, <2>2
  <2> HIDE DEF early, late
  <2> QED
    BY <2>3, ManyPairs
<1>11. who[1] \in Entities
  OBVIOUS
<1> HIDE DEF outs, b
<1> QED
  BY <1>1, <1>2, <1>8, <1>9, <1>10, <1>11, NoSceneIsOne, CreateTurns

LEMMA MixingTurn ==
  ASSUME BookInv, Mixing
  PROVE  Turns
<1>1. PICK n \in Many, denom \in Int, feePer \in Draw(4, 12) : Mix(n, denom, feePer)
  BY SMT DEF Mixing
<1>2. PICK who \in Injection(1..n, Entities), excess \in [1..n -> Share(denom, 50, 250)],
           paidFirst \in SUBSET (1..n) :
       \E coins \in Contributions(who, [i \in 1..n |-> denom + feePer + excess[i]]) :
         MixTogether(who, coins, denom, feePer, paidFirst)
  BY <1>1 DEF Mix
<1>3. n \in Nat /\ n >= 1 /\ feePer \in Int /\ \A i \in 1..n : excess[i] \in Int
  <2>1. \A k \in Many : k \in Nat /\ k >= 1
    BY DrawsAssumption
  <2>2. Share(denom, 50, 250) \subseteq Int
    BY ShareType
  <2> QED
    BY <2>1, <2>2, DrawType
<1> DEFINE needs == [i \in 1..n |-> denom + feePer + excess[i]]
<1>4. needs \in [1..n -> Int]
  BY <1>3
<1> HIDE DEF needs
<1>5. who \in [1..n -> Entities]
  BY DEF Injection
<1>6. PICK coins \in Contributions(who, needs) : MixTogether(who, coins, denom, feePer, paidFirst)
  BY <1>2 DEF needs
<1> QED
  BY <1>3, <1>4, <1>5, <1>6, MixTogetherTurns
-----------------------------------------------------------------------------
(* Every step preserves the invariant. *)

LEMMA Turned ==
  ASSUME BookInv, SceneInv, Next, ~Export
  PROVE  Turns /\ names' = names + 1
<1>1. names' = names + 1
  BY DEF Next, Step, Normal, BenignHighVolume, StartBurst, BurstPayment, NightPayment, FanIn,
         FanOut, StartMultihop, Hop, StartPeeling, Peel, Mixing, StartCoordinated, Coordinated,
         Whale, Dust
<1>2. Turns
  BY NormalTurn, BenignTurn, StartTurn, BurstTurn, FanInTurn, FanOutTurn, HopTurn, PeelTurn,
     MixingTurn, WhaleTurn, DustTurn DEF Next
<1> QED
  BY <1>1, <1>2

\* The rows of the inputs, in the order of their indices.
Lists(txid, ins, n, order) ==
  /\ n \in Nat /\ order \in [1..n -> ins]
  /\ InputRows(txid, ins) = {InputRow(txid, i, order[i]) : i \in 1..n}
  /\ \A i, j \in 1..n : order[i] = order[j] => i = j
  /\ \A u \in ins : \E i \in 1..n : order[i] = u

LEMMA InputsListed ==
  ASSUME NEW ins, IsFiniteSet(ins), NEW txid
  PROVE  \E n, order : Lists(txid, ins, n, order)
<1> DEFINE n == Cardinality(ins)
           order == SetToSeq(ins)
<1>1. /\ n \in Nat /\ order \in [1..n -> ins]
      /\ \A i, j \in 1..n : order[i] = order[j] => i = j
      /\ \A u \in ins : \E i \in 1..n : order[i] = u
  BY SetToSeqIs
<1>2. InputRows(txid, ins) = {InputRow(txid, i, order[i]) : i \in DOMAIN order}
  BY DEF InputRows
<1> HIDE DEF n, order
<1>3. DOMAIN order = 1..n
  BY <1>1
<1>4. Lists(txid, ins, n, order)
  BY <1>1, <1>2, <1>3 DEF Lists
<1> QED
  BY <1>4

LEMMA InputRowIs ==
  ASSUME NEW txid, NEW n \in Nat, NEW i \in 1..n, NEW u
  PROVE  /\ InputRow(txid, i, u).txid = txid /\ InputRow(txid, i, u).index = i - 1
         /\ InputRow(txid, i, u).amt = u.amt /\ InputRow(txid, i, u).prev = Key(u)
         /\ i - 1 \in Nat
         /\ txid \in Ids /\ u \in Coins => InputRow(txid, i, u) \in InRows
<1>1. i - 1 \in Nat
  OBVIOUS
<1>2. ASSUME u \in Coins PROVE u.addr \in Ids /\ u.amt \in Int /\ Key(u) \in Keys
  BY <1>2, CoinFields
<1> QED
  BY <1>1, <1>2 DEF InputRow, InRows

\* The rows of a transaction name outputs that were not spent before.
LEMMA InputRowsOK ==
  ASSUME NEW b, Usable(b), NEW ins \in SUBSET b.pool, NEW txid \in Ids
  PROVE  /\ InputRows(txid, ins) \subseteq InRows
         /\ \A r \in InputRows(txid, ins) :
              r.txid = txid /\ r.prev \in {Key(u) : u \in ins} /\ r.prev \notin spent
         /\ \A r, q \in InputRows(txid, ins) : r.prev = q.prev => r = q
         /\ \A r, q \in InputRows(txid, ins) : r.index = q.index => r = q
<1> DEFINE rows == InputRows(txid, ins)
<1>1. /\ ins \subseteq Coins
      /\ \A u, v \in ins : Key(u) = Key(v) => u = v
      /\ \A u \in ins : Key(u) \notin spent
  BY DEF Usable, BookOK, Books, Accounted
<1>2. IsFiniteSet(ins)
  <2>1. IsFiniteSet(b.pool)
    BY DEF Usable, BookOK
  <2> QED
    BY <2>1, FS_Subset
<1>3. PICK n, order : Lists(txid, ins, n, order)
  BY <1>2, InputsListed
<1>4. /\ n \in Nat /\ order \in [1..n -> ins]
      /\ rows = {InputRow(txid, i, order[i]) : i \in 1..n}
      /\ \A i, j \in 1..n : order[i] = order[j] => i = j
  BY <1>3 DEF Lists
<1> HIDE DEF rows
<1> DEFINE row == [i \in 1..n |-> InputRow(txid, i, order[i])]
<1>5. \A i \in 1..n : /\ row[i] \in InRows /\ row[i].txid = txid /\ row[i].index = i - 1
                      /\ row[i].prev = Key(order[i]) /\ order[i] \in ins
  BY <1>1, <1>4, InputRowIs
<1>6. rows = {row[i] : i \in 1..n}
  BY <1>4
<1> HIDE DEF row
<1>7. \A i, j \in 1..n : row[i].prev = row[j].prev => i = j
  BY <1>1, <1>4, <1>5
<1>8. \A i, j \in 1..n : row[i].index = row[j].index => i = j
  <2> SUFFICES ASSUME NEW i \in 1..n, NEW j \in 1..n, row[i].index = row[j].index PROVE i = j
    OBVIOUS
  <2>1. i - 1 = j - 1
    BY <1>5
  <2> QED
    BY <2>1
<1>9. /\ rows \subseteq InRows
      /\ \A r \in rows : r.txid = txid /\ r.prev \in {Key(u) : u \in ins} /\ r.prev \notin spent
  BY <1>1, <1>5, <1>6
<1> QED
  BY <1>6, <1>7, <1>8, <1>9 DEF rows

LEMMA OutputRowsOK ==
  ASSUME NEW outs \in Seq(Wanted), NEW txid \in Ids
  PROVE  /\ OutputRows(txid, outs) \subseteq OutRows
         /\ \A r \in OutputRows(txid, outs) : r.txid = txid
         /\ \A r, q \in OutputRows(txid, outs) : r.out = q.out => r = q
<1> DEFINE row == [i \in DOMAIN outs |->
                     [txid |-> txid, out |-> i - 1, addr |-> outs[i].addr, amt |-> outs[i].amt,
                      change |-> outs[i].change]]
<1>1. DOMAIN outs = 1..Len(outs) /\ Len(outs) \in Nat /\ \A i \in DOMAIN outs : outs[i] \in Wanted
  OBVIOUS
<1>2. OutputRows(txid, outs) = {row[i] : i \in DOMAIN outs}
  BY DEF OutputRows
<1>3. \A i \in DOMAIN outs : row[i] \in OutRows /\ row[i].txid = txid /\ row[i].out = i - 1
  <2>1. \A i \in DOMAIN outs : /\ i - 1 \in Nat /\ outs[i].addr \in Ids /\ outs[i].amt \in Int
                               /\ outs[i].change \in BOOLEAN
    BY <1>1 DEF Wanted
  <2> QED
    BY <2>1 DEF OutRows
<1> HIDE DEF row
<1>4. \A i, j \in DOMAIN outs : i - 1 = j - 1 => i = j
  BY <1>1
<1> QED
  BY <1>2, <1>3, <1>4

\* What CreateTransaction does when the amounts agree.
Paying(b, ins, outs, fee, kind, who, next) ==
  /\ Value(ins) = Paid(outs) + fee /\ fee >= 0
  /\ \E heirs \in Heirs(b, outs) : book' = Settled(b, Name("tx", who, 0), ins, outs, who, heirs)
  /\ tables' = Recorded(Name("tx", who, 0), ins, outs, fee, kind, who)
  /\ spent' = spent \cup {Key(u) : u \in ins}
  /\ scen' = next /\ phase' = phase

LEMMA PayingOrFailing ==
  ASSUME NEW b, NEW ins, NEW outs, NEW fee, NEW kind, NEW who, NEW next,
         Creation(b, ins, outs, fee, kind, who, next)
  PROVE  Paying(b, ins, outs, fee, kind, who, next) \/ Abort
  BY DEF Creation, CreateTransaction, Paying, Abort

LEMMA PayingKeeps ==
  ASSUME LedgerInv, names' = names + 1,
         NEW b, NEW ins, NEW outs, NEW fee, NEW kind, NEW who, NEW next,
         Creation(b, ins, outs, fee, kind, who, next),
         Paying(b, ins, outs, fee, kind, who, next)
  PROVE  LedgerInv'
<1> DEFINE txid == Name("tx", who, 0)
           new == {Key(u) : u \in ins}
<1>1. /\ Usable(b) /\ ins \in SUBSET b.pool /\ outs \in Seq(Wanted) /\ who \in Entities
      /\ next \in Scenes
  BY DEF Creation
<1>2. names \in Nat /\ names >= 1 /\ BookInv /\ InputsInv /\ OutputsInv /\ SceneInv
  BY DEF LedgerInv, BookInv
<1>3. txid \in Ids
  BY <1>1, <1>2, NamesAre DEF Tags
<1>4. /\ tables'.input = tables.input \cup InputRows(txid, ins)
      /\ tables'.output = tables.output \cup OutputRows(txid, outs)
      /\ spent' = spent \cup new
      /\ scen' = next /\ phase' = phase
  BY DEF Paying, Recorded
<1>5. PICK heirs \in Heirs(b, outs) : book' = Settled(b, txid, ins, outs, who, heirs)
  BY DEF Paying
<1> DEFINE c == Settled(b, txid, ins, outs, who, heirs)
<1>6. /\ BookOK(c) /\ Old(c, names + 1)
      /\ Accounted(c, spent \cup new, tables.output \cup OutputRows(txid, outs))
  BY <1>1, <1>2, SettledOK
<1> HIDE DEF c
<1>7. \A k \in new : k \in Keys /\ k.tx.step < names + 1
  <2> SUFFICES ASSUME NEW u \in ins PROVE Key(u) \in Keys /\ Key(u).tx.step < names + 1
    OBVIOUS
  <2>1. u \in Coins /\ (u.tx.step < names \/ u.tx.step = names)
    BY <1>1 DEF Usable, BookOK, Books, InHand
  <2>2. u.tx.step \in Nat /\ Key(u) \in Keys /\ Key(u).tx = u.tx
    BY <2>1, CoinFields
  <2> QED
    BY <2>1, <2>2, <1>2
<1>8. BookInv'
  <2>1. names' \in Nat /\ names' >= 1
    BY <1>2
  <2>2. BookOK(book') /\ Old(book', names')
    BY <1>5, <1>6 DEF c
  <2>3. \A k \in spent : k \in Keys /\ k.tx.step < names + 1
    <3>1. \A k \in spent : k \in Keys /\ k.tx.step \in Nat
      BY <1>2 DEF BookInv, Keys, Ids
    <3> QED
      BY <1>2, <3>1 DEF BookInv
  <2>4. spent' \subseteq Keys /\ \A k \in spent' : k.tx.step < names'
    BY <1>4, <1>7, <2>3
  <2>5. Accounted(book', spent', tables'.output)
    BY <1>4, <1>5, <1>6 DEF c
  <2> QED
    BY <2>1, <2>2, <2>4, <2>5 DEF BookInv
<1> DEFINE rows == InputRows(txid, ins)
<1>9. /\ rows \subseteq InRows
      /\ \A r \in rows : r.prev \in new /\ r.prev \notin spent
      /\ \A r, q \in rows : r.prev = q.prev => r = q
  BY <1>1, <1>3, InputRowsOK
<1> HIDE DEF rows, new
<1>10. InputsInv'
  <2>1. tables'.input = tables.input \cup rows
    BY <1>4 DEF rows
  <2>2. \A r \in tables.input : r.prev \in spent
    BY <1>2 DEF InputsInv
  <2>3. tables'.input \subseteq InRows /\ \A r \in tables'.input : r.prev \in spent'
    BY <1>2, <1>4, <1>9, <2>1 DEF InputsInv
  <2>4. \A r, q \in tables'.input : r.prev = q.prev => r = q
    BY <1>2, <1>9, <2>1, <2>2 DEF InputsInv
  <2> QED
    BY <2>3, <2>4 DEF InputsInv
<1>11. OutputsInv'
  <2>1. OutputRows(txid, outs) \subseteq OutRows
    BY <1>1, <1>3, OutputRowsOK
  <2> QED
    BY <1>2, <1>4, <2>1 DEF OutputsInv
<1>12. SceneInv'
  BY <1>1, <1>2, <1>4 DEF SceneInv
<1> QED
  BY <1>8, <1>10, <1>11, <1>12 DEF LedgerInv

\* A book used by a scenario in a step is old in the next.
LEMMA MovesKeep ==
  ASSUME LedgerInv, names' = names + 1, Usable(book'), scen' \in Scenes,
         UNCHANGED <<tables, spent>>, phase' \in {"generate", "exported", "failed"}
  PROVE  LedgerInv'
<1>1. names \in Nat /\ names >= 1 /\ BookInv
  BY DEF LedgerInv, BookInv
<1>2. BookOK(book') /\ InHand(book', names) /\ Accounted(book', spent, tables.output)
  BY DEF Usable
<1>3. Old(book', names')
  <2>1. \A u \in book'.pool : u.tx.step \in Nat
    BY <1>2, CoinFields DEF BookOK, Books
  <2> QED
    BY <1>1, <1>2, <2>1 DEF InHand, Old
<1>4. \A k \in spent : k.tx.step < names'
  <2>1. \A k \in spent : k.tx.step \in Nat /\ k.tx.step < names
    BY <1>1 DEF BookInv, Keys, Ids
  <2> QED
    BY <1>1, <2>1
<1>5. BookInv'
  BY <1>1, <1>2, <1>3, <1>4 DEF BookInv
<1> QED
  BY <1>5 DEF LedgerInv, InputsInv, OutputsInv, SceneInv

LEMMA CutKeepsParts ==
  /\ Cut(tables).input \subseteq tables.input
  /\ Cut(tables).output \subseteq tables.output
  BY DEF Cut

LEMMA LedgerStep ==
  ASSUME LedgerInv, [Next]_vars
  PROVE  LedgerInv'
<1>0. BookInv /\ SceneInv
  BY DEF LedgerInv
<1>1. CASE Export
  <2>1. /\ book' = book /\ scen' = scen /\ names' = names /\ spent' = spent
        /\ phase' = "exported" /\ tables' = Cut(tables)
    BY <1>1 DEF Export
  <2>2. tables'.input \subseteq tables.input /\ tables'.output \subseteq tables.output
    BY <2>1, CutKeepsParts
  <2>3. BookInv'
    BY <1>0, <2>1, <2>2 DEF BookInv, Accounted
  <2>4. InputsInv' /\ OutputsInv'
    BY <2>1, <2>2 DEF LedgerInv, InputsInv, OutputsInv
  <2>5. SceneInv'
    BY <1>0, <2>1 DEF SceneInv
  <2> QED
    BY <2>3, <2>4, <2>5 DEF LedgerInv
<1>2. CASE Next /\ ~Export
  <2>1. Turns /\ names' = names + 1
    BY <1>0, <1>2, Turned
  <2>2. CASE Creates
    <3>1. PICK b, ins, outs, fee, kind, who, next : Creation(b, ins, outs, fee, kind, who, next)
      BY <2>2 DEF Creates
    <3>2. CASE Paying(b, ins, outs, fee, kind, who, next)
      BY <2>1, <3>1, <3>2, PayingKeeps
    <3>3. CASE Abort
      <4>1. /\ book' = book /\ scen' = scen /\ UNCHANGED <<tables, spent>>
            /\ phase' \in {"generate", "exported", "failed"}
        BY <3>3 DEF Abort
      <4> QED
        BY <1>0, <2>1, <4>1, BookUsable, MovesKeep DEF SceneInv
    <3> QED
      BY <3>1, <3>2, <3>3, PayingOrFailing
  <2>3. CASE Abort
    <3>1. /\ book' = book /\ scen' = scen /\ UNCHANGED <<tables, spent>>
          /\ phase' \in {"generate", "exported", "failed"}
      BY <2>3 DEF Abort
    <3> QED
      BY <1>0, <2>1, <3>1, BookUsable, MovesKeep DEF SceneInv
  <2>4. CASE Moves
    <3>1. /\ Usable(book') /\ scen' \in Scenes /\ UNCHANGED <<tables, spent>>
          /\ phase' \in {"generate", "exported", "failed"}
      BY <1>0, <2>4 DEF Moves, SceneInv
    <3> QED
      BY <2>1, <3>1, MovesKeep
  <2> QED
    BY <2>1, <2>2, <2>3, <2>4 DEF Turns
<1>3. CASE UNCHANGED vars
  BY <1>3 DEF vars, LedgerInv, BookInv, InputsInv, OutputsInv, SceneInv
<1> QED
  BY <1>1, <1>2, <1>3

\* The outputs every wallet starts with.
LEMMA BootstrapOK ==
  BookOK(Bootstrap) /\ \A u \in Bootstrap.pool : u.tx.step = 0
<1> DEFINE given(e) == {e} \X DOMAIN Initial[e]
           all == UNION {given(e) : e \in Entities}
           addr(e, i) == IF i = 1 THEN Primary(e) ELSE [step |-> 0, tag |-> "init", e |-> e, i |-> i]
           coin == [c \in all |-> Coin([step |-> 0, tag |-> "init", e |-> c[1], i |-> c[2]], c[2] - 1,
                                       addr(c[1], c[2]), Initial[c[1]][c[2]], c[1])]
           pool == {coin[c] : c \in all}
           wallet == [e \in Entities |-> {u \in pool : u.owner = e}]
           known == {u.addr : u \in pool} \cup {Primary(e) : e \in Entities}
           owner == [a \in known |-> a.e]
<1>1. Bootstrap = [pool |-> pool, wallet |-> wallet, owner |-> owner]
  BY DEF Bootstrap
<1>2. \A e \in Entities : /\ Initial[e] \in Seq(Nat \ {0}) /\ Len(Initial[e]) \in Nat
                          /\ DOMAIN Initial[e] = 1..Len(Initial[e])
                          /\ \A i \in DOMAIN Initial[e] : Initial[e][i] \in Nat
  BY InitialAssumption
<1>3. \A c \in all : /\ c[1] \in Entities /\ c[2] \in Nat /\ c[2] - 1 \in Nat
                     /\ Initial[c[1]][c[2]] \in Int /\ c = <<c[1], c[2]>>
  BY <1>2
<1>4. IsFiniteSet(all)
  <2>1. \A e \in Entities : IsFiniteSet(given(e))
    <3>1. \A e \in Entities : IsFiniteSet({e}) /\ IsFiniteSet(DOMAIN Initial[e])
      BY <1>2, FS_Interval, FS_Singleton
    <3> QED
      BY <3>1, FS_Product
  <2> DEFINE g == [e \in Entities |-> given(e)]
             parts == {g[e] : e \in Entities}
  <2>2. all = UNION parts
    OBVIOUS
  <2>3. \A p \in parts : IsFiniteSet(p)
    BY <2>1
  <2> HIDE DEF g
  <2>4. IsFiniteSet(parts)
    BY EntitiesAssumption, ImageIsFinite
  <2> HIDE DEF parts, all
  <2>5. IsFiniteSet(UNION parts)
    BY <2>3, <2>4, FS_UNION
  <2> QED
    BY <2>2, <2>5
<1> HIDE DEF all
<1>5. ASSUME NEW e \in Entities, NEW i \in Nat PROVE addr(e, i) \in Ids
  <2>1. "init" \in Tags /\ "primary" \in Tags
    BY DEF Tags
  <2>2. Primary(e) \in Ids
    BY <2>1 DEF Primary, Ids
  <2>3. [step |-> 0, tag |-> "init", e |-> e, i |-> i] \in Ids
    BY <2>1 DEF Ids
  <2> QED
    BY <2>2, <2>3
<1> HIDE DEF addr
<1>6. ASSUME NEW c \in all
      PROVE  /\ coin[c] \in Coins /\ coin[c].tx.step = 0
             /\ coin[c].tx.e = c[1] /\ coin[c].tx.i = c[2]
  <2> DEFINE id == [step |-> 0, tag |-> "init", e |-> c[1], i |-> c[2]]
  <2>1. id \in Ids
    BY <1>3 DEF Ids, Tags
  <2>2. id.step = 0 /\ id.e = c[1] /\ id.i = c[2]
    OBVIOUS
  <2>3. coin[c] = Coin(id, c[2] - 1, addr(c[1], c[2]), Initial[c[1]][c[2]], c[1])
    OBVIOUS
  <2> HIDE DEF coin, id
  <2>4. addr(c[1], c[2]) \in Ids
    BY <1>3, <1>5
  <2> QED
    BY <1>3, <2>1, <2>2, <2>3, <2>4, CoinsAre
<1> HIDE DEF coin
<1>7. \A c, d \in all : Key(coin[c]) = Key(coin[d]) => c = d
  <2> SUFFICES ASSUME NEW c \in all, NEW d \in all, Key(coin[c]) = Key(coin[d]) PROVE c = d
    OBVIOUS
  <2>1. c[1] = d[1] /\ c[2] = d[2]
    BY <1>6, SameKey
  <2> QED
    BY <1>3, <2>1
<1>8. \A u, v \in pool : Key(u) = Key(v) => u = v
  BY <1>7
<1>9. pool \subseteq Coins /\ \A u \in pool : u.tx.step = 0
  BY <1>6
<1>10. IsFiniteSet(pool)
  BY <1>4, ImageIsFinite
<1>11. owner \in Owners
  <2>1. known \in SUBSET Ids
    <3>1. \A e \in Entities : Primary(e) \in Ids
      BY DEF Primary, Ids, Tags
    <3>2. \A u \in pool : u.addr \in Ids
      BY <1>9, CoinFields
    <3> HIDE DEF pool
    <3> QED
      BY <3>1, <3>2
  <2> HIDE DEF known
  <2>2. owner \in [known -> Entities]
    BY <2>1 DEF Ids
  <2> HIDE DEF owner
  <2> QED
    BY <2>1, <2>2 DEF Owners
<1> HIDE DEF pool, owner
<1>12. wallet \in [Entities -> SUBSET Coins]
  BY <1>9
<1>13. \A e \in Entities : wallet[e] = {u \in pool : u.owner = e}
  OBVIOUS
<1> HIDE DEF wallet
<1>14. Bootstrap \in Books
  BY <1>1, <1>9, <1>11, <1>12 DEF Books
<1> QED
  BY <1>1, <1>8, <1>9, <1>10, <1>13, <1>14 DEF BookOK

LEMMA LedgerInit ==
  ASSUME Init
  PROVE  LedgerInv
<1>1. BookOK(book) /\ \A u \in book.pool : u.tx.step = 0
  BY BootstrapOK DEF Init
<1>2. names = 1 /\ spent = {} /\ tables.input = {} /\ tables.output = {}
  BY DEF Init
<1>3. BookInv
  BY <1>1, <1>2 DEF BookInv, Old, Accounted
<1>4. InputsInv /\ OutputsInv
  BY <1>2 DEF InputsInv, OutputsInv
<1>5. SceneInv
  BY NoSceneIsOne DEF Init, SceneInv
<1> QED
  BY <1>3, <1>4, <1>5 DEF LedgerInv

LEMMA LedgerHolds == Spec => []LedgerInv
<1>1. Init => LedgerInv
  BY LedgerInit
<1>2. LedgerInv /\ [Next]_vars => LedgerInv'
  BY LedgerStep
<1> QED
  BY <1>1, <1>2, PTL DEF Spec

\* Every wallet, row and name has the shape the code gives it, whatever
\* scenarios are played and whatever amounts are drawn.
THEOREM TypeCorrect == Spec => []TypeOK
<1>1. LedgerInv => TypeOK
  <2> SUFFICES ASSUME LedgerInv PROVE TypeOK
    OBVIOUS
  <2>1. book \in Books /\ names \in Nat /\ spent \subseteq Keys
    BY DEF LedgerInv, BookInv, BookOK
  <2>2. book.pool \subseteq Coins /\ book.wallet \in [Entities -> SUBSET Coins] /\ book.owner \in Owners
    BY <2>1 DEF Books
  <2>3. DOMAIN book.owner \subseteq Ids /\ Range(book.owner) \subseteq Entities
    BY <2>2, OwnersAre DEF Range
  <2>4. \A r \in tables.input :
          r.txid \in Ids /\ r.index \in Nat /\ r.addr \in Ids /\ r.amt \in Int /\ r.prev \in Keys
    BY DEF LedgerInv, InputsInv, InRows
  <2>5. \A r \in tables.output : r.txid \in Ids /\ r.addr \in Ids /\ r.amt \in Int /\ r.out \in Nat
    BY DEF LedgerInv, OutputsInv, OutRows
  <2>6. phase \in {"generate", "exported", "failed"}
    BY DEF LedgerInv, SceneInv
  <2> QED
    BY <2>1, <2>2, <2>3, <2>4, <2>5, <2>6 DEF TypeOK
<1> QED
  BY <1>1, LedgerHolds, PTL

\* The generator's two books of unspent outputs, the pool and the wallets of
\* the entities (utxo_pool, EntityProfile.utxos), always hold the same outputs
\* at the same amounts; no output is spent twice; and every output recorded is
\* held under its address or has been spent.
THEOREM BooksKept == Spec => []BooksAgree
<1>1. LedgerInv => BooksAgree
  <2> SUFFICES ASSUME LedgerInv PROVE BooksAgree
    OBVIOUS
  <2>1. BookOK(book) /\ Accounted(book, spent, tables.output)
    BY DEF LedgerInv, BookInv
  <2>2. \A e \in Entities : book.wallet[e] = {u \in book.pool : u.owner = e}
    BY <2>1 DEF BookOK
  <2>3. \A u \in book.pool : u.owner \in Entities /\ Key(u) \notin spent
    BY <2>1, CoinFields DEF BookOK, Books, Accounted
  <2>4. SpentOnce
    BY <2>2, <2>3 DEF SpentOnce, LedgerInv, InputsInv
  <2>5. book.pool = UNION {book.wallet[e] : e \in Entities}
    BY <2>2, <2>3
  <2>6. \A e \in Entities : \A u \in book.wallet[e] : u.owner = e
    BY <2>2
  <2>7. \A u \in book.pool, v \in book.pool : Key(u) = Key(v) => u = v
    BY <2>1 DEF BookOK
  <2>8. \A r \in tables.output :
          LET key == [tx |-> r.txid, out |-> r.out]
          IN key \in spent \/ \E u \in book.pool : Key(u) = key /\ u.addr = r.addr
    BY <2>1 DEF Accounted, RowKey
  <2> QED
    BY <2>4, <2>5, <2>6, <2>7, <2>8 DEF BooksAgree
<1> QED
  BY <1>1, LedgerHolds, PTL
-----------------------------------------------------------------------------
(* Cutting a list of rows *)

LEMMA AppendTo ==
  ASSUME NEW S, NEW s \in Seq(S), NEW x
  PROVE  /\ Append(s, x) \in Seq(S \cup {x}) /\ Len(Append(s, x)) = Len(s) + 1
         /\ \A i \in 1..Len(s) : Append(s, x)[i] = s[i]
         /\ Append(s, x)[Len(s) + 1] = x
<1> DEFINE T == S \cup {x}
<1>1. s \in Seq(T) /\ x \in T
  OBVIOUS
<1> HIDE DEF T
<1>2. /\ Append(s, x) \in Seq(T) /\ Len(Append(s, x)) = Len(s) + 1
      /\ \A i \in 1..Len(s) : Append(s, x)[i] = s[i]
      /\ Append(s, x)[Len(s) + 1] = x
  BY <1>1
<1> QED
  BY <1>2 DEF T

\* A list whose wanted rows come first is cut after them.
LEMMA OnlyTheFirst ==
  ASSUME NEW S, NEW rows \in Seq(S), NEW k \in 0..Len(rows), NEW wanted,
         \A i \in 1..Len(rows) : rows[i] \in wanted <=> i <= k
  PROVE  /\ Only(rows, wanted) \in Seq(S) /\ Len(Only(rows, wanted)) = k
         /\ \A i \in 1..k : Only(rows, wanted)[i] = rows[i]
<1> DEFINE m == Len(rows)
           X == Seq(S)
           onward(x, i) == IF rows[i] \in wanted THEN Append(x, rows[i]) ELSE x
           eq(h) == h = [T \in SUBSET (1..m) |->
                           IF T = {} THEN <<>> ELSE onward(h[T \ {Max(T)}], Max(T))]
           iter == CHOOSE h : eq(h)
<1>1. m \in Nat /\ DOMAIN rows = 1..m /\ \A i \in 1..m : rows[i] \in S
  OBVIOUS
<1>2. Only(rows, wanted) = iter[1..m]
  BY <1>1 DEF Only, FoldLeft, MapThenFoldSet
<1>3. \A x \in X : \A i \in 1..m : onward(x, i) \in X
  BY <1>1
<1>4. \E h : eq(h)
  <2> DEFINE nx == [i \in 1..m |-> [x \in X |-> onward(x, i)]]
             base == <<>>
  <2>1. base \in X /\ \A x \in X : \A i \in 1..m : nx[i][x] = onward(x, i) /\ nx[i][x] \in X
    BY <1>3
  <2> HIDE DEF nx, X, base, m
  <2>2. PICK h : Iterates(h, m, X, base, nx)
    BY <1>1, <2>1, FoldExists
  <2>3. /\ h \in [SUBSET (1..m) -> X] /\ h[{}] = base
        /\ \A T \in SUBSET (1..m) : T # {} => h[T] = nx[Max(T)][h[T \ {Max(T)}]]
    BY <2>2 DEF Iterates
  <2> HIDE DEF onward
  <2>4. ASSUME NEW T \in SUBSET (1..m), T # {} PROVE h[T] = onward(h[T \ {Max(T)}], Max(T))
    <3>1. Max(T) \in 1..m
      BY <1>1, <2>4, MaxInRange
    <3>2. h[T \ {Max(T)}] \in X
      BY <2>3
    <3> QED
      BY <2>1, <2>3, <2>4, <3>1, <3>2
  <2>5. \A T \in SUBSET (1..m) : h[T] = IF T = {} THEN <<>> ELSE onward(h[T \ {Max(T)}], Max(T))
    BY <2>3, <2>4 DEF base
  <2>6. h = [T \in SUBSET (1..m) |-> h[T]]
    BY <2>3
  <2>7. eq(h)
    BY <2>5, <2>6
  <2> QED
    BY <2>7
<1>5. eq(iter)
  BY <1>4
<1> HIDE DEF iter
<1>6. iter[{}] = <<>>
  BY <1>5
<1>7. ASSUME NEW j \in Nat, j + 1 <= m PROVE iter[1..(j + 1)] = onward(iter[1..j], j + 1)
  <2>1. Max(1..(j + 1)) = j + 1
    BY <1>7, MaxOfInterval
  <2>2. 1..(j + 1) # {} /\ (1..(j + 1)) \ {j + 1} = 1..j /\ 1..(j + 1) \in SUBSET (1..m)
    BY <1>1, <1>7
  <2> HIDE DEF onward, m
  <2> QED
    BY <1>5, <2>1, <2>2
<1> DEFINE Good(s, n) == s \in X /\ Len(s) = n /\ \A i \in 1..n : s[i] = rows[i]
           D == {j \in Nat : j <= m => Good(iter[1..j], IF j <= k THEN j ELSE k)}
<1>8. 0 \in D
  <2>1. 1..0 = {} /\ 0 <= k
    OBVIOUS
  <2>2. Good(<<>>, 0)
    OBVIOUS
  <2> HIDE DEF Good
  <2> QED
    BY <1>6, <2>1, <2>2
<1>9. ASSUME NEW j \in Nat, j \in D PROVE j + 1 \in D
  <2> SUFFICES ASSUME j + 1 <= m PROVE Good(iter[1..(j + 1)], IF j + 1 <= k THEN j + 1 ELSE k)
    BY <1>1
  <2> DEFINE s == iter[1..j]
             r == rows[j + 1]
  <2>1. iter[1..(j + 1)] = onward(s, j + 1) /\ j + 1 \in 1..m /\ r \in S
    BY <1>1, <1>7
  <2>2. Good(s, IF j <= k THEN j ELSE k)
    BY <1>1, <1>9
  <2>3. CASE j + 1 <= k
    <3>1. r \in wanted /\ j <= k
      BY <2>1, <2>3
    <3>2. iter[1..(j + 1)] = Append(s, r) /\ Good(s, j)
      BY <2>1, <2>2, <3>1
    <3> HIDE DEF s, r
    <3>3. Append(s, r) \in X /\ Len(Append(s, r)) = j + 1
      BY <2>1, <3>2
    <3>4. ASSUME NEW i \in 1..(j + 1) PROVE Append(s, r)[i] = rows[i]
      <4>1. CASE i \in 1..j
        <5>1. s \in Seq(S) /\ Len(s) = j /\ s[i] = rows[i]
          BY <3>2, <4>1
        <5>2. Append(s, r)[i] = s[i]
          BY <4>1, <5>1, AppendTo
        <5> QED
          BY <5>1, <5>2
      <4>2. CASE i = j + 1
        BY <3>2, <4>2 DEF r
      <4>3. i \in 1..j \/ i = j + 1
        OBVIOUS
      <4> QED
        BY <4>1, <4>2, <4>3
    <3> QED
      BY <2>3, <3>2, <3>3, <3>4
  <2>4. CASE ~(j + 1 <= k)
    <3>1. r \notin wanted
      BY <2>1, <2>4
    <3>2. iter[1..(j + 1)] = s
      BY <2>1, <3>1
    <3>3. (IF j <= k THEN j ELSE k) = k
      BY <2>4
    <3> HIDE DEF Good, s
    <3> QED
      BY <2>2, <2>4, <3>2, <3>3
  <2> QED
    BY <2>3, <2>4
<1>10. Nat \subseteq D
  <2> HIDE DEF D
  <2> QED
    BY <1>8, <1>9, InductionOnNat
<1>11. Good(iter[1..m], k)
  <2> HIDE DEF Good
  <2>1. Good(iter[1..m], IF m <= k THEN m ELSE k)
    BY <1>1, <1>10
  <2>2. (IF m <= k THEN m ELSE k) = k
    OBVIOUS
  <2> QED
    BY <2>1, <2>2
<1> QED
  BY <1>2, <1>11
-----------------------------------------------------------------------------
(* The rows of the tables agree with each other: with every transaction an   *)
(* event, a label, its inputs and its outputs, and no row without one.       *)

Listed(t) ==
  \E S : t.tx \in Seq(S) /\ t.event \in Seq(S) /\ t.label \in Seq(S)
Aligned(t) ==
  /\ Len(t.event) = Len(t.tx) /\ Len(t.label) = Len(t.tx)
  /\ \A i \in 1..Len(t.tx) :
       /\ t.event[i] = EventRow(t.tx[i].txid) /\ t.label[i].txid = t.tx[i].txid
       /\ t.label[i].truth = Labelled(t.label[i].kind)
  /\ \A i, j \in 1..Len(t.tx) : t.tx[i].txid = t.tx[j].txid => i = j
Referring(t) ==
  /\ \A r \in t.input \cup t.output : \E i \in 1..Len(t.tx) : r.txid = t.tx[i].txid
  /\ \A r, q \in t.input : r.txid = q.txid /\ r.index = q.index => r = q
  /\ \A r, q \in t.output : r.txid = q.txid /\ r.out = q.out => r = q

LEMMA EventIs ==
  ASSUME NEW txid
  PROVE  EventRow(txid).txid = txid /\ EventRow(txid).event = <<"EVT", txid>>
  BY DEF EventRow

RowsOf(rows, id) == {r \in rows : r.txid = id}
Balanced(t, row) ==
  /\ row.in = row.out + row.fee /\ row.fee >= 0
  /\ RowsOf(t.input, row.txid) # {} /\ row.in = Worth(RowsOf(t.input, row.txid))
  /\ RowsOf(t.output, row.txid) # {} /\ row.out = Worth(RowsOf(t.output, row.txid))

RowsOK(t) ==
  /\ Listed(t) /\ Aligned(t) /\ Referring(t)
  /\ \A i \in 1..Len(t.tx) : Balanced(t, t.tx[i])

TablesInv ==
  /\ RowsOK(tables)
  /\ \A i \in 1..Len(tables.tx) : tables.tx[i].txid \in Ids /\ tables.tx[i].txid.step < names
  /\ phase = "exported" => Len(tables.tx) = Total

\* The rows of a transaction are worth what its inputs and outputs are.
LEMMA InputsWorth ==
  ASSUME NEW b, Usable(b), NEW ins \in SUBSET b.pool, NEW txid
  PROVE  Worth(InputRows(txid, ins)) = Value(ins)
<1> DEFINE rows == InputRows(txid, ins)
           f == [u \in ins |-> u.amt]
           e == [r \in rows |-> r.amt]
<1>1. ins \subseteq Coins /\ IsFiniteSet(ins)
  <2>1. ins \subseteq Coins /\ IsFiniteSet(b.pool)
    BY DEF Usable, BookOK, Books
  <2> QED
    BY <2>1, FS_Subset
<1>2. PICK n, order : Lists(txid, ins, n, order)
  BY <1>1, InputsListed
<1>3. /\ n \in Nat /\ order \in [1..n -> ins]
      /\ rows = {InputRow(txid, i, order[i]) : i \in 1..n}
      /\ \A i, j \in 1..n : order[i] = order[j] => i = j
      /\ \A u \in ins : \E i \in 1..n : order[i] = u
  BY <1>2 DEF Lists
<1> DEFINE D == 1..n
           row == [i \in D |-> InputRow(txid, i, order[i])]
           g == [i \in D |-> order[i].amt]
<1>4. \A i \in D : row[i].index = i - 1 /\ row[i].amt = g[i] /\ order[i] \in ins
  <2> SUFFICES ASSUME NEW i \in D
               PROVE  row[i].index = i - 1 /\ row[i].amt = g[i] /\ order[i] \in ins
    OBVIOUS
  <2>1. n \in Nat /\ order[i] \in ins /\ row[i] = InputRow(txid, i, order[i]) /\ g[i] = order[i].amt
    BY <1>3
  <2>2. \A u : InputRow(txid, i, u).index = i - 1 /\ InputRow(txid, i, u).amt = u.amt
    BY DEF InputRow
  <2> HIDE DEF row, g
  <2> QED
    BY <2>1, <2>2
<1>5. rows = {row[i] : i \in D} /\ ins = {order[i] : i \in D} /\ IsFiniteSet(D)
  BY <1>3, FS_Interval
<1>6. \A i \in D : g[i] \in Int /\ f[order[i]] = g[i]
  BY <1>1, <1>4, CoinFields
<1>7. \A r \in rows : e[r] = r.amt
  OBVIOUS
<1>8. DOMAIN f = ins /\ DOMAIN e = rows
  OBVIOUS
<1>9. Value(ins) = SumFunctionOnSet(f, ins) /\ Worth(rows) = SumFunctionOnSet(e, rows)
  BY <1>8 DEF Value, Worth, SumFunction
<1> HIDE DEF row, rows, f, e, g
<1>10. \A i \in D : e[row[i]] = g[i]
  BY <1>4, <1>5, <1>7
<1>11. \A i, j \in D : row[i] = row[j] => i = j
  <2> SUFFICES ASSUME NEW i \in D, NEW j \in D, row[i] = row[j] PROVE i = j
    OBVIOUS
  <2>1. i - 1 = j - 1
    BY <1>4
  <2> QED
    BY <2>1
<1>12. \A i, j \in D : order[i] = order[j] => i = j
  BY <1>3
<1> HIDE DEF D
<1>13. SumFunctionOnSet(e, {row[i] : i \in D}) = SumFunctionOnSet(g, D)
  BY <1>5, <1>6, <1>10, <1>11, SumRenamed
<1>14. SumFunctionOnSet(f, {order[i] : i \in D}) = SumFunctionOnSet(g, D)
  BY <1>5, <1>6, <1>12, SumRenamed
<1> QED
  BY <1>5, <1>9, <1>13, <1>14 DEF rows

LEMMA OutputsWorth ==
  ASSUME NEW outs \in Seq(Wanted), NEW txid
  PROVE  Worth(OutputRows(txid, outs)) = Paid(outs)
<1> DEFINE D == DOMAIN outs
           row == [i \in D |->
                     [txid |-> txid, out |-> i - 1, addr |-> outs[i].addr, amt |-> outs[i].amt,
                      change |-> outs[i].change]]
           rows == OutputRows(txid, outs)
           f == [i \in D |-> outs[i].amt]
           e == [r \in rows |-> r.amt]
<1>1. D = 1..Len(outs) /\ Len(outs) \in Nat /\ \A i \in D : outs[i] \in Wanted
  OBVIOUS
<1>f. IsFiniteSet(D)
  BY <1>1, FS_Interval
<1>2. rows = {row[i] : i \in D}
  BY DEF OutputRows
<1>3. \A i \in D : row[i].out = i - 1 /\ row[i].amt = outs[i].amt /\ f[i] = outs[i].amt
  OBVIOUS
<1>4. \A i \in D : f[i] \in Int
  BY <1>1, <1>3 DEF Wanted
<1>5. \A r \in rows : e[r] = r.amt
  OBVIOUS
<1>6. DOMAIN f = D /\ DOMAIN e = rows
  OBVIOUS
<1>7. Paid(outs) = SumFunctionOnSet(f, D) /\ Worth(rows) = SumFunctionOnSet(e, rows)
  BY <1>6 DEF Paid, Worth, SumFunction
<1> HIDE DEF row, rows, f, e
<1>8. \A i \in D : row[i] \in rows /\ e[row[i]] = f[i]
  BY <1>2, <1>3, <1>5
<1>9. \A i, j \in D : row[i] = row[j] => i = j
  <2> SUFFICES ASSUME NEW i \in D, NEW j \in D, row[i] = row[j] PROVE i = j
    OBVIOUS
  <2>1. i - 1 = j - 1 /\ i \in Int /\ j \in Int
    BY <1>1, <1>3
  <2> QED
    BY <2>1
<1> HIDE DEF D
<1>10. SumFunctionOnSet(e, {row[i] : i \in D}) = SumFunctionOnSet(f, D)
  BY <1>f, <1>4, <1>8, <1>9, SumRenamed
<1> QED
  BY <1>2, <1>7, <1>10 DEF rows

\* A transaction's rows are its own, and they balance.
LEMMA NewRowsBalance ==
  ASSUME NEW b, Usable(b), NEW ins \in SUBSET b.pool, ins # {},
         NEW outs \in Seq(Wanted), outs # <<>>, NEW fee, NEW txid \in Ids,
         Value(ins) = Paid(outs) + fee, fee >= 0,
         NEW t, RowsOf(t.input, txid) = InputRows(txid, ins),
         RowsOf(t.output, txid) = OutputRows(txid, outs)
  PROVE  Balanced(t, TxRow(txid, ins, outs, fee))
<1> DEFINE row == TxRow(txid, ins, outs, fee)
<1>1. row.txid = txid /\ row.in = Value(ins) /\ row.out = Paid(outs) /\ row.fee = fee
  BY DEF TxRow
<1>2. Worth(InputRows(txid, ins)) = Value(ins) /\ Worth(OutputRows(txid, outs)) = Paid(outs)
  BY InputsWorth, OutputsWorth
<1>3. InputRows(txid, ins) # {}
  <2>1. IsFiniteSet(ins)
    <3>1. IsFiniteSet(b.pool)
      BY DEF Usable, BookOK
    <3> QED
      BY <3>1, FS_Subset
  <2>2. PICK n, order : Lists(txid, ins, n, order)
    BY <2>1, InputsListed
  <2> QED
    BY <2>2 DEF Lists
<1>4. OutputRows(txid, outs) # {}
  <2>1. 1 \in DOMAIN outs
    <3>1. Len(outs) \in Nat /\ Len(outs) # 0 /\ DOMAIN outs = 1..Len(outs)
      BY EmptySeq
    <3> HIDE DEF Wanted
    <3> QED
      BY <3>1
  <2> QED
    BY <2>1 DEF OutputRows
<1> HIDE DEF row
<1> QED
  BY <1>1, <1>2, <1>3, <1>4 DEF Balanced, row

LEMMA PayingTables ==
  ASSUME LedgerInv, TablesInv,
         NEW b, NEW ins, NEW outs, NEW fee, NEW kind, NEW who, NEW next,
         Creation(b, ins, outs, fee, kind, who, next),
         Paying(b, ins, outs, fee, kind, who, next)
  PROVE  /\ RowsOK(tables')
         /\ \A i \in 1..Len(tables'.tx) :
              tables'.tx[i].txid \in Ids /\ tables'.tx[i].txid.step < names + 1
<1> DEFINE txid == Name("tx", who, 0)
           row == TxRow(txid, ins, outs, fee)
           event == EventRow(txid)
           label == LabelRow(txid, kind, who)
           t == tables
           u == tables'
           n == Len(t.tx)
           old == 1..n
<1>1. /\ Usable(b) /\ ins \in SUBSET b.pool /\ ins # {} /\ outs \in Seq(Wanted) /\ outs # <<>>
      /\ who \in Entities
  BY DEF Creation
<1>2. names \in Nat /\ \A i \in old : t.tx[i].txid \in Ids /\ t.tx[i].txid.step < names
  BY DEF LedgerInv, BookInv, TablesInv
<1>3. txid \in Ids /\ txid.step = names
  BY <1>1, <1>2, NamesAre DEF Tags
<1>4. /\ u.tx = Append(t.tx, row) /\ u.event = Append(t.event, event)
      /\ u.label = Append(t.label, label)
      /\ u.input = t.input \cup InputRows(txid, ins)
      /\ u.output = t.output \cup OutputRows(txid, outs)
  BY DEF Paying, Recorded
<1>5. row.txid = txid /\ event = EventRow(txid) /\ label.txid = txid /\ label.truth = Labelled(label.kind)
  BY DEF TxRow, LabelRow
<1>6. Listed(t) /\ Aligned(t) /\ Referring(t) /\ \A i \in old : Balanced(t, t.tx[i])
  BY DEF TablesInv, RowsOK
<1>7. PICK S : t.tx \in Seq(S) /\ t.event \in Seq(S) /\ t.label \in Seq(S)
  BY <1>6 DEF Listed
<1>8. n \in Nat /\ Len(t.event) = n /\ Len(t.label) = n
  BY <1>6, <1>7 DEF Aligned
<1> HIDE DEF row, event, label, txid, u, t
<1>9. /\ u.tx \in Seq(S \cup {row}) /\ Len(u.tx) = n + 1 /\ u.tx[n + 1] = row
      /\ \A i \in old : u.tx[i] = t.tx[i]
  BY <1>4, <1>7, AppendTo
<1>10. /\ u.event \in Seq(S \cup {event}) /\ Len(u.event) = n + 1 /\ u.event[n + 1] = event
       /\ \A i \in old : u.event[i] = t.event[i]
  BY <1>4, <1>7, <1>8, AppendTo
<1>11. /\ u.label \in Seq(S \cup {label}) /\ Len(u.label) = n + 1 /\ u.label[n + 1] = label
       /\ \A i \in old : u.label[i] = t.label[i]
  BY <1>4, <1>7, <1>8, AppendTo
<1>12. 1..Len(u.tx) = old \cup {n + 1} /\ n + 1 \notin old
  BY <1>8, <1>9
<1>13. Listed(u)
  <2> DEFINE R == S \cup {row, event, label}
  <2>1. u.tx \in Seq(R) /\ u.event \in Seq(R) /\ u.label \in Seq(R)
    <3>1. \A A, B : A \subseteq B => Seq(A) \subseteq Seq(B)
      OBVIOUS
    <3>2. S \cup {row} \subseteq R /\ S \cup {event} \subseteq R /\ S \cup {label} \subseteq R
      OBVIOUS
    <3> HIDE DEF R
    <3> QED
      BY <1>9, <1>10, <1>11, <3>1, <3>2
  <2> QED
    BY <2>1 DEF Listed
<1>14. \A i \in old : t.tx[i].txid # txid
  <2> SUFFICES ASSUME NEW i \in old, t.tx[i].txid = txid PROVE FALSE
    OBVIOUS
  <2>1. names < names
    BY <1>2, <1>3
  <2> QED
    BY <1>2, <2>1
<1>15. Aligned(u)
  <2>1. Len(u.event) = Len(u.tx) /\ Len(u.label) = Len(u.tx)
    BY <1>9, <1>10, <1>11
  <2>2. ASSUME NEW i \in 1..Len(u.tx)
        PROVE  /\ u.event[i] = EventRow(u.tx[i].txid) /\ u.label[i].txid = u.tx[i].txid
               /\ u.label[i].truth = Labelled(u.label[i].kind)
    <3>1. CASE i \in old
      BY <3>1, <1>6, <1>9, <1>10, <1>11 DEF Aligned
    <3>2. CASE i = n + 1
      BY <3>2, <1>5, <1>9, <1>10, <1>11
    <3> QED
      BY <1>12, <3>1, <3>2
  <2>3. ASSUME NEW i \in 1..Len(u.tx), NEW j \in 1..Len(u.tx), u.tx[i].txid = u.tx[j].txid
        PROVE  i = j
    <3>1. CASE i \in old /\ j \in old
      BY <3>1, <2>3, <1>6, <1>9 DEF Aligned
    <3>2. CASE i \in old /\ j = n + 1
      BY <3>2, <2>3, <1>5, <1>9, <1>14
    <3>3. CASE i = n + 1 /\ j \in old
      BY <3>3, <2>3, <1>5, <1>9, <1>14
    <3> QED
      BY <1>12, <3>1, <3>2, <3>3
  <2> QED
    BY <2>1, <2>2, <2>3 DEF Aligned
<1>16. /\ \A r \in InputRows(txid, ins) : r.txid = txid
       /\ \A r \in OutputRows(txid, outs) : r.txid = txid
       /\ \A r, q \in InputRows(txid, ins) : r.index = q.index => r = q
       /\ \A r, q \in OutputRows(txid, outs) : r.out = q.out => r = q
  BY <1>1, <1>3, InputRowsOK, OutputRowsOK
<1>17. \A r \in t.input \cup t.output : r.txid # txid
  BY <1>6, <1>14 DEF Referring
<1>18. Referring(u)
  <2>1. ASSUME NEW r \in u.input \cup u.output PROVE \E i \in 1..Len(u.tx) : r.txid = u.tx[i].txid
    <3>1. CASE r.txid = txid
      BY <3>1, <1>5, <1>9, <1>12
    <3>2. CASE r \in t.input \cup t.output
      <4>1. PICK i \in old : r.txid = t.tx[i].txid
        BY <3>2, <1>6 DEF Referring
      <4> QED
        BY <4>1, <1>9, <1>12
    <3> QED
      BY <1>4, <1>16, <3>1, <3>2
  <2>2. ASSUME NEW r \in u.output, NEW q \in u.output, r.txid = q.txid, r.out = q.out PROVE r = q
    <3>1. CASE r.txid = txid
      <4>1. r \in OutputRows(txid, outs) /\ q \in OutputRows(txid, outs)
        BY <1>4, <1>17, <2>2, <3>1
      <4> QED
        BY <1>16, <2>2, <4>1
    <3>2. CASE r.txid # txid
      <4>1. r \in t.output /\ q \in t.output
        BY <1>4, <1>16, <2>2, <3>2
      <4> QED
        BY <1>6, <2>2, <4>1 DEF Referring
    <3> QED
      BY <3>1, <3>2
  <2>3. ASSUME NEW r \in u.input, NEW q \in u.input, r.txid = q.txid, r.index = q.index PROVE r = q
    <3>1. CASE r.txid = txid
      <4>1. r \in InputRows(txid, ins) /\ q \in InputRows(txid, ins)
        BY <1>4, <1>17, <2>3, <3>1
      <4> QED
        BY <1>16, <2>3, <4>1
    <3>2. CASE r.txid # txid
      <4>1. r \in t.input /\ q \in t.input
        BY <1>4, <1>16, <2>3, <3>2
      <4> QED
        BY <1>6, <2>3, <4>1 DEF Referring
    <3> QED
      BY <3>1, <3>2
  <2> QED
    BY <2>1, <2>2, <2>3 DEF Referring
<1>19. Balanced(u, row)
  <2>1. RowsOf(u.input, txid) = InputRows(txid, ins) /\ RowsOf(u.output, txid) = OutputRows(txid, outs)
    BY <1>4, <1>16, <1>17 DEF RowsOf
  <2>2. Value(ins) = Paid(outs) + fee /\ fee >= 0
    BY DEF Paying
  <2> QED
    BY <1>1, <1>3, <2>1, <2>2, NewRowsBalance DEF row
<1>20. ASSUME NEW i \in old PROVE Balanced(u, t.tx[i])
  <2> DEFINE id == t.tx[i].txid
  <2>1. id # txid
    BY <1>14
  <2>2. RowsOf(u.input, id) = RowsOf(t.input, id) /\ RowsOf(u.output, id) = RowsOf(t.output, id)
    BY <1>4, <1>16, <2>1 DEF RowsOf
  <2> QED
    BY <1>6, <2>2 DEF Balanced
<1>21. \A i \in 1..Len(u.tx) : Balanced(u, u.tx[i])
  BY <1>9, <1>12, <1>19, <1>20
<1>22. \A i \in 1..Len(u.tx) : u.tx[i].txid \in Ids /\ u.tx[i].txid.step < names + 1
  <2>1. \A i \in old : u.tx[i].txid \in Ids /\ u.tx[i].txid.step < names + 1
    <3>1. \A k \in Nat : k < names => k < names + 1
      BY <1>2
    <3>2. \A i \in old : t.tx[i].txid.step \in Nat
      BY <1>2 DEF Ids
    <3> QED
      BY <1>2, <1>9, <3>1, <3>2
  <2>2. u.tx[n + 1].txid \in Ids /\ u.tx[n + 1].txid.step < names + 1
    BY <1>2, <1>3, <1>5, <1>9
  <2> QED
    BY <1>12, <2>1, <2>2
<1> QED
  BY <1>13, <1>15, <1>18, <1>21, <1>22 DEF RowsOK, u

\* What is over the length asked for is cut from every table alike.
LEMMA CutOK ==
  ASSUME NEW t, RowsOK(t), Len(t.tx) >= Total
  PROVE  /\ RowsOK(Cut(t)) /\ Len(Cut(t).tx) = Total
         /\ \A i \in 1..Total : Cut(t).tx[i] = t.tx[i] /\ i \in 1..Len(t.tx)
<1> DEFINE n == Len(t.tx)
           u == Cut(t)
           kept == {t.tx[i].txid : i \in 1..Total}
           events == {r \in ToSet(t.event) : r.txid \in kept}
           wanted == {r \in ToSet(t.label) : r.txid \in kept}
<1>1. Listed(t) /\ Aligned(t) /\ Referring(t) /\ \A i \in 1..n : Balanced(t, t.tx[i])
  BY DEF RowsOK
<1>2. PICK S : t.tx \in Seq(S) /\ t.event \in Seq(S) /\ t.label \in Seq(S)
  BY <1>1 DEF Listed
<1>3. /\ n \in Nat /\ Len(t.event) = n /\ Len(t.label) = n
      /\ Total \in 0..n /\ Total \in Nat /\ 1..Total \subseteq 1..n
  BY <1>1, <1>2, DrawsAssumption DEF Aligned
<1>4. \A i \in 1..n : t.tx[i].txid \in kept <=> i <= Total
  <2> SUFFICES ASSUME NEW i \in 1..n PROVE t.tx[i].txid \in kept <=> i <= Total
    OBVIOUS
  <2>1. ASSUME t.tx[i].txid \in kept PROVE i <= Total
    <3>1. PICK j \in 1..Total : t.tx[i].txid = t.tx[j].txid
      BY <2>1
    <3>2. i = j
      BY <1>1, <1>3, <3>1 DEF Aligned
    <3> QED
      BY <1>3, <3>2
  <2>2. ASSUME i <= Total PROVE t.tx[i].txid \in kept
    <3>1. i \in 1..Total
      BY <1>3, <2>2
    <3> QED
      BY <3>1
  <2> QED
    BY <2>1, <2>2
<1>5. /\ u.tx = SubSeq(t.tx, 1, Total) /\ u.event = Only(t.event, events)
      /\ u.label = Only(t.label, wanted)
      /\ u.input = {r \in t.input : r.txid \in kept}
      /\ u.output = {r \in t.output : r.txid \in kept}
  BY DEF Cut, Of
<1> HIDE DEF kept
<1>6. \A i \in 1..n : t.event[i] \in events <=> i <= Total
  <2>1. \A i \in 1..n : t.event[i] \in ToSet(t.event)
    BY <1>2, <1>3 DEF ToSet
  <2>2. \A i \in 1..n : t.event[i].txid = t.tx[i].txid
    BY <1>1, EventIs DEF Aligned
  <2> QED
    BY <1>4, <2>1, <2>2
<1>7. \A i \in 1..n : t.label[i] \in wanted <=> i <= Total
  <2>1. \A i \in 1..n : t.label[i] \in ToSet(t.label) /\ t.label[i].txid = t.tx[i].txid
    BY <1>1, <1>2, <1>3 DEF Aligned, ToSet
  <2> QED
    BY <1>4, <2>1
<1> HIDE DEF events, wanted, u
<1>8. /\ u.event \in Seq(S) /\ Len(u.event) = Total
      /\ \A i \in 1..Total : u.event[i] = t.event[i]
  <2> DEFINE rows == t.event
             first == Only(rows, events)
  <2>1. /\ rows \in Seq(S) /\ Total \in 0..Len(rows)
        /\ \A i \in 1..Len(rows) : rows[i] \in events <=> i <= Total
    BY <1>2, <1>3, <1>6
  <2> HIDE DEF rows
  <2>2. first \in Seq(S) /\ Len(first) = Total /\ \A i \in 1..Total : first[i] = rows[i]
    BY <2>1, OnlyTheFirst
  <2> QED
    BY <1>5, <2>2 DEF rows
<1>9. /\ u.label \in Seq(S) /\ Len(u.label) = Total
      /\ \A i \in 1..Total : u.label[i] = t.label[i]
  <2> DEFINE rows == t.label
             first == Only(rows, wanted)
  <2>1. /\ rows \in Seq(S) /\ Total \in 0..Len(rows)
        /\ \A i \in 1..Len(rows) : rows[i] \in wanted <=> i <= Total
    BY <1>2, <1>3, <1>7
  <2> HIDE DEF rows
  <2>2. first \in Seq(S) /\ Len(first) = Total /\ \A i \in 1..Total : first[i] = rows[i]
    BY <2>1, OnlyTheFirst
  <2> QED
    BY <1>5, <2>2 DEF rows
<1>10. /\ u.tx \in Seq(S) /\ Len(u.tx) = Total
       /\ \A i \in 1..Total : u.tx[i] = t.tx[i]
  BY <1>2, <1>3, <1>5
<1>11. Listed(u)
  BY <1>8, <1>9, <1>10 DEF Listed
<1>12. Aligned(u)
  BY <1>1, <1>3, <1>8, <1>9, <1>10 DEF Aligned
<1>13. ASSUME NEW r \in t.input \cup t.output, r.txid \in kept
       PROVE  \E i \in 1..Total : r.txid = t.tx[i].txid
  BY <1>13 DEF kept
<1>14. Referring(u)
  <2>1. \A r \in u.input \cup u.output : \E i \in 1..Len(u.tx) : r.txid = u.tx[i].txid
    BY <1>5, <1>10, <1>13
  <2>2. /\ \A r, q \in u.input : r.txid = q.txid /\ r.index = q.index => r = q
        /\ \A r, q \in u.output : r.txid = q.txid /\ r.out = q.out => r = q
    BY <1>1, <1>5 DEF Referring
  <2> QED
    BY <2>1, <2>2 DEF Referring
<1>15. ASSUME NEW i \in 1..Total PROVE Balanced(u, t.tx[i])
  <2> DEFINE id == t.tx[i].txid
  <2>1. id \in kept /\ i \in 1..n
    BY <1>3, <1>4
  <2>2. RowsOf(u.input, id) = RowsOf(t.input, id) /\ RowsOf(u.output, id) = RowsOf(t.output, id)
    BY <1>5, <2>1 DEF RowsOf
  <2> QED
    BY <1>1, <2>1, <2>2 DEF Balanced
<1>16. RowsOK(u)
  BY <1>10, <1>11, <1>12, <1>14, <1>15 DEF RowsOK
<1> QED
  BY <1>3, <1>10, <1>16 DEF u

LEMMA Generating ==
  ASSUME Next, ~Export
  PROVE  phase = "generate"
BY DEF Next, Idle, Playing, Normal, BenignHighVolume, StartBurst, BurstPayment, NightPayment,
       FanIn, FanOut, StartMultihop, Hop, StartPeeling, Peel, Mixing, StartCoordinated,
       Coordinated, Whale, Dust

LEMMA TablesStep ==
  ASSUME LedgerInv, TablesInv, [Next]_vars
  PROVE  TablesInv'
<1>0. BookInv /\ SceneInv /\ names \in Nat
  BY DEF LedgerInv, BookInv
<1>n. \A k \in Nat : k < names => k < names + 1
  BY <1>0
<1>1. CASE Export
  <2>1. names' = names /\ phase' = "exported" /\ tables' = Cut(tables) /\ Len(tables.tx) >= Total
    BY <1>1 DEF Export
  <2>2. RowsOK(tables)
    BY DEF TablesInv
  <2>3. /\ RowsOK(tables') /\ Len(tables'.tx) = Total
        /\ \A i \in 1..Total : tables'.tx[i] = tables.tx[i] /\ i \in 1..Len(tables.tx)
    BY <2>1, <2>2, CutOK
  <2>4. \A i \in 1..Len(tables'.tx) : tables'.tx[i].txid \in Ids /\ tables'.tx[i].txid.step < names'
    BY <2>1, <2>3 DEF TablesInv
  <2> QED
    BY <2>3, <2>4 DEF TablesInv
<1>2. CASE Next /\ ~Export
  <2>1. Turns /\ names' = names + 1 /\ phase = "generate"
    BY <1>0, <1>2, Turned, Generating
  <2>2. ASSUME tables' = tables, phase' # "exported" PROVE TablesInv'
    <3>1. RowsOK(tables')
      BY <2>2 DEF TablesInv
    <3>2. \A i \in 1..Len(tables.tx) : tables.tx[i].txid \in Ids /\ tables.tx[i].txid.step < names + 1
      <4>1. \A i \in 1..Len(tables.tx) : tables.tx[i].txid.step \in Nat
        BY DEF TablesInv, Ids
      <4> QED
        BY <1>n, <4>1 DEF TablesInv
    <3> QED
      BY <2>1, <2>2, <3>1, <3>2 DEF TablesInv
  <2>3. CASE Creates
    <3>1. PICK b, ins, outs, fee, kind, who, next : Creation(b, ins, outs, fee, kind, who, next)
      BY <2>3 DEF Creates
    <3>2. CASE Paying(b, ins, outs, fee, kind, who, next)
      <4>1. /\ RowsOK(tables')
            /\ \A i \in 1..Len(tables'.tx) :
                 tables'.tx[i].txid \in Ids /\ tables'.tx[i].txid.step < names + 1
        BY <3>1, <3>2, PayingTables
      <4>2. phase' = phase
        BY <3>2 DEF Paying
      <4> QED
        BY <2>1, <4>1, <4>2 DEF TablesInv
    <3>3. CASE Abort
      BY <2>2, <3>3 DEF Abort
    <3> QED
      BY <3>1, <3>2, <3>3, PayingOrFailing
  <2>4. CASE Abort
    BY <2>2, <2>4 DEF Abort
  <2>5. CASE Moves
    BY <2>1, <2>2, <2>5 DEF Moves
  <2> QED
    BY <2>1, <2>3, <2>4, <2>5 DEF Turns
<1>3. CASE UNCHANGED vars
  BY <1>3 DEF vars, TablesInv
<1> QED
  BY <1>1, <1>2, <1>3

\* Whatever scenarios were played, and wherever in the last of them the length
\* asked for was reached, the exported tables have that length and pass the
\* checks of DatasetValidator.run_all_checks on the keys of five tables, on the
\* references between them, on sums and fees, and on the labels of what is
\* benign.  Nothing is claimed of its checks of amounts and classes, which an
\* export need not pass.
THEOREM ExportPasses == Spec => []ExportIsConsistent
<1>1. Init => TablesInv
  <2> SUFFICES ASSUME Init PROVE TablesInv
    OBVIOUS
  <2>1. /\ tables.tx = <<>> /\ tables.event = <<>> /\ tables.label = <<>>
        /\ tables.input = {} /\ tables.output = {} /\ phase = "generate"
    BY DEF Init
  <2>2. Len(tables.tx) = 0 /\ Len(tables.event) = 0 /\ Len(tables.label) = 0 /\ 1..0 = {}
    BY <2>1, EmptySeq
  <2>3. Listed(tables)
    BY <2>1, EmptySeq DEF Listed
  <2>4. Aligned(tables) /\ Referring(tables)
    BY <2>1, <2>2 DEF Aligned, Referring
  <2> QED
    BY <2>1, <2>2, <2>3, <2>4 DEF TablesInv, RowsOK
<1>2. TablesInv => ExportIsConsistent
  <2> SUFFICES ASSUME TablesInv, phase = "exported"
               PROVE  Len(tables.tx) = Total /\ KeysUnique /\ RowsBelong /\ SumsAgree /\ BenignIsBenign
    BY DEF ExportIsConsistent
  <2> DEFINE n == Len(tables.tx)
  <2>1. /\ Listed(tables) /\ Aligned(tables) /\ Referring(tables)
        /\ \A i \in 1..n : Balanced(tables, tables.tx[i])
    BY DEF TablesInv, RowsOK
  <2>2. PICK S : tables.tx \in Seq(S) /\ tables.event \in Seq(S) /\ tables.label \in Seq(S)
    BY <2>1 DEF Listed
  <2>3. /\ n \in Nat /\ DOMAIN tables.tx = 1..n /\ DOMAIN tables.event = 1..n
        /\ DOMAIN tables.label = 1..n
    BY <2>1, <2>2 DEF Aligned
  <2>e. \A i \in 1..n : /\ tables.event[i].txid = tables.tx[i].txid
                        /\ tables.event[i].event = <<"EVT", tables.tx[i].txid>>
                        /\ tables.label[i].txid = tables.tx[i].txid
    BY <2>1, EventIs DEF Aligned
  <2>k. \A i, j \in 1..n : tables.tx[i].txid = tables.tx[j].txid => i = j
    BY <2>1 DEF Aligned
  <2>4. KeysUnique
    <3>1. Distinct(Column(tables.tx, "txid"))
      BY <2>3, <2>k DEF Distinct, Column
    <3>2. Distinct(Column(tables.event, "event"))
      <4>1. \A i, j \in 1..n : tables.event[i].event = tables.event[j].event => i = j
        BY <2>e, <2>k
      <4> QED
        BY <2>3, <4>1 DEF Distinct, Column
    <3>3. \A r \in EntityRows : \A q \in EntityRows : r.entity = q.entity => r = q
      BY DEF EntityRows
    <3> QED
      BY <2>1, <3>1, <3>2, <3>3 DEF KeysUnique, Referring
  <2>5. RowsBelong
    <3>1. Txids = {tables.tx[i].txid : i \in 1..n}
      BY <2>3 DEF Txids, Values
    <3>2. {r.txid : r \in tables.input} \subseteq Txids /\ {r.txid : r \in tables.output} \subseteq Txids
      BY <2>1, <3>1 DEF Referring
    <3>3. Values(tables.event, "txid") = Txids
      BY <2>3, <2>e, <3>1 DEF Values
    <3>4. Values(tables.label, "txid") = Txids
      BY <2>3, <2>e, <3>1 DEF Values
    <3>5. Distinct(Column(tables.event, "txid"))
      BY <2>3, <2>e, <2>k DEF Distinct, Column
    <3>6. Distinct(Column(tables.label, "txid"))
      BY <2>3, <2>e, <2>k DEF Distinct, Column
    <3> QED
      BY <3>2, <3>3, <3>4, <3>5, <3>6 DEF RowsBelong
  <2>6. SumsAgree
    BY <2>1, <2>3 DEF SumsAgree, Balanced, InputsOf, OutputsOf, RowsOf
  <2>7. BenignIsBenign
    BY <2>1, <2>3 DEF BenignIsBenign, Aligned, Labelled
  <2>8. n = Total
    BY DEF TablesInv
  <2> QED
    BY <2>4, <2>5, <2>6, <2>7, <2>8
<1>3. LedgerInv /\ TablesInv /\ [Next]_vars => TablesInv'
  BY TablesStep
<1> QED
  BY <1>1, <1>2, <1>3, LedgerHolds, PTL DEF Spec
=============================================================================
