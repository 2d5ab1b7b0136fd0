------------------------- MODULE SyntheticLedger -------------------------
(***************************************************************************)
(* SyntheticDatasetGenerator: entities with wallets of unspent outputs     *)
(* play twelve scenarios, each of one or several transactions, until       *)
(* enough transactions are recorded; the tables are then cut to length and *)
(* exported, and validate_synthetic_dataset.py reads them back.            *)
(*                                                                         *)
(* Amounts are in thousands of satoshis, with the code's thresholds (a     *)
(* dust output is 1).  Names that are random in the code (txids, fresh     *)
(* addresses) are distinct here.  A wallet is read in the order in which   *)
(* its outputs came, which decides who spends dust.  Timestamps, block     *)
(* heights, script types and the fields of a network event decide nothing  *)
(* and are left out.                                                       *)
(***************************************************************************)
EXTENDS Integers, Sequences, FiniteSets, FiniteSetsExt, SequencesExt

CONSTANTS
  Entities, Exchanges,  \* the wallets, and those of entity_type exchange
  Initial,    \* bootstrap: the amounts each wallet starts with
  Total,      \* total_transactions
  Quarters,   \* the points of a random range that are drawn, in quarters
  Many,       \* bound on the numbers of inputs, outputs and actors drawn
  Crowd,      \* bound on the 12 outputs a fan-in starts from
  Rounds      \* bound on the lengths of bursts, chains and hops

ASSUME EntitiesAssumption ==
  /\ IsFiniteSet(Entities) /\ Exchanges \subseteq Entities
  /\ Cardinality(Entities \ Exchanges) > 1
ASSUME InitialAssumption == Initial \in [Entities -> Seq(Nat \ {0})]
ASSUME DrawsAssumption ==
  /\ Total \in Nat \ {0} /\ Crowd \in Nat \ {0} /\ Quarters \subseteq 0..4
  /\ Many \subseteq Nat \ {0} /\ Rounds \subseteq Nat \ {0}

VARIABLES
  book,    \* wallets, utxo_pool and address_to_entity
  tables,  \* the six lists of records
  scen,    \* the scenario being played
  phase,   \* of the program: generate, exported, or failed on an assert
  names,   \* how many steps have invented names
  spent    \* history: the keys popped from the pool, read by no code

vars == <<book, tables, scen, phase, names, spent>>

----------------------------------------------------------------------------
(* Random draws, and int() of a share, which truncates towards zero. *)
Draw(lo, hi) == {lo + ((hi - lo) * q) \div 4 : q \in Quarters}

Percent(a, p) ==
  LET part(x) == (x \div 100) * p + ((x % 100) * p) \div 100
  IN IF a >= 0 THEN part(a) ELSE -part(-a)

Share(a, lo, hi) == {Percent(a, p) : p \in Draw(lo, hi)}

Value(coins) == SumFunction([u \in coins |-> u.amt])
Paid(outs) == SumFunction([i \in DOMAIN outs |-> outs[i].amt])

(* A name: the step that invents it, what it names, for whom, which of many. *)
Name(tag, e, i) == [step |-> names, tag |-> tag, e |-> e, i |-> i]
Primary(e) == [step |-> 0, tag |-> "primary", e |-> e, i |-> 0]

Key(u) == [tx |-> u.tx, out |-> u.out]
Coin(tx, out, addr, amt, e) ==
  [tx |-> tx, out |-> out, addr |-> addr, amt |-> amt, owner |-> e]

----------------------------------------------------------------------------
(* The book: utxo_pool, the utxos of every entity, address_to_entity. *)
Updated(old, new) ==
  [a \in DOMAIN old \cup DOMAIN new |-> IF a \in DOMAIN new THEN new[a] ELSE old[a]]

AddAddresses(b, addrs, e) == [b EXCEPT !.owner = Updated(@, [a \in addrs |-> e])]

(* A slip of the book, for the properties to find. *)
RemoveCoinsFromPool(b, coins) == [b EXCEPT !.pool = @ \ coins]

AddCoins(b, coins) ==
  [b EXCEPT !.pool = @ \cup coins,
            !.wallet = [e \in Entities |-> b.wallet[e] \cup {u \in coins : u.owner = e}]]

RemoveCoins(b, coins) ==
  [b EXCEPT !.pool = @ \ coins,
            !.wallet = [e \in Entities |-> b.wallet[e] \ {u \in coins : u.owner = e}]]

IncomeOfAddress(b, e, tag, i, amt) ==
  LET coin == Coin(Name(tag, e, i), 0, Name(tag, e, i), amt, Name(tag, e, i))
  IN [book |-> AddCoins(AddAddresses(b, {coin.addr}, e), {coin}), coin |-> coin]

Income(b, e, tag, i, amt) ==
  LET coin == Coin(Name(tag, e, i), 0, Name(tag, e, i), amt, e)
  IN [book |-> AddCoins(AddAddresses(b, {coin.addr}, e), {coin}), coin |-> coin]

(* A wallet is a dict in order of insertion: an earlier step first, then   *)
(* what a scenario was funded with, then its transaction's outputs.        *)
Older(u, v) ==
  \/ u.tx.step < v.tx.step
  \/ /\ u.tx.step = v.tx.step
     /\ \/ u.tx.tag # "tx" /\ v.tx.tag = "tx"
        \/ u.tx.tag = v.tx.tag /\ u.out < v.out

Oldest(coins) == {u \in coins : \A v \in coins \ {u} : Older(u, v)}

(* The book once e has an output of at least min, and the first of those. *)
FundIfNeeded(b, e, min) ==
  LET spendable == {u \in b.wallet[e] : u.amt >= min}
  IN IF spendable # {}
     THEN {[book |-> b, coin |-> u] : u \in Oldest(spendable)}
     ELSE {Income(b, e, "topup", 0, Max({2 * min, 100000}))}

Sole(f) == {f.coin}

(* The first n outputs of a wallet, whatever they are worth. *)
SomeCoins(b, e, n) ==
  {s \in kSubset(Min({n, Cardinality(b.wallet[e])}), b.wallet[e]) :
     \A u \in s : \A v \in b.wallet[e] \ s : Older(u, v)}

Bootstrap ==
  LET addr(e, i) == IF i = 1 THEN Primary(e)
                    ELSE [step |-> 0, tag |-> "init", e |-> e, i |-> i]
      coins == {Coin([step |-> 0, tag |-> "init", e |-> c[1], i |-> c[2]], c[2] - 1,
                     addr(c[1], c[2]), Initial[c[1]][c[2]], c[1]) :
                c \in UNION {{e} \X DOMAIN Initial[e] : e \in Entities}}
  IN [pool |-> coins,
      wallet |-> [e \in Entities |-> {u \in coins : u.owner = e}],
      owner |-> [a \in {u.addr : u \in coins} \cup {Primary(e) : e \in Entities} |-> a.e]]

----------------------------------------------------------------------------
(* An output asked for: [addr, amt, change]. *)
Pay(addr, amt) == [addr |-> addr, amt |-> amt, change |-> FALSE]
Change(addr, amt) == [addr |-> addr, amt |-> amt, change |-> TRUE]

NoScen == [kind |-> "none"]
Labelled(kind) == IF kind \in {"normal", "benign_high_volume"} THEN 0 ELSE 1

(* The recipient of an output: the sender if it is change, else the entity *)
(* of its address; an address nobody has is given to a random entity.      *)
Heirs(b, outs) ==
  [{o.addr : o \in {o \in ToSet(outs) : ~o.change}} \ DOMAIN b.owner -> Entities]

Received(b, txid, outs, who, heirs) ==
  LET owner == Updated(b.owner, heirs)
  IN {Coin(txid, i - 1, outs[i].addr, outs[i].amt,
           IF outs[i].change THEN who ELSE owner[outs[i].addr]) : i \in DOMAIN outs}

Settled(b, txid, ins, outs, who, heirs) ==
  AddCoins([RemoveCoins(b, ins) EXCEPT !.owner = Updated(@, heirs)],
           Received(b, txid, outs, who, heirs))

(* One row of every table. *)
TxRow(txid, ins, outs, fee) ==
  [txid |-> txid, inCount |-> Cardinality(ins), outCount |-> Len(outs),
   in |-> Value(ins), out |-> Paid(outs), fee |-> fee]
InputRow(txid, i, u) ==
  [txid |-> txid, index |-> i - 1, addr |-> u.addr, amt |-> u.amt, prev |-> Key(u)]
InputRows(txid, ins) ==  \* which of them has which index decides nothing
  LET order == SetToSeq(ins) IN {InputRow(txid, i, order[i]) : i \in DOMAIN order}
OutputRows(txid, outs) ==
  {[txid |-> txid, out |-> i - 1, addr |-> outs[i].addr, amt |-> outs[i].amt,
    change |-> outs[i].change] : i \in DOMAIN outs}
EventRow(txid) == [event |-> <<"EVT", txid>>, txid |-> txid]
LabelRow(txid, kind, who) ==
  [txid |-> txid, entity |-> who, kind |-> kind, truth |-> Labelled(kind)]
SihRow(txid, ins, outs, fee) ==
  [txid |-> txid, ins |-> {<<u.addr, u.amt>> : u \in ins},
   outs |-> [i \in DOMAIN outs |-> <<outs[i].addr, outs[i].amt>>], fee |-> fee]

Recorded(txid, ins, outs, fee, kind, who) ==
  [tx     |-> Append(tables.tx, TxRow(txid, ins, outs, fee)),
   input  |-> tables.input \cup InputRows(txid, ins),
   output |-> tables.output \cup OutputRows(txid, outs),
   event  |-> Append(tables.event, EventRow(txid)),
   label  |-> Append(tables.label, LabelRow(txid, kind, who)),
   sih    |-> Append(tables.sih, SihRow(txid, ins, outs, fee))]

(* _create_transaction on the book b, then the scenario goes on with next. *)
CreateTransaction(b, ins, outs, fee, kind, who, next) ==
  LET txid == Name("tx", who, 0)
  IN IF Value(ins) = Paid(outs) + fee /\ fee >= 0
     THEN /\ \E heirs \in Heirs(b, outs) :
               book' = Settled(b, txid, ins, outs, who, heirs)
          /\ tables' = Recorded(txid, ins, outs, fee, kind, who)
          /\ spent' = spent \cup {Key(u) : u \in ins}
          /\ scen' = next
          /\ UNCHANGED phase
     ELSE /\ phase' = "failed"
          /\ UNCHANGED <<book, tables, spent, scen>>

Abort == phase' = "failed" /\ UNCHANGED <<book, tables, spent, scen>>

(* A scenario of several transactions begins with the book it is funded by. *)
Begin(f, next) == book' = f.book /\ scen' = next /\ UNCHANGED <<tables, phase, spent>>

(* generate() picks a scenario while too few transactions are recorded. *)
Idle == /\ phase = "generate"
        /\ scen = NoScen
        /\ Len(tables.tx) < Total
Playing(kind) == phase = "generate" /\ scen.kind = kind
Step == names' = names + 1

----------------------------------------------------------------------------
(* A payment may be of nothing: a slip, for the properties to find. *)
CoveredOrNothing(avail) == avail >= 0

(* assert avail > 0 *)
Covered(avail) == avail > 0

(* A payment by an entity that is no exchange, from one to three outputs. *)
PayOne(f, ins, sender, recipient, mode) ==
  \E fee \in Draw(2, 15) :
    LET avail == Value(ins) - fee
        fresh == Name("change", sender, 0)
    IN IF ~Covered(avail)
       THEN Abort
       ELSE \E part \in Share(avail, 15, 85) :
            LET send == Max({10, part})
            IN IF mode = "sweep" \/ avail - send < 5
               THEN CreateTransaction(f.book, ins, <<Pay(Primary(recipient), avail)>>,
                                      fee, "normal", sender, NoScen)
               ELSE CreateTransaction(AddAddresses(f.book, {fresh}, sender), ins,
                      <<Pay(Primary(recipient), send), Change(fresh, avail - send)>>,
                      fee, "normal", sender, NoScen)

Normal ==
  /\ Idle /\ Step
  /\ \E sender \in Entities \ Exchanges : \E recipient \in Entities \ {sender} :
       \/ \E f \in FundIfNeeded(book, sender, 30000) :
            PayOne(f, Sole(f), sender, recipient, "split")
       \/ \E f \in FundIfNeeded(book, sender, 15000) :
            \E ins \in SomeCoins(f.book, sender, 2) : PayOne(f, ins, sender, recipient, "split")
       \/ \E f \in FundIfNeeded(book, sender, 10000) :
            \E ins \in SomeCoins(f.book, sender, 3) : PayOne(f, ins, sender, recipient, "split")
       \/ \E f \in FundIfNeeded(book, sender, 20000) :
            PayOne(f, Sole(f), sender, recipient, "sweep")

(* A batch of equal payments by an exchange, if there is one. *)
PayBatch(f, sender) ==
  \E n \in Many, m \in Many, fee \in Draw(10, 50) :
  \E ins \in SomeCoins(f.book, sender, n), recipients \in [1..m -> Entities] :
    LET avail == Value(ins) - fee
        fresh == Name("change", sender, 0)
    IN \E kept \in Share(avail, 15, 65) :
       LET each == (avail - kept) \div m
       IN CreateTransaction(
            AddAddresses(f.book, {fresh}, sender), ins,
            [i \in 1..m |-> Pay(Primary(recipients[i]), each)]
              \o <<Change(fresh, avail - each * m)>>,
            fee, "benign_high_volume", sender, NoScen)

BenignHighVolume ==
  /\ Idle /\ Step
  /\ \E sender \in IF Exchanges # {} THEN Exchanges ELSE Entities :
     \E f \in FundIfNeeded(book, sender, 200000) : PayBatch(f, sender)

(* Bursts: the entity is funded, and again before each of the payments, to *)
(* somebody's primary address or to fresh addresses at night.              *)
StartBurst ==
  /\ Idle /\ Step
  /\ \E e \in Entities, n \in Rounds, kind \in {"transaction_burst", "temporal_anomaly"} :
     \E f \in FundIfNeeded(book, e, 50000) :
       Begin(f, [kind |-> kind, left |-> n, who |-> e])

OneFewer == IF scen.left = 1 THEN NoScen ELSE [scen EXCEPT !.left = @ - 1]

(* One output split between somebody's address and a fresh one of the sender. *)
Split(f, e, to, fee, lo, hi, next) ==
  LET avail == f.coin.amt - fee
      fresh == Name("change", e, 0)
  IN \E send \in Share(avail, lo, hi) :
       CreateTransaction(
         AddAddresses(f.book, {fresh}, e), {f.coin},
         <<Pay(to, send), Change(fresh, avail - send)>>,
         fee, scen.kind, e, next)

BurstPayment ==
  /\ Playing("transaction_burst") /\ Step
  /\ \E f \in FundIfNeeded(book, scen.who, 50000), recipient \in Entities, fee \in Draw(5, 20) :
       Split(f, scen.who, Primary(recipient), fee, 25, 75, OneFewer)

NightPayment ==
  /\ Playing("temporal_anomaly") /\ Step
  /\ \E f \in FundIfNeeded(book, scen.who, 50000), fee \in Draw(4, 9) :
       Split(f, scen.who, Name("dest", scen.who, 0), fee, 20, 75, OneFewer)

(* Many outputs of one wallet gathered into one. *)
Needed(e) == 1..Max({0, Crowd - Cardinality(book.wallet[e])})

Crowded(e, amts, addrs) ==
  LET income == {Coin(Name("fund", e, i), i - 1, Name("fund", e, i), amts[i], e) :
                 i \in DOMAIN amts}
  IN AddCoins(AddAddresses(book, {u.addr : u \in income} \cup addrs, e), income)

Gather(e, amts) ==
  LET dest == Name("dest", e, 0)
      fresh == Name("change", e, 0)
  IN \E fee \in Draw(15, 45), n \in Many :
       \/ \E ins \in SomeCoins(Crowded(e, amts, {dest, fresh}), e, n) :
          \E kept \in Share(Value(ins) - fee, 10, 30) :
            CreateTransaction(Crowded(e, amts, {dest, fresh}), ins,
              <<Pay(dest, Value(ins) - fee - kept), Change(fresh, kept)>>,
              fee, "high_fan_in", e, NoScen)
       \/ \E ins \in SomeCoins(Crowded(e, amts, {dest}), e, n) :
            CreateTransaction(Crowded(e, amts, {dest}), ins, <<Pay(dest, Value(ins) - fee)>>,
              fee, "high_fan_in", e, NoScen)

FanIn ==
  /\ Idle /\ Step
  /\ \E e \in Entities : \E amts \in [Needed(e) -> Draw(5000, 20000)] : Gather(e, amts)

(* One or two outputs of a wallet paid to fresh addresses of nobody yet. *)
Scatter(f, ins, e) ==
  \E fee \in Draw(20, 60), n \in Many :
    LET avail == Value(ins) - fee
        fresh == Name("change", e, 0)
    IN \E out \in Share(avail, 60, 90) :
       LET each == out \div n
       IN CreateTransaction(
            AddAddresses(f.book, {fresh}, e), ins,
            [i \in 1..n |-> Pay(Name("out", e, i), each)]
              \o <<Change(fresh, avail - each * n)>>,
            fee, "high_fan_out", e, NoScen)

FanOut ==
  /\ Idle /\ Step
  /\ \E e \in Entities : \E f \in FundIfNeeded(book, e, 150000) :
       \/ Scatter(f, Sole(f), e)
       \/ /\ Cardinality(f.book.wallet[e]) >= 2
          /\ \E ins \in SomeCoins(f.book, e, 2) : Scatter(f, ins, e)

(* Hops: what an entity receives is passed on at once. *)
StartMultihop ==
  /\ Idle /\ Step
  /\ \E e \in Entities, n \in Rounds :
     \E f \in FundIfNeeded(book, e, 100000) :
       Begin(f, [kind |-> "rapid_multihop", left |-> n, who |-> e, key |-> Key(f.coin)])

(* The loop ends after its count, or when the output it follows is gone. *)
Follow(key, who) ==
  IF scen.left = 1 THEN NoScen
  ELSE [scen EXCEPT !.left = @ - 1, !.who = who, !.key = key]

Hop ==
  /\ Playing("rapid_multihop") /\ Step
  /\ \E coin \in {u \in book.pool : Key(u) = scen.key}, to \in Entities \ {scen.who} :
     \E fee \in Draw(3, 10), partial \in BOOLEAN :
     LET avail == coin.amt - fee
         dest == Name("dest", to, 0)
         fresh == Name("change", scen.who, 0)
         b == AddAddresses(book, {dest}, to)
     IN \E kept \in IF partial THEN Share(avail, 5, 25) ELSE {0} :
        CreateTransaction(
          IF partial THEN AddAddresses(b, {fresh}, scen.who) ELSE b, {coin},
          IF partial THEN <<Pay(dest, avail - kept), Change(fresh, kept)>>
                     ELSE <<Pay(dest, avail)>>,
          fee, "rapid_multihop", scen.who,
          Follow([tx |-> Name("tx", scen.who, 0), out |-> 0], to))

(* A chain that peels a small payment off its change, again and again. *)
StartPeeling ==
  /\ Idle /\ Step
  /\ \E e \in Entities, n \in Rounds :
     \E f \in FundIfNeeded(book, e, 250000) :
       Begin(f, [kind |-> "peeling_chain", left |-> n, who |-> e, key |-> Key(f.coin)])

Peel ==
  /\ Playing("peeling_chain") /\ Step
  /\ \E coin \in {u \in book.pool : Key(u) = scen.key} :
     LET e == scen.who
         fresh == Name("change", e, 0)
         b == AddAddresses(book, {fresh}, e)
     IN \E fee \in Draw(2, 8), part \in Share(coin.amt, 5, 30) :
        IF coin.amt - part - fee <= 10
        THEN /\ book' = b
             /\ scen' = NoScen
             /\ UNCHANGED <<tables, phase, spent>>
        ELSE CreateTransaction(b, {coin},
               <<Pay(Name("dest", e, 0), part), Change(fresh, coin.amt - part - fee)>>,
               fee, "peeling_chain", e,
               Follow([tx |-> Name("tx", e, 0), out |-> 1], e))

(* A joint transaction of several participants, one of them its sender: each *)
(* puts in the first of its outputs, or a new one when that is too small.    *)
(* The shuffle of the outputs decides which of a participant's two it gets   *)
(* first.                                                                    *)
MixCoins(e, i, need) ==
  LET first == {u \in Oldest(book.wallet[e]) : u.amt >= need}
  IN IF first # {} THEN first ELSE {Coin(Name("fund", e, i), 0, Name("fund", e, i), need, e)}

Contributions(who, needs) ==
  {c \in [DOMAIN who -> UNION {MixCoins(who[i], i, needs[i]) : i \in DOMAIN who}] :
     \A i \in DOMAIN who : c[i] \in MixCoins(who[i], i, needs[i])}

MixTogether(who, coins, denom, feePer, paidFirst) ==
  LET added == Range(coins) \ book.pool
      fresh == {Name(tag, who[i], i) : tag \in {"mix", "change"}, i \in DOMAIN who}
                 \cup {u.addr : u \in added}
      mixed(i) == Pay(Name("mix", who[i], i), denom)
      rest(i) == Change(Name("change", who[i], i), coins[i].amt - denom - feePer)
      outs == [i \in DOMAIN who |-> IF i \in paidFirst THEN mixed(i) ELSE rest(i)] \o
              [i \in DOMAIN who |-> IF i \in paidFirst THEN rest(i) ELSE mixed(i)]
  IN CreateTransaction(
       AddCoins([book EXCEPT !.owner = Updated(@, [a \in fresh |-> a.e])], added),
       Range(coins), outs, Value(Range(coins)) - Paid(outs), "mixing_like", who[1], NoScen)

Mix(n, denom, feePer) ==
  \E who \in Injection(1..n, Entities), excess \in [1..n -> Share(denom, 50, 250)],
     paidFirst \in SUBSET (1..n) :
  \E coins \in Contributions(who, [i \in 1..n |-> denom + feePer + excess[i]]) :
    MixTogether(who, coins, denom, feePer, paidFirst)

Mixing ==
  /\ Idle /\ Step
  /\ \E n \in Many, denom \in {1000, 25000}, feePer \in Draw(4, 12) : Mix(n, denom, feePer)

(* Several actors pay one after the other to the same fresh address. *)
StartCoordinated ==
  /\ Idle /\ Step
  /\ \E n \in Many : \E actors \in Injection(1..n, Entities) :
       scen' = [kind |-> "coordinated_activity", actors |-> actors,
                sink |-> Name("sink", actors[1], 0)]
  /\ UNCHANGED <<book, tables, phase, spent>>

NextActor == IF Len(scen.actors) = 1 THEN NoScen ELSE [scen EXCEPT !.actors = Tail(@)]

Coordinated ==
  /\ Playing("coordinated_activity") /\ Step
  /\ \E f \in FundIfNeeded(book, Head(scen.actors), 30000), fee \in Draw(3, 10) :
       Split(f, Head(scen.actors), scen.sink, fee, 30, 70, NextActor)

(* A whale: the output found is given another amount before it is spent. *)
PayAsWhale(f, e, sats) ==
  LET coin == [f.coin EXCEPT !.amt = sats]
  IN \E fee \in Draw(30, 150) :
       CreateTransaction(
         AddCoins(RemoveCoins(f.book, {f.coin}), {coin}), {coin},
         <<Pay(Name("dest", e, 0), sats - fee)>>, fee, "amount_anomaly", e, NoScen)

Whale ==
  /\ Idle /\ Step
  /\ \E e \in Entities : \E sats \in Draw(1000000, 25000000) :
     \E f \in FundIfNeeded(book, e, sats + 500000) : PayAsWhale(f, e, sats)

PayDust(f, e) ==
  LET fresh == Name("change", e, 0)
  IN \E fee \in Draw(5, 15), n \in Many :
       CreateTransaction(
         AddAddresses(f.book, {fresh}, e), {f.coin},
         [i \in 1..n |-> Pay(Name("out", e, i), 1)]
           \o <<Change(fresh, f.coin.amt - n - fee)>>,
         fee, "amount_anomaly", e, NoScen)

Dust ==
  /\ Idle /\ Step
  /\ \E e \in Entities : \E f \in FundIfNeeded(book, e, 20000) : PayDust(f, e)

----------------------------------------------------------------------------
(* The rows of a list that are wanted, in their order. *)
Only(rows, wanted) ==
  FoldLeft(LAMBDA sofar, r : IF r \in wanted THEN Append(sofar, r) ELSE sofar, <<>>, rows)
Of(rows, kept) == Only(rows, {r \in ToSet(rows) : r.txid \in kept})

(* A cut that forgets the inputs. *)
CutOutputs(t) ==
  LET kept == {t.tx[i].txid : i \in 1..Total}
  IN [t EXCEPT !.tx = SubSeq(t.tx, 1, Total),
               !.output = {r \in t.output : r.txid \in kept},
               !.event = Of(t.event, kept),
               !.label = Of(t.label, kept)]

(* What is over the length asked for is cut from every table. *)
Cut(t) ==
  LET kept == {t.tx[i].txid : i \in 1..Total}
  IN [tx     |-> SubSeq(t.tx, 1, Total),
      input  |-> {r \in t.input : r.txid \in kept},
      output |-> {r \in t.output : r.txid \in kept},
      event  |-> Of(t.event, kept),
      label  |-> Of(t.label, kept),
      sih    |-> Of(t.sih, kept)]

(* The table of entities is written from the wallets as they are at the end. *)
EntityRows == {[entity |-> e, volume |-> Value(book.wallet[e])] : e \in Entities}

Export ==
  /\ phase = "generate" /\ scen = NoScen
  /\ Len(tables.tx) >= Total
  /\ phase' = "exported"
  /\ tables' = Cut(tables)
  /\ UNCHANGED <<book, scen, names, spent>>

----------------------------------------------------------------------------
Init ==
  /\ book = Bootstrap
  /\ tables = [tx |-> <<>>, input |-> {}, output |-> {}, event |-> <<>>,
               label |-> <<>>, sih |-> <<>>]
  /\ scen = NoScen
  /\ phase = "generate"
  /\ names = 1
  /\ spent = {}

Next ==
  \/ Normal \/ BenignHighVolume
  \/ StartBurst \/ BurstPayment \/ NightPayment
  \/ FanIn \/ FanOut
  \/ StartMultihop \/ Hop
  \/ StartPeeling \/ Peel
  \/ Mixing
  \/ StartCoordinated \/ Coordinated
  \/ Whale \/ Dust
  \/ Export

Spec == Init /\ [][Next]_vars

----------------------------------------------------------------------------
Tags == {"primary", "init", "topup", "fund", "tx", "change", "dest", "out", "mix", "sink"}
Ids == [step : Nat, tag : Tags, e : Entities, i : Nat]
Keys == [tx : Ids, out : Nat]
Coins == [tx : Ids, out : Nat, addr : Ids, amt : Int, owner : Entities]

TypeOK ==
  /\ book.pool \subseteq Coins
  /\ book.wallet \in [Entities -> SUBSET Coins]
  /\ DOMAIN book.owner \subseteq Ids /\ Range(book.owner) \subseteq Entities
  /\ \A r \in tables.input :
       r.txid \in Ids /\ r.index \in Nat /\ r.addr \in Ids /\ r.amt \in Int /\ r.prev \in Keys
  /\ \A r \in tables.output : r.txid \in Ids /\ r.addr \in Ids /\ r.amt \in Int /\ r.out \in Nat
  /\ phase \in {"generate", "exported", "failed"}
  /\ names \in Nat
  /\ spent \subseteq Keys

(* No output is spent twice: two rows of the inputs never name the same     *)
(* previous output, and what was spent is in no wallet, whichever scenario  *)
(* chose it (the pop from utxo_pool and remove_utxo of the wallet).         *)
SpentOnce ==
  /\ \A r \in tables.input : \A q \in tables.input : r.prev = q.prev => r = q
  /\ \A e \in Entities : \A u \in book.wallet[e] : Key(u) \notin spent

(* The pool, which chains follow, and the wallets, which all other scenarios *)
(* draw from, hold the same outputs at the same amounts, one wallet each;    *)
(* every output recorded so far is held by one of them or has been spent,    *)
(* once.                                                                     *)
BooksAgree ==
  /\ SpentOnce
  /\ book.pool = UNION {book.wallet[e] : e \in Entities}
  /\ \A e \in Entities : \A u \in book.wallet[e] : u.owner = e
  /\ \A u \in book.pool, v \in book.pool : Key(u) = Key(v) => u = v
  /\ \A r \in tables.output :
       LET key == [tx |-> r.txid, out |-> r.out]
       IN key \in spent \/ \E u \in book.pool : Key(u) = key /\ u.addr = r.addr

============================================================================
