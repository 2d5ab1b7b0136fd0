------------------------- MODULE StreamingLedger -------------------------
(***************************************************************************)
(* StreamingSyntheticGenerator: rows are generated one at a time from a    *)
(* bounded pool of unspent outputs, buffered in chunks, and written to a   *)
(* file whose manifest is counted on the way.                              *)
(*                                                                         *)
(* Amounts are in satoshis.  Addresses, script types, timestamps and the   *)
(* fields of the telemetry are left out, but for its three categories,     *)
(* which the manifest counts.                                              *)
(***************************************************************************)
EXTENDS Integers, Sequences, FiniteSets, FiniteSetsExt, SequencesExt

CONSTANTS
  Rows,        \* total_rows
  ChunkSizes,  \* the values of chunk_size
  PoolMax,     \* max_utxo_pool_size, 30000 in the code
  Boot,        \* the outputs a bootstrap adds, 5000 in the code
  Reserve,     \* the pool is replenished below this, 500 in the code
  Seeds,       \* amounts of a bootstrap, 50000 to 5 BTC in the code
  Boosts,      \* what a whale's input is raised by, 50 to 250 BTC in the code
  Few, Many,   \* numbers of inputs and outputs: 1 to 3, and 5 to 10 in the code
  BurstSizes,  \* 4 to 10 in the code
  Telemetry,   \* the categories of network events a row may draw
  Quarters     \* the points of a random range that are drawn, in quarters

ASSUME SizesAssumption ==
  /\ {Rows, PoolMax, Boot} \cup ChunkSizes \subseteq Nat \ {0} /\ Reserve \in Nat /\ Boot <= PoolMax
  /\ \A n \in Few \cup Many : n \in Nat \ {0} /\ n <= Boot /\ n + Reserve + Boot <= PoolMax + 1
  /\ Seeds \cup Boosts \cup BurstSizes \subseteq Nat \ {0} /\ Quarters \subseteq 0..4
  /\ Telemetry \subseteq {"mapped", "unmapped", "private"}

VARIABLES
  chunk,     \* chunk_size, which no step changes
  pool,      \* utxo_pool
  boots,     \* how often it was bootstrapped
  seq,       \* rows generated
  burst,     \* burst_remaining
  buffer,    \* chunk_buffer
  file,      \* the rows written
  counts,    \* the counters of the manifest
  clusters,  \* anomalous_clusters
  done,      \* whether the manifest is written
  gone       \* history: the outputs spent or evicted, read by no code

vars == <<chunk, pool, boots, seq, burst, buffer, file, counts, clusters, done, gone>>

----------------------------------------------------------------------------
Draw(lo, hi) == {lo + ((hi - lo) * q) \div 4 : q \in Quarters}
Percent(a, p) == (a \div 100) * p + ((a % 100) * p) \div 100
Total(amts) == FoldLeft(LAMBDA sum, a : sum + a, 0, amts)
Amounts(coins) == [i \in DOMAIN coins |-> coins[i].amt]

ReplenishByTheSameNames(n) ==
  IF Cardinality(pool) < n + Reserve
  THEN {pool \cup {[tx |-> 0, out |-> i, amt |-> amts[i]] : i \in 1..Boot} :
          amts \in [1..Boot -> Seeds]}
  ELSE {pool}

(* The pool once an n-fold transaction can be drawn from it. *)
Replenish(n) ==
  IF Cardinality(pool) < n + Reserve
  THEN {pool \cup {[tx |-> -boots, out |-> i, amt |-> amts[i]] : i \in 1..Boot} :
          amts \in [1..Boot -> Seeds]}
  ELSE {pool}

Orders(coins, n) == {s \in [1..n -> coins] : \A i, j \in 1..n : s[i] = s[j] => i = j}

AddCoinsWithoutLimit(p, coins) == {p \cup Range(coins)}

(* The pools after coins are added one by one: each of them takes a random *)
(* place when the pool is full, which only a later one can take from it.   *)
AddCoins(p, coins) ==
  LET all == p \cup Range(coins)
      over == Max({0, Cardinality(all) - PoolMax})
  IN {all \ evicted : evicted \in kSubset(over, all \ {Last(coins)})}

----------------------------------------------------------------------------
(* One transaction. *)
Scenarios == {"SCEN_NORMAL", "SCEN_BURST", "SCEN_FAN_IN", "SCEN_FAN_OUT",
              "SCEN_PEELING", "SCEN_COORDINATED", "SCEN_HIGH_VOL", "SCEN_ADDRESS_REUSE"}

InCounts(s) == CASE s = "SCEN_FAN_IN" -> Many
                 [] s \in {"SCEN_FAN_OUT", "SCEN_PEELING"} -> {1}
                 [] OTHER -> Few
OutCounts(s) == CASE s = "SCEN_FAN_IN" -> {1}
                  [] s = "SCEN_FAN_OUT" -> Many
                  [] s = "SCEN_PEELING" -> {2}
                  [] OTHER -> Few

(* The input amounts of the row: a whale's first input is raised, and so is *)
(* one that cannot pay a fee and 1000 for every output.                     *)
Raised(amts, by) == [amts EXCEPT ![1] = @ + by]

Funded(s, amts, n) ==
  {LET total == Total(boosted) IN
     IF total <= n * 1000 + 500 THEN Raised(boosted, n * 1000 + 1500 - total) ELSE boosted :
   boosted \in IF s = "SCEN_HIGH_VOL" THEN {Raised(amts, by) : by \in Boosts} ELSE {amts}}

FeeAt(rate, total, ins, n) ==
  Max({500, Min({(10 + ins * 148 + n * 34) * rate, total - n * 1000})})

PartWithoutReserve(rem, left, u, r) ==
  IF rem <= 1000 THEN 1000 ELSE 1000 + ((Max({1001, Percent(rem, 10 + 15 * u)}) - 1000) * r) \div 4

(* A split of an amount in n parts, in which those to come keep 1000 each. *)
Part(rem, left, u, r) ==
  LET most == rem - left * 1000
      top == Max({1001, Percent(most, 10 + 15 * u)})
  IN IF most <= 1000 THEN 1000 ELSE 1000 + ((top - 1000) * r) \div 4

Split(amt, n, us, rs) ==
  LET next(parts, i) == Append(parts, Part(amt - Total(parts), n - i, us[i], rs[i]))
      parts == FoldLeft(next, <<>>, [i \in 1..(n - 1) |-> i])
  IN Append(parts, amt - Total(parts))

Outputs(s, amt, n) ==
  CASE s = "SCEN_PEELING" ->
         {<<Min({r, Max({1000, amt \div 3})}), amt - Min({r, Max({1000, amt \div 3})})>> :
            r \in Draw(10000, 500000)}
    [] s = "SCEN_ADDRESS_REUSE" /\ n > 1 ->
         {<<Max({1000, Percent(amt, p)}), amt - Max({1000, Percent(amt, p)})>> : p \in Draw(30, 70)}
    [] s # "SCEN_PEELING" /\ n = 1 -> {<<amt>>}
    [] OTHER -> {Split(amt, n, us, rs) :
                   us \in [1..(n - 1) -> Quarters], rs \in [1..(n - 1) -> Quarters]}

----------------------------------------------------------------------------
(* Row number seq + 1 of scenario s, and its place in the manifest. *)
Count(s, tel) == [counts EXCEPT !.scenario[s] = @ + 1, !.telemetry[tel] = @ + 1]

(* A row joins the buffer; a full buffer goes to the file. *)
Store(row) ==
  IF Len(buffer) + 1 >= chunk
  THEN file' = file \o Append(buffer, row) /\ buffer' = <<>>
  ELSE buffer' = Append(buffer, row) /\ UNCHANGED file

Transaction(s, tel) ==
  \E ins \in InCounts(s), n \in OutCounts(s), rate \in Draw(8, 45) :
  \E p \in Replenish(ins) : \E spent \in Orders(p, ins) : \E amts \in Funded(s, Amounts(spent), n) :
  LET fee == FeeAt(rate, Total(amts), ins, n)
  IN \E outs \in Outputs(s, Total(amts) - fee, n) :
     LET coins == [i \in DOMAIN outs |-> [tx |-> seq + 1, out |-> i - 1, amt |-> outs[i]]]
         kept == p \ Range(spent)
     IN /\ pool' \in AddCoins(kept, coins)
        /\ gone' = gone \cup ((p \cup Range(coins)) \ pool')
        /\ boots' = IF p = pool THEN boots ELSE boots + 1
        /\ counts' = Count(s, tel)
        /\ Store([seq |-> seq + 1, scenario |-> s, spent |-> spent,
                  ins |-> amts, outs |-> outs, fee |-> fee])
        /\ seq' = seq + 1

Room == ~done /\ seq < Rows

(* A row of its own, the first of a burst, or the next of one. *)
SingleRow ==
  /\ Room /\ burst = 0
  /\ \E s \in Scenarios, tel \in Telemetry : Transaction(s, tel)
  /\ UNCHANGED <<chunk, burst, clusters, done>>

FirstOfBurst ==
  /\ Room /\ burst = 0
  /\ \E n \in BurstSizes :
       /\ burst' = n - 1
       /\ clusters' = Append(clusters, [start |-> seq + 1, count |-> n])
  /\ Transaction("SCEN_BURST", "mapped")
  /\ UNCHANGED <<chunk, done>>

NextOfBurst ==
  /\ Room /\ burst > 0
  /\ burst' = burst - 1
  /\ Transaction("SCEN_BURST", "mapped")
  /\ UNCHANGED <<chunk, clusters, done>>

FinishWithoutFlush ==
  /\ ~done /\ seq = Rows
  /\ buffer' = <<>>
  /\ done' = TRUE
  /\ UNCHANGED <<chunk, pool, boots, seq, burst, file, counts, clusters, gone>>

(* The rest of the buffer, and the manifest. *)
Finish ==
  /\ ~done /\ seq = Rows
  /\ file' = file \o buffer /\ buffer' = <<>>
  /\ done' = TRUE
  /\ UNCHANGED <<chunk, pool, boots, seq, burst, counts, clusters, gone>>

Init ==
  /\ chunk \in ChunkSizes
  /\ pool \in {{[tx |-> 0, out |-> i, amt |-> amts[i]] : i \in 1..Boot} : amts \in [1..Boot -> Seeds]}
  /\ boots = 1 /\ seq = 0 /\ burst = 0
  /\ buffer = <<>> /\ file = <<>> /\ clusters = <<>>
  /\ counts = [scenario |-> [s \in Scenarios |-> 0],
               telemetry |-> [t \in {"mapped", "unmapped", "private"} |-> 0]]
  /\ done = FALSE /\ gone = {}

Next == SingleRow \/ FirstOfBurst \/ NextOfBurst \/ Finish

Spec == Init /\ [][Next]_vars

----------------------------------------------------------------------------
Coins == [tx : Int, out : Nat, amt : Nat]
Lines == file \o buffer

TypeOK ==
  /\ pool \subseteq Coins /\ gone \subseteq Coins
  /\ Cardinality(pool) <= PoolMax
  /\ boots \in Nat /\ seq \in 0..Rows /\ burst \in Nat
  /\ \A i \in DOMAIN Lines : Lines[i].seq = i /\ Lines[i].scenario \in Scenarios
  /\ counts.scenario \in [Scenarios -> Nat]
  /\ done \in BOOLEAN

(* What a row spends are different outputs; it pays exactly what it spends, *)
(* a fee of 500 or more, and 1000 or more to every output ("guaranteeing    *)
(* every output >= 1000"; a reused address may leave 600), whatever was     *)
(* drawn and however little the inputs were worth.                          *)
RowIsSound(row) ==
  /\ Cardinality(Range(row.spent)) = Len(row.spent)
  /\ Total(row.ins) = Total(row.outs) + row.fee
  /\ row.fee >= 500
  /\ \A o \in Range(row.outs) :
       o >= IF row.scenario = "SCEN_ADDRESS_REUSE" THEN 600 ELSE 1000

KeyOf(coins) == {[tx |-> c.tx, out |-> c.out] : c \in coins}
SpentOnce ==
  \A i, j \in DOMAIN Lines : i # j =>
    KeyOf(Range(Lines[i].spent)) \cap KeyOf(Range(Lines[j].spent)) = {}

(* Every row is sound by itself, and no two rows spend the same output,     *)
(* though the pool is refilled between them and forgets what it evicts.     *)
RowsAreSound == (\A i \in DOMAIN Lines : RowIsSound(Lines[i])) /\ SpentOnce

(* The file is complete when the manifest is written, and the manifest      *)
(* counts what is in it: rows by scenario and by telemetry, and bursts      *)
(* whose rows follow each other until they are over or the file is.         *)
ManifestMatchesFile ==
  done =>
    /\ Len(file) = Rows /\ buffer = <<>>
    /\ \A s \in Scenarios :
         counts.scenario[s] = Cardinality({i \in DOMAIN file : file[i].scenario = s})
    /\ SumFunction(counts.telemetry) = Len(file)
    /\ \A c \in Range(clusters) : \A i \in c.start..Min({Rows, c.start + c.count - 1}) :
         file[i].scenario = "SCEN_BURST"

(* The pool never hands out an output a second time, though it is refilled, *)
(* overwritten when full, and drawn from in any order.                      *)
CoinBook == INSTANCE CoinBook
  WITH Keys <- [tx : Int, out : Nat], unspent <- KeyOf(pool), gone <- KeyOf(gone)
ImplementsCoinBook == CoinBook!Spec

============================================================================
