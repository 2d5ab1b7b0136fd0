-------------------------- MODULE CanonicalTables --------------------------
(***************************************************************************)
(* The four stages of ml/data_pipeline as functions on datasets: ingestion *)
(* and quarantine, validation, cleaning and normalization.                 *)
(*                                                                         *)
(* A dataset is a record of tables and a table is a sequence of rows; an   *)
(* empty one stands for a missing file as well, as in the code.  A         *)
(* transaction id is its position in the alphabet of ids and how it is     *)
(* written ("plain", "upper", or "spaced" with blanks around it).  IP      *)
(* addresses, ports and country of an event are either all well formed or  *)
(* not: its field sane.  The columns that normalization adds to a row are  *)
(* functions of that row alone and are left out.                           *)
(***************************************************************************)
EXTENDS Integers, Sequences, FiniteSets, FiniteSetsExt, SequencesExt

CONSTANT Null   \* a missing value

Dust == 546   \* min_dust_sats

(* The rows of the tables.  A transaction id may be missing until cleaning, *)
(* and a size for good: no stage fills it in.                                *)
TxId == [n : Nat, as : {"plain", "upper", "spaced"}]
Named == TxId \cup {Null}
TransactionRow ==
  [id : Named, time : Int, inSum : Int, outSum : Int, fee : Int \cup {Null},
   size : Int \cup {Null}, nin : Int, nout : Int]
CoinRow(addrs) == [id : Named, index : Int, addr : addrs, amt : Int, change : BOOLEAN]
EventRow(hosts) ==
  [event : Int, id : Named, time : Int, src : hosts, asn : Int \cup {Null}, sane : BOOLEAN]

ASSUME NullAssumption == Null \notin TxId /\ Null \notin Int

(* The elements of a finite set in an order, the rows a mask selects in     *)
(* theirs, and a function with one value more or replaced.                  *)
InOrder(S, Before(_, _)) ==
  [k \in 1..Cardinality(S) |-> CHOOSE x \in S : Cardinality({y \in S : Before(y, x)}) = k - 1]
Where(rows, mask) ==
  LET order == InOrder(mask, LAMBDA i, j : i < j) IN [k \in DOMAIN order |-> rows[order[k]]]
Put(f, x, value) == [y \in DOMAIN f \cup {x} |-> IF y = x THEN value ELSE f[y]]

IdOf(row) == row.id
EventOf(row) == row.event
KeyOf(row) == <<row.id, row.index>>
Ids(rows) == {row.id : row \in Range(rows)}
SumFor(rows, id) ==
  FoldLeft(LAMBDA sum, row : IF row.id = id THEN sum + row.amt ELSE sum, 0, rows)
Amounts(pairs) == FoldLeft(LAMBDA sum, pair : sum + pair.amt, 0, pairs)

----------------------------------------------------------------------------
(* Ingestion: the consolidated table is read only if there are no           *)
(* transactions; labels and the columns only the generator knows are kept   *)
(* apart.  tagged names the tables that carry such columns.                 *)
Ingest(raw) ==
  [observed |-> [raw EXCEPT !.sih = IF raw.tx = <<>> THEN @ ELSE <<>>,
                            !.labels = <<>>, !.tagged = {}],
   quarantined |-> {t \in raw.tagged : raw[t] # <<>> /\ (t = "sih" => raw.tx = <<>>)}
                     \cup (IF raw.labels = <<>> THEN {} ELSE {"labels"})]

----------------------------------------------------------------------------
(* Validation: the names of the checks that fail. *)
Check(name, holds) == IF holds THEN {} ELSE {name}

IsUnique(rows, Key(_)) ==
  \A i, j \in DOMAIN rows : Key(rows[i]) = Key(rows[j]) => i = j

TransactionErrors(d) ==
  LET tx == Range(d.tx) IN
  UNION {Check("txid unique", IsUnique(d.tx, IdOf)),
         Check("txid format", \A t \in tx : t.id # Null /\ t.id.as # "spaced"),
         Check("fee", \A t \in tx : t.fee = Null \/ t.fee >= 0),
         Check("totals", \A t \in tx : t.inSum > 0 /\ t.outSum > 0),
         Check("counts", \A t \in tx : t.nin >= 1 /\ t.nout >= 1)}

InputErrors(d) ==
  UNION {Check("input unique", IsUnique(d.ins, KeyOf)),
         Check("input orphan", Ids(d.ins) \subseteq Ids(d.tx)),
         Check("input value", \A r \in Range(d.ins) : r.amt > 0)}

OutputErrors(d) ==
  UNION {Check("output unique", IsUnique(d.outs, KeyOf)),
         Check("output orphan", Ids(d.outs) \subseteq Ids(d.tx)),
         Check("output value", \A r \in Range(d.outs) : r.amt > 0),
         Check("output dust", \A r \in Range(d.outs) : r.amt >= Dust)}

NetworkErrors(d) ==
  LET events == Range(d.net) IN
  UNION {Check("event unique", IsUnique(d.net, EventOf)),
         Check("event orphan", Ids(d.net) \subseteq Ids(d.tx)),
         Check("event format", \A e \in events : e.sane),
         Check("event asn", \A e \in events : e.asn = Null \/ e.asn > 0)}

(* A sum over no rows is a missing value, which differs from every total. *)
ConservationErrors(d) ==
  LET Aligned(rows, Total(_)) ==
        /\ Ids(rows) \ {Null} \subseteq Ids(d.tx)
        /\ \A t \in Range(d.tx) : t.id \in Ids(rows) /\ SumFor(rows, t.id) = Total(t)
  IN UNION {Check("conservation", \A t \in Range(d.tx) : t.fee # Null /\ t.inSum = t.outSum + t.fee),
            Check("input sums", Aligned(d.ins, LAMBDA t : t.inSum)),
            Check("output sums", Aligned(d.outs, LAMBDA t : t.outSum))}

Errors(d) ==
  IF d.tx = <<>> THEN {"no transactions"}
  ELSE UNION {TransactionErrors(d),
              IF d.ins = <<>> THEN {} ELSE InputErrors(d),
              IF d.outs = <<>> THEN {} ELSE OutputErrors(d),
              IF d.net = <<>> THEN {} ELSE NetworkErrors(d),
              IF <<>> \in {d.ins, d.outs} THEN {} ELSE ConservationErrors(d)}

----------------------------------------------------------------------------
(* Cleaning: rows without an id go, ids are brought to one form, the first  *)
(* row of every key stays, and so do the rows whose transaction is known.   *)
Plain(id) == [id EXCEPT !.as = "plain"]

Identified(rows) ==
  LET named == Where(rows, {i \in DOMAIN rows : rows[i].id # Null})
  IN [i \in DOMAIN named |-> [named[i] EXCEPT !.id = Plain(@)]]

FirstOfEach(rows, Key(_)) ==
  Where(rows, {i \in DOMAIN rows : \A j \in 1..(i - 1) : Key(rows[j]) # Key(rows[i])})

Known(rows, tx) ==
  IF tx = <<>> THEN rows ELSE Where(rows, {i \in DOMAIN rows : rows[i].id \in Ids(tx)})

Imputed(tx) ==
  [i \in DOMAIN tx |->
     [tx[i] EXCEPT !.fee = IF @ = Null THEN tx[i].inSum - tx[i].outSum ELSE @]]

(* (Plausible bug.) Duplicates are looked for before the ids have one form. *)
CleanByRawIds(d) ==
  LET tx == Imputed(Identified(FirstOfEach(d.tx, IdOf)))
  IN [tx |-> tx,
      ins |-> Known(Identified(FirstOfEach(d.ins, KeyOf)), tx),
      outs |-> Known(Identified(FirstOfEach(d.outs, KeyOf)), tx),
      net |-> Known(Identified(FirstOfEach(d.net, EventOf)), tx),
      tagged |-> d.tagged]

(* The consolidated table is not passed on. *)
Clean(d) ==
  LET tx == Imputed(FirstOfEach(Identified(d.tx), IdOf))
  IN [tx |-> tx,
      ins |-> Known(FirstOfEach(Identified(d.ins), KeyOf), tx),
      outs |-> Known(FirstOfEach(Identified(d.outs), KeyOf), tx),
      net |-> Known(FirstOfEach(Identified(d.net), EventOf), tx),
      tagged |-> d.tagged]

----------------------------------------------------------------------------
(* Normalization of the consolidated table: one transaction and one event   *)
(* per row, an input and an output per element of the row's arrays.  The    *)
(* size is estimated from their numbers; an ASN that is not a positive      *)
(* number becomes Null.                                                     *)
Side(sih, Pairs(_)) ==
  LET RowsOf(r) == [i \in DOMAIN Pairs(r) |->
                      [id |-> Plain(r.id), index |-> i - 1, addr |-> Pairs(r)[i].addr,
                       amt |-> Pairs(r)[i].amt, change |-> FALSE]]
  IN FlattenSeq([i \in DOMAIN sih |-> RowsOf(sih[i])])

Decompose(sih) ==
  [tx |-> [i \in DOMAIN sih |->
             [id |-> Plain(sih[i].id), time |-> sih[i].time,
              inSum |-> Amounts(sih[i].ins), outSum |-> Amounts(sih[i].outs), fee |-> sih[i].fee,
              size |-> 10 + 148 * Len(sih[i].ins) + 34 * Len(sih[i].outs),
              nin |-> Len(sih[i].ins), nout |-> Len(sih[i].outs)]],
   ins |-> Side(sih, LAMBDA r : r.ins),
   outs |-> Side(sih, LAMBDA r : r.outs),
   net |-> [i \in DOMAIN sih |->
              [event |-> sih[i].id.n, id |-> Plain(sih[i].id), time |-> sih[i].time,
               src |-> sih[i].src, sane |-> sih[i].sane,
               asn |-> IF sih[i].asn # Null /\ sih[i].asn > 0 THEN sih[i].asn ELSE Null]],
   tagged |-> {}]

Normalize(cleaned) ==
  IF "sih" \in DOMAIN cleaned /\ cleaned.sih # <<>> /\ cleaned.tx = <<>>
  THEN Decompose(cleaned.sih)
  ELSE cleaned
============================================================================
