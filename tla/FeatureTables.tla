--------------------------- MODULE FeatureTables ---------------------------
(***************************************************************************)
(* Feature engineering and graph analysis as functions on canonical        *)
(* datasets.  Ratios, logarithms and calendar fields, which are functions  *)
(* of the columns kept here, are left out, and a mean is kept as its sum.  *)
(* Clusters of addresses are the subject of EntityClusters.                *)
(***************************************************************************)
EXTENDS CanonicalTables

Day == 86400
Windows == <<60, 300, 3600>>   \* time_txs_last_1m, _5m and _1h

Addrs(rows) == {row.addr : row \in Range(rows)}
Of(rows, id) == Where(rows, {i \in DOMAIN rows : rows[i].id = id})
Largest(rows) == IF rows = <<>> THEN 0 ELSE Max({row.amt : row \in Range(rows)})

(* sort_values by time and id; rows equal in both keep their order. *)
Chronological(rows) ==
  LET Before(i, j) == \/ rows[i].time < rows[j].time
                      \/ /\ rows[i].time = rows[j].time
                         /\ \/ rows[i].id.n < rows[j].id.n
                            \/ rows[i].id.n = rows[j].id.n /\ i < j
      order == InOrder(DOMAIN rows, Before)
  IN [i \in DOMAIN rows |-> rows[order[i]]]

(* The address of the first input; without inputs, a name of its own. *)
Sender(c, id) ==
  LET own == {row \in Range(c.ins) : row.id = id}
  IN IF own = {} THEN <<"unknown", id>>
     ELSE (CHOOSE row \in own : \A other \in own : row.index <= other.index).addr

Recipients(c, id) == Addrs(Of(c.outs, id))
Parties(c) == Addrs(c.outs) \cup {Sender(c, id) : id \in Ids(c.tx)}

----------------------------------------------------------------------------
(* TransactionFeatureExtractor, and the relational features.  A size that   *)
(* is missing counts as 250 bytes; the fee rate is a ratio of fee and size. *)
TransactionFeatures(c, t) ==
  LET ins == Of(c.ins, t.id)  outs == Of(c.outs, t.id) IN
  [nin |-> t.nin, nout |-> t.nout, fee |-> t.fee, size |-> IF t.size = Null THEN 250 ELSE t.size,
   sumIn |-> SumFor(c.ins, t.id), maxIn |-> Largest(ins),
   sumOut |-> SumFor(c.outs, t.id), maxOut |-> Largest(outs)]

RelationalFeatures(c, t) ==
  LET outs == Of(c.outs, t.id)
      change == Where(outs, {i \in DOMAIN outs : outs[i].change})
      Fan(rows) == IF rows = <<>> THEN 1 ELSE Cardinality(Addrs(rows))
  IN [fanIn |-> Fan(Of(c.ins, t.id)),
      fanOut |-> Fan(outs),
      hasChange |-> change # <<>>,
      change |-> Min({SumFor(change, t.id), t.outSum})]   \* over outSum, clipped to 1

----------------------------------------------------------------------------
(* AddressFeatureExtractor: what is known of every address is read for the  *)
(* sender of a row and only then updated with the row.                      *)
NoHistory(c) ==
  [a \in Parties(c) |-> [first |-> Null, count |-> 0, sent |-> 0, received |-> 0, met |-> {}]]

Read(h, t) ==
  [count |-> h.count, sent |-> h.sent, received |-> h.received,
   met |-> Cardinality(h.met), active |-> IF h.count > 0 THEN t.time - h.first ELSE 0]

(* (Plausible bug.) Recipients are forgotten. *)
UpdateBySenderOnly(c, hist, t) ==
  LET sender == Sender(c, t.id) IN
  [hist EXCEPT ![sender] = [first |-> IF @.first = Null THEN t.time ELSE @.first,
                            count |-> @.count + 1, sent |-> @.sent + t.outSum,
                            received |-> @.received,
                            met |-> @.met \cup Recipients(c, t.id)]]

Update(c, hist, t) ==
  LET sender == Sender(c, t.id)
      recips == Recipients(c, t.id)
      share == t.outSum \div Max({Cardinality(recips), 1})
  IN [a \in DOMAIN hist |->
        [first |-> IF hist[a].first = Null /\ a \in recips \cup {sender}
                   THEN t.time ELSE hist[a].first,
         count |-> hist[a].count + (IF a = sender THEN 1 ELSE 0),
         sent |-> hist[a].sent + (IF a = sender THEN t.outSum ELSE 0),
         received |-> hist[a].received + (IF a \in recips THEN share ELSE 0),
         met |-> hist[a].met \cup (IF a = sender THEN recips ELSE {})
                             \cup (IF a \in recips THEN {sender} ELSE {})]]

AddressTurn(c, s, t) ==
  [hist |-> Update(c, s.hist, t), rows |-> Put(s.rows, t.id, Read(s.hist[Sender(c, t.id)], t))]

AddressFeatures(c) ==
  LET Turn(s, t) == AddressTurn(c, s, t)
  IN FoldLeft(Turn, [hist |-> NoHistory(c), rows |-> <<>>], Chronological(c.tx)).rows

----------------------------------------------------------------------------
(* TemporalFeatureExtractor: the windows are [t - w, t), by binary search   *)
(* in the sorted times.                                                     *)
Left(tx, time) == Cardinality({i \in DOMAIN tx : tx[i].time < time})

TemporalTurn(c, tx, s, i) ==
  LET t == tx[i]  sender == Sender(c, t.id) IN
  [seen |-> Put(s.seen, sender, t.time),
   rows |-> Put(s.rows, t.id,
     [global |-> IF i = 1 THEN 0 ELSE t.time - tx[i - 1].time,
      windows |-> [w \in DOMAIN Windows |->
                     Max({0, Left(tx, t.time) - Left(tx, t.time - Windows[w])})],
      pace |-> IF sender \in DOMAIN s.seen THEN t.time - s.seen[sender] ELSE Day])]

TemporalFeatures(c) ==
  LET tx == Chronological(c.tx)
      Turn(s, i) == TemporalTurn(c, tx, s, i)
  IN FoldLeft(Turn, [seen |-> <<>>, rows |-> <<>>], [i \in DOMAIN tx |-> i]).rows

----------------------------------------------------------------------------
(* NetworkFeatureExtractor: every event gets the number of IP addresses its *)
(* sender was seen at before; of the events no later than their transaction *)
(* (of all of them if none is) the last one per transaction stays.          *)
NetworkFeatures(c) ==
  LET events == Chronological(c.net)
      Place(i) == Sender(c, events[i].id)
      IpsBefore(i) == {events[j].src : j \in {k \in 1..(i - 1) : Place(k) = Place(i)}}
      Timely(i) == \A t \in Range(c.tx) : t.id = events[i].id => events[i].time <= t.time
      kept == IF \E i \in DOMAIN events : Timely(i)
              THEN {i \in DOMAIN events : Timely(i)} ELSE DOMAIN events
      last(id) == Max({i \in kept : events[i].id = id})
  IN [id \in {events[i].id : i \in kept} |->
        [asn |-> IF events[last(id)].asn = Null THEN 0 ELSE events[last(id)].asn,
         ips |-> Cardinality(IpsBefore(last(id)))]]

----------------------------------------------------------------------------
(* (Plausible bug.) A transaction may have neither inputs nor outputs. *)
CanExtractAnyway(c) == <<>> \notin {c.tx, c.net}

(* build_feature_matrix: a left join on the transactions in their order.    *)
(* The extractors raise when there are no transactions or no events, and    *)
(* the relational one does when there are no inputs or no outputs.          *)
CanExtract(c) == <<>> \notin {c.tx, c.ins, c.outs, c.net}

FeatureMatrix(c) ==
  LET addr == AddressFeatures(c)  temp == TemporalFeatures(c)  net == NetworkFeatures(c) IN
  [i \in DOMAIN c.tx |->
     LET t == c.tx[i] IN
     [id |-> t.id, tx |-> TransactionFeatures(c, t), addr |-> addr[t.id], temp |-> temp[t.id],
      net |-> IF t.id \in DOMAIN net THEN net[t.id] ELSE Null,
      rel |-> RelationalFeatures(c, t)]]

(* The audit finds a missing value in every column of an absent event. *)
IsClean(matrix) == \A row \in Range(matrix) : row.net # Null
============================================================================
