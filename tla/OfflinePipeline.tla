-------------------------- MODULE OfflinePipeline --------------------------
(***************************************************************************)
(* The scripts that take a delivered sample to a modelling dataset: data   *)
(* pipeline, feature pipeline, graph pipeline and preparation.  They are   *)
(* started by hand, one at a time, and talk through the files and tables   *)
(* they leave behind; nothing records which of them belong together.       *)
(*                                                                         *)
(* A script reads everything before it writes, so a run of one is a single *)
(* step that does all its writes or, when it is interrupted, the first few *)
(* of them.                                                                *)
(***************************************************************************)
EXTENDS GraphTables

CONSTANTS
  Samples,     \* the datasets that may be delivered in data/sample
  MaxRuns,     \* bound on script runs
  MaxCrashes   \* bound on interrupted ones

ASSUME BoundsAssumption == MaxRuns \in Nat /\ MaxCrashes \in Nat

(* What is delivered has the columns of its tables, with values of their    *)
(* types; whether the rows make sense is another matter.                    *)
IsSample(s) ==
  LET addrs == {row.addr : row \in Range(s.ins) \cup Range(s.outs)}
      hosts == {row.src : row \in Range(s.net)}
      classes == {row.class : row \in Range(s.labels)}
  IN s \in [tx : Seq(TransactionRow), ins : Seq(CoinRow(addrs)), outs : Seq(CoinRow(addrs)),
            net : Seq(EventRow(hosts)), labels : Seq([id : TxId, class : classes]),
            sih : {s.sih}, tagged : {s.tagged}]

ASSUME SamplesAssumption == \A s \in Samples : IsSample(s)

Canonical == {"tx", "ins", "outs", "net"}
Stems == Canonical \cup {"features", "nodes", "edges", "graph", "clusters", "summary", "modeling"}
Places == {"file", "table"} \X Stems

VARIABLES
  sample,    \* what data/sample holds
  store,     \* the parquet files and DuckDB tables there are
  last,      \* the script that ran last and what it reported
  computed,  \* history: what it had computed when it began to write
  runs, crashes

vars == <<sample, store, last, computed, runs, crashes>>

Init ==
  /\ sample \in Samples
  /\ store = <<>>
  /\ last = [script |-> Null, outcome |-> "none"]
  /\ computed = Null
  /\ runs = 0
  /\ crashes = 0

----------------------------------------------------------------------------
(* What a script leaves after its first k writes. *)
To(kind, stem, what) == [at |-> <<kind, stem>>, what |-> what]

Written(writes, k) ==
  [p \in DOMAIN store \cup {writes[i].at : i \in 1..k} |->
     LET hits == {i \in 1..k : writes[i].at = p}
     IN IF hits = {} THEN store[p] ELSE writes[Max(hits)].what]

Begin == runs < MaxRuns /\ runs' = runs + 1 /\ UNCHANGED sample

Finish(script, writes, outcome, result) ==
  \/ /\ store' = Written(writes, Len(writes))
     /\ last' = [script |-> script, outcome |-> outcome]
     /\ computed' = result
     /\ UNCHANGED crashes
  \/ \E k \in 0..Len(writes) - 1 :
       /\ crashes < MaxCrashes
       /\ crashes' = crashes + 1
       /\ store' = Written(writes, k)
       /\ last' = [script |-> script, outcome |-> "interrupted"]
       /\ computed' = Null

Raise(script) ==
  /\ last' = [script |-> script, outcome |-> "error"]
  /\ computed' = Null
  /\ UNCHANGED <<store, crashes>>

Stored(kind) == [t \in {u \in Canonical : <<kind, u>> \in DOMAIN store} |-> store[<<kind, t>>]]
Missing(kind, stems) == \E t \in stems : <<kind, t>> \notin DOMAIN store

----------------------------------------------------------------------------
Deliver(s) ==
  /\ runs < MaxRuns
  /\ s # sample
  /\ last.script # "deliver"
  /\ sample' = s
  /\ last' = [script |-> "deliver", outcome |-> "ok"]
  /\ computed' = Null
  /\ UNCHANGED <<store, runs, crashes>>

(* run_pipeline: neither validation stops it, and an empty table is not      *)
(* exported, so that what an earlier run left in its place stays.            *)
Exports(kind, c) ==
  LET all == <<"tx", "ins", "outs", "net">>
      order == Where(all, {i \in DOMAIN all : c[all[i]] # <<>>})
  IN [i \in DOMAIN order |-> To(kind, order[i], c[order[i]])]

RunPipeline ==
  LET c == Normalize(Clean(Ingest(sample).observed))
  IN /\ Begin
     /\ Finish("pipeline", Exports("file", c) \o Exports("table", c),
               IF Errors(c) = {} THEN "SUCCESS" ELSE "WARNING", c)

(* (Plausible bug.) The table is registered before the file is written. *)
RunFeaturesTableFirst ==
  LET matrix == FeatureMatrix(Stored("file"))
  IN /\ Begin
     /\ IF Missing("file", Canonical) \/ ~CanExtract(Stored("file")) \/ ~IsClean(matrix)
        THEN Raise("features")
        ELSE Finish("features", <<To("table", "features", matrix), To("file", "features", matrix)>>,
                    "ok", matrix)

(* run_feature_pipeline: raises when a canonical file is missing or when a   *)
(* value of the matrix is.                                                   *)
RunFeatures ==
  LET matrix == FeatureMatrix(Stored("file"))
  IN /\ Begin
     /\ IF Missing("file", Canonical) \/ ~CanExtract(Stored("file")) \/ ~IsClean(matrix)
        THEN Raise("features")
        ELSE Finish("features", <<To("file", "features", matrix), To("table", "features", matrix)>>,
                    "ok", matrix)

(* run_graph_pipeline reads tables, which are never empty, and registers     *)
(* what it wrote to files.  The summary of clusters has no columns when no   *)
(* address was clustered, and cannot be written.                             *)
Clustered(c) ==
  LET spending == Ids(c.tx) \cap Ids(c.ins)
  IN {row.addr : row \in {r \in Range(c.ins) : r.id \in spending}
                           \cup {r \in Range(c.outs) : r.change /\ r.id \in spending}}

RunGraph ==
  LET c == Stored("table")
      edges == EdgeRows(c)
      nodes == NodeRows(c)
      features == GraphFeatures(c)
      files == <<To("file", "nodes", nodes), To("file", "edges", edges), To("file", "graph", features)>>
      rest == <<To("file", "clusters", Clustered(c)), To("file", "summary", Summary(c)),
                To("table", "nodes", nodes), To("table", "edges", edges),
                To("table", "graph", features), To("table", "clusters", Clustered(c))>>
  IN /\ Begin
     /\ IF Missing("table", {"tx", "ins", "outs"}) THEN Raise("graph")
        ELSE IF Clustered(c) = {} THEN Finish("graph", files, "error", Null)
        ELSE Finish("graph", files \o rest, "ok", features)

----------------------------------------------------------------------------
(* ModelingDatasetBuilder: an inner join of four files that has to keep      *)
(* every row of each, in the order of time and id, cut into three parts.  The *)
(* code cuts at int(total * 0.70), which for a few totals (90, 170, 180, ...) *)
(* binary fractions make one less than the quotient here.                    *)
Part(i, total) ==
  IF i <= (total * 70) \div 100 THEN "train"
  ELSE IF i <= (total * 85) \div 100 THEN "val" ELSE "test"

Joined ==
  LET features == store[<<"file", "features">>]
      graph == store[<<"file", "graph">>]
      tx == store[<<"file", "tx">>]
      labels == sample.labels
      Row(t, f, l) ==
        [id |-> t.id, time |-> t.time, features |-> features[f], graph |-> graph[t.id],
         class |-> labels[l].class, from |-> <<f, l>>]
      Match(t, f, l) == t.id = features[f].id /\ t.id = labels[l].id /\ t.id \in DOMAIN graph
      matches == {m \in Range(tx) \X (DOMAIN features) \X (DOMAIN labels) : Match(m[1], m[2], m[3])}
  IN {Row(m[1], m[2], m[3]) : m \in matches}

(* (Plausible bug.) Only the matrix is compared with the result. *)
KeepsEveryRowOfTheMatrix(joined) == Cardinality(joined) = Len(store[<<"file", "features">>])

KeepsEveryRow(joined) ==
  /\ joined # {}
  /\ Cardinality(joined) = Len(store[<<"file", "features">>])
  /\ Cardinality(joined) = Cardinality(DOMAIN store[<<"file", "graph">>])
  /\ Cardinality(joined) = Len(store[<<"file", "tx">>])
  /\ Cardinality(joined) = Len(sample.labels)

Partitioned(joined) ==
  LET rows == Chronological(SetToSeq(joined))
  IN [i \in DOMAIN rows |->
        [id |-> rows[i].id, time |-> rows[i].time, features |-> rows[i].features,
         graph |-> rows[i].graph, class |-> rows[i].class, split |-> Part(i, Len(rows))]]

RunModeling ==
  /\ Begin
  /\ IF Missing("file", {"features", "graph", "tx"}) \/ sample.labels = <<>>
     THEN Raise("modeling")
     ELSE IF ~KeepsEveryRow(Joined) \/ \E r, q \in Joined : r # q /\ r.id = q.id
     THEN Raise("modeling")
     ELSE LET rows == Partitioned(Joined)
          IN Finish("modeling", <<To("file", "modeling", rows), To("table", "modeling", rows)>>,
                    "ok", rows)

Next ==
  \/ \E s \in Samples : Deliver(s)
  \/ RunPipeline
  \/ RunFeatures
  \/ RunGraph
  \/ RunModeling

Spec == Init /\ [][Next]_vars

----------------------------------------------------------------------------
(* The type invariant; no table is registered before its file is written.    *)
TypeOK ==
  /\ sample \in Samples
  /\ DOMAIN store \subseteq Places
  /\ last.script \in {Null, "deliver", "pipeline", "features", "graph", "modeling"}
  /\ runs \in 0..MaxRuns
  /\ crashes \in 0..MaxCrashes
  /\ \A stem \in Stems : <<"table", stem>> \in DOMAIN store => <<"file", stem>> \in DOMAIN store

Did(script) == last.script = script /\ computed # Null

(* What the data pipeline promises of the canonical tables (cleaning.py,     *)
(* normalization.py): ids in one form, keys unique, no row of an unknown     *)
(* transaction, every named transaction kept and its fee known, nothing of   *)
(* the generator; and cleaning them once more changes nothing.               *)
CanonicalIsConsistent ==
  Did("pipeline") =>
    LET c == computed IN
    /\ \A t \in Canonical : \A row \in Range(c[t]) : row.id # Null /\ row.id.as = "plain"
    /\ IsUnique(c.tx, IdOf) /\ IsUnique(c.net, EventOf)
    /\ IsUnique(c.ins, KeyOf) /\ IsUnique(c.outs, KeyOf)
    /\ c.tx # <<>> => Ids(c.ins) \cup Ids(c.outs) \cup Ids(c.net) \subseteq Ids(c.tx)
    /\ Ids(c.tx) = {Plain(id) : id \in Ids(sample.tx) \ {Null}}
    /\ \A t \in Range(c.tx) : t.fee # Null
    /\ c.tagged = {}
    /\ Clean(c) = c

(* The transactions a feature of t may look at. *)
Prior(c, t) ==
  {u \in Range(c.tx) : u.time < t.time \/ (u.time = t.time /\ u.id.n < t.id.n)}
SentBy(c, prior, addr) == {u \in prior : Sender(c, u.id) = addr}
PaidTo(c, prior, addr) == {u \in prior : addr \in Recipients(c, u.id)}

AddressHistory(c, t) ==
  LET me == Sender(c, t.id)
      sent == SentBy(c, Prior(c, t), me)
      paid == PaidTo(c, Prior(c, t), me)
  IN [count |-> Cardinality(sent),
      sent |-> SumFunction([u \in sent |-> u.outSum]),
      received |-> SumFunction([u \in paid |-> u.outSum \div Cardinality(Recipients(c, u.id))]),
      met |-> Cardinality((UNION {Recipients(c, u.id) : u \in sent}) \cup {Sender(c, u.id) : u \in paid}),
      active |-> IF sent = {} THEN 0 ELSE t.time - Min({u.time : u \in sent \cup paid})]

Pacing(c, t) ==
  LET sent == SentBy(c, Prior(c, t), Sender(c, t.id))
      before == {u.time : u \in Prior(c, t)}
  IN [global |-> IF before = {} THEN 0 ELSE t.time - Max(before),
      windows |-> [w \in DOMAIN Windows |->
                     Cardinality({u \in Range(c.tx) : t.time - Windows[w] <= u.time /\ u.time < t.time})],
      pace |-> IF sent = {} THEN Day ELSE t.time - Max({u.time : u \in sent})]

(* The anti-leakage promise of feature engineering: every historical feature *)
(* of every transaction is a function of the transactions that come before   *)
(* it in the order of time and id, whatever canonical files, of one run or   *)
(* of several, the matrix was built from.                                    *)
FeaturesAreHistory ==
  Did("features") =>
    LET c == Stored("file") IN
    /\ Ids(computed) = Ids(c.tx) /\ Len(computed) = Len(c.tx)
    /\ \A row \in Range(computed) :
         LET t == CHOOSE u \in Range(c.tx) : u.id = row.id IN
         row.addr = AddressHistory(c, t) /\ row.temp = Pacing(c, t)

(* The size of a component that the disjoint-set forest keeps is the number  *)
(* of nodes that can be reached in the graph of the transactions so far, the *)
(* degrees are those of that graph before, and at the end the largest size   *)
(* is that of the giant component of the graph built from all rows.          *)
SnapshotsMatchTheGraph ==
  Did("graph") =>
    LET c == Stored("table")
        Upto(txs) == LET ids == {u.id : u \in txs}
                         Within(rows) == Where(rows, {i \in DOMAIN rows : rows[i].id \in ids})
                     IN [c EXCEPT !.ins = Within(@), !.outs = Within(@)]
    IN /\ \A t \in Range(c.tx) :
            LET before == Upto(Prior(c, t))
                upto == Upto(Prior(c, t) \cup {t})
                rows == before.ins \o before.outs
                Uses(a) == Cardinality({i \in DOMAIN rows : rows[i].addr = a})
            IN /\ computed[t.id].component
                    = Cardinality(Component(Arcs(EdgeRows(upto)), TxNode(t.id)))
               /\ computed[t.id].degIn = SumFunction([a \in Addrs(Of(c.ins, t.id)) |-> Uses(a)])
               /\ computed[t.id].degOut = SumFunction([a \in Addrs(Of(c.outs, t.id)) |-> Uses(a)])
       /\ Ids(c.ins) \cup Ids(c.outs) \subseteq Ids(c.tx) =>
            store[<<"file", "summary">>].giant = Max({computed[id].component : id \in DOMAIN computed})

(* The modelling dataset has every transaction of the canonical file once,   *)
(* each with its own features, graph features and label, although the four   *)
(* inputs may come from different runs; and a row of a later part is never   *)
(* earlier than one of an earlier part.                                      *)
ModelingIsWhole ==
  Did("modeling") =>
    LET features == store[<<"file", "features">>]
        labels == sample.labels
        place == [train |-> 1, val |-> 2, test |-> 3]
    IN /\ IsUnique(computed, IdOf)
       /\ Ids(computed) = Ids(store[<<"file", "tx">>])
       /\ Ids(computed) = Ids(features) /\ Ids(computed) = Ids(labels)
       /\ Ids(computed) = DOMAIN store[<<"file", "graph">>]
       /\ \A row \in Range(computed) :
            /\ row.features \in Range(features) /\ row.features.id = row.id
            /\ [id |-> row.id, class |-> row.class] \in Range(labels)
       /\ \A i, j \in DOMAIN computed :
            place[computed[i].split] < place[computed[j].split] =>
              computed[i].time <= computed[j].time
============================================================================
