--------------------------- MODULE GraphExplorer ---------------------------
(***************************************************************************)
(* GraphService: one request for a graph, statement by statement, while a  *)
(* dataset may be deleted table by table.  A graph is exported for an      *)
(* analysis, walked from an address over addresses, or walked from a       *)
(* transaction or an address over both (the neighborhood).                 *)
(*                                                                         *)
(* The database is a record of tables and a table is a set of rows, so     *)
(* whatever a LIMIT without an ORDER BY returns is a choice.  Statements   *)
(* that read for one and the same stage are one step.  A risk is a score   *)
(* in percent, and its level goes with it; labels, dates and the text of   *)
(* the evidence are left out.                                              *)
(***************************************************************************)
EXTENDS Integers, FiniteSets, FiniteSetsExt, Functions

CONSTANTS
  Null,       \* SQL's NULL, Python's None
  Txs, Addrs, \* transaction ids and addresses
  Databases,  \* what the database may hold
  Requests,   \* the requests and their arguments
  Limits      \* the numbers in the code at which a walk is cut off

Ids == Txs \cup Addrs

(* A database as ingestion leaves it: the inputs and outputs of a dataset   *)
(* come from the rows that its transactions come from                       *)
(* (dataset_service.py:283-406).  An address may be unknown.                *)
IsDatabase(d) ==
  /\ DOMAIN d = {"results", "runs", "ins", "outs", "tx", "addrs", "alerts"}
  /\ \A table \in DOMAIN d : IsFiniteSet(d[table])
  /\ \A row \in d.ins \cup d.outs : /\ [ds |-> row.ds, id |-> row.id] \in d.tx
                                  /\ row.addr \in Addrs \cup {Null} /\ row.amt \in Int
  /\ \A row \in d.tx : row.id \in Txs /\ row = [ds |-> row.ds, id |-> row.id]
  /\ \A row \in d.addrs : row.addr \in Addrs

IsRequest(r) ==
  \/ r.op = "export" /\ r.max \in Nat
  \/ r.op \in {"subgraph", "neighborhood"} /\ r.entity \in Ids /\ r.depth \in Nat
       /\ (r.op = "neighborhood" => r.high \in BOOLEAN)

ASSUME IdsAssumption == Txs \cap Addrs = {} /\ Null \notin Ids \cup Int
ASSUME DatabasesAssumption == \A d \in Databases : IsDatabase(d)
ASSUME RequestsAssumption == \A r \in Requests : IsRequest(r)
ASSUME LimitsAssumption == Limits \in [{"hop", "visited", "firstTxs", "fromTxs", "addrs", "fromAddrs", "txs"} -> Nat \ {0}]

VARIABLES
  db,        \* results, runs, ins, outs, tx, addrs and alerts
  victim,    \* the dataset that is being deleted
  deleting,  \* the table to be emptied next
  ask,       \* the request
  stage,     \* what the service does next
  ctx,       \* dataset, analysis and kind of the centre, once resolved
  seen,      \* what the walk has visited: the selection, for an export
  front,     \* where it goes on
  hop,       \* how many hops it has made
  limited,   \* history: something was cut off
  nodes,     \* from the ids of the nodes to what is said of them
  edges,
  outcome    \* "running", "answered" or the exception raised

vars == <<db, victim, deleting, ask, stage, ctx, seen, front, hop, limited, nodes, edges, outcome>>
database == <<db, victim, deleting>>

Init ==
  /\ db \in Databases
  /\ victim = Null /\ deleting = "no"
  /\ ask \in Requests
  /\ stage = "resolve"
  /\ ctx = [ds |-> Null, run |-> Null, kind |-> "address"]
  /\ seen = {} /\ front = {} /\ hop = 0 /\ limited = FALSE
  /\ nodes = <<>> /\ edges = {}
  /\ outcome = "running"

----------------------------------------------------------------------------
(* delete_dataset empties the tables one by one.                            *)
After == [results |-> "runs", runs |-> "ins", ins |-> "outs", outs |-> "tx", tx |-> "addrs", addrs |-> "done"]

DeleteDataset ==
  /\ victim = Null
  /\ \E row \in db.runs \cup db.tx : victim' = row.ds
  /\ deleting' = "results"
  /\ UNCHANGED <<db, ask, stage, ctx, seen, front, hop, limited, nodes, edges, outcome>>

EraseTable ==
  /\ deleting \in DOMAIN After
  /\ db' = [db EXCEPT ![deleting] = {row \in @ : row.ds # victim}]
  /\ deleting' = After[deleting]
  /\ UNCHANGED <<victim, ask, stage, ctx, seen, front, hop, limited, nodes, edges, outcome>>

----------------------------------------------------------------------------
(* Queries. *)
Of(table, ds) == {row \in table : row.ds = ds}
Some(S, limit) == kSubset(Min({limit, Cardinality(S)}), S)
Cut(S, limit) == Cardinality(S) > limit

IdsOf(rows) == {row.id : row \in rows}
AddrsOf(rows) == {row.addr : row \in rows} \ {Null}
Homes(rows) == {row.ds : row \in rows}

TxHomes(entity) == Homes({row \in db.tx : row.id = entity})
AddrHomes(entity) == Homes({row \in db.addrs \cup db.ins \cup db.outs : row.addr = entity})

(* The transactions by which one address pays another, and the edges        *)
(* between addresses: a payment counts once per paying address and, for     *)
(* the address paid, with the sum of its outputs.                           *)
PaidBy(ds, from, to) ==
  {row \in Of(db.outs, ds) : /\ row.addr = to
                             /\ [ds |-> ds, id |-> row.id] \in db.tx
                             /\ \E paid \in Of(db.ins, ds) : paid.id = row.id /\ paid.addr = from}

Amount(rows) == SumFunctionOnSet([row \in rows |-> row.amt], rows)
Edge(from, to, rows, n) == [source |-> from, target |-> to, total |-> Amount(rows), count |-> n]

AddressEdges(ds, wanted) ==
  {Edge(p[1], p[2], PaidBy(ds, p[1], p[2]), Cardinality(IdsOf(PaidBy(ds, p[1], p[2])))) :
     p \in {q \in wanted : q[1] # q[2] /\ PaidBy(ds, q[1], q[2]) # {}}}

(* The scores of an entity in an analysis; of an address, on its own or the *)
(* greatest of its transactions.                                            *)
Scores(ds, run, entity) == {r.score : r \in {x \in Of(db.results, ds) : x.run = run /\ x.entity = entity}}
Score(ds, run, addr) ==
  LET paid == IdsOf({row \in Of(db.ins \cup db.outs, ds) : row.addr = addr})
      best(S) == IF S = {} THEN Null ELSE Max(S)
  IN IF Scores(ds, run, addr) # {} THEN best(Scores(ds, run, addr))
     ELSE best(UNION {Scores(ds, run, t) : t \in paid})

AtLeast(score, other) == other = Null \/ (score # Null /\ score >= other)

----------------------------------------------------------------------------
Raise(error) ==
  /\ stage' = "end" /\ outcome' = error
  /\ UNCHANGED <<ask, ctx, seen, front, hop, limited, nodes, edges>>

(* get_analysis_graph.  The addresses at or above the minimum, the riskiest *)
(* first; a dataset without addresses is an error.                          *)
Candidates ==
  {row.addr : row \in {r \in Of(db.addrs, ctx.ds) :
     ask.min = Null \/ AtLeast(Score(ctx.ds, ctx.run, r.addr), ask.min)}}

ResolveExport ==
  /\ stage = "resolve" /\ ask.op = "export"
  /\ LET runs == {r \in db.runs : r.run = ask.run} IN
     IF runs = {} THEN Raise("AnalysisNotFound")
     ELSE /\ \E r \in runs : ctx' = [ctx EXCEPT !.ds = r.ds, !.run = r.run]
          /\ stage' = "select"
          /\ UNCHANGED <<ask, seen, front, hop, limited, nodes, edges, outcome>>
  /\ UNCHANGED database

SelectRiskiest ==
  /\ stage = "select"
  /\ IF Of(db.addrs, ctx.ds) = {} THEN Raise("GraphNotAvailable")
     ELSE LET risk == [a \in Candidates |-> Score(ctx.ds, ctx.run, a)] IN
          /\ seen' \in {S \in Some(Candidates, ask.max) :
                          \A a \in S, b \in Candidates \ S : AtLeast(risk[a], risk[b])}
          /\ nodes' = [a \in seen' |-> [risk |-> risk[a]]]
          /\ stage' = "connect"
          /\ UNCHANGED <<ask, ctx, front, hop, limited, edges, outcome>>
  /\ UNCHANGED database

(* Edges with one end selected bring the other end in, as far as there is   *)
(* room; edges that have lost an end go.                                    *)
(* (Plausible bug.) Edges to nodes that found no room stay. *)
KeptWithAnyEnd(all, kept) == {e \in all : e.source \in kept \/ e.target \in kept}
Kept(all, kept) == {e \in all : e.source \in kept /\ e.target \in kept}

ConnectSelected ==
  /\ stage = "connect"
  /\ LET wanted == IF ask.neighbors THEN (seen \X Addrs) \cup (Addrs \X seen) ELSE seen \X seen
         all == AddressEdges(ctx.ds, wanted)
         others == (UNION {{e.source, e.target} : e \in all}) \ seen
     IN \E more \in Some(others, ask.max - Cardinality(seen)) :
          /\ nodes' = [a \in seen \cup more |-> IF a \in seen THEN nodes[a] ELSE [risk |-> Null]]
          /\ edges' = Kept(all, seen \cup more)
  /\ stage' = "end" /\ outcome' = "answered"
  /\ UNCHANGED <<database, ask, ctx, seen, front, hop, limited>>

----------------------------------------------------------------------------
Begin(context) ==
  /\ ctx' = context
  /\ seen' = {ask.entity} /\ front' = {ask.entity}
  /\ stage' = "hop"
  /\ UNCHANGED <<ask, hop, limited, nodes, edges, outcome>>

(* get_address_subgraph.  Without an analysis, the dataset is one in which  *)
(* the address is found first; what turns out to be a transaction is a      *)
(* request for its neighborhood.                                            *)
FirstOf(S, T) == IF S # {} THEN S ELSE T

ResolveSubgraph ==
  /\ stage = "resolve" /\ ask.op = "subgraph"
  /\ LET runs == {r \in db.runs : r.run = ask.run}
         Having(table) == Homes({row \in table : row.addr = ask.entity})
         home == IF ask.run # Null THEN Homes(runs) \cap AddrHomes(ask.entity)
                 ELSE FirstOf(Having(db.addrs), FirstOf(Having(db.ins), Having(db.outs)))
         txHome == IF ask.run # Null THEN Homes(runs) \cap TxHomes(ask.entity) ELSE TxHomes(ask.entity)
     IN \/ /\ ask.run # Null /\ runs = {}
           /\ Raise("AnalysisNotFound")
        \/ /\ \E ds \in home : Begin([ds |-> ds, run |-> ask.run, kind |-> "address"])
        \/ /\ home = {}
           /\ \E ds \in txHome :
                ask' = [op |-> "neighborhood", entity |-> ask.entity, run |-> ask.run, ds |-> ds,
                        type |-> Null, depth |-> ask.depth, high |-> FALSE]
           /\ UNCHANGED <<stage, ctx, seen, front, hop, limited, nodes, edges, outcome>>
        \/ /\ home = {} /\ txHome = {} /\ (ask.run = Null \/ runs # {})
           /\ Raise("GraphNotAvailable")
  /\ UNCHANGED database

(* One hop: the addresses the frontier pays, then those that pay it.        *)
Payees(ds, from) == AddrsOf({o \in Of(db.outs, ds) : o.id \in IdsOf({i \in Of(db.ins, ds) : i.addr \in from})})
Payers(ds, from) == AddrsOf({i \in Of(db.ins, ds) : i.id \in IdsOf({o \in Of(db.outs, ds) : o.addr \in from})})

Walked == hop = ask.depth \/ front = {}
Full == Cardinality(seen) >= Limits.visited

Stop == stage' = "nodes" /\ UNCHANGED <<ask, ctx, seen, front, hop, nodes, edges, outcome>>

HopOverAddresses ==
  /\ stage = "hop" /\ ask.op = "subgraph"
  /\ IF Walked \/ Full THEN Stop /\ limited' = (limited \/ ~Walked)
     ELSE LET fwd == Payees(ctx.ds, front)
              bwd == Payers(ctx.ds, front)
              room == Limits.visited - Cardinality(seen)
          IN /\ \E to \in Some(fwd, Limits.hop), by \in Some(bwd, Limits.hop) :
                \E first \in Some(to \ seen, room) :
                \E last \in Some((by \ seen) \ first, room - Cardinality(first)) :
                  /\ front' = first \cup last
                  /\ limited' = (limited \/ Cut(fwd, Limits.hop) \/ Cut(bwd, Limits.hop)
                                   \/ Cut((to \cup by) \ seen, room))
             /\ seen' = seen \cup front'
             /\ hop' = hop + 1
             /\ UNCHANGED <<ask, stage, ctx, nodes, edges, outcome>>
  /\ UNCHANGED database

----------------------------------------------------------------------------
(* get_neighborhood.  The context is that of the analysis or else the last  *)
(* completed analysis of the dataset, which may have to be found.           *)
LastRun(ds) ==
  LET done == {r \in Of(db.runs, ds) : r.at > 0}
      last == {r.run : r \in {x \in done : \A y \in done : y.at <= x.at}}
  IN FirstOf(last, {Null})

Contexts ==
  IF ask.run # Null THEN {<<r.ds, r.run>> : r \in {x \in db.runs : x.run = ask.run}}
  ELSE UNION {{ds} \X LastRun(ds) :
                ds \in IF ask.ds # Null THEN {ask.ds} ELSE FirstOf(TxHomes(ask.entity), AddrHomes(ask.entity))}

ResolveNeighborhood ==
  /\ stage = "resolve" /\ ask.op = "neighborhood"
  /\ \/ /\ Contexts = {}
        /\ Raise(IF ask.run # Null THEN "AnalysisNotFound" ELSE "GraphNotAvailable")
     \/ \E c \in Contexts :
          LET isTx == ask.type # "address" /\ c[1] \in TxHomes(ask.entity)
              isAddr == ask.type # "transaction" /\ c[1] \in AddrHomes(ask.entity)
          IN IF isTx \/ isAddr
             THEN Begin([ds |-> c[1], run |-> c[2], kind |-> IF isTx THEN "transaction" ELSE "address"])
             ELSE Raise("GraphNotAvailable")
  /\ UNCHANGED database

(* Hops go from transactions to addresses and back, from some of the        *)
(* frontier to some of its neighbors; the first one must lead somewhere.    *)
Linked(ds, from) ==
  LET rows == Of(db.ins \cup db.outs, ds) IN
  AddrsOf({row \in rows : row.id \in from}) \cup IdsOf({row \in rows : row.addr \in from})

FromTxs == (ctx.kind = "transaction") = (hop % 2 = 0)
FromLimit == IF FromTxs THEN Limits.fromTxs ELSE Limits.fromAddrs
FoundLimit(found) ==
  IF hop > 0 THEN IF FromTxs THEN Limits.addrs ELSE Limits.txs
  ELSE IF FromTxs THEN Cardinality(found) ELSE Limits.firstTxs

HopOverBoth ==
  /\ stage = "hop" /\ ask.op = "neighborhood"
  /\ IF Walked THEN Stop /\ UNCHANGED limited
     ELSE \E from \in Some(front, FromLimit) :
          LET found == Linked(ctx.ds, from) IN
          IF hop = 0 /\ found = {} THEN Raise("GraphNotAvailable")
          ELSE /\ \E some \in Some(found, FoundLimit(found)) : front' = some \ seen
               /\ limited' = (limited \/ Cut(front, FromLimit) \/ Cut(found, FoundLimit(found)))
               /\ seen' = seen \cup front'
               /\ hop' = hop + 1
               /\ UNCHANGED <<ask, stage, ctx, nodes, edges, outcome>>
  /\ UNCHANGED database

----------------------------------------------------------------------------
(* What is said of the nodes.  A transaction without a row is none, but an  *)
(* address is.  Without an analysis, a walk over addresses takes the last   *)
(* result there is and a neighborhood any.                                  *)
Present == {x \in seen : x \in Txs => [ds |-> ctx.ds, id |-> x] \in db.tx}

LastOf(results) == {x \in results : \A y \in results : y.at <= x.at}

Risks(entity) ==
  LET all == {x \in Of(db.results, ctx.ds) : x.entity = entity}
      mine == IF ctx.run # Null THEN {x \in all : x.run = ctx.run}
              ELSE IF ask.op = "subgraph" THEN LastOf(all)
              ELSE all
  IN FirstOf({x.score : x \in mine}, {Null})

DescribeNodes ==
  /\ stage = "nodes"
  /\ LET open == {x \in Present : Cardinality(Risks(x)) > 1} IN
     \E risk \in {f \in [open -> UNION {Risks(x) : x \in open}] : \A x \in open : f[x] \in Risks(x)} :
        nodes' = [x \in Present |->
                    [risk |-> IF x \in open THEN risk[x] ELSE CHOOSE r \in Risks(x) : TRUE]]
  /\ stage' = "edges"
  /\ UNCHANGED <<database, ask, ctx, seen, front, hop, limited, edges, outcome>>

(* Edges of a walk over addresses, and of a neighborhood: from an address   *)
(* to a transaction by its inputs, from there to an address by its outputs. *)
WalkEdges == AddressEdges(ctx.ds, seen \X seen)

BipartiteEdges ==
  LET Rows(table, t, a) ==
        {row \in Of(table, ctx.ds) : row.id = t /\ row.addr = a /\ [ds |-> ctx.ds, id |-> t] \in db.tx}
      pairs == (seen \cap Txs) \X (seen \cap Addrs)
      In(p) == Rows(db.ins, p[1], p[2])
      Out(p) == Rows(db.outs, p[1], p[2])
  IN {Edge(p[2], p[1], In(p), Cardinality(In(p))) : p \in {q \in pairs : In(q) # {}}}
       \cup {Edge(p[1], p[2], Out(p), Cardinality(Out(p))) : p \in {q \in pairs : Out(q) # {}}}

DrawEdges ==
  /\ stage = "edges"
  /\ IF ask.op = "subgraph"
     THEN edges' = WalkEdges /\ stage' = "end" /\ outcome' = "answered"
     ELSE edges' = BipartiteEdges /\ stage' = "annotate" /\ UNCHANGED outcome
  /\ UNCHANGED <<database, ask, ctx, seen, front, hop, limited, nodes>>

(* What is left when only high risks are asked for, and what is known of it *)
(* from all edges and from the alerts.                                      *)
HighRisk == {t \in DOMAIN nodes \cap Txs : AtLeast(nodes[t].risk, 50) /\ nodes[t].risk # Null}

(* (Plausible bug.) The centre stays only if it is one of them. *)
LeftWithoutTheCentre ==
  IF ~ask.high THEN DOMAIN nodes
  ELSE (HighRisk
          \cup {e.target : e \in {x \in edges : x.source \in HighRisk}}
          \cup {e.source : e \in {x \in edges : x.target \in HighRisk}}) \cap DOMAIN nodes

Left ==
  IF ~ask.high THEN DOMAIN nodes
  ELSE ({ask.entity} \cup HighRisk
          \cup {e.target : e \in {x \in edges : x.source \in HighRisk}}
          \cup {e.source : e \in {x \in edges : x.target \in HighRisk}}) \cap DOMAIN nodes

Annotate ==
  /\ stage = "annotate"
  /\ nodes' = [x \in Left |->
       [risk |-> nodes[x].risk,
        fanIn |-> Cardinality({e \in edges : e.target = x}),
        fanOut |-> Cardinality({e \in edges : e.source = x}),
        alerts |-> {al.id : al \in {y \in db.alerts : y.entity = x /\ ctx.run \in {Null, y.run}}}]]
  /\ edges' = IF ask.high THEN Kept(edges, Left) ELSE edges
  /\ stage' = "end" /\ outcome' = "answered"
  /\ UNCHANGED <<database, ask, ctx, seen, front, hop, limited>>

----------------------------------------------------------------------------
Service ==
  \/ ResolveExport \/ SelectRiskiest \/ ConnectSelected
  \/ ResolveSubgraph \/ HopOverAddresses
  \/ ResolveNeighborhood \/ HopOverBoth
  \/ DescribeNodes \/ DrawEdges \/ Annotate

Next == DeleteDataset \/ EraseTable \/ Service

Spec == Init /\ [][Next]_vars

----------------------------------------------------------------------------
IsClosed == \A e \in edges : {e.source, e.target} \subseteq DOMAIN nodes /\ e.source # e.target
Undisturbed == deleting = "no"

(* An exported graph has no edge without both its ends and no more nodes    *)
(* than asked for, whatever a deletion took away meanwhile.  Without one:   *)
(* no address as risky as was asked for is missing while a less risky one   *)
(* or a mere neighbor is shown, and between two nodes one of which was      *)
(* selected all payments are shown, and no other                            *)
(* (graph_service.py:116-124, :207-263).                                    *)
ExportIsSound ==
  ask.op = "export" /\ outcome = "answered" =>
    /\ IsClosed
    /\ Cardinality(DOMAIN nodes) <= ask.max
    /\ Undisturbed =>
         /\ \A a \in Candidates \ DOMAIN nodes :
              /\ Cardinality(DOMAIN nodes) = ask.max
              /\ \A b \in DOMAIN nodes : b \in Candidates
                   /\ AtLeast(nodes[b].risk, Score(ctx.ds, ctx.run, a))
         /\ \A a, b \in DOMAIN nodes : a # b /\ {a, b} \cap Candidates # {} =>
              LET shown == {e \in edges : e.source = a /\ e.target = b} IN
              /\ SumFunctionOnSet([e \in shown |-> e.total], shown) = Amount(PaidBy(ctx.ds, a, b))
              /\ Cardinality(shown) <= 1

(* Reference: what lies within n hops of a centre, where a hop leads from   *)
(* one end of a tie to the other; the ties there are, and those returned.   *)
Beside(ties, S) == {y \in Ids : \E x \in S : {x, y} \in ties}

Around(centre, ties, n) ==
  LET ball[k \in 0..n] ==
        IF k = 0 THEN {centre}
        ELSE ball[k - 1] \cup Beside(ties, ball[k - 1])
  IN ball[n]

Ties ==
  IF ask.op = "subgraph"
  THEN {{p[1].addr, p[2].addr} :
          p \in {q \in Of(db.ins, ctx.ds) \X Of(db.outs, ctx.ds) : q[1].id = q[2].id}}
  ELSE {{row.id, row.addr} : row \in Of(db.ins \cup db.outs, ctx.ds)}

Ball(n) == Around(ask.entity, Ties, n)
Reached(n) == Around(ask.entity, {{e.source, e.target} : e \in edges}, n)

(* A walked graph has no edge without both its ends, whatever a deletion    *)
(* took away meanwhile.  Without one, its nodes lie within the hops asked   *)
(* for and can be reached by its own edges; nothing within the hops is      *)
(* missing unless a limit was met; and when only high risks were asked for, *)
(* every node but the centre is one or is linked to one                     *)
(* (graph_service.py:374-415, :688-776, :1130-1155).                        *)
WalkIsSound ==
  ask.op # "export" /\ outcome = "answered" =>
    /\ IsClosed
    /\ Undisturbed =>
         /\ ask.entity \in DOMAIN nodes
         /\ DOMAIN nodes \subseteq Ball(ask.depth)
         /\ ask.op = "subgraph" \/ ~ask.high =>
              /\ DOMAIN nodes \subseteq Reached(ask.depth)
              /\ limited \/ Ball(ask.depth) \subseteq DOMAIN nodes
         /\ ask.op = "neighborhood" /\ ask.high =>
              LET Risky(x) == x \in Txs /\ nodes[x].risk # Null /\ nodes[x].risk >= 50 IN
              \A x \in DOMAIN nodes \ {ask.entity} :
                \/ Risky(x)
                \/ \E e \in edges : x \in {e.source, e.target} /\ (Risky(e.source) \/ Risky(e.target))
=============================================================================
