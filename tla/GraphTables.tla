---------------------------- MODULE GraphTables ----------------------------
(***************************************************************************)
(* ml/graph_analysis as functions on canonical datasets: the bipartite     *)
(* graph of transactions and addresses with its statistics, and the        *)
(* features a pass over the transactions in chronological order reads from *)
(* the graph as it was at each of them.                                    *)
(***************************************************************************)
EXTENDS FeatureTables

TxNode(id) == <<"tx", id>>
AddrNode(addr) == <<"addr", addr>>

----------------------------------------------------------------------------
(* BipartiteGraphBuilder.  The table of edges has one for every input and   *)
(* output; the graph has one for every pair of nodes, and degrees are       *)
(* counted there.  An input of an unknown transaction adds a node without a *)
(* type, and its time is 0.                                                 *)
TimeOf(c, id) ==
  LET own == {t \in Range(c.tx) : t.id = id} IN IF own = {} THEN 0 ELSE (CHOOSE t \in own : TRUE).time

EdgeRows(c) ==
  [i \in DOMAIN c.ins |->
     [source |-> AddrNode(c.ins[i].addr), target |-> TxNode(c.ins[i].id),
      index |-> c.ins[i].index, amt |-> c.ins[i].amt, change |-> FALSE,
      time |-> TimeOf(c, c.ins[i].id)]]
  \o [i \in DOMAIN c.outs |->
     [source |-> TxNode(c.outs[i].id), target |-> AddrNode(c.outs[i].addr),
      index |-> c.outs[i].index, amt |-> c.outs[i].amt, change |-> c.outs[i].change,
      time |-> TimeOf(c, c.outs[i].id)]]

Arcs(edges) == {<<e.source, e.target>> : e \in Range(edges)}

NodeRows(c) ==
  LET arcs == Arcs(EdgeRows(c))
      nodes == {TxNode(id) : id \in Ids(c.tx)} \cup UNION {{arc[1], arc[2]} : arc \in arcs}
      Kind(n) == IF n \in {TxNode(id) : id \in Ids(c.tx)} THEN "transaction"
                 ELSE IF n[1] = "addr" THEN "address" ELSE "unknown"
  IN {[node |-> n, kind |-> Kind(n),
       ins |-> Cardinality({arc \in arcs : arc[2] = n}),
       outs |-> Cardinality({arc \in arcs : arc[1] = n})] : n \in nodes}

(* The nodes that can be reached, along arcs in both directions. *)
Grown(arcs, S) == S \cup {arc[1] : arc \in {a \in arcs : a[2] \in S}}
                    \cup {arc[2] : arc \in {a \in arcs : a[1] \in S}}
Component(arcs, node) ==
  LET steps == [k \in 1..2 * Cardinality(arcs) |-> k]
  IN FoldLeft(LAMBDA S, k : Grown(arcs, S), {node}, steps)

(* MacroscopicGraphMetrics; communities and page ranks, which nothing else  *)
(* reads, are left out.                                                     *)
Summary(c) ==
  LET rows == NodeRows(c)
      arcs == Arcs(EdgeRows(c))
      components == {Component(arcs, row.node) : row \in rows}
  IN [nodes |-> Cardinality(rows), edges |-> Cardinality(arcs),
      addresses |-> Cardinality({row \in rows : row.kind = "address"}),
      transactions |-> Cardinality({row \in rows : row.kind = "transaction"}),
      components |-> Cardinality(components),
      giant |-> Max({Cardinality(comp) : comp \in components})]

----------------------------------------------------------------------------
(* GraphComponentTracker: a disjoint-set forest with union by size.         *)
NewTracker == [parent |-> <<>>, size |-> <<>>]

Added(tracker, x) ==
  IF x \in DOMAIN tracker.parent THEN tracker
  ELSE [parent |-> Put(tracker.parent, x, x), size |-> Put(tracker.size, x, 1)]

Root(parent, x) ==
  LET root[y \in DOMAIN parent] == IF parent[y] = y THEN y ELSE root[parent[y]]
  IN root[x]

Trail(parent, x) ==
  LET trail[y \in DOMAIN parent] == IF parent[y] = y THEN {} ELSE {y} \cup trail[parent[y]]
  IN trail[x]

(* find, with the path hung from the root. *)
Found(tracker, x) ==
  LET t == Added(tracker, x)
      root == Root(t.parent, x)
      path == Trail(t.parent, x)
  IN [t EXCEPT !.parent = [y \in DOMAIN t.parent |-> IF y \in path THEN root ELSE t.parent[y]]]

(* (Plausible bug.) The size goes to the root that lost. *)
UnionWithoutSize(tracker, x, y) ==
  LET t == Found(Found(tracker, x), y)
      a == Root(t.parent, x)
      b == Root(t.parent, y)
      big == IF t.size[a] < t.size[b] THEN b ELSE a
      small == IF big = a THEN b ELSE a
  IN IF a = b THEN t ELSE [t EXCEPT !.parent[small] = big, !.size[a] = @ + t.size[b]]

Union(tracker, x, y) ==
  LET t == Found(Found(tracker, x), y)
      a == Root(t.parent, x)
      b == Root(t.parent, y)
      big == IF t.size[a] < t.size[b] THEN b ELSE a
      small == IF big = a THEN b ELSE a
  IN IF a = b THEN t ELSE [t EXCEPT !.parent[small] = big, !.size[big] = @ + t.size[small]]

ComponentSize(tracker, x) == tracker.size[Root(tracker.parent, x)]

----------------------------------------------------------------------------
(* GraphFeatureExtractor: degrees are read, the transaction is joined with  *)
(* its addresses, the size of its component is read, and then the degrees   *)
(* go up by one for every input and output.                                 *)
Deg(deg, addr) == IF addr \in DOMAIN deg THEN deg[addr] ELSE 0
Bumped(deg, row) == Put(deg, row.addr, Deg(deg, row.addr) + 1)

Visit(c, s, t) ==
  LET ins == Of(c.ins, t.id)
      outs == Of(c.outs, t.id)
      joined == FoldLeft(LAMBDA tracker, row : Union(tracker, TxNode(t.id), AddrNode(row.addr)),
                         Added(s.tracker, TxNode(t.id)), ins \o outs)
  IN [tracker |-> joined,
      deg |-> FoldLeft(Bumped, s.deg, ins \o outs),
      rows |-> Put(s.rows, t.id,
        [fanIn |-> Len(ins), fanOut |-> Len(outs),
         uniqueIn |-> Cardinality(Addrs(ins)), uniqueOut |-> Cardinality(Addrs(outs)),
         degIn |-> SumFunction([a \in Addrs(ins) |-> Deg(s.deg, a)]),
         degOut |-> SumFunction([a \in Addrs(outs) |-> Deg(s.deg, a)]),
         reused |-> Cardinality({i \in DOMAIN ins : Deg(s.deg, ins[i].addr) > 0}),
         component |-> ComponentSize(joined, TxNode(t.id))])]

GraphFeatures(c) ==
  LET Step(s, t) == Visit(c, s, t)
  IN FoldLeft(Step, [tracker |-> NewTracker, deg |-> <<>>, rows |-> <<>>], Chronological(c.tx)).rows
============================================================================
