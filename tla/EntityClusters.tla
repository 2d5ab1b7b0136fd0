-------------------------- MODULE EntityClusters --------------------------
(***************************************************************************)
(* TemporalEntityClusterer: one pass over the transactions in              *)
(* chronological order.  For each of them the cluster of its first input   *)
(* is read, as it was before the transaction, and only then are the inputs *)
(* and the change outputs joined into one cluster.                         *)
(*                                                                         *)
(* The clusters are a UnionFind: a forest of parents with union by rank    *)
(* and path compression, and two dictionaries kept for the roots only.  A  *)
(* call of find is the walk of its loop, one parent per step, and what     *)
(* follows the loop.                                                       *)
(***************************************************************************)
EXTENDS Naturals, Sequences, FiniteSets

CONSTANTS
  Addresses,
  Rows,     \* the transactions that may appear in the stream
  None,     \* active_root and curr before they are set
  MaxTxs    \* bound on the length of the stream

ASSUME RowsAssumption ==
  \A row \in Rows : /\ row.inputs \in Seq(Addresses)
                    /\ row.change \in Seq(Addresses)
ASSUME NoneAssumption == None \notin Addresses
ASSUME MaxTxsAssumption == MaxTxs \in Nat

VARIABLES
  stream,    \* the transactions taken so far, in the order of the sort
  stage,     \* what the pass is doing with the last of them
  linked,    \* how many of its addresses are in the active cluster
  active,    \* active_root
  curr,      \* find: the node the walk has reached
  path,      \* find: the nodes it has left behind
  parent,    \* the dictionaries of the UnionFind
  rank,
  members,   \* cluster_members
  txCount,   \* cluster_tx_count
  features   \* feature_records

forest == <<parent, rank, members, txCount>>
vars == <<stream, stage, linked, active, curr, path, forest, features>>

\* Dictionaries: without keys, with one more, with one popped.
Empty == [a \in {} |-> None]
With(f, x, v) == [y \in DOMAIN f \cup {x} |-> IF y = x THEN v ELSE f[y]]
Without(f, x) == [y \in DOMAIN f \ {x} |-> f[y]]

Row == stream[Len(stream)]
LinkOrder(row) == row.inputs \o row.change
Spends(row) == row.inputs # <<>>

Unknown == [root |-> None, size |-> 0, count |-> 0]

TypeOK ==
  /\ stream \in Seq(Rows)
  /\ stage \in {"idle", "read", "linked", "union"}
  /\ linked \in Nat
  /\ active \in Addresses \cup {None}
  /\ curr \in Addresses \cup {None}
  /\ path \subseteq Addresses
  /\ DOMAIN parent \subseteq Addresses
  /\ parent \in [DOMAIN parent -> DOMAIN parent]
  /\ rank \in [DOMAIN parent -> Nat]
  /\ DOMAIN members \subseteq DOMAIN parent
  /\ members \in [DOMAIN members -> SUBSET DOMAIN parent]
  /\ txCount \in [DOMAIN members -> Nat]
  /\ features \in Seq([root: Addresses \cup {None}, size: Nat, count: Nat])

Init ==
  /\ stream = <<>>
  /\ stage = "idle"
  /\ linked = 0
  /\ active = None
  /\ curr = None
  /\ path = {}
  /\ parent = Empty
  /\ rank = Empty
  /\ members = Empty
  /\ txCount = Empty
  /\ features = <<>>

-----------------------------------------------------------------------------
(***************************************************************************)
(* UnionFind.find                                                          *)
(***************************************************************************)

\* (Plausible bug.) The test for an unknown address is missing.
InsertAlways(a) ==
  /\ parent' = With(parent, a, a)
  /\ rank' = With(rank, a, 0)
  /\ members' = With(members, a, {a})
  /\ txCount' = With(txCount, a, 0)

\* The entry of find: an address it does not know becomes a tree of its own.
Insert(a) ==
  IF a \in DOMAIN parent
  THEN UNCHANGED forest
  ELSE /\ parent' = With(parent, a, a)
       /\ rank' = With(rank, a, 0)
       /\ members' = With(members, a, {a})
       /\ txCount' = With(txCount, a, 0)

BeginFind(a) ==
  /\ Insert(a)
  /\ curr' = a
  /\ path' = {}

Finding == stage \in {"read", "union"}

\* One turn of the loop.
Climb ==
  /\ Finding
  /\ parent[curr] # curr
  /\ path' = path \cup {curr}
  /\ curr' = parent[curr]
  /\ UNCHANGED <<stream, stage, linked, active, forest, features>>

Arrived == Finding /\ parent[curr] = curr

\* Every node of the path is hung from the root.
Compressed == [a \in DOMAIN parent |-> IF a \in path THEN curr ELSE parent[a]]

EndFind == curr' = None /\ path' = {}

-----------------------------------------------------------------------------
(***************************************************************************)
(* The pass over one transaction                                           *)
(***************************************************************************)

MayTake(row) == stage = "idle" /\ Len(stream) < MaxTxs /\ stream' = Append(stream, row)

\* A transaction without inputs gets its features and changes no cluster.
TakeInputless(row) ==
  /\ MayTake(row)
  /\ ~Spends(row)
  /\ features' = Append(features, Unknown)
  /\ UNCHANGED <<stage, linked, active, curr, path, forest>>

\* STEP A begins: the root of the first input is looked up.
TakeSpending(row) ==
  /\ MayTake(row)
  /\ Spends(row)
  /\ BeginFind(row.inputs[1])
  /\ stage' = "read"
  /\ UNCHANGED <<linked, active, features>>

\* (Plausible bug.) The transaction counts itself.
ReadHistoryInclusive ==
  /\ stage = "read" /\ Arrived
  /\ parent' = Compressed
  /\ features' = Append(features, [root |-> curr, size |-> Cardinality(members[curr]),
                                   count |-> txCount[curr] + 1])
  /\ active' = curr
  /\ linked' = 1
  /\ stage' = "linked"
  /\ EndFind
  /\ UNCHANGED <<stream, rank, members, txCount>>

\* STEP A: get_size and get_tx_count find the same root again, one step away.
ReadHistory ==
  /\ stage = "read" /\ Arrived
  /\ parent' = Compressed
  /\ features' = Append(features, [root |-> curr, size |-> Cardinality(members[curr]),
                                   count |-> txCount[curr]])
  /\ active' = curr
  /\ linked' = 1
  /\ stage' = "linked"
  /\ EndFind
  /\ UNCHANGED <<stream, rank, members, txCount>>

\* STEPS B and C: union(active_root, a) for the next input or change output.
\* active_root is a root, so the find of it returns at once.
BeginUnion ==
  /\ stage = "linked"
  /\ linked < Len(LinkOrder(Row))
  /\ BeginFind(LinkOrder(Row)[linked + 1])
  /\ stage' = "union"
  /\ UNCHANGED <<stream, linked, active, features>>

EndUnion ==
  /\ linked' = linked + 1
  /\ stage' = "linked"
  /\ EndFind
  /\ UNCHANGED <<stream, features>>

SameRoot ==
  /\ stage = "union" /\ Arrived
  /\ curr = active
  /\ parent' = Compressed
  /\ EndUnion
  /\ UNCHANGED <<active, rank, members, txCount>>

\* (Plausible bug.) The count of the lower root is read and not popped.
AttachKeepsEntry(low, high) ==
  /\ parent' = [Compressed EXCEPT ![low] = high]
  /\ rank' = [rank EXCEPT ![high] = IF rank[low] = @ THEN @ + 1 ELSE @]
  /\ members' = [Without(members, low) EXCEPT ![high] = @ \cup members[low]]
  /\ txCount' = [txCount EXCEPT ![high] = @ + txCount[low]]
  /\ active' = high

\* The root of lower rank goes under the other one, and its entries with it.
Attach(low, high) ==
  /\ parent' = [Compressed EXCEPT ![low] = high]
  /\ rank' = [rank EXCEPT ![high] = IF rank[low] = @ THEN @ + 1 ELSE @]
  /\ members' = [Without(members, low) EXCEPT ![high] = @ \cup members[low]]
  /\ txCount' = [Without(txCount, low) EXCEPT ![high] = @ + txCount[low]]
  /\ active' = high

\* (Plausible bug.) The roots are not swapped when the ranks ask for it.
JoinWithoutSwap ==
  /\ stage = "union" /\ Arrived
  /\ curr # active
  /\ Attach(curr, active)
  /\ EndUnion

Join ==
  /\ stage = "union" /\ Arrived
  /\ curr # active
  /\ IF rank[active] < rank[curr] THEN Attach(active, curr) ELSE Attach(curr, active)
  /\ EndUnion

\* (Plausible bug.) The change outputs are left out.
CountTxOfInputs ==
  /\ stage = "linked"
  /\ linked = Len(Row.inputs)
  /\ txCount' = [txCount EXCEPT ![active] = @ + 1]
  /\ stage' = "idle"
  /\ linked' = 0
  /\ active' = None
  /\ UNCHANGED <<stream, curr, path, parent, rank, members, features>>

\* STEP D: increment_tx_count(active_root).
CountTx ==
  /\ stage = "linked"
  /\ linked = Len(LinkOrder(Row))
  /\ txCount' = [txCount EXCEPT ![active] = @ + 1]
  /\ stage' = "idle"
  /\ linked' = 0
  /\ active' = None
  /\ UNCHANGED <<stream, curr, path, parent, rank, members, features>>

\* The end of the stream.
Finish == stage = "idle" /\ Len(stream) = MaxTxs /\ UNCHANGED vars

Next ==
  \/ \E row \in Rows : TakeInputless(row) \/ TakeSpending(row)
  \/ Climb
  \/ ReadHistory
  \/ BeginUnion
  \/ SameRoot
  \/ Join
  \/ CountTx
  \/ Finish

Spec == Init /\ [][Next]_vars

-----------------------------------------------------------------------------
(***************************************************************************)
(* What the addresses have in common, from the stream alone                *)
(***************************************************************************)

\* The transactions whose joining and counting is over.
Over(i) == i < Len(stream) \/ stage = "idle"

\* The addresses of transaction i that have been joined so far.
Joined(i) ==
  LET order == LinkOrder(stream[i])
      done == IF Over(i) THEN Len(order) ELSE linked
  IN  IF Spends(stream[i]) THEN {order[j] : j \in 1..done} ELSE {}

Groups == {Joined(i) : i \in DOMAIN stream}

\* No group of addresses is torn by the border of S.
Whole(S, groups) == \A G \in groups : G \subseteq S \/ G \cap S = {}

\* The addresses that chains of groups connect to a.
Component(a, groups) ==
  {b \in Addresses : \A S \in SUBSET Addresses : a \in S /\ Whole(S, groups) => b \in S}

Roots == {a \in DOMAIN parent : parent[a] = a}

-----------------------------------------------------------------------------
(***************************************************************************)
(* Safety                                                                  *)
(***************************************************************************)

\* The forest and the dictionaries kept for its roots describe one partition:
\* cluster_members has an entry for every root and no other, the entries do
\* not overlap, and a node and its parent are in the same one.
TreesAreClusters ==
  /\ DOMAIN members = Roots
  /\ \A r \in Roots : r \in members[r]
  /\ \A r, s \in Roots : r # s => members[r] \cap members[s] = {}
  /\ \A a \in DOMAIN parent : \E r \in Roots : a \in members[r] /\ parent[a] \in members[r]

\* Ranks rise strictly towards the root, through every path compression and
\* every union, so the forest has no cycle and the loop of find ends.
RanksRise == \A a \in DOMAIN parent : parent[a] # a => rank[a] < rank[parent[a]]

\* What find and union rest on: the forest is the partition, and its walks end.
ForestIsSound == TreesAreClusters /\ RanksRise

\* The clusters are the connected components of co-spending and change:
\* addresses joined by one transaction are in one cluster, and a set of
\* addresses that no transaction tears is not torn by a cluster either, in
\* the middle of a transaction too.
ClustersAreComponents ==
  /\ \A G \in Groups : G # {} => \E r \in DOMAIN members : G \subseteq members[r]
  /\ \A S \in SUBSET Addresses :
       Whole(S, Groups) => Whole(S, {members[r] : r \in DOMAIN members})

\* No leakage: the features of a transaction are those of the clusters that
\* the transactions before it make, whatever came after and whatever the
\* transaction itself joined.
HistoryIsPrior ==
  \A i \in DOMAIN features :
    Spends(stream[i]) =>
      LET primary == stream[i].inputs[1]
          before == {j \in 1..(i - 1) : Spends(stream[j])}
          cluster == Component(primary, {Joined(j) : j \in before})
      IN  /\ features[i].root \in cluster
          /\ features[i].size = Cardinality(cluster)
          /\ features[i].count = Cardinality({j \in before : stream[j].inputs[1] \in cluster})

\* Every step creates a cluster of one address, joins two clusters or leaves
\* them alone: UnionFind implements AddressClusters.
Abstract == INSTANCE AddressClusters
              WITH clusters <- {members[r] : r \in DOMAIN members}
ImplementsClusters == Abstract!Spec
=============================================================================
