----------------------- MODULE EntityClustersProofs -----------------------
(***************************************************************************)
(* Proofs about EntityClusters, for streams of any length over any set of  *)
(* addresses.                                                              *)
(***************************************************************************)
EXTENDS EntityClusters, FiniteSetTheorems, TLAPS

(***************************************************************************)
(* Sequences                                                               *)
(***************************************************************************)

LEMMA ConcatFirst ==
  ASSUME NEW S, NEW s \in Seq(S), NEW t \in Seq(S), s # <<>>
  PROVE  Len(s \o t) >= 1 /\ (s \o t)[1] = s[1] /\ s[1] \in S
<1>1. Len(s) \in Nat /\ Len(t) \in Nat /\ Len(s) # 0
  OBVIOUS
<1>2. Len(s \o t) = Len(s) + Len(t)
  OBVIOUS
<1>3. 1 \in 1..Len(s)
  BY <1>1
<1>4. (s \o t)[1] = s[1]
  BY <1>3
<1> QED
  BY <1>1, <1>2, <1>3, <1>4

LEMMA AppendLast ==
  ASSUME NEW S, NEW s \in Seq(S), NEW x \in S
  PROVE  /\ Len(s) \in Nat /\ Len(Append(s, x)) = Len(s) + 1
         /\ Append(s, x)[Len(s) + 1] = x
         /\ Append(s, x) # <<>>
         /\ \A i \in 1..Len(s) : Append(s, x)[i] = s[i]
  OBVIOUS

(***************************************************************************)
(* The forest between two steps                                            *)
(***************************************************************************)

ForestType ==
  /\ DOMAIN parent \subseteq Addresses
  /\ parent \in [DOMAIN parent -> DOMAIN parent]
  /\ rank \in [DOMAIN parent -> Nat]
  /\ DOMAIN members \subseteq DOMAIN parent
  /\ members \in [DOMAIN members -> SUBSET DOMAIN parent]
  /\ txCount \in [DOMAIN members -> Nat]

ForestOK == ForestType /\ TreesAreClusters /\ RanksRise /\ IsFiniteSet(DOMAIN parent)

\* What the walk of find knows: it has not left the cluster it began in, and
\* ranks have risen on its way.
WalkOK(r) ==
  /\ r \in Roots
  /\ curr \in members[r]
  /\ path \subseteq members[r]
  /\ \A a \in path : rank[a] < rank[curr]

\* A node is in one cluster only.
LEMMA OneCluster ==
  ASSUME ForestOK, NEW r \in Roots, NEW s \in Roots, NEW a, a \in members[r], a \in members[s]
  PROVE  r = s
  BY DEF ForestOK, TreesAreClusters

\* A walk that has arrived is at the root of its cluster.
LEMMA ArrivedAtRoot ==
  ASSUME ForestOK, NEW r \in Roots, WalkOK(r), parent[curr] = curr
  PROVE  curr = r
<1>1. curr \in Roots
  BY DEF ForestOK, ForestType, WalkOK, Roots, TreesAreClusters
<1>2. curr \in members[curr]
  BY <1>1 DEF ForestOK, TreesAreClusters
<1> QED
  BY <1>1, <1>2, OneCluster DEF WalkOK

\* find on a new address adds a tree of one node and changes no other tree.
LEMMA InsertKeepsForest ==
  ASSUME ForestOK, NEW a \in Addresses, Insert(a)
  PROVE  /\ ForestOK'
         /\ a \in (DOMAIN parent)'
         /\ Roots \subseteq Roots'
         /\ \A r \in Roots : members'[r] = members[r]
         /\ \A r \in Roots' \ Roots : r = a /\ members'[r] = {a} /\ a \notin DOMAIN parent
         /\ \A b \in DOMAIN parent : b \in (DOMAIN parent)' /\ rank'[b] = rank[b]
<1>1. CASE a \in DOMAIN parent
  BY <1>1 DEF Insert, forest, ForestOK, ForestType, TreesAreClusters, RanksRise, Roots
<1>2. CASE a \notin DOMAIN parent
  <2>1. /\ parent' = With(parent, a, a)
        /\ rank' = With(rank, a, 0)
        /\ members' = With(members, a, {a})
        /\ txCount' = With(txCount, a, 0)
    BY <1>2 DEF Insert
  <2>2. DOMAIN members = Roots /\ a \notin Roots
    BY <1>2 DEF ForestOK, TreesAreClusters, Roots
  <2>3. /\ DOMAIN parent' = DOMAIN parent \cup {a}
        /\ parent'[a] = a /\ rank'[a] = 0 /\ members'[a] = {a} /\ txCount'[a] = 0
        /\ \A b \in DOMAIN parent : parent'[b] = parent[b] /\ rank'[b] = rank[b]
    BY <2>1, <1>2 DEF With, ForestOK, ForestType
  <2>4. /\ DOMAIN members' = Roots \cup {a}
        /\ \A r \in Roots : members'[r] = members[r] /\ txCount'[r] = txCount[r]
    BY <2>1, <2>2 DEF With, ForestOK, ForestType
  <2>5. Roots' = Roots \cup {a}
    BY <2>3, <1>2 DEF Roots, ForestOK, ForestType
  <2>6. ForestType'
    BY <2>1, <2>2, <2>3, <2>4 DEF ForestType, ForestOK, With
  <2>7. \A r \in Roots : members[r] \subseteq DOMAIN parent
    BY <2>2 DEF ForestOK, ForestType
  <2>8. TreesAreClusters'
    <3>1. \A r \in Roots' : r \in members'[r]
      BY <2>3, <2>4, <2>5 DEF ForestOK, TreesAreClusters
    <3>2. \A r, s \in Roots' : r # s => members'[r] \cap members'[s] = {}
      BY <2>3, <2>4, <2>5, <2>7, <1>2 DEF ForestOK, TreesAreClusters
    <3>3. ASSUME NEW b \in DOMAIN parent'
          PROVE  \E r \in Roots' : b \in members'[r] /\ parent'[b] \in members'[r]
      BY <2>3, <2>4, <2>5 DEF ForestOK, TreesAreClusters
    <3> QED
      BY <2>4, <2>5, <3>1, <3>2, <3>3 DEF TreesAreClusters
  <2>9. RanksRise'
    BY <2>3 DEF RanksRise, ForestOK, ForestType
  <2>10. IsFiniteSet(DOMAIN parent')
    BY <2>3, FS_AddElement DEF ForestOK
  <2> QED
    BY <2>2, <2>3, <2>4, <2>5, <2>6, <2>8, <2>9, <2>10, <1>2 DEF ForestOK
<1> QED
  BY <1>1, <1>2

\* Path compression moves nodes inside their cluster and under a higher rank.
LEMMA CompressedFacts ==
  ASSUME ForestOK, NEW r \in Roots, WalkOK(r), parent[curr] = curr
  PROVE  /\ Compressed \in [DOMAIN parent -> DOMAIN parent]
         /\ \A a \in DOMAIN parent :
              /\ Compressed[a] = a <=> a \in Roots
              /\ Compressed[a] # a => rank[a] < rank[Compressed[a]]
              /\ \E s \in Roots : a \in members[s] /\ Compressed[a] \in members[s]
<1>1. curr = r
  BY ArrivedAtRoot
<1>2. path \subseteq DOMAIN parent /\ curr \in DOMAIN parent
  BY DEF WalkOK, ForestOK, ForestType, TreesAreClusters, Roots
<1>3. r \in members[r]
  BY DEF ForestOK, TreesAreClusters
<1>4. \A a \in path : a # curr /\ a \notin Roots
  <2>1. \A a \in path : a # curr
    BY <1>2 DEF WalkOK, ForestOK, ForestType
  <2>2. ASSUME NEW a \in path, a \in Roots PROVE FALSE
    <3>1. a \in members[a] /\ a \in members[r]
      BY <2>2 DEF ForestOK, TreesAreClusters, WalkOK
    <3> QED
      BY <3>1, <2>2, <2>1, <1>1, OneCluster
  <2> QED
    BY <2>1, <2>2
<1>5. Compressed \in [DOMAIN parent -> DOMAIN parent]
  BY <1>2 DEF Compressed, ForestOK, ForestType
<1>6. ASSUME NEW a \in DOMAIN parent
      PROVE  /\ Compressed[a] = a <=> a \in Roots
             /\ Compressed[a] # a => rank[a] < rank[Compressed[a]]
             /\ \E s \in Roots : a \in members[s] /\ Compressed[a] \in members[s]
  <2>1. CASE a \in path
    <3>1. Compressed[a] = curr
      BY <2>1 DEF Compressed
    <3> QED
      BY <2>1, <3>1, <1>1, <1>3, <1>4 DEF WalkOK
  <2>2. CASE a \notin path
    <3>1. Compressed[a] = parent[a]
      BY <2>2 DEF Compressed
    <3> QED
      BY <3>1 DEF ForestOK, TreesAreClusters, RanksRise, Roots
  <2> QED
    BY <2>1, <2>2
<1> QED
  BY <1>5, <1>6

LEMMA CompressKeepsForest ==
  ASSUME ForestOK, NEW r \in Roots, WalkOK(r), parent[curr] = curr,
         parent' = Compressed, UNCHANGED <<rank, members, txCount>>
  PROVE  ForestOK' /\ Roots' = Roots
<1>1. DOMAIN parent' = DOMAIN parent
  BY CompressedFacts
<1>2. Roots' = Roots
  BY <1>1, CompressedFacts DEF Roots
<1>3. ForestType'
  BY <1>1, CompressedFacts DEF ForestType, ForestOK
<1>4. TreesAreClusters'
  BY <1>1, <1>2, CompressedFacts DEF TreesAreClusters, ForestOK
<1>5. RanksRise'
  BY <1>1, CompressedFacts DEF RanksRise, ForestOK
<1> QED
  BY <1>1, <1>2, <1>3, <1>4, <1>5 DEF ForestOK

\* Attaching a root to another of no lower rank joins their two clusters.
LEMMA AttachKeepsForest ==
  ASSUME ForestOK, NEW r \in Roots, WalkOK(r), parent[curr] = curr,
         NEW low \in Roots, NEW high \in Roots, low # high, rank[low] <= rank[high],
         Attach(low, high)
  PROVE  /\ ForestOK'
         /\ Roots' = Roots \ {low}
         /\ members'[high] = members[high] \cup members[low]
         /\ \A s \in Roots \ {low, high} : members'[s] = members[s]
<1>1. /\ parent' = [Compressed EXCEPT ![low] = high]
      /\ rank' = [rank EXCEPT ![high] = IF rank[low] = rank[high] THEN rank[high] + 1 ELSE rank[high]]
      /\ members' = [Without(members, low) EXCEPT
                       ![high] = Without(members, low)[high] \cup members[low]]
      /\ txCount' = [Without(txCount, low) EXCEPT
                       ![high] = Without(txCount, low)[high] + txCount[low]]
  BY DEF Attach
<1>2. DOMAIN members = Roots /\ DOMAIN txCount = Roots /\ Roots \subseteq DOMAIN parent
  BY DEF ForestOK, ForestType, TreesAreClusters, Roots
<1>3. /\ DOMAIN parent' = DOMAIN parent
      /\ parent' \in [DOMAIN parent -> DOMAIN parent]
      /\ parent'[low] = high
      /\ \A a \in DOMAIN parent \ {low} : parent'[a] = Compressed[a]
  BY <1>1, <1>2, CompressedFacts
<1>4. Roots' = Roots \ {low}
  BY <1>2, <1>3, CompressedFacts DEF Roots
<1>5. /\ DOMAIN members' = Roots \ {low}
      /\ members'[high] = members[high] \cup members[low]
      /\ \A s \in Roots \ {low, high} : members'[s] = members[s]
  BY <1>1, <1>2 DEF Without
<1>6. txCount' \in [Roots \ {low} -> Nat]
  BY <1>1, <1>2 DEF Without, ForestOK, ForestType
<1>7. /\ rank' \in [DOMAIN parent -> Nat]
      /\ \A a \in DOMAIN parent : a # high => rank'[a] = rank[a]
      /\ rank'[high] >= rank[high]
      /\ rank'[high] > rank[low]
  BY <1>1, <1>2 DEF ForestOK, ForestType
<1>8. ForestType'
  <2>1. \A s \in Roots : members[s] \subseteq DOMAIN parent
    BY <1>2 DEF ForestOK, ForestType
  <2>2. \A s \in Roots \ {low} : members'[s] \subseteq DOMAIN parent
    BY <1>5, <2>1
  <2>3. members' = [s \in DOMAIN members' |-> members'[s]]
    BY <1>1
  <2> QED
    BY <1>2, <1>3, <1>5, <1>6, <1>7, <2>2, <2>3 DEF ForestType, ForestOK
<1>9. TreesAreClusters'
  <2>1. \A s \in Roots' : s \in members'[s]
    BY <1>4, <1>5 DEF ForestOK, TreesAreClusters
  <2>2. \A s, t \in Roots' : s # t => members'[s] \cap members'[t] = {}
    BY <1>4, <1>5 DEF ForestOK, TreesAreClusters
  <2>3. \A s \in Roots : \E t \in Roots' : members[s] \subseteq members'[t]
    BY <1>4, <1>5
  <2>4. low \in members'[high] /\ high \in members'[high]
    BY <1>5 DEF ForestOK, TreesAreClusters
  <2>5. ASSUME NEW a \in DOMAIN parent'
        PROVE  \E t \in Roots' : a \in members'[t] /\ parent'[a] \in members'[t]
    <3>1. CASE a = low
      BY <3>1, <2>4, <1>3, <1>4
    <3>2. CASE a # low
      <4>1. PICK s \in Roots : a \in members[s] /\ Compressed[a] \in members[s]
        BY <1>3, CompressedFacts
      <4> QED
        BY <4>1, <2>3, <1>3, <3>2
    <3> QED
      BY <3>1, <3>2
  <2> QED
    BY <1>4, <1>5, <2>1, <2>2, <2>5 DEF TreesAreClusters
<1>10. RanksRise'
  <2>1. ASSUME NEW a \in DOMAIN parent', parent'[a] # a PROVE rank'[a] < rank'[parent'[a]]
    <3>1. CASE a = low
      BY <3>1, <1>3, <1>7
    <3>2. CASE a # low
      <4>1. parent'[a] = Compressed[a] /\ Compressed[a] \in DOMAIN parent /\ a \in DOMAIN parent
        BY <3>2, <1>3, CompressedFacts
      <4>2. rank[a] < rank[Compressed[a]] /\ a \notin Roots
        BY <4>1, <2>1, CompressedFacts
      <4>3. rank'[a] = rank[a] /\ rank'[Compressed[a]] >= rank[Compressed[a]]
        BY <4>1, <4>2, <1>7 DEF ForestOK, ForestType
      <4> QED
        BY <4>1, <4>2, <4>3, <1>7 DEF ForestOK, ForestType
    <3> QED
      BY <3>1, <3>2
  <2> QED
    BY <2>1 DEF RanksRise
<1> QED
  BY <1>3, <1>4, <1>5, <1>8, <1>9, <1>10 DEF ForestOK

(***************************************************************************)
(* The pass over the transactions                                          *)
(***************************************************************************)

\* The address being looked up, and those that are in the active cluster.
Item == LinkOrder(Row)[linked + 1]
Linked == {LinkOrder(Row)[j] : j \in 1..linked}

PassOK ==
  /\ stage \in {"idle", "read"} => linked = 0
  /\ stage # "idle" => stream # <<>> /\ Spends(Row)
  /\ stage \in {"linked", "union"} =>
       /\ active \in Roots
       /\ linked \in 1..Len(LinkOrder(Row))
       /\ Linked \subseteq members[active]
  /\ Finding =>
       /\ linked < Len(LinkOrder(Row))
       /\ \E r \in Roots : Item \in members[r] /\ WalkOK(r)

Inv == TypeOK /\ ForestOK /\ PassOK

LEMMA LinkOrderFacts ==
  ASSUME NEW row \in Rows
  PROVE  /\ LinkOrder(row) \in Seq(Addresses)
         /\ Spends(row) => /\ Len(LinkOrder(row)) >= 1
                           /\ LinkOrder(row)[1] = row.inputs[1]
                           /\ row.inputs[1] \in Addresses
<1>1. row.inputs \in Seq(Addresses) /\ row.change \in Seq(Addresses)
  BY RowsAssumption
<1>2. LinkOrder(row) \in Seq(Addresses)
  BY <1>1 DEF LinkOrder
<1>3. ASSUME Spends(row)
      PROVE  /\ Len(LinkOrder(row)) >= 1
             /\ LinkOrder(row)[1] = row.inputs[1]
             /\ row.inputs[1] \in Addresses
  <2> QED
    BY <1>1, <1>3, ConcatFirst DEF LinkOrder, Spends
<1> QED
  BY <1>2, <1>3

\* The transaction of a pass that is not over is one of Rows.
LEMMA RowType == TypeOK /\ stream # <<>> => Row \in Rows /\ LinkOrder(Row) \in Seq(Addresses)
<1> SUFFICES ASSUME TypeOK, stream # <<>> PROVE Row \in Rows /\ LinkOrder(Row) \in Seq(Addresses)
  OBVIOUS
<1>1. Row \in Rows
  BY DEF TypeOK, Row
<1> QED
  BY <1>1, LinkOrderFacts

LEMMA InvInit == Init => Inv
<1> SUFFICES ASSUME Init PROVE Inv
  OBVIOUS
<1>1. /\ parent \in [{} -> {}] /\ rank \in [{} -> Nat]
      /\ members \in [{} -> SUBSET {}] /\ txCount \in [{} -> Nat]
      /\ DOMAIN parent = {} /\ DOMAIN members = {} /\ Roots = {}
  BY DEF Init, Empty, Roots
<1>2. TypeOK
  BY <1>1 DEF Init, TypeOK
<1>3. ForestOK
  BY <1>1, FS_EmptySet DEF ForestOK, ForestType, TreesAreClusters, RanksRise
<1>4. PassOK
  BY DEF Init, PassOK, Finding
<1> QED
  BY <1>2, <1>3, <1>4 DEF Inv

\* Inserting an address begins a walk in its cluster.
LEMMA BeginFindWalks ==
  ASSUME ForestOK, NEW a \in Addresses, BeginFind(a)
  PROVE  /\ ForestOK'
         /\ \E r \in Roots' : a \in members'[r] /\ WalkOK(r)'
         /\ curr' \in Addresses /\ path' \subseteq Addresses
         /\ Roots \subseteq Roots'
         /\ \A r \in Roots : members'[r] = members[r]
<1>1. Insert(a) /\ curr' = a /\ path' = {}
  BY DEF BeginFind
<1>2. ForestOK' /\ a \in (DOMAIN parent)' /\ Roots \subseteq Roots'
  BY <1>1, InsertKeepsForest
<1>3. \A r \in Roots : members'[r] = members[r]
  BY <1>1, InsertKeepsForest
<1>4. PICK r \in Roots' : a \in members'[r]
  BY <1>2 DEF ForestOK, TreesAreClusters
<1>5. WalkOK(r)'
  BY <1>1, <1>4 DEF WalkOK
<1> QED
  BY <1>1, <1>2, <1>3, <1>4, <1>5

LEMMA InvStep == Inv /\ [Next]_vars => Inv'
<1> SUFFICES ASSUME Inv, [Next]_vars PROVE Inv'
  OBVIOUS
<1>t. TypeOK /\ ForestOK /\ PassOK
  BY DEF Inv
<1>1. ASSUME NEW row \in Rows, TakeInputless(row) PROVE Inv'
  <2>1. /\ stream' = Append(stream, row) /\ stage' = "idle" /\ stage = "idle"
        /\ features' = Append(features, Unknown)
        /\ UNCHANGED <<linked, active, curr, path, parent, rank, members, txCount>>
    BY <1>1 DEF TakeInputless, MayTake, forest
  <2>2. TypeOK'
    BY <2>1, <1>t DEF TypeOK, Unknown
  <2>3. ForestOK'
    BY <2>1, <1>t DEF ForestOK, ForestType, TreesAreClusters, RanksRise, Roots
  <2>4. PassOK'
    BY <2>1, <1>t DEF PassOK, Finding
  <2> QED
    BY <2>2, <2>3, <2>4 DEF Inv
<1>2. ASSUME NEW row \in Rows, TakeSpending(row) PROVE Inv'
  <2>1. /\ stream' = Append(stream, row) /\ stage' = "read" /\ stage = "idle"
        /\ BeginFind(row.inputs[1])
        /\ Spends(row)
        /\ UNCHANGED <<linked, active, features>>
    BY <1>2 DEF TakeSpending, MayTake
  <2>2. row.inputs[1] \in Addresses
    BY <2>1, LinkOrderFacts
  <2>3. /\ ForestOK'
        /\ \E r \in Roots' : row.inputs[1] \in members'[r] /\ WalkOK(r)'
        /\ curr' \in Addresses /\ path' \subseteq Addresses
    BY <2>1, <2>2, <1>t, BeginFindWalks
  <2>4. TypeOK'
    BY <2>1, <2>3, <1>t DEF TypeOK, ForestOK, ForestType
  <2>5. Row' = row /\ stream' # <<>>
    <3>1. stream \in Seq(Rows)
      BY <1>t DEF TypeOK
    <3> QED
      BY <2>1, <3>1, AppendLast DEF Row
  <2>6. linked = 0 /\ linked' = 0
    BY <2>1, <1>t DEF PassOK
  <2>7. Item' = row.inputs[1] /\ Len(LinkOrder(row)) >= 1
    BY <2>1, <2>5, <2>6, LinkOrderFacts DEF Item
  <2>8. PassOK'
    BY <2>1, <2>3, <2>5, <2>6, <2>7 DEF PassOK, Finding
  <2> QED
    BY <2>3, <2>4, <2>8 DEF Inv
<1>3. ASSUME Climb PROVE Inv'
  <2>1. /\ Finding /\ parent[curr] # curr
        /\ path' = path \cup {curr} /\ curr' = parent[curr]
        /\ UNCHANGED <<stream, stage, linked, active, parent, rank, members, txCount, features>>
    BY <1>3 DEF Climb, forest
  <2>2. ForestOK' /\ Roots' = Roots
    BY <2>1, <1>t DEF ForestOK, ForestType, TreesAreClusters, RanksRise, Roots
  <2>3. PICK r \in Roots : Item \in members[r] /\ WalkOK(r)
    BY <2>1, <1>t DEF PassOK
  <2>4. members[r] \subseteq DOMAIN parent
    BY <1>t DEF ForestOK, ForestType, TreesAreClusters
  <2>5. parent[curr] \in members[r] /\ rank[curr] < rank[parent[curr]]
    <3>1. curr \in DOMAIN parent
      BY <2>3, <2>4 DEF WalkOK
    <3>2. PICK s \in Roots : curr \in members[s] /\ parent[curr] \in members[s]
      BY <3>1, <1>t DEF ForestOK, TreesAreClusters
    <3>3. s = r
      BY <3>2, <2>3, <1>t, OneCluster DEF WalkOK
    <3> QED
      BY <3>1, <3>2, <3>3, <2>1, <1>t DEF ForestOK, RanksRise
  <2>6. \A a \in path' : rank[a] < rank[parent[curr]]
    <3>1. rank \in [DOMAIN parent -> Nat] /\ path \subseteq DOMAIN parent
          /\ curr \in DOMAIN parent /\ parent[curr] \in DOMAIN parent
      BY <2>3, <2>4, <2>5, <1>t DEF WalkOK, ForestOK, ForestType
    <3>2. \A a \in path : rank[a] < rank[curr]
      BY <2>3 DEF WalkOK
    <3> QED
      BY <2>1, <2>5, <3>1, <3>2
  <2>7. WalkOK(r)'
    BY <2>1, <2>2, <2>3, <2>5, <2>6 DEF WalkOK
  <2>8. Item' = Item /\ Row' = Row /\ Linked' = Linked
    BY <2>1 DEF Item, Row, Linked
  <2>9. PassOK'
    BY <2>1, <2>2, <2>3, <2>7, <2>8, <1>t DEF PassOK, Finding
  <2>10. TypeOK'
    BY <2>1, <2>3, <2>4, <2>5, <1>t DEF TypeOK, WalkOK
  <2> QED
    BY <2>2, <2>9, <2>10 DEF Inv
<1>4. ASSUME ReadHistory PROVE Inv'
  <2>1. /\ stage = "read" /\ stage' = "linked" /\ Finding /\ parent[curr] = curr
        /\ parent' = Compressed /\ active' = curr /\ linked' = 1 /\ curr' = None /\ path' = {}
        /\ features' = Append(features, [root |-> curr, size |-> Cardinality(members[curr]),
                                         count |-> txCount[curr]])
        /\ UNCHANGED <<stream, rank, members, txCount>>
    BY <1>4 DEF ReadHistory, Arrived, EndFind
  <2>2. PICK r \in Roots : Item \in members[r] /\ WalkOK(r)
    BY <2>1, <1>t DEF PassOK
  <2>3. curr = r
    BY <2>1, <2>2, <1>t, ArrivedAtRoot
  <2>4. ForestOK' /\ Roots' = Roots
    BY <2>1, <2>2, <1>t, CompressKeepsForest
  <2>5. TypeOK'
    <3>1. members[curr] \subseteq DOMAIN parent /\ txCount[curr] \in Nat /\ curr \in Addresses
      BY <2>2, <2>3, <1>t DEF ForestOK, ForestType, TreesAreClusters, Roots
    <3>2. Cardinality(members[curr]) \in Nat
      BY <3>1, <1>t, FS_Subset, FS_CardinalityType DEF ForestOK
    <3> DEFINE new == [root |-> curr, size |-> Cardinality(members[curr]),
                       count |-> txCount[curr]]
    <3>3. new \in [root: Addresses \cup {None}, size: Nat, count: Nat]
      BY <3>1, <3>2
    <3>4. features' = Append(features, new)
      BY <2>1
    <3> HIDE DEF new
    <3> QED
      BY <2>1, <2>2, <2>4, <3>1, <3>3, <3>4, <1>t DEF TypeOK, ForestOK, ForestType
  <2>6. PassOK'
    <3>1. linked = 0 /\ stream # <<>> /\ Spends(Row) /\ linked < Len(LinkOrder(Row))
      BY <2>1, <1>t DEF PassOK
    <3>2. Row' = Row /\ Len(LinkOrder(Row)) \in Nat
      BY <2>1, <3>1, <1>t, RowType DEF Row
    <3>3. Linked' = {Item}
      BY <2>1, <3>1, <3>2 DEF Linked, Item
    <3> QED
      BY <2>1, <2>2, <2>3, <2>4, <3>1, <3>2, <3>3 DEF PassOK, Finding
  <2> QED
    BY <2>4, <2>5, <2>6 DEF Inv
<1>5. ASSUME BeginUnion PROVE Inv'
  <2>1. /\ stage = "linked" /\ stage' = "union" /\ linked < Len(LinkOrder(Row))
        /\ BeginFind(Item)
        /\ UNCHANGED <<stream, linked, active, features>>
    BY <1>5 DEF BeginUnion, Item
  <2>2. /\ stream # <<>> /\ Spends(Row) /\ active \in Roots
        /\ linked \in 1..Len(LinkOrder(Row)) /\ Linked \subseteq members[active]
    BY <2>1, <1>t DEF PassOK
  <2>3. Item \in Addresses
    BY <2>1, <2>2, <1>t, RowType DEF Item
  <2>4. /\ ForestOK'
        /\ \E r \in Roots' : Item \in members'[r] /\ WalkOK(r)'
        /\ curr' \in Addresses /\ path' \subseteq Addresses
        /\ Roots \subseteq Roots' /\ \A r \in Roots : members'[r] = members[r]
    BY <2>1, <2>3, <1>t, BeginFindWalks
  <2>5. TypeOK'
    BY <2>1, <2>4, <1>t DEF TypeOK, ForestOK, ForestType
  <2>6. Row' = Row /\ Item' = Item /\ Linked' = Linked
    BY <2>1 DEF Row, Item, Linked
  <2>7. PassOK'
    BY <2>1, <2>2, <2>4, <2>6 DEF PassOK, Finding
  <2> QED
    BY <2>4, <2>5, <2>7 DEF Inv
<1>6. ASSUME stage = "union", Arrived, EndUnion, SameRoot \/ Join PROVE Inv'
  <2>1. /\ Finding /\ parent[curr] = curr /\ stage' = "linked" /\ linked' = linked + 1
        /\ curr' = None /\ path' = {}
        /\ UNCHANGED <<stream, features>>
    BY <1>6 DEF Arrived, EndUnion, EndFind
  <2>2. /\ stream # <<>> /\ Spends(Row) /\ active \in Roots
        /\ linked \in 1..Len(LinkOrder(Row)) /\ Linked \subseteq members[active]
        /\ linked < Len(LinkOrder(Row))
    BY <1>6, <2>1, <1>t DEF PassOK
  <2>3. PICK r \in Roots : Item \in members[r] /\ WalkOK(r)
    BY <2>1, <1>t DEF PassOK
  <2>4. curr = r
    BY <2>1, <2>3, <1>t, ArrivedAtRoot
  <2>5. /\ ForestOK' /\ active' \in Roots'
        /\ members[active] \cup members[r] \subseteq members'[active']
    <3>1. CASE SameRoot
      <4>1. /\ curr = active /\ parent' = Compressed /\ active' = active
            /\ UNCHANGED <<rank, members, txCount>>
        BY <3>1 DEF SameRoot
      <4> QED
        BY <4>1, <2>1, <2>2, <2>3, <2>4, <1>t, CompressKeepsForest
    <3>2. CASE Join
      <4>1. rank[active] \in Nat /\ rank[curr] \in Nat
        BY <2>2, <2>3, <2>4, <1>t DEF ForestOK, ForestType, Roots
      <4>2. \/ active # curr /\ rank[active] <= rank[curr] /\ Attach(active, curr)
            \/ active # curr /\ rank[curr] <= rank[active] /\ Attach(curr, active)
        BY <3>2, <4>1 DEF Join
      <4>3. CASE active # curr /\ rank[active] <= rank[curr] /\ Attach(active, curr)
        BY <4>3, <2>1, <2>2, <2>3, <2>4, <1>t, AttachKeepsForest DEF Attach
      <4>4. CASE active # curr /\ rank[curr] <= rank[active] /\ Attach(curr, active)
        BY <4>4, <2>1, <2>2, <2>3, <2>4, <1>t, AttachKeepsForest DEF Attach
      <4> QED
        BY <4>2, <4>3, <4>4
    <3> QED
      BY <1>6, <3>1, <3>2
  <2>6. TypeOK'
    BY <2>1, <2>2, <2>5, <1>t DEF TypeOK, ForestOK, ForestType, Roots
  <2>7. PassOK'
    <3>1. Row' = Row /\ Len(LinkOrder(Row)) \in Nat
      BY <2>1, <2>2, <1>t, RowType DEF Row
    <3>2. Linked' = Linked \cup {Item}
      BY <2>1, <2>2, <3>1 DEF Linked, Item
    <3> QED
      BY <2>1, <2>2, <2>3, <2>5, <3>1, <3>2 DEF PassOK, Finding
  <2> QED
    BY <2>5, <2>6, <2>7 DEF Inv
<1>7. ASSUME CountTx PROVE Inv'
  <2>1. /\ stage = "linked" /\ stage' = "idle" /\ linked' = 0 /\ active' = None
        /\ txCount' = [txCount EXCEPT ![active] = txCount[active] + 1]
        /\ UNCHANGED <<stream, curr, path, parent, rank, members, features>>
    BY <1>7 DEF CountTx
  <2>2. active \in Roots /\ DOMAIN members = Roots
    BY <2>1, <1>t DEF PassOK, ForestOK, TreesAreClusters
  <2>3. txCount' \in [DOMAIN members -> Nat]
    BY <2>1, <2>2, <1>t DEF ForestOK, ForestType
  <2>4. TypeOK'
    BY <2>1, <2>3, <1>t DEF TypeOK
  <2>5. ForestOK'
    BY <2>1, <2>3, <1>t DEF ForestOK, ForestType, TreesAreClusters, RanksRise, Roots
  <2>6. PassOK'
    BY <2>1 DEF PassOK, Finding
  <2> QED
    BY <2>4, <2>5, <2>6 DEF Inv
<1>8. CASE UNCHANGED vars
  <2>1. UNCHANGED <<stream, stage, linked, active, curr, path, parent, rank, members,
                    txCount, features>>
    BY <1>8 DEF vars, forest
  <2>2. TypeOK'
    BY <2>1, <1>t DEF TypeOK
  <2>3. ForestOK' /\ Roots' = Roots
    BY <2>1, <1>t DEF ForestOK, ForestType, TreesAreClusters, RanksRise, Roots
  <2>4. PassOK'
    BY <2>1, <2>3, <1>t DEF PassOK, WalkOK, Finding, Item, Linked, Row
  <2> QED
    BY <2>2, <2>3, <2>4 DEF Inv
<1> QED
  BY <1>1, <1>2, <1>3, <1>4, <1>5, <1>6, <1>7, <1>8
     DEF Next, SameRoot, Join, Finish

THEOREM Invariance == Spec => []Inv
<1>1. Inv /\ [Next]_vars => Inv'
  BY InvStep
<1> QED
  BY InvInit, <1>1, PTL DEF Spec

\* Types, the walk of find included: it is always at an address that is known,
\* and active_root is a root when something is joined to it.
THEOREM TypeCorrect == Spec => []TypeOK
<1>1. Inv => TypeOK
  BY DEF Inv
<1> QED
  BY <1>1, Invariance, PTL

\* The forest, with its paths compressed at any moment, and the dictionaries
\* of its roots describe one and the same partition.
THEOREM TreesAreTheClusters == Spec => []TreesAreClusters
<1>1. Inv => TreesAreClusters
  BY DEF Inv, ForestOK
<1> QED
  BY <1>1, Invariance, PTL

\* There is no cycle among the parents, so the loop of find ends.
THEOREM NoCycles == Spec => []RanksRise
<1>1. Inv => RanksRise
  BY DEF Inv, ForestOK
<1> QED
  BY <1>1, Invariance, PTL

\* Partition and ranks together: what every later find and union rests on.
THEOREM ForestCorrect == Spec => []ForestIsSound
<1>1. TreesAreClusters /\ RanksRise => ForestIsSound
  BY DEF ForestIsSound
<1> QED
  BY <1>1, TreesAreTheClusters, NoCycles, PTL

-----------------------------------------------------------------------------
(***************************************************************************)
(* The clusters are the components                                         *)
(***************************************************************************)

\* The group of the transaction in hand is what has been linked of it.
LEMMA JoinedNow ==
  ASSUME Inv, stage # "idle"
  PROVE  /\ stream # <<>> /\ Len(stream) \in Nat /\ Len(stream) \in DOMAIN stream
         /\ Joined(Len(stream)) = Linked
<1>1. stream # <<>> /\ Spends(Row) /\ stream \in Seq(Rows)
  BY DEF Inv, PassOK, TypeOK
<1>2. Len(stream) \in Nat /\ Len(stream) \in DOMAIN stream
  BY <1>1
<1>3. ~Over(Len(stream))
  BY <1>2 DEF Over
<1> QED
  BY <1>1, <1>2, <1>3 DEF Joined, Linked, Row

\* A step that only adds clusters of one address and empty groups.
LEMMA NothingJoined ==
  ASSUME ClustersAreComponents,
         \A G \in Groups : G # {} => G \in Groups',
         \A G \in Groups' : G # {} => G \in Groups,
         \A r \in DOMAIN members : r \in DOMAIN members' /\ members'[r] = members[r],
         \A r \in DOMAIN members' \ DOMAIN members : \E a : members'[r] = {a}
  PROVE  ClustersAreComponents'
<1>1. \A G \in Groups' : G # {} => \E r \in DOMAIN members' : G \subseteq members'[r]
  BY DEF ClustersAreComponents
<1>2. ASSUME NEW S \in SUBSET Addresses, Whole(S, Groups')
      PROVE  Whole(S, {members'[r] : r \in DOMAIN members'})
  <2>1. Whole(S, Groups)
    BY <1>2 DEF Whole
  <2>2. Whole(S, {members[r] : r \in DOMAIN members})
    BY <2>1 DEF ClustersAreComponents
  <2>3. ASSUME NEW r \in DOMAIN members'
        PROVE  members'[r] \subseteq S \/ members'[r] \cap S = {}
    BY <2>2 DEF Whole
  <2> QED
    BY <2>3 DEF Whole
<1> QED
  BY <1>1, <1>2 DEF ClustersAreComponents

\* A step that adds an address to the group in hand and joins its cluster to
\* the one the group is in.
LEMMA OneJoined ==
  ASSUME ClustersAreComponents, DOMAIN stream' = DOMAIN stream,
         NEW n \in DOMAIN stream, NEW a, Joined(n)' = Joined(n) \cup {a},
         \A i \in DOMAIN stream \ {n} : Joined(i)' = Joined(i),
         NEW old \in DOMAIN members, NEW new \in DOMAIN members,
         a \in members[new], \/ old = new
                             \/ Joined(n) \cap members[old] # {},
         NEW top \in DOMAIN members', Joined(n)' \subseteq members'[top],
         members'[top] = members[old] \cup members[new],
         \A r \in DOMAIN members :
           r \in {old, new} \/ (r \in DOMAIN members' /\ members'[r] = members[r]),
         \A r \in DOMAIN members' : r = top \/ (r \in DOMAIN members /\ members'[r] = members[r])
  PROVE  ClustersAreComponents'
<1>1. ASSUME NEW i \in DOMAIN stream, Joined(i)' # {}
      PROVE  \E r \in DOMAIN members' : Joined(i)' \subseteq members'[r]
  <2>1. CASE i = n
    BY <2>1
  <2>2. CASE i # n
    <3>1. Joined(i)' = Joined(i) /\ Joined(i) \in Groups
      BY <2>2 DEF Groups
    <3>2. PICK r \in DOMAIN members : Joined(i) \subseteq members[r]
      BY <3>1, <1>1 DEF ClustersAreComponents
    <3> QED
      BY <3>1, <3>2
  <2> QED
    BY <2>1, <2>2
<1>2. ASSUME NEW S \in SUBSET Addresses, Whole(S, Groups')
      PROVE  Whole(S, {members'[r] : r \in DOMAIN members'})
  <2>1. \A i \in DOMAIN stream : Joined(i)' \subseteq S \/ Joined(i)' \cap S = {}
    BY <1>2 DEF Whole, Groups
  <2>2. \A i \in DOMAIN stream : Joined(i) \subseteq S \/ Joined(i) \cap S = {}
    BY <2>1
  <2>3. Whole(S, {members[r] : r \in DOMAIN members})
    BY <2>2 DEF Whole, Groups, ClustersAreComponents
  <2>4. \A r \in DOMAIN members : members[r] \subseteq S \/ members[r] \cap S = {}
    BY <2>3 DEF Whole
  <2>5. members'[top] \subseteq S \/ members'[top] \cap S = {}
    <3>1. CASE old = new
      BY <3>1, <2>4
    <3>2. CASE Joined(n) \cap members[old] # {}
      <4>1. PICK b : b \in Joined(n) /\ b \in members[old]
        BY <3>2
      <4>2. b \in Joined(n)' /\ a \in Joined(n)'
        BY <4>1
      <4>3. a \in S <=> b \in S
        BY <4>2, <2>1
      <4> QED
        BY <4>1, <4>3, <2>4
    <3> QED
      BY <3>1, <3>2
  <2>6. \A r \in DOMAIN members' : members'[r] \subseteq S \/ members'[r] \cap S = {}
    BY <2>4, <2>5
  <2> QED
    BY <2>6 DEF Whole
<1> QED
  BY <1>1, <1>2 DEF ClustersAreComponents, Groups

LEMMA ComponentsStep ==
  ASSUME Inv, Inv', ClustersAreComponents, [Next]_vars
  PROVE  ClustersAreComponents'
<1>t. /\ TypeOK /\ ForestOK /\ PassOK /\ ForestOK'
      /\ stream \in Seq(Rows)
      /\ DOMAIN members = Roots /\ DOMAIN members' = Roots'
  BY DEF Inv, TypeOK, ForestOK, TreesAreClusters
<1>1. ASSUME NEW row \in Rows, TakeInputless(row) \/ TakeSpending(row)
      PROVE  ClustersAreComponents'
  <2>1. /\ stage = "idle" /\ linked' = linked /\ linked = 0
        /\ stream' = Append(stream, row)
        /\ stage' = "idle" => ~Spends(row)
    BY <1>1, <1>t DEF TakeInputless, TakeSpending, MayTake, PassOK
  <2> DEFINE n == Len(stream)
  <2>2. /\ n \in Nat /\ DOMAIN stream = 1..n /\ DOMAIN stream' = 1..(n + 1) /\ Len(stream') = n + 1
        /\ stream'[n + 1] = row
        /\ \A i \in 1..n : stream'[i] = stream[i]
    BY <1>t, <2>1, AppendLast
  <2>3. ASSUME NEW i \in 1..n PROVE Joined(i)' = Joined(i)
    <3>1. Over(i) /\ Over(i)' /\ stream'[i] = stream[i]
      BY <2>1, <2>2 DEF Over
    <3> QED
      BY <3>1 DEF Joined
  <2>4. ASSUME NEW i \in DOMAIN stream', i \notin 1..n PROVE Joined(i)' = {}
    <3>1. i = n + 1
      BY <2>2, <2>4
    <3>2. stream'[i] = row /\ (Spends(row) => ~Over(i)' /\ linked' = 0)
      BY <3>1, <2>1, <2>2, <1>1 DEF Over, TakeInputless, TakeSpending
    <3> QED
      BY <3>2 DEF Joined
  <2>5. /\ \A G \in Groups : G # {} => G \in Groups'
        /\ \A G \in Groups' : G # {} => G \in Groups
    BY <2>2, <2>3, <2>4 DEF Groups
  <2>6. /\ \A r \in Roots : r \in Roots' /\ members'[r] = members[r]
        /\ \A r \in Roots' \ Roots : \E a : members'[r] = {a}
    <3>1. CASE TakeInputless(row)
      <4>1. UNCHANGED <<parent, members>>
        BY <3>1 DEF TakeInputless, forest
      <4> QED
        BY <4>1 DEF Roots
    <3>2. CASE TakeSpending(row)
      <4>1. Insert(row.inputs[1]) /\ row.inputs[1] \in Addresses
        BY <3>2, LinkOrderFacts DEF TakeSpending, BeginFind
      <4> QED
        BY <4>1, <1>t, InsertKeepsForest
    <3> QED
      BY <1>1, <3>1, <3>2
  <2> QED
    BY <1>t, <2>5, <2>6, NothingJoined
<1>2. ASSUME Climb \/ BeginUnion \/ CountTx \/ UNCHANGED vars PROVE ClustersAreComponents'
  <2>1. stream' = stream
    BY <1>2 DEF Climb, BeginUnion, CountTx, vars
  <2>2. Groups' = Groups
    <3>1. CASE CountTx
      <4>1. /\ stage = "linked" /\ stage' = "idle" /\ linked = Len(LinkOrder(Row))
        BY <3>1 DEF CountTx
      <4>2. /\ Joined(Len(stream)) = Linked /\ Len(stream) \in Nat /\ Spends(Row)
            /\ DOMAIN stream = 1..Len(stream)
        BY <4>1, <1>t, JoinedNow DEF PassOK
      <4>3. Joined(Len(stream))' = Joined(Len(stream))
        <5>1. Over(Len(stream))' = TRUE
          BY <2>1, <4>1 DEF Over
        <5> QED
          BY <2>1, <4>1, <4>2, <5>1 DEF Joined, Row, Linked
      <4>4. ASSUME NEW i \in DOMAIN stream, i # Len(stream) PROVE Joined(i)' = Joined(i)
        <5>1. Over(i) /\ Over(i)' /\ stream'[i] = stream[i]
          BY <2>1, <4>2, <4>4 DEF Over
        <5> QED
          BY <5>1 DEF Joined
      <4> QED
        BY <2>1, <4>3, <4>4 DEF Groups
    <3>2. CASE Climb \/ BeginUnion \/ UNCHANGED vars
      <4>1. linked' = linked /\ (stage' = "idle" <=> stage = "idle")
        BY <3>2 DEF Climb, BeginUnion, vars
      <4>2. ASSUME NEW i \in DOMAIN stream PROVE Joined(i)' = Joined(i)
        <5>1. Over(i)' = Over(i) /\ stream'[i] = stream[i]
          BY <2>1, <4>1 DEF Over
        <5> QED
          BY <4>1, <5>1 DEF Joined
      <4> QED
        BY <2>1, <4>2 DEF Groups
    <3> QED
      BY <1>2, <3>1, <3>2
  <2>3. /\ \A r \in Roots : r \in Roots' /\ members'[r] = members[r]
        /\ \A r \in Roots' \ Roots : \E a : members'[r] = {a}
    <3>1. CASE BeginUnion
      <4>1. /\ Insert(LinkOrder(Row)[linked + 1]) /\ stage = "linked"
            /\ linked < Len(LinkOrder(Row))
        BY <3>1 DEF BeginUnion, BeginFind
      <4>2. LinkOrder(Row)[linked + 1] \in Addresses
        BY <4>1, <1>t, RowType DEF PassOK
      <4> QED
        BY <4>1, <4>2, <1>t, InsertKeepsForest
    <3>2. CASE Climb \/ CountTx \/ UNCHANGED vars
      <4>1. UNCHANGED <<parent, members>>
        BY <3>2 DEF Climb, CountTx, vars, forest
      <4> QED
        BY <4>1 DEF Roots
    <3> QED
      BY <1>2, <3>1, <3>2
  <2> QED
    BY <1>t, <2>2, <2>3, NothingJoined
<1>3. ASSUME ReadHistory \/ SameRoot \/ Join PROVE ClustersAreComponents'
  <2> DEFINE n == Len(stream)
  <2>1. /\ Finding /\ parent[curr] = curr /\ stage \in {"read", "union"} /\ stage' = "linked"
        /\ linked' = linked + 1 /\ stream' = stream
    BY <1>3, <1>t DEF ReadHistory, SameRoot, Join, Arrived, EndUnion, PassOK
  <2>2. PICK r \in Roots : Item \in members[r] /\ WalkOK(r)
    BY <2>1, <1>t DEF PassOK
  <2>3. curr = r
    BY <2>1, <2>2, <1>t, ArrivedAtRoot
  <2>4. n \in DOMAIN stream /\ n \in Nat /\ Joined(n) = Linked /\ DOMAIN stream = 1..n
    BY <2>1, <1>t, JoinedNow
  <2>5. Joined(n)' = Linked'
    <3>1. Spends(Row) /\ Row' = Row /\ Row = stream[n]
      BY <2>1, <1>t DEF PassOK, Row
    <3>2. Over(n)' = FALSE
      BY <2>1, <2>4 DEF Over
    <3> QED
      BY <2>1, <3>1, <3>2 DEF Joined, Linked
  <2>6. Linked' = Linked \cup {Item}
    <3>1. linked \in Nat
      BY <1>t DEF TypeOK
    <3> QED
      BY <2>1, <3>1 DEF Linked, Item, Row
  <2>7. ASSUME NEW i \in DOMAIN stream \ {n} PROVE Joined(i)' = Joined(i)
    <3>1. Over(i) /\ Over(i)' /\ stream'[i] = stream[i]
      BY <2>1, <2>4 DEF Over
    <3> QED
      BY <3>1 DEF Joined
  <2>8. active' \in Roots' /\ Linked' \subseteq members'[active']
    BY <2>1 DEF Inv, PassOK
  <2>9. CASE ReadHistory
    <3>1. /\ active' = curr /\ parent' = Compressed
          /\ UNCHANGED <<rank, members, txCount>>
      BY <2>9 DEF ReadHistory
    <3>2. Roots' = Roots
      BY <3>1, <2>1, <2>2, <1>t, CompressKeepsForest
    <3> QED
      BY <3>1, <3>2, <2>1, <2>2, <2>3, <2>4, <2>5, <2>6, <2>7, <2>8, <1>t, OneJoined
  <2>10. CASE SameRoot
    <3>1. /\ active' = active /\ active = curr /\ parent' = Compressed
          /\ UNCHANGED <<rank, members, txCount>>
      BY <2>10 DEF SameRoot
    <3>2. Roots' = Roots
      BY <3>1, <2>1, <2>2, <1>t, CompressKeepsForest
    <3> QED
      BY <3>1, <3>2, <2>1, <2>2, <2>3, <2>4, <2>5, <2>6, <2>7, <2>8, <1>t, OneJoined
  <2>11. CASE Join
    <3>1. /\ active \in Roots /\ linked \in 1..Len(LinkOrder(Row))
          /\ Linked \subseteq members[active] /\ active # curr
      BY <2>11, <1>t DEF Join, PassOK
    <3>2. LinkOrder(Row)[1] \in Linked
      BY <3>1, <2>4, <1>t, RowType DEF Linked
    <3>3. Joined(n) \cap members[active] # {}
      BY <3>1, <3>2, <2>4
    <3>4. rank[active] \in Nat /\ rank[curr] \in Nat
      BY <3>1, <2>2, <2>3, <1>t DEF ForestOK, ForestType, Roots
    <3>5. \/ rank[active] <= rank[curr] /\ Attach(active, curr) /\ active' = curr
          \/ rank[curr] <= rank[active] /\ Attach(curr, active) /\ active' = active
      BY <2>11, <3>4 DEF Join, Attach
    <3>6. /\ Roots' = (Roots \ {active, curr}) \cup {active'}
          /\ members'[active'] = members[active] \cup members[curr]
          /\ \A s \in Roots \ {active, curr} : members'[s] = members[s]
      <4>1. CASE rank[active] <= rank[curr] /\ Attach(active, curr) /\ active' = curr
        BY <4>1, <3>1, <2>1, <2>2, <2>3, <1>t, AttachKeepsForest
      <4>2. CASE rank[curr] <= rank[active] /\ Attach(curr, active) /\ active' = active
        BY <4>2, <3>1, <2>1, <2>2, <2>3, <1>t, AttachKeepsForest
      <4> QED
        BY <3>5, <4>1, <4>2
    <3> QED
      BY <3>1, <3>3, <3>6, <2>1, <2>2, <2>3, <2>4, <2>5, <2>6, <2>7, <2>8, <1>t, OneJoined
  <2> QED
    BY <1>3, <2>9, <2>10, <2>11
<1> QED
  BY <1>1, <1>2, <1>3 DEF Next, Finish

\* At every step of every stream the clusters are exactly the components of
\* what has been spent together or given back as change.
THEOREM ClustersCorrect == Spec => []ClustersAreComponents
<1>1. Init => ClustersAreComponents
  <2> SUFFICES ASSUME Init PROVE ClustersAreComponents
    OBVIOUS
  <2>1. DOMAIN stream = {} /\ DOMAIN members = {}
    BY DEF Init, Empty
  <2> QED
    BY <2>1 DEF ClustersAreComponents, Groups, Whole
<1>2. Inv /\ Inv' /\ ClustersAreComponents /\ [Next]_vars => ClustersAreComponents'
  BY ComponentsStep
<1> QED
  BY <1>1, <1>2, Invariance, PTL DEF Spec

-----------------------------------------------------------------------------
(***************************************************************************)
(* The features are of the transactions before                             *)
(***************************************************************************)

\* The transactions that are over and have a first input, and those of them
\* that a cluster counts.
Past == {j \in DOMAIN stream : Over(j) /\ Spends(stream[j])}
Counted(S) == {j \in Past : stream[j].inputs[1] \in S}

CountsOK == \A r \in Roots : txCount[r] = Cardinality(Counted(members[r]))

RecordsOK == Len(features) = IF stage = "read" THEN Len(stream) - 1 ELSE Len(stream)

LEMMA CountedFinite ==
  ASSUME stream \in Seq(Rows), NEW S
  PROVE  IsFiniteSet(Counted(S)) /\ Cardinality(Counted(S)) \in Nat
<1>1. Len(stream) \in Nat /\ DOMAIN stream = 1..Len(stream)
  OBVIOUS
<1>2. IsFiniteSet(DOMAIN stream)
  BY <1>1, FS_Interval
<1>3. Counted(S) \in SUBSET DOMAIN stream
  BY DEF Counted, Past
<1>4. IsFiniteSet(Counted(S))
  BY <1>2, <1>3, FS_Subset
<1> QED
  BY <1>4, FS_CardinalityType

\* The first input of a transaction that is over is a known address.
LEMMA PastKnown ==
  ASSUME Inv, ClustersAreComponents, NEW j \in Past
  PROVE  stream[j].inputs[1] \in DOMAIN parent
<1>1. /\ j \in DOMAIN stream /\ Over(j) /\ Spends(stream[j])
      /\ stream \in Seq(Rows)
  BY DEF Past, Inv, TypeOK
<1>2. stream[j] \in Rows
  BY <1>1
<1>3. /\ LinkOrder(stream[j]) \in Seq(Addresses)
      /\ Len(LinkOrder(stream[j])) >= 1
      /\ LinkOrder(stream[j])[1] = stream[j].inputs[1]
  BY <1>1, <1>2, LinkOrderFacts
<1>4. 1 \in 1..Len(LinkOrder(stream[j]))
  BY <1>3
<1>5. Joined(j) = {LinkOrder(stream[j])[k] : k \in 1..Len(LinkOrder(stream[j]))}
  BY <1>1 DEF Joined
<1>6. stream[j].inputs[1] \in Joined(j) /\ Joined(j) \in Groups
  BY <1>1, <1>3, <1>4, <1>5 DEF Groups
<1>7. PICK r \in DOMAIN members : Joined(j) \subseteq members[r]
  BY <1>6 DEF ClustersAreComponents
<1>8. members[r] \subseteq DOMAIN parent
  BY <1>7 DEF Inv, ForestOK, ForestType
<1> QED
  BY <1>6, <1>7, <1>8

\* A step that counts no transaction may be judged by the old counts.
LEMMA CountsUnmoved ==
  ASSUME Past' = Past, \A j \in Past : stream'[j] = stream[j],
         \A r \in Roots' : txCount'[r] = Cardinality(Counted(members'[r]))
  PROVE  CountsOK'
<1>1. ASSUME NEW r \in Roots' PROVE txCount'[r] = Cardinality(Counted(members[r])')
  <2>1. Counted(members[r])' = Counted(members'[r])
    BY DEF Counted
  <2> QED
    BY <2>1
<1> QED
  BY <1>1 DEF CountsOK

\* A new tree counts nothing: no transaction that is over began with it.
LEMMA InsertKeepsCounts ==
  ASSUME Inv, ClustersAreComponents, CountsOK, NEW a \in Addresses, Insert(a),
         Past' = Past, \A j \in Past : stream'[j] = stream[j]
  PROVE  CountsOK'
<1>t. ForestOK /\ DOMAIN members = Roots /\ DOMAIN txCount = Roots
  BY DEF Inv, ForestOK, ForestType, TreesAreClusters
<1>1. \A r \in Roots' : txCount'[r] = Cardinality(Counted(members'[r]))
  <2>1. CASE a \in DOMAIN parent
    BY <2>1 DEF Insert, forest, CountsOK, Roots
  <2>2. CASE a \notin DOMAIN parent
    <3>1. /\ txCount' = With(txCount, a, 0) /\ members' = With(members, a, {a})
          /\ parent' = With(parent, a, a)
      BY <2>2 DEF Insert
    <3>2. a \notin Roots
      BY <2>2 DEF Roots
    <3>3. /\ \A r \in Roots : members'[r] = members[r] /\ txCount'[r] = txCount[r]
          /\ members'[a] = {a} /\ txCount'[a] = 0
      BY <3>1, <3>2, <1>t DEF With
    <3>4. Roots' \subseteq Roots \cup {a}
      BY <3>1 DEF Roots, With
    <3>5. Counted({a}) = {}
      BY <2>2, PastKnown DEF Counted
    <3>6. Cardinality(Counted({a})) = 0
      BY <3>5, FS_EmptySet
    <3> QED
      BY <3>3, <3>4, <3>6 DEF CountsOK
  <2> QED
    BY <2>1, <2>2
<1> QED
  BY <1>1, CountsUnmoved

\* The counts of two clusters that are joined add up.
LEMMA AttachKeepsCounts ==
  ASSUME ForestOK, stream \in Seq(Rows), CountsOK,
         NEW r \in Roots, WalkOK(r), parent[curr] = curr,
         NEW low \in Roots, NEW high \in Roots, low # high, rank[low] <= rank[high],
         Attach(low, high), Past' = Past, stream' = stream
  PROVE  CountsOK'
<1>1. /\ Roots' = Roots \ {low}
      /\ members'[high] = members[high] \cup members[low]
      /\ \A s \in Roots \ {low, high} : members'[s] = members[s]
  BY AttachKeepsForest
<1>2. DOMAIN txCount = Roots
  BY DEF ForestOK, ForestType, TreesAreClusters
<1>3. /\ txCount'[high] = txCount[high] + txCount[low]
      /\ \A s \in Roots \ {low, high} : txCount'[s] = txCount[s]
  BY <1>2 DEF Attach, Without
<1>4. /\ Counted(members[high] \cup members[low]) = Counted(members[high]) \cup Counted(members[low])
      /\ Counted(members[high]) \cap Counted(members[low]) = {}
  BY DEF Counted, ForestOK, TreesAreClusters
<1>5. Cardinality(Counted(members[high] \cup members[low]))
        = Cardinality(Counted(members[high])) + Cardinality(Counted(members[low]))
  <2>1. /\ IsFiniteSet(Counted(members[high])) /\ Cardinality(Counted(members[high])) \in Nat
        /\ IsFiniteSet(Counted(members[low])) /\ Cardinality(Counted(members[low])) \in Nat
    BY CountedFinite
  <2>2. Cardinality(Counted(members[high]) \cup Counted(members[low]))
          = Cardinality(Counted(members[high])) + Cardinality(Counted(members[low])) - Cardinality({})
    BY <2>1, <1>4, FS_Union
  <2>3. Cardinality(Counted(members[high] \cup members[low]))
          = Cardinality(Counted(members[high]) \cup Counted(members[low]))
    BY <1>4
  <2>4. Cardinality({}) = 0
    BY FS_EmptySet
  <2> QED
    BY <2>1, <2>2, <2>3, <2>4
<1>6. \A s \in Roots' : txCount'[s] = Cardinality(Counted(members'[s]))
  BY <1>1, <1>3, <1>5 DEF CountsOK
<1> QED
  BY <1>6, CountsUnmoved

\* Over time: what is past stays past, unchanged.
LEMMA PastIsFixed ==
  ASSUME TypeOK, PassOK, [Next]_vars
  PROVE  /\ Past \subseteq Past'
         /\ \A i \in DOMAIN stream : i \in DOMAIN stream' /\ stream'[i] = stream[i]
         /\ \A i \in 1..(Len(stream) - 1) : Joined(i)' = Joined(i)
         /\ ~CountTx => Past' = Past
<1>t. stream \in Seq(Rows) /\ Len(stream) \in Nat /\ DOMAIN stream = 1..Len(stream)
  BY DEF TypeOK
<1>1. ASSUME NEW row \in Rows, TakeInputless(row) \/ TakeSpending(row)
      PROVE  /\ Past' = Past
             /\ \A i \in DOMAIN stream : i \in DOMAIN stream' /\ stream'[i] = stream[i]
             /\ \A i \in DOMAIN stream : Over(i) /\ Over(i)'
  <2>1. /\ stage = "idle" /\ stream' = Append(stream, row)
        /\ stage' = "idle" => ~Spends(row)
    BY <1>1 DEF TakeInputless, TakeSpending, MayTake
  <2>2. /\ DOMAIN stream' = 1..(Len(stream) + 1) /\ Len(stream') = Len(stream) + 1
        /\ stream'[Len(stream) + 1] = row
        /\ \A i \in 1..Len(stream) : stream'[i] = stream[i]
    BY <1>t, <2>1, AppendLast
  <2>3. \A i \in DOMAIN stream : Over(i) /\ Over(i)'
    BY <1>t, <2>1, <2>2 DEF Over
  <2>4. \A i \in DOMAIN stream' \ DOMAIN stream : i \notin Past'
    BY <1>t, <2>1, <2>2 DEF Past, Over
  <2>5. \A i \in DOMAIN stream : i \in DOMAIN stream' /\ stream'[i] = stream[i]
    BY <1>t, <2>2
  <2>6. ASSUME NEW i \in DOMAIN stream PROVE i \in Past' <=> i \in Past
    BY <2>3, <2>5 DEF Past
  <2>7. Past' \subseteq DOMAIN stream' /\ Past \subseteq DOMAIN stream
    BY DEF Past
  <2>8. Past' = Past
    BY <2>4, <2>5, <2>6, <2>7
  <2> QED
    BY <2>3, <2>5, <2>8
<1>2. ASSUME stream' = stream, ~CountTx, [Next]_vars PROVE Past' = Past
  <2>1. stage' = "idle" <=> stage = "idle"
    <3>1. ASSUME NEW row \in Rows, TakeInputless(row) \/ TakeSpending(row) PROVE FALSE
      <4>1. stream' = Append(stream, row)
        BY <3>1 DEF TakeInputless, TakeSpending, MayTake
      <4>2. Len(stream') = Len(stream) + 1
        BY <4>1, <1>t, AppendLast
      <4>3. Len(stream') = Len(stream)
        BY <1>2
      <4> QED
        BY <4>2, <4>3, <1>t
    <3> QED
      BY <1>2, <3>1 DEF Next, Climb, ReadHistory, BeginUnion, SameRoot, Join, EndUnion, Finish, vars
  <2> QED
    BY <1>2, <2>1 DEF Past, Over
<1>3. ASSUME CountTx PROVE Past \subseteq Past' /\ stream' = stream
  BY <1>3 DEF CountTx, Past, Over
<1>4. ASSUME stream' = stream, NEW i \in 1..(Len(stream) - 1) PROVE Over(i) /\ Over(i)'
  BY <1>4, <1>t DEF Over
<1>5. stream' = stream \/ \E row \in Rows : TakeInputless(row) \/ TakeSpending(row)
  BY DEF Next, Climb, ReadHistory, BeginUnion, SameRoot, Join, EndUnion, CountTx, Finish, vars
<1>6. ASSUME NEW i \in 1..(Len(stream) - 1) PROVE Joined(i)' = Joined(i)
  <2>1. Over(i) /\ Over(i)' /\ stream'[i] = stream[i]
    BY <1>t, <1>1, <1>4, <1>5
  <2> QED
    BY <2>1 DEF Joined
<1> QED
  BY <1>1, <1>2, <1>3, <1>5, <1>6

LEMMA CountsStep ==
  ASSUME Inv, ClustersAreComponents, CountsOK, [Next]_vars
  PROVE  CountsOK'
<1>t. /\ TypeOK /\ ForestOK /\ PassOK /\ stream \in Seq(Rows)
      /\ DOMAIN members = Roots /\ DOMAIN txCount = Roots
  BY DEF Inv, TypeOK, ForestOK, ForestType, TreesAreClusters
<1>f. /\ ~CountTx => Past' = Past
      /\ \A j \in Past : stream'[j] = stream[j]
  BY <1>t, PastIsFixed DEF Past
<1>1. ASSUME NEW row \in Rows, TakeSpending(row) PROVE CountsOK'
  <2>1. Insert(row.inputs[1]) /\ row.inputs[1] \in Addresses /\ ~CountTx
    BY <1>1, LinkOrderFacts DEF TakeSpending, MayTake, BeginFind, CountTx
  <2> QED
    BY <2>1, <1>f, InsertKeepsCounts
<1>2. ASSUME BeginUnion PROVE CountsOK'
  <2>1. /\ Insert(LinkOrder(Row)[linked + 1]) /\ stage = "linked" /\ stage' = "union"
        /\ linked < Len(LinkOrder(Row))
    BY <1>2 DEF BeginUnion, BeginFind
  <2>2. LinkOrder(Row)[linked + 1] \in Addresses /\ ~CountTx
    BY <2>1, <1>t, RowType DEF PassOK, CountTx
  <2> QED
    BY <2>1, <2>2, <1>f, InsertKeepsCounts
<1>3. ASSUME ReadHistory \/ SameRoot PROVE CountsOK'
  <2>1. /\ Finding /\ parent[curr] = curr /\ parent' = Compressed
        /\ UNCHANGED <<rank, members, txCount>> /\ stage # "linked"
    BY <1>3 DEF ReadHistory, SameRoot, Arrived
  <2>2. PICK r \in Roots : Item \in members[r] /\ WalkOK(r)
    BY <2>1, <1>t DEF PassOK
  <2>3. Roots' = Roots /\ ~CountTx
    BY <2>1, <2>2, <1>t, CompressKeepsForest DEF CountTx
  <2> QED
    BY <2>1, <2>3, <1>f, CountsUnmoved DEF CountsOK
<1>4. ASSUME Join PROVE CountsOK'
  <2>1. /\ Finding /\ parent[curr] = curr /\ active # curr /\ stage = "union" /\ stream' = stream
    BY <1>4 DEF Join, Arrived, EndUnion
  <2>2. PICK r \in Roots : Item \in members[r] /\ WalkOK(r)
    BY <2>1, <1>t DEF PassOK
  <2>3. curr = r /\ active \in Roots /\ ~CountTx
    BY <2>1, <2>2, <1>t, ArrivedAtRoot DEF PassOK, CountTx
  <2>4. rank[active] \in Nat /\ rank[curr] \in Nat
    BY <2>2, <2>3, <1>t DEF ForestOK, ForestType, Roots
  <2>5. PICK low \in {active, curr}, high \in {active, curr} :
          low # high /\ rank[low] <= rank[high] /\ Attach(low, high)
    BY <1>4, <2>1, <2>4 DEF Join
  <2> QED
    BY <2>1, <2>2, <2>3, <2>5, <1>t, <1>f, AttachKeepsCounts
<1>5. ASSUME CountTx PROVE CountsOK'
  <2>1. /\ stage = "linked" /\ stage' = "idle" /\ stream' = stream
        /\ txCount' = [txCount EXCEPT ![active] = txCount[active] + 1]
        /\ UNCHANGED <<parent, members>>
    BY <1>5 DEF CountTx
  <2>2. /\ active \in Roots /\ Linked \subseteq members[active] /\ Spends(Row)
        /\ linked \in 1..Len(LinkOrder(Row)) /\ stream # <<>>
    BY <2>1, <1>t DEF PassOK
  <2> DEFINE n == Len(stream)
  <2>3. n \in Nat /\ n \in DOMAIN stream /\ DOMAIN stream = 1..n /\ Row = stream[n]
    BY <1>t, <2>2 DEF Row
  <2>4. n \notin Past /\ Past' = Past \cup {n}
    BY <2>1, <2>2, <2>3 DEF Past, Over
  <2>5. stream[n].inputs[1] \in members[active]
    <3>1. LinkOrder(Row)[1] = Row.inputs[1] /\ 1 \in 1..linked
      BY <2>2, <1>t, RowType, LinkOrderFacts
    <3> QED
      BY <3>1, <2>2, <2>3 DEF Linked
  <2>6. ASSUME NEW r \in Roots PROVE txCount'[r] = Cardinality(Counted(members[r])')
    <3>1. CASE r = active
      <4>1. Counted(members[r])' = Counted(members[r]) \cup {n} /\ n \notin Counted(members[r])
        BY <2>1, <2>4, <2>5, <3>1 DEF Counted
      <4>2. IsFiniteSet(Counted(members[r]))
        BY <1>t, CountedFinite
      <4>3. Cardinality(Counted(members[r])') = Cardinality(Counted(members[r])) + 1
        BY <4>1, <4>2, FS_AddElement
      <4> QED
        BY <4>3, <3>1, <2>1, <2>2, <1>t DEF CountsOK
    <3>2. CASE r # active
      <4>1. stream[n].inputs[1] \notin members[r]
        BY <2>2, <2>5, <3>2, <1>t DEF ForestOK, TreesAreClusters
      <4>2. Counted(members[r])' = Counted(members[r])
        BY <2>1, <2>4, <4>1 DEF Counted
      <4> QED
        BY <4>2, <3>2, <2>1, <2>2, <1>t DEF CountsOK
    <3> QED
      BY <3>1, <3>2
  <2>7. Roots' = Roots
    BY <2>1 DEF Roots
  <2> QED
    BY <2>6, <2>7 DEF CountsOK
<1>6. ASSUME \/ \E row \in Rows : TakeInputless(row)
             \/ Climb \/ UNCHANGED vars
      PROVE  CountsOK'
  <2>1. UNCHANGED <<parent, members, txCount>>
    BY <1>6 DEF TakeInputless, Climb, vars, forest
  <2>2. ~CountTx \/ Past' = Past
    BY <1>6 DEF TakeInputless, MayTake, Climb, Finding, vars, CountTx
  <2>3. Roots' = Roots
    BY <2>1 DEF Roots
  <2> QED
    BY <2>1, <2>2, <2>3, <1>f, CountsUnmoved DEF CountsOK
<1> QED
  BY <1>1, <1>2, <1>3, <1>4, <1>5, <1>6 DEF Next, Finish

\* Before a transaction joins anything, the cluster of its first input is the
\* component that the transactions before it make.
LEMMA ReadsComponent ==
  ASSUME Inv, ClustersAreComponents, stage = "read", NEW r \in Roots, Item \in members[r]
  PROVE  LET n == Len(stream)
             before == {j \in 1..(n - 1) : Spends(stream[j])}
         IN  /\ Component(stream[n].inputs[1], {Joined(j) : j \in before}) = members[r]
             /\ Past = before
<1> DEFINE n == Len(stream)
           before == {j \in 1..(n - 1) : Spends(stream[j])}
           groups == {Joined(j) : j \in before}
<1>t. /\ TypeOK /\ ForestOK /\ PassOK /\ stream \in Seq(Rows)
      /\ DOMAIN members = Roots
      /\ n \in Nat /\ n \in DOMAIN stream /\ DOMAIN stream = 1..n
      /\ Joined(n) = Linked /\ linked = 0 /\ Spends(Row) /\ Row = stream[n]
  <2>1. TypeOK /\ ForestOK /\ PassOK /\ stream \in Seq(Rows) /\ DOMAIN members = Roots
    BY DEF Inv, TypeOK, ForestOK, TreesAreClusters
  <2>2. n \in Nat /\ n \in DOMAIN stream /\ Joined(n) = Linked
    BY JoinedNow
  <2>3. linked = 0 /\ Spends(Row)
    BY <2>1 DEF PassOK
  <2> QED
    BY <2>1, <2>2, <2>3 DEF Row
<1>1. Joined(n) = {}
  BY <1>t DEF Linked
<1>2. Item = stream[n].inputs[1]
  <2>1. stream[n] \in Rows
    BY <1>t
  <2> QED
    BY <2>1, <1>t, LinkOrderFacts DEF Item
<1>3. ASSUME NEW i \in DOMAIN stream, i \notin before PROVE Joined(i) = {}
  <2>1. i = n \/ ~Spends(stream[i])
    BY <1>t, <1>3
  <2> QED
    BY <2>1, <1>1 DEF Joined
<1>4. before \subseteq DOMAIN stream
  BY <1>t
<1>5. groups \subseteq Groups /\ \A G \in Groups : G # {} => G \in groups
  BY <1>3, <1>4 DEF Groups
<1>6. \A S : Whole(S, groups) => Whole(S, Groups)
  BY <1>5 DEF Whole
<1>7. members[r] \subseteq Addresses
  BY <1>t DEF ForestOK, ForestType
<1>8. Whole(members[r], groups)
  <2>1. ASSUME NEW G \in groups, G # {} PROVE G \subseteq members[r] \/ G \cap members[r] = {}
    <3>1. PICK s \in Roots : G \subseteq members[s]
      BY <2>1, <1>5, <1>t DEF ClustersAreComponents
    <3> QED
      BY <3>1, <1>t DEF ForestOK, TreesAreClusters
  <2> QED
    BY <2>1 DEF Whole
<1>9. ASSUME NEW S \in SUBSET Addresses, Item \in S, Whole(S, groups) PROVE members[r] \subseteq S
  <2>1. Whole(S, {members[s] : s \in DOMAIN members})
    BY <1>6, <1>9 DEF ClustersAreComponents
  <2>2. members[r] \subseteq S \/ members[r] \cap S = {}
    BY <2>1, <1>t DEF Whole
  <2> QED
    BY <2>2, <1>9
<1>10. Component(Item, groups) = members[r]
  BY <1>7, <1>8, <1>9 DEF Component
<1>11. Past = before
  BY <1>t DEF Past, Over
<1> QED
  BY <1>2, <1>10, <1>11

LEMMA RecordsStep == ASSUME Inv, RecordsOK, [Next]_vars PROVE RecordsOK'
<1>t. /\ stream \in Seq(Rows) /\ Len(stream) \in Nat
      /\ features \in Seq([root: Addresses \cup {None}, size: Nat, count: Nat])
      /\ Len(features) \in Nat
  BY DEF Inv, TypeOK
<1>1. ASSUME NEW row \in Rows, TakeInputless(row) PROVE RecordsOK'
  BY <1>1, <1>t DEF RecordsOK, TakeInputless, MayTake
<1>2. ASSUME NEW row \in Rows, TakeSpending(row) PROVE RecordsOK'
  BY <1>2, <1>t DEF RecordsOK, TakeSpending, MayTake
<1>3. ASSUME ReadHistory PROVE RecordsOK'
  BY <1>3, <1>t DEF RecordsOK, ReadHistory
<1>4. ASSUME Climb \/ BeginUnion \/ SameRoot \/ Join \/ CountTx \/ UNCHANGED vars PROVE RecordsOK'
  BY <1>4, <1>t DEF RecordsOK, Climb, BeginUnion, SameRoot, Join, EndUnion, CountTx, vars
<1> QED
  BY <1>1, <1>2, <1>3, <1>4 DEF Next, Finish

\* What the features of transaction i are taken of, and what they say.
Before(i) == {j \in 1..(i - 1) : Spends(stream[j])}
Cluster(i) == Component(stream[i].inputs[1], {Joined(j) : j \in Before(i)})
Prior(i) ==
  Spends(stream[i]) =>
    /\ features[i].root \in Cluster(i)
    /\ features[i].size = Cardinality(Cluster(i))
    /\ features[i].count = Cardinality({j \in Before(i) : stream[j].inputs[1] \in Cluster(i)})

\* What a row says does not change when rows follow it.
LEMMA PriorStays ==
  ASSUME TypeOK, PassOK, [Next]_vars, NEW i \in DOMAIN stream, Prior(i), features'[i] = features[i]
  PROVE  Prior(i)'
<1>t. stream \in Seq(Rows) /\ Len(stream) \in Nat /\ DOMAIN stream = 1..Len(stream)
  BY DEF TypeOK
<1>1. stream'[i] = stream[i] /\ \A j \in 1..(i - 1) : stream'[j] = stream[j] /\ Joined(j)' = Joined(j)
  BY <1>t, PastIsFixed
<1>2. Before(i)' = Before(i)
  BY <1>1 DEF Before
<1>3. {Joined(j) : j \in Before(i)}' = {Joined(j) : j \in Before(i)}
  BY <1>1, <1>2 DEF Before
<1>4. Cluster(i)' = Cluster(i)
  BY <1>1, <1>3 DEF Cluster, Component, Whole
<1>5. {j \in Before(i) : stream[j].inputs[1] \in Cluster(i)}'
        = {j \in Before(i) : stream[j].inputs[1] \in Cluster(i)}
  BY <1>1, <1>2, <1>4 DEF Before
<1> QED
  BY <1>1, <1>4, <1>5 DEF Prior

LEMMA HistoryStep ==
  ASSUME Inv, ClustersAreComponents, CountsOK, RecordsOK, [Next]_vars,
         \A i \in DOMAIN features : Prior(i)
  PROVE  \A i \in DOMAIN features' : Prior(i)'
<1>t. /\ TypeOK /\ ForestOK /\ PassOK
      /\ stream \in Seq(Rows) /\ Len(stream) \in Nat /\ DOMAIN stream = 1..Len(stream)
      /\ features \in Seq([root: Addresses \cup {None}, size: Nat, count: Nat])
      /\ Len(features) \in Nat /\ DOMAIN features = 1..Len(features)
      /\ DOMAIN features \subseteq DOMAIN stream
  BY DEF Inv, TypeOK, RecordsOK
<1>1. ASSUME NEW i \in DOMAIN features, features'[i] = features[i] PROVE Prior(i)'
  BY <1>1, <1>t, PriorStays
<1>2. ASSUME NEW row \in Rows, TakeInputless(row) PROVE \A i \in DOMAIN features' : Prior(i)'
  <2>1. /\ stage = "idle" /\ stream' = Append(stream, row) /\ ~Spends(row)
        /\ features' = Append(features, Unknown)
    BY <1>2 DEF TakeInputless, MayTake
  <2>2. Len(features) = Len(stream)
    BY <2>1 DEF RecordsOK
  <2>3. /\ DOMAIN features' = DOMAIN features \cup {Len(stream) + 1}
        /\ \A i \in DOMAIN features : features'[i] = features[i]
        /\ stream'[Len(stream) + 1] = row
    BY <2>1, <2>2, <1>t
  <2>4. ASSUME NEW i \in DOMAIN features' \ DOMAIN features PROVE Prior(i)'
    BY <2>1, <2>3 DEF Prior
  <2> QED
    BY <1>1, <2>3, <2>4
<1>3. ASSUME ReadHistory PROVE \A i \in DOMAIN features' : Prior(i)'
  <2> DEFINE n == Len(stream)
             new == [root |-> curr, size |-> Cardinality(members[curr]), count |-> txCount[curr]]
  <2>1. /\ Finding /\ parent[curr] = curr /\ stage = "read" /\ stream' = stream /\ stage' = "linked"
        /\ features' = Append(features, new)
    BY <1>3 DEF ReadHistory, Arrived
  <2>2. PICK r \in Roots : Item \in members[r] /\ WalkOK(r)
    BY <2>1, <1>t DEF PassOK
  <2>3. curr = r
    BY <2>1, <2>2, <1>t, ArrivedAtRoot
  <2>4. n \in DOMAIN stream /\ n >= 1 /\ Len(features) = n - 1
    BY <2>1, <1>t, JoinedNow DEF RecordsOK
  <2>5. Cluster(n) = members[r] /\ Past = Before(n)
    BY <2>1, <2>2, ReadsComponent DEF Cluster, Before
  <2>6. new.root \in members[r] /\ new.size = Cardinality(members[r]) /\ new.count = txCount[r]
    BY <2>2, <2>3 DEF WalkOK
  <2>7. txCount[r] = Cardinality({j \in Before(n) : stream[j].inputs[1] \in Cluster(n)})
    BY <2>2, <2>5 DEF CountsOK, Counted
  <2>8. /\ DOMAIN features' = DOMAIN features \cup {n} /\ features'[n] = new
        /\ \A i \in DOMAIN features : features'[i] = features[i]
    <3> HIDE DEF new
    <3> QED
      BY <2>1, <2>4, <1>t
  <2> HIDE DEF new
  <2>9. ASSUME NEW i \in DOMAIN features' \ DOMAIN features PROVE Prior(i)'
    <3>1. i = n
      BY <2>8
    <3>2. stream' = stream /\ \A j \in 1..(i - 1) : Joined(j)' = Joined(j)
      BY <3>1, <1>t, <2>1, PastIsFixed
    <3>3. Before(i)' = Before(i)
      BY <3>2 DEF Before
    <3>4. {Joined(j) : j \in Before(i)}' = {Joined(j) : j \in Before(i)}
      BY <3>2, <3>3 DEF Before
    <3>5. Cluster(i)' = Cluster(i)
      BY <3>2, <3>4 DEF Cluster, Component, Whole
    <3>6. {j \in Before(i) : stream[j].inputs[1] \in Cluster(i)}'
            = {j \in Before(i) : stream[j].inputs[1] \in Cluster(i)}
      BY <3>2, <3>3, <3>5 DEF Before
    <3>7. /\ features'[i].root \in Cluster(i)
          /\ features'[i].size = Cardinality(Cluster(i))
          /\ features'[i].count = Cardinality({j \in Before(i) : stream[j].inputs[1] \in Cluster(i)})
      BY <3>1, <2>5, <2>6, <2>7, <2>8
    <3> QED
      BY <3>5, <3>6, <3>7 DEF Prior
  <2> QED
    BY <1>1, <2>8, <2>9
<1>4. ASSUME features' = features PROVE \A i \in DOMAIN features' : Prior(i)'
  BY <1>1, <1>4
<1> QED
  BY <1>2, <1>3, <1>4
     DEF Next, TakeSpending, Climb, BeginUnion, SameRoot, Join, EndUnion, CountTx, Finish, vars

\* The features of a transaction are those of the component that the
\* transactions before it make, for streams of any length.
THEOREM NoLeakage == Spec => []HistoryIsPrior
<1> DEFINE HistoryInv == CountsOK /\ RecordsOK /\ \A i \in DOMAIN features : Prior(i)
<1>1. Init => HistoryInv
  BY DEF Init, Empty, CountsOK, Roots, RecordsOK
<1>2. Inv /\ ClustersAreComponents /\ HistoryInv /\ [Next]_vars => HistoryInv'
  BY CountsStep, RecordsStep, HistoryStep
<1>3. HistoryInv => HistoryIsPrior
  BY DEF HistoryIsPrior, Prior, Cluster, Before
<1> HIDE DEF HistoryInv
<1> QED
  BY <1>1, <1>2, <1>3, Invariance, ClustersCorrect, PTL DEF Spec

-----------------------------------------------------------------------------
(***************************************************************************)
(* Refinement                                                              *)
(***************************************************************************)

Clusters == {members[r] : r \in DOMAIN members}

\* A step of the forest is a step of the partition, or none.
LEMMA AbstractStep ==
  ASSUME Inv, Inv', [Next]_vars
  PROVE  [Abstract!Next]_Clusters
<1>t. /\ TypeOK /\ ForestOK /\ PassOK
      /\ DOMAIN members = Roots /\ DOMAIN members' = Roots'
  BY DEF Inv, ForestOK, TreesAreClusters
<1>1. ASSUME NEW a \in Addresses, Insert(a) PROVE Abstract!See(a) \/ Clusters' = Clusters
  <2>1. CASE a \in DOMAIN parent
    BY <2>1, <1>1 DEF Insert, forest, Clusters
  <2>2. CASE a \notin DOMAIN parent
    <3>1. \A r \in Roots : members[r] \subseteq DOMAIN parent
      BY <1>t DEF ForestOK, ForestType
    <3>2. a \notin UNION Clusters
      BY <3>1, <2>2, <1>t DEF Clusters
    <3>3. members' = With(members, a, {a})
      BY <2>2, <1>1 DEF Insert
    <3>4. a \notin Roots
      BY <2>2 DEF Roots
    <3>5. /\ DOMAIN members' = Roots \cup {a} /\ members'[a] = {a}
          /\ \A r \in Roots : members'[r] = members[r]
      BY <3>3, <3>4, <1>t DEF With
    <3>6. Clusters' = Clusters \cup {{a}}
      BY <3>5, <1>t DEF Clusters
    <3> QED
      BY <3>2, <3>6 DEF Abstract!See, Clusters
  <2> QED
    BY <2>1, <2>2
<1>2. ASSUME NEW row \in Rows, TakeSpending(row) PROVE [Abstract!Next]_Clusters
  <2>1. Insert(row.inputs[1]) /\ row.inputs[1] \in Addresses
    BY <1>2, LinkOrderFacts DEF TakeSpending, BeginFind
  <2> QED
    BY <2>1, <1>1 DEF Abstract!Next
<1>3. ASSUME BeginUnion PROVE [Abstract!Next]_Clusters
  <2>1. /\ Insert(LinkOrder(Row)[linked + 1]) /\ stage = "linked"
        /\ linked < Len(LinkOrder(Row))
    BY <1>3 DEF BeginUnion, BeginFind
  <2>2. LinkOrder(Row)[linked + 1] \in Addresses
    BY <2>1, <1>t, RowType DEF PassOK
  <2> QED
    BY <2>1, <2>2, <1>1 DEF Abstract!Next
<1>4. ASSUME Join PROVE [Abstract!Next]_Clusters
  <2>1. /\ Finding /\ parent[curr] = curr /\ active # curr /\ stage = "union"
    BY <1>4 DEF Join, Arrived
  <2>2. PICK r \in Roots : Item \in members[r] /\ WalkOK(r)
    BY <2>1, <1>t DEF PassOK
  <2>3. curr = r /\ active \in Roots
    BY <2>1, <2>2, <1>t, ArrivedAtRoot DEF PassOK
  <2>4. rank[active] \in Nat /\ rank[curr] \in Nat
    BY <2>2, <2>3, <1>t DEF ForestOK, ForestType, Roots
  <2>5. PICK low \in {active, curr}, high \in {active, curr} :
          low # high /\ rank[low] <= rank[high] /\ Attach(low, high)
    BY <1>4, <2>1, <2>4 DEF Join
  <2>6. /\ Roots' = Roots \ {low}
        /\ members'[high] = members[high] \cup members[low]
        /\ \A s \in Roots \ {low, high} : members'[s] = members[s]
    BY <2>5, <2>1, <2>2, <2>3, <1>t, AttachKeepsForest
  <2>7. \A s, t \in Roots : s # t => members[s] # members[t]
    BY <1>t DEF ForestOK, TreesAreClusters
  <2>8. Clusters' = (Clusters \ {members[low], members[high]}) \cup {members[low] \cup members[high]}
    <3>1. Clusters \ {members[low], members[high]} = {members[s] : s \in Roots \ {low, high}}
      BY <2>7, <2>5, <2>2, <2>3, <1>t DEF Clusters
    <3>2. Clusters' = {members'[s] : s \in Roots \ {low, high}} \cup {members'[high]}
      BY <2>6, <2>5, <2>2, <2>3, <1>t DEF Clusters
    <3> QED
      BY <3>1, <3>2, <2>6
  <2>9. {members[low], members[high]} \subseteq {members[s] : s \in DOMAIN members}
    BY <2>5, <2>2, <2>3, <1>t
  <2>10. Abstract!Merge(members[low], members[high])
    BY <2>5, <2>2, <2>3, <2>7, <2>8 DEF Abstract!Merge, Clusters
  <2> QED
    BY <2>9, <2>10 DEF Abstract!Next, Abstract!Merge
<1>5. ASSUME UNCHANGED members PROVE [Abstract!Next]_Clusters
  BY <1>5 DEF Clusters
<1> QED
  BY <1>2, <1>3, <1>4, <1>5
     DEF Next, TakeInputless, Climb, ReadHistory, SameRoot, CountTx, Finish, vars, forest

\* The forest implements the partition: clusters begin with one address, are
\* joined two by two and are never split.
THEOREM Refinement == Spec => ImplementsClusters
<1>1. Init => Abstract!Init
  BY DEF Init, Empty, Abstract!Init
<1>2. Inv /\ Inv' /\ [Next]_vars => [Abstract!Next]_Clusters
  BY AbstractStep
<1> QED
  BY <1>1, <1>2, Invariance, PTL DEF Spec, ImplementsClusters, Abstract!Spec, Clusters
=============================================================================
