------------------------ MODULE GraphExplorerProofs ------------------------
(***************************************************************************)
(* Theorems about the graph service: any database that ingestion can       *)
(* leave, any request, any limits, and a deletion at any moment.           *)
(***************************************************************************)
EXTENDS GraphExplorer, SumTheorems

Walking == {"hop", "nodes", "edges", "annotate"}

\* A deletion only takes rows away.
DbInv ==
  /\ \E d \in Databases : DOMAIN db = DOMAIN d /\ \A t \in DOMAIN d : db[t] \subseteq d[t]
  /\ Undisturbed => db \in Databases

AskInv ==
  /\ IsRequest(ask)
  /\ stage \in {"resolve", "select", "connect", "end"} \cup Walking
  /\ stage \in {"select", "connect"} => ask.op = "export"
  /\ stage \in Walking => ask.op # "export"
  /\ stage = "annotate" => ask.op = "neighborhood"
  /\ outcome = "answered" => stage = "end"
  /\ stage = "resolve" => hop = 0

\* What the addresses selected for an export are.
SelectInv ==
  stage = "connect" =>
    /\ IsFiniteSet(seen) /\ seen \subseteq Addrs /\ Cardinality(seen) <= ask.max
    /\ DOMAIN nodes = seen
    /\ Undisturbed =>
         /\ seen \subseteq Candidates
         /\ Candidates \subseteq seen \/ Cardinality(seen) = ask.max
         /\ \A a \in seen : nodes[a].risk = Score(ctx.ds, ctx.run, a)
         /\ \A a \in seen, b \in Candidates \ seen :
              AtLeast(Score(ctx.ds, ctx.run, a), Score(ctx.ds, ctx.run, b))

\* What has been visited, and that a transaction without a node has lost its
\* row, so that no edge to it will be drawn.
SeenInv ==
  stage \in Walking =>
    /\ IsFiniteSet(seen) /\ seen \subseteq Ids /\ front \subseteq seen
    /\ ask.entity \in seen
    /\ hop \in 0..ask.depth
    /\ ask.op = "subgraph" => seen \subseteq Addrs
    /\ stage = "edges" => Present \subseteq DOMAIN nodes /\ DOMAIN nodes \subseteq seen
    /\ stage = "annotate" => IsClosed

\* Everything visited has its row and hangs, through ties among what has been
\* visited, on the centre, in as many hops as were made.
Hangs(lev) ==
  \A x \in seen : x = ask.entity \/ \E y \in seen : lev[y] < lev[x] /\ {x, y} \in Ties

LevelsInv ==
  stage \in Walking /\ Undisturbed =>
    /\ seen \subseteq Present
    /\ \E lev \in [seen -> 0..hop] : Hangs(lev)
    /\ stage \in {"edges", "annotate"} => DOMAIN nodes = seen
    /\ stage = "annotate" => edges = BipartiteEdges

\* As long as nothing was cut, all that lies within the hops made has been
\* visited, and the ties of all but the frontier have been followed.
FoundInv ==
  stage \in Walking /\ Undisturbed /\ ~limited =>
    /\ Ball(hop) \subseteq seen
    /\ \A x \in seen \ front, y \in Ids : {x, y} \in Ties => y \in seen
    /\ stage # "hop" => Ball(ask.depth) \subseteq seen

IInv == DbInv /\ AskInv /\ SelectInv /\ SeenInv /\ LevelsInv /\ FoundInv /\ ExportIsSound /\ WalkIsSound
-----------------------------------------------------------------------------
(* Rows. *)

LEMMA Rows ==
  ASSUME DbInv
  PROVE  /\ DOMAIN db = {"results", "runs", "ins", "outs", "tx", "addrs", "alerts"}
         /\ \A t \in DOMAIN db : IsFiniteSet(db[t])
         /\ \A row \in db.ins \cup db.outs :
              row.id \in Txs /\ row.addr \in Addrs \cup {Null} /\ row.amt \in Int
         /\ \A row \in db.tx : row.id \in Txs /\ row = [ds |-> row.ds, id |-> row.id]
         /\ \A row \in db.addrs : row.addr \in Addrs
         /\ Undisturbed => \A row \in db.ins \cup db.outs : [ds |-> row.ds, id |-> row.id] \in db.tx
<1>1. PICK d \in Databases : DOMAIN db = DOMAIN d /\ \A t \in DOMAIN d : db[t] \subseteq d[t]
  BY DEF DbInv
<1>2. IsDatabase(d)
  BY DatabasesAssumption
<1>3. ASSUME NEW row \in d.ins \cup d.outs
      PROVE  row.id \in Txs /\ row.addr \in Addrs \cup {Null} /\ row.amt \in Int
  <2>1. [ds |-> row.ds, id |-> row.id] \in d.tx
    BY <1>2 DEF IsDatabase
  <2>2. [ds |-> row.ds, id |-> row.id].id \in Txs
    BY <1>2, <2>1 DEF IsDatabase
  <2> QED
    BY <1>2, <2>2 DEF IsDatabase
<1>4. DOMAIN db = {"results", "runs", "ins", "outs", "tx", "addrs", "alerts"}
  BY <1>1, <1>2 DEF IsDatabase
<1>5. /\ db.ins \subseteq d.ins /\ db.outs \subseteq d.outs
      /\ db.tx \subseteq d.tx /\ db.addrs \subseteq d.addrs
  BY <1>1, <1>4
<1>6. ASSUME NEW t \in DOMAIN db PROVE IsFiniteSet(db[t])
  BY <1>1, <1>2, FS_Subset DEF IsDatabase
<1>7. Undisturbed => \A row \in db.ins \cup db.outs : [ds |-> row.ds, id |-> row.id] \in db.tx
  BY DatabasesAssumption DEF DbInv, IsDatabase
<1> QED
  <2>1. \A row \in db.ins \cup db.outs :
          row.id \in Txs /\ row.addr \in Addrs \cup {Null} /\ row.amt \in Int
    BY <1>3, <1>5
  <2>2. /\ \A row \in db.tx : row.id \in Txs /\ row = [ds |-> row.ds, id |-> row.id]
        /\ \A row \in db.addrs : row.addr \in Addrs
    BY <1>2, <1>5 DEF IsDatabase
  <2> QED
    BY <1>4, <1>6, <1>7, <2>1, <2>2

\* What a LIMIT returns.
LEMMA SomeIsPart ==
  ASSUME NEW S, IsFiniteSet(S), NEW limit \in Nat, NEW T \in Some(S, limit)
  PROVE  /\ T \subseteq S /\ IsFiniteSet(T)
         /\ Cardinality(T) <= limit
         /\ T = S \/ Cardinality(T) = limit
         /\ ~Cut(S, limit) => T = S
<1> DEFINE n == Cardinality(S)
           least == Min({limit, n})
<1>1. n \in Nat
  BY FS_CardinalityType
<1>2. least = IF limit <= n THEN limit ELSE n
  <2> HIDE DEF n
  <2> QED
    BY <1>1 DEF Min
<1>3. T \in SUBSET S /\ Cardinality(T) = least
  BY DEF Some, kSubset
<1>4. IsFiniteSet(T) /\ (n = Cardinality(T) => S = T)
  BY <1>3, FS_Subset
<1> QED
  BY <1>1, <1>2, <1>3, <1>4 DEF Cut

\* Images of finite sets are finite.
LEMMA FiniteIds ==
  ASSUME NEW rows, IsFiniteSet(rows)
  PROVE  IsFiniteSet(IdsOf(rows)) /\ IsFiniteSet(AddrsOf(rows))
<1>1. IsFiniteSet({row.id : row \in rows})
  <2>1. [row \in rows |-> row.id] \in Surjection(rows, {row.id : row \in rows})
    BY DEF Surjection
  <2> QED
    BY <2>1, FS_Surjection
<1>2. IsFiniteSet({row.addr : row \in rows})
  <2>1. [row \in rows |-> row.addr] \in Surjection(rows, {row.addr : row \in rows})
    BY DEF Surjection
  <2> QED
    BY <2>1, FS_Surjection
<1>3. IsFiniteSet({row.addr : row \in rows} \ {Null})
  BY <1>2, FS_RemoveElement
<1> QED
  BY <1>1, <1>3 DEF IdsOf, AddrsOf

-----------------------------------------------------------------------------
(* Balls. *)

Grown(ball, c, ties, n) ==
  ball = [k \in 0..n |->
            IF k = 0 THEN {c}
            ELSE ball[k - 1] \cup Beside(ties, ball[k - 1])]

LEMMA BallExists ==
  ASSUME NEW c, NEW ties, NEW n \in Nat
  PROVE  \E ball : Grown(ball, c, ties, n)
<1> DEFINE Next1(S) == S \cup Beside(ties, S)
           D == {m \in Nat : \E ball : Grown(ball, c, ties, m)}
<1>1. 0 \in D
  <2>1. Grown([k \in 0..0 |-> {c}], c, ties, 0)
    BY DEF Grown
  <2> QED
    BY <2>1
<1>2. ASSUME NEW m \in Nat, m \in D PROVE m + 1 \in D
  <2>1. PICK ball : Grown(ball, c, ties, m)
    BY <1>2
  <2>2. ball = [k \in 0..m |-> IF k = 0 THEN {c} ELSE Next1(ball[k - 1])]
    BY <2>1 DEF Grown
  <2> DEFINE more == [k \in 0..(m + 1) |-> IF k <= m THEN ball[k] ELSE Next1(ball[m])]
  <2> HIDE DEF Next1
  <2>3. ASSUME NEW k \in 0..(m + 1)
        PROVE  more[k] = IF k = 0 THEN {c} ELSE Next1(more[k - 1])
    <3>1. CASE k = 0
      BY <3>1, <2>2
    <3>2. CASE k \in 1..m
      <4>1. more[k] = ball[k] /\ k - 1 \in 0..m /\ k - 1 \in 0..(m + 1) /\ k - 1 <= m
        BY <3>2
      <4>2. more[k - 1] = ball[k - 1]
        BY <4>1
      <4>3. k # 0 /\ k \in 0..m
        BY <3>2
      <4>4. ball[k] = Next1(ball[k - 1])
        BY <2>2, <4>3
      <4> HIDE DEF more
      <4>5. more[k] = Next1(more[k - 1])
        BY <4>1, <4>2, <4>4
      <4> QED
        BY <4>3, <4>5
    <3>3. CASE k = m + 1
      <4>1. more[k] = Next1(ball[m]) /\ k - 1 = m /\ more[m] = ball[m]
        BY <3>3
      <4> QED
        BY <3>3, <4>1
    <3> QED
      BY <3>1, <3>2, <3>3
  <2>4. more = [k \in 0..(m + 1) |-> more[k]]
    OBVIOUS
  <2>5. more = [k \in 0..(m + 1) |-> IF k = 0 THEN {c} ELSE Next1(more[k - 1])]
    <3> HIDE DEF more
    <3> QED
      BY <2>3, <2>4
  <2>6. Grown(more, c, ties, m + 1)
    <3> HIDE DEF more
    <3> QED
      BY <2>5 DEF Grown, Next1
  <2> QED
    BY <2>6
<1>3. Nat \subseteq D
  <2> HIDE DEF D
  <2> QED
    BY <1>1, <1>2, InductionOnNat
<1> QED
  BY <1>3

LEMMA BallsAgree ==
  ASSUME NEW ties, NEW n \in Nat, NEW m \in Nat, NEW centre, NEW b, NEW d,
         Grown(b, centre, ties, n), Grown(d, centre, ties, m),
         NEW k \in Nat, k <= n, k <= m
  PROVE  b[k] = d[k]
<1> DEFINE D == {j \in Nat : j <= n /\ j <= m => b[j] = d[j]}
<1>1. 0 \in D
  BY DEF Grown
<1>2. ASSUME NEW j \in Nat, j \in D PROVE j + 1 \in D
  <2>1. SUFFICES ASSUME j + 1 <= n, j + 1 <= m PROVE b[j + 1] = d[j + 1]
    OBVIOUS
  <2>2. j + 1 \in 0..n /\ j + 1 \in 0..m /\ j + 1 # 0 /\ (j + 1) - 1 = j /\ b[j] = d[j]
    BY <1>2, <2>1
  <2>3. /\ b[j + 1] = b[j] \cup Beside(ties, b[j])
        /\ d[j + 1] = d[j] \cup Beside(ties, d[j])
    BY <2>2 DEF Grown
  <2> QED
    BY <2>2, <2>3
<1>3. Nat \subseteq D
  <2> HIDE DEF D
  <2> QED
    BY <1>1, <1>2, InductionOnNat
<1> QED
  BY <1>3

\* A ball is the one before and what is tied to it.
LEMMA AroundGrows ==
  ASSUME NEW c, NEW ties
  PROVE  /\ Around(c, ties, 0) = {c}
         /\ \A n \in Nat :
              Around(c, ties, n + 1) = Around(c, ties, n) \cup Beside(ties, Around(c, ties, n))
<1> DEFINE the(n) == CHOOSE ball : Grown(ball, c, ties, n)
<1>1. \A n : Around(c, ties, n) = the(n)[n]
  BY DEF Around, Grown
<1>2. \A n \in Nat : Grown(the(n), c, ties, n)
  BY BallExists
<1> HIDE DEF the
<1>3. Around(c, ties, 0) = {c}
  BY <1>1, <1>2 DEF Grown
<1>4. ASSUME NEW n \in Nat
      PROVE  Around(c, ties, n + 1) = Around(c, ties, n) \cup Beside(ties, Around(c, ties, n))
  <2>1. the(n + 1)[n] = the(n)[n]
    BY <1>2, BallsAgree
  <2>2. n + 1 \in 0..(n + 1) /\ n + 1 # 0 /\ (n + 1) - 1 = n /\ Grown(the(n + 1), c, ties, n + 1)
    BY <1>2
  <2>3. the(n + 1)[n + 1] = the(n + 1)[n] \cup Beside(ties, the(n + 1)[n])
    BY <2>2 DEF Grown
  <2> QED
    BY <1>1, <2>1, <2>3
<1> QED
  BY <1>3, <1>4

\* What hangs on the centre by ties is in the ball of its level.
LEMMA HangingIsAround ==
  ASSUME NEW S \in SUBSET Ids, NEW n \in Nat, NEW lev \in [S -> 0..n], NEW c, NEW ties,
         \A x \in S : x = c \/ \E y \in S : lev[y] < lev[x] /\ {x, y} \in ties
  PROVE  S \subseteq Around(c, ties, n)
<1> DEFINE D == {k \in Nat : \A x \in S : lev[x] <= k => x \in Around(c, ties, k)}
<1>1. 0 \in D
  <2>1. ASSUME NEW x \in S, lev[x] <= 0 PROVE x = c
    <3>1. \A y \in S : ~(lev[y] < 0)
      OBVIOUS
    <3>2. lev[x] = 0
      BY <2>1
    <3> HIDE DEF D
    <3> QED
      BY <3>1, <3>2
  <2> QED
    BY <2>1, AroundGrows
<1>2. ASSUME NEW k \in Nat, k \in D PROVE k + 1 \in D
  <2>1. SUFFICES ASSUME NEW x \in S, lev[x] <= k + 1 PROVE x \in Around(c, ties, k + 1)
    OBVIOUS
  <2>2. Around(c, ties, k + 1) = Around(c, ties, k) \cup Beside(ties, Around(c, ties, k))
    BY AroundGrows
  <2>3. CASE lev[x] <= k
    BY <1>2, <2>2, <2>3
  <2>4. CASE \E y \in S : lev[y] < lev[x] /\ {x, y} \in ties
    <3>1. PICK y \in S : lev[y] < lev[x] /\ {x, y} \in ties
      BY <2>4
    <3>2. lev[y] <= k
      BY <2>1, <3>1
    <3>3. y \in Around(c, ties, k) /\ {y, x} = {x, y} /\ x \in Ids
      BY <1>2, <3>2
    <3> QED
      BY <2>2, <3>1, <3>3 DEF Beside
  <2>5. CASE x = c
    <3> DEFINE E == {j \in Nat : c \in Around(c, ties, j)}
    <3>1. 0 \in E /\ \A j \in Nat : j \in E => j + 1 \in E
      BY AroundGrows
    <3>2. Nat \subseteq E
      <4> HIDE DEF E
      <4> QED
        BY <3>1, InductionOnNat
    <3> QED
      BY <2>5, <3>2
  <2> QED
    BY <2>3, <2>4, <2>5
<1>3. Nat \subseteq D
  <2> HIDE DEF D
  <2> QED
    BY <1>1, <1>2, InductionOnNat
<1> QED
  BY <1>3

\* A set that holds the centre and has no tie to the outside holds every ball.
LEMMA ClosedHoldsBalls ==
  ASSUME NEW S, NEW c, NEW ties, c \in S, NEW n \in Nat,
         \A x \in S, y \in Ids : {x, y} \in ties => y \in S
  PROVE  Around(c, ties, n) \subseteq S
<1> DEFINE D == {k \in Nat : Around(c, ties, k) \subseteq S}
<1>1. 0 \in D
  BY AroundGrows
<1>2. ASSUME NEW k \in Nat, k \in D PROVE k + 1 \in D
  <2>1. Around(c, ties, k + 1) = Around(c, ties, k) \cup Beside(ties, Around(c, ties, k))
    BY AroundGrows
  <2>2. Around(c, ties, k) \subseteq S
    BY <1>2
  <2>3. Around(c, ties, k + 1) \subseteq S
    BY <2>1, <2>2 DEF Beside
  <2> QED
    BY <2>3
<1>3. Nat \subseteq D
  <2> HIDE DEF D
  <2> QED
    BY <1>1, <1>2, InductionOnNat
<1> QED
  BY <1>3
-----------------------------------------------------------------------------
(* The database and the request. *)

Resolves == ResolveExport \/ ResolveSubgraph \/ ResolveNeighborhood
Hops == HopOverAddresses \/ HopOverBoth

\* The service only reads.
LEMMA ServiceReads == ASSUME Service PROVE UNCHANGED database
<1> USE DEF database
<1>1. CASE Resolves
  BY <1>1 DEF Resolves, ResolveExport, ResolveSubgraph, ResolveNeighborhood
<1>2. CASE SelectRiskiest \/ ConnectSelected
  BY <1>2 DEF SelectRiskiest, ConnectSelected
<1>3. CASE Hops
  BY <1>3 DEF Hops, HopOverAddresses, HopOverBoth
<1>4. CASE DescribeNodes \/ DrawEdges \/ Annotate
  BY <1>4 DEF DescribeNodes, DrawEdges, Annotate
<1> QED
  BY <1>1, <1>2, <1>3, <1>4 DEF Service, Resolves, Hops

LEMMA DbStep == ASSUME DbInv, [Next]_vars PROVE DbInv'
<1>1. CASE UNCHANGED database
  BY <1>1 DEF database, DbInv, Undisturbed
<1>2. CASE DeleteDataset
  BY <1>2 DEF DeleteDataset, DbInv, Undisturbed
<1>3. CASE EraseTable
  <2>1. PICK d \in Databases : DOMAIN db = DOMAIN d /\ \A t \in DOMAIN d : db[t] \subseteq d[t]
    BY DEF DbInv
  <2>2. DOMAIN db' = DOMAIN d /\ \A t \in DOMAIN d : db'[t] \subseteq db[t]
    BY <1>3, <2>1 DEF EraseTable
  <2>3. deleting' # "no"
    BY <1>3 DEF EraseTable, After
  <2> QED
    BY <2>1, <2>2, <2>3 DEF DbInv, Undisturbed
<1> QED
  BY <1>1, <1>2, <1>3, ServiceReads DEF Next, vars, database

\* Nothing is left of the request once it is answered.
LEMMA AskStep == ASSUME AskInv, [Next]_vars PROVE AskInv'
<1> USE DEF AskInv, Walking, Raise, Begin
<1>1. CASE UNCHANGED vars \/ DeleteDataset \/ EraseTable
  BY <1>1 DEF vars, DeleteDataset, EraseTable, IsRequest
<1>2. CASE ResolveExport
  <2>1. UNCHANGED ask /\ ask.op = "export" /\ stage' \in {"select", "end"}
        /\ (outcome' = "answered" => stage' = "end")
    BY <1>2 DEF ResolveExport
  <2> QED
    BY <2>1 DEF IsRequest
<1>3. CASE ResolveSubgraph
  <2>1. CASE UNCHANGED ask /\ stage' \in {"hop", "end"} /\ (outcome' = "answered" => stage' = "end")
    BY <1>3, <2>1 DEF ResolveSubgraph, IsRequest
  <2>2. CASE \E ds : ask' = [op |-> "neighborhood", entity |-> ask.entity, run |-> ask.run, ds |-> ds,
                             type |-> Null, depth |-> ask.depth, high |-> FALSE]
             /\ UNCHANGED <<stage, outcome, hop>>
    BY <1>3, <2>2 DEF ResolveSubgraph, IsRequest
  <2> QED
    BY <1>3, <2>1, <2>2 DEF ResolveSubgraph
<1>4. CASE ResolveNeighborhood
  <2>1. UNCHANGED ask /\ ask.op = "neighborhood" /\ stage' \in {"hop", "end"}
        /\ (outcome' = "answered" => stage' = "end")
    BY <1>4 DEF ResolveNeighborhood
  <2> QED
    BY <2>1 DEF IsRequest
<1>5. CASE SelectRiskiest \/ ConnectSelected
  BY <1>5 DEF SelectRiskiest, ConnectSelected, IsRequest
<1>6. CASE Hops
  <2>1. UNCHANGED ask /\ stage = "hop" /\ stage' \in {"hop", "nodes", "end"}
        /\ (outcome' = "answered" => stage' = "end")
    BY <1>6 DEF Hops, HopOverAddresses, HopOverBoth, Stop
  <2> QED
    BY <2>1 DEF IsRequest
<1>7. CASE DescribeNodes \/ DrawEdges \/ Annotate
  BY <1>7 DEF DescribeNodes, DrawEdges, Annotate, IsRequest
<1> QED
  BY <1>1, <1>2, <1>3, <1>4, <1>5, <1>6, <1>7 DEF Next, Service, Hops

-----------------------------------------------------------------------------
(* What is decided once and what a deletion may take. *)

LEMMA Starts == Init => IInv
<1> SUFFICES ASSUME Init PROVE IInv
  OBVIOUS
<1>1. DbInv
  BY DEF Init, DbInv
<1>2. AskInv
  BY RequestsAssumption DEF Init, AskInv, Walking
<1>3. SelectInv /\ SeenInv /\ LevelsInv /\ FoundInv
  BY DEF Init, SelectInv, SeenInv, LevelsInv, FoundInv, Walking
<1>4. ExportIsSound /\ WalkIsSound
  BY DEF Init, ExportIsSound, WalkIsSound
<1> QED
  BY <1>1, <1>2, <1>3, <1>4 DEF IInv

\* A deletion takes rows and nothing the service has in hand.
LEMMA DeletionStep == ASSUME IInv, DeleteDataset \/ EraseTable
                      PROVE  SelectInv' /\ SeenInv' /\ LevelsInv' /\ FoundInv' /\ ExportIsSound' /\ WalkIsSound'
<1>1. UNCHANGED <<ask, stage, ctx, seen, front, hop, limited, nodes, edges, outcome>>
  BY DEF DeleteDataset, EraseTable
<1>2. ~Undisturbed'
  BY DEF DeleteDataset, EraseTable, After, Undisturbed
<1>3. db'.tx \subseteq db.tx
  <2>1. "tx" \in DOMAIN db
    BY Rows DEF IInv
  <2> QED
    BY <2>1 DEF DeleteDataset, EraseTable
<1>4. SelectInv'
  BY <1>1, <1>2 DEF SelectInv, IInv
<1>5. SeenInv'
  BY <1>1, <1>3 DEF SeenInv, IInv, Present, IsClosed, Walking
<1>6. LevelsInv' /\ FoundInv'
  BY <1>2 DEF LevelsInv, FoundInv
<1>7. ExportIsSound' /\ WalkIsSound'
  BY <1>1, <1>2 DEF ExportIsSound, WalkIsSound, IInv, IsClosed
<1> QED
  BY <1>4, <1>5, <1>6, <1>7
-----------------------------------------------------------------------------
(* The export. *)

LEMMA SameView ==
  ASSUME UNCHANGED <<db, ctx, ask>>
  PROVE  /\ Candidates' = Candidates
         /\ \A a : Score(ctx.ds, ctx.run, a)' = Score(ctx.ds, ctx.run, a)
         /\ Ties' = Ties
         /\ \A n : Ball(n)' = Ball(n)
<1>1. \A a : Score(ctx.ds, ctx.run, a)' = Score(ctx.ds, ctx.run, a)
  BY DEF Score, Scores, Of
<1>2. Candidates' = Candidates
  BY DEF Candidates, Score, Scores, Of, AtLeast
<1>3. Ties' = Ties
  BY DEF Ties, Of
<1>4. \A n : Ball(n)' = Ball(n)
  BY <1>3 DEF Ball, Around
<1> QED
  BY <1>1, <1>2, <1>3, <1>4

LEMMA CandidatesAreAddresses ==
  ASSUME DbInv
  PROVE  IsFiniteSet(Candidates) /\ Candidates \subseteq Addrs
<1> DEFINE all == {row.addr : row \in db.addrs}
<1>1. IsFiniteSet(all)
  <2>1. IsFiniteSet(db.addrs)
    BY Rows
  <2>2. [row \in db.addrs |-> row.addr] \in Surjection(db.addrs, all)
    BY DEF Surjection
  <2> QED
    BY <2>1, <2>2, FS_Surjection
<1>2. Candidates \subseteq all
  BY DEF Candidates, Of
<1>3. all \subseteq Addrs
  BY Rows
<1> QED
  BY <1>1, <1>2, <1>3, FS_Subset

LEMMA ResolveExportStep ==
  ASSUME IInv, ResolveExport
  PROVE  SelectInv' /\ SeenInv' /\ LevelsInv' /\ FoundInv' /\ ExportIsSound' /\ WalkIsSound'
<1>1. stage' \in {"select", "end"} /\ outcome' # "answered"
  BY DEF ResolveExport, Raise, IInv, AskInv
<1> QED
  BY <1>1 DEF SelectInv, SeenInv, LevelsInv, FoundInv, ExportIsSound, WalkIsSound, Walking

LEMMA SelectStep ==
  ASSUME IInv, SelectRiskiest
  PROVE  SelectInv' /\ SeenInv' /\ LevelsInv' /\ FoundInv' /\ ExportIsSound' /\ WalkIsSound'
<1>1. stage' \in {"connect", "end"} /\ outcome' # "answered"
  BY DEF SelectRiskiest, Raise, IInv, AskInv
<1>2. SeenInv' /\ LevelsInv' /\ FoundInv' /\ ExportIsSound' /\ WalkIsSound'
  BY <1>1 DEF SeenInv, LevelsInv, FoundInv, ExportIsSound, WalkIsSound, Walking
<1>3. ASSUME stage' = "connect" PROVE SelectInv'
  <2> DEFINE risk == [a \in Candidates |-> Score(ctx.ds, ctx.run, a)]
  <2>1. /\ seen' \in Some(Candidates, ask.max)
        /\ \A a \in seen', b \in Candidates \ seen' : AtLeast(risk[a], risk[b])
        /\ nodes' = [a \in seen' |-> [risk |-> risk[a]]]
        /\ UNCHANGED <<db, ctx, ask>>
    BY <1>3 DEF SelectRiskiest, Raise, database
  <2>2. ask.max \in Nat
    BY DEF SelectRiskiest, IInv, AskInv, IsRequest
  <2>3. IsFiniteSet(Candidates) /\ Candidates \subseteq Addrs
    BY CandidatesAreAddresses DEF IInv
  <2> DEFINE S == seen'
  <2>4. S \in Some(Candidates, ask.max)
    BY <2>1
  <2>5. /\ S \subseteq Candidates /\ IsFiniteSet(S) /\ Cardinality(S) <= ask.max
        /\ S = Candidates \/ Cardinality(S) = ask.max
    <3> HIDE DEF S
    <3> QED
      BY <2>2, <2>3, <2>4, SomeIsPart
  <2>6. \A a \in S : nodes'[a].risk = Score(ctx.ds, ctx.run, a)
    BY <2>1, <2>5
  <2>7. \A a \in S, b \in Candidates \ S :
          AtLeast(Score(ctx.ds, ctx.run, a), Score(ctx.ds, ctx.run, b))
    BY <2>1, <2>5
  <2>8. DOMAIN nodes' = S
    BY <2>1
  <2>9. /\ Candidates' = Candidates /\ ask' = ask
        /\ \A a : Score(ctx.ds, ctx.run, a)' = Score(ctx.ds, ctx.run, a)
        /\ \A x, y : AtLeast(x, y)' = AtLeast(x, y)
    BY <2>1, SameView DEF AtLeast
  <2> HIDE DEF S, risk
  <2>10. \A a \in S, b \in Candidates' \ S :
           AtLeast(Score(ctx.ds, ctx.run, a), Score(ctx.ds, ctx.run, b))'
    <3>1. \A a, b : AtLeast(Score(ctx.ds, ctx.run, a), Score(ctx.ds, ctx.run, b))'
                      = AtLeast(Score(ctx.ds, ctx.run, a), Score(ctx.ds, ctx.run, b))
      BY <2>9 DEF AtLeast
    <3> QED
      BY <2>7, <2>9, <3>1
  <2> QED
    BY <2>3, <2>5, <2>6, <2>8, <2>9, <2>10 DEF SelectInv, S
<1> QED
  BY <1>1, <1>2, <1>3 DEF SelectInv
LEMMA Amounts ==
  ASSUME DbInv, NEW ds, NEW from, NEW to
  PROVE  /\ Amount(PaidBy(ds, from, to)) \in Int
         /\ PaidBy(ds, from, to) = {} => Amount(PaidBy(ds, from, to)) = 0
<1> DEFINE rows == PaidBy(ds, from, to)
           f == [row \in rows |-> row.amt]
<1>1. rows \subseteq db.outs
  BY DEF PaidBy, Of
<1>2. IsFiniteSet(rows)
  <2>1. IsFiniteSet(db.outs)
    BY Rows
  <2> HIDE DEF rows
  <2> QED
    BY <1>1, <2>1, FS_Subset
<1>3. \A row \in rows : f[row] \in Int
  BY <1>1, Rows
<1>4. Amount(rows) = SumFunctionOnSet(f, rows)
  BY DEF Amount
<1> HIDE DEF f, rows
<1>5. Amount(rows) \in Int
  BY <1>2, <1>3, <1>4, SumType
<1>6. rows = {} => Amount(rows) = 0
  BY <1>4, SumEmpty
<1> QED
  BY <1>5, <1>6 DEF rows

LEMMA TotalOfOne ==
  ASSUME NEW e, e.total \in Int
  PROVE  /\ SumFunctionOnSet([x \in {e} |-> x.total], {e}) = e.total
         /\ SumFunctionOnSet([x \in {} |-> x.total], {}) = 0
<1> DEFINE f == [x \in {e} |-> x.total]
<1>1. f[e] = e.total
  OBVIOUS
<1> HIDE DEF f
<1>2. SumFunctionOnSet(f, {} \cup {e}) = f[e] + SumFunctionOnSet(f, {})
  <2>1. e \notin {} /\ IsFiniteSet({}) /\ \A y \in {} \cup {e} : f[y] \in Int
    BY <1>1, FS_EmptySet
  <2> DEFINE S == {}
  <2>2. e \notin S /\ IsFiniteSet(S) /\ \A y \in S \cup {e} : f[y] \in Int
    BY <2>1
  <2> HIDE DEF S
  <2>3. SumFunctionOnSet(f, S \cup {e}) = f[e] + SumFunctionOnSet(f, S)
    BY <2>2, SumAdd
  <2> QED
    BY <2>3 DEF S
<1>3. {} \cup {e} = {e}
  OBVIOUS
<1>4. SumFunctionOnSet(f, {e}) = e.total
  BY <1>1, <1>2, <1>3, SumEmpty
<1> QED
  BY <1>4, SumEmpty DEF f

\* An edge is of a pair that was wanted and of the payments between its ends.
EdgeOf(ds, a, b) == Edge(a, b, PaidBy(ds, a, b), Cardinality(IdsOf(PaidBy(ds, a, b))))

LEMMA EdgesOfAddresses ==
  ASSUME NEW ds, NEW wanted
  PROVE  /\ \A e \in AddressEdges(ds, wanted) :
              \E p \in wanted : /\ p[1] # p[2] /\ PaidBy(ds, p[1], p[2]) # {}
                                /\ e = EdgeOf(ds, p[1], p[2])
                                /\ e.source = p[1] /\ e.target = p[2]
         /\ \A p \in wanted : p[1] # p[2] /\ PaidBy(ds, p[1], p[2]) # {} =>
              EdgeOf(ds, p[1], p[2]) \in AddressEdges(ds, wanted)
<1>1. AddressEdges(ds, wanted) = {EdgeOf(ds, p[1], p[2]) :
                                    p \in {q \in wanted : q[1] # q[2] /\ PaidBy(ds, q[1], q[2]) # {}}}
  BY Zenon DEF AddressEdges, EdgeOf
<1>2. \A a, b : EdgeOf(ds, a, b).source = a /\ EdgeOf(ds, a, b).target = b
  BY DEF EdgeOf, Edge
<1> QED
  BY <1>1, <1>2

LEMMA PaidByEnds ==
  ASSUME NEW ds, NEW a, NEW b, PaidBy(ds, a, b) # {}
  PROVE  \E i \in Of(db.ins, ds), o \in Of(db.outs, ds) : i.id = o.id /\ i.addr = a /\ o.addr = b
  BY DEF PaidBy

\* The graph that is returned, from the selection.
LEMMA ConnectStep ==
  ASSUME IInv, ConnectSelected
  PROVE  SelectInv' /\ SeenInv' /\ LevelsInv' /\ FoundInv' /\ ExportIsSound' /\ WalkIsSound'
<1>1. stage' = "end" /\ stage = "connect" /\ ask.op = "export" /\ ask' = ask /\ ask.max \in Nat
  BY DEF ConnectSelected, IInv, AskInv, IsRequest
<1>2. SelectInv' /\ SeenInv' /\ LevelsInv' /\ FoundInv' /\ WalkIsSound'
  BY <1>1 DEF SelectInv, SeenInv, LevelsInv, FoundInv, WalkIsSound, Walking
<1>3. ExportIsSound'
  <2> DEFINE wanted == IF ask.neighbors THEN (seen \X Addrs) \cup (Addrs \X seen) ELSE seen \X seen
             all == AddressEdges(ctx.ds, wanted)
             others == (UNION {{e.source, e.target} : e \in all}) \ seen
             room == ask.max - Cardinality(seen)
  <2>1. PICK more \in Some(others, room) :
          /\ nodes' = [a \in seen \cup more |-> IF a \in seen THEN nodes[a] ELSE [risk |-> Null]]
          /\ edges' = Kept(all, seen \cup more)
    BY DEF ConnectSelected
  <2>2. UNCHANGED <<database, ask, ctx, seen, front, hop, limited>>
    BY DEF ConnectSelected
  <2>3. IsFiniteSet(seen) /\ seen \subseteq Addrs /\ Cardinality(seen) <= ask.max
    BY <1>1 DEF IInv, SelectInv
  <2>4. Cardinality(seen) \in Nat /\ room \in Nat
    BY <1>1, <2>3, FS_CardinalityType
  <2>5. /\ \A p \in wanted : p[1] \in Addrs /\ p[2] \in Addrs
        /\ \A x \in seen, y \in seen : <<x, y>> \in wanted
        /\ ask.neighbors => \A x \in Addrs, y \in Addrs : {x, y} \cap seen # {} => <<x, y>> \in wanted
        /\ ~ask.neighbors => \A p \in wanted : p[1] \in seen /\ p[2] \in seen
    BY <2>3
  <2> HIDE DEF wanted
  <2>6. \A e \in all : \E p \in wanted :
          /\ p[1] # p[2] /\ PaidBy(ctx.ds, p[1], p[2]) # {}
          /\ e = EdgeOf(ctx.ds, p[1], p[2]) /\ e.source = p[1] /\ e.target = p[2]
    BY EdgesOfAddresses
  <2>7. \A p \in wanted : p[1] # p[2] /\ PaidBy(ctx.ds, p[1], p[2]) # {} => EdgeOf(ctx.ds, p[1], p[2]) \in all
    BY EdgesOfAddresses
  <2> HIDE DEF all
  <2>8. others \subseteq AddrsOf(db.ins \cup db.outs) /\ others \subseteq Addrs
    <3>1. SUFFICES ASSUME NEW x \in others PROVE x \in AddrsOf(db.ins \cup db.outs) /\ x \in Addrs
      OBVIOUS
    <3>2. PICK e \in all : x \in {e.source, e.target}
      BY <3>1
    <3>3. PICK p \in wanted : /\ PaidBy(ctx.ds, p[1], p[2]) # {}
                              /\ e.source = p[1] /\ e.target = p[2]
      BY <2>6
    <3>4. \E i \in Of(db.ins, ctx.ds), o \in Of(db.outs, ctx.ds) : i.addr = p[1] /\ o.addr = p[2]
      BY <3>3, PaidByEnds
    <3>5. p[1] \in Addrs /\ p[2] \in Addrs
      BY <2>5
    <3> QED
      BY <3>2, <3>3, <3>4, <3>5, IdsAssumption DEF AddrsOf, Of, Ids
  <2>9. IsFiniteSet(others)
    <3>1. IsFiniteSet(db.ins) /\ IsFiniteSet(db.outs)
      BY Rows DEF IInv
    <3>2. IsFiniteSet(db.ins \cup db.outs)
      BY <3>1, FS_Union
    <3>3. IsFiniteSet(AddrsOf(db.ins \cup db.outs))
      BY <3>2, FiniteIds
    <3> HIDE DEF others
    <3> QED
      BY <2>8, <3>3, FS_Subset
  <2>10. others \cap seen = {} /\ (~ask.neighbors => others = {})
    <3>1. ASSUME ~ask.neighbors, NEW x \in others PROVE FALSE
      <4>1. PICK e \in all : x \in {e.source, e.target}
        BY <3>1
      <4>2. PICK p \in wanted : e.source = p[1] /\ e.target = p[2]
        BY <2>6
      <4>3. x \notin seen /\ p[1] \in seen /\ p[2] \in seen
        BY <2>5, <3>1
      <4> QED
        BY <4>1, <4>2, <4>3
    <3>2. others \cap seen = {}
      OBVIOUS
    <3> HIDE DEF others
    <3> QED
      BY <3>1, <3>2
  <2> HIDE DEF others, room
  <2> DEFINE N == seen \cup more
  <2>11. more \subseteq others /\ IsFiniteSet(more) /\ Cardinality(more) <= room
    BY <2>1, <2>4, <2>9, SomeIsPart
  <2>12. Cardinality(N) = Cardinality(seen) + Cardinality(more)
    <3>1. seen \cap more = {}
      BY <2>10, <2>11
    <3>2. Cardinality(N) = Cardinality(seen) + Cardinality(more) - Cardinality(seen \cap more)
      BY <2>3, <2>11, FS_Union
    <3>3. Cardinality(more) \in Nat
      BY <2>11, FS_CardinalityType
    <3> QED
      BY <2>4, <3>1, <3>2, <3>3, FS_EmptySet
  <2>13. Cardinality(N) <= ask.max
    <3>1. Cardinality(more) \in Nat
      BY <2>11, FS_CardinalityType
    <3> QED
      BY <1>1, <2>4, <2>11, <2>12, <3>1 DEF room
  <2>14. Cardinality(seen) = ask.max => N = seen
    <3>1. ASSUME Cardinality(seen) = ask.max PROVE Cardinality(more) = 0
      <4>1. Cardinality(more) \in Nat
        BY <2>11, FS_CardinalityType
      <4> QED
        BY <1>1, <2>4, <2>11, <3>1, <4>1 DEF room
    <3> QED
      BY <2>11, <3>1, FS_EmptySet
  <2>15. DOMAIN nodes' = N /\ N \subseteq Addrs /\ edges' = {e \in all : e.source \in N /\ e.target \in N}
    BY <2>1, <2>3, <2>8, <2>11 DEF Kept
  <2>16. IsClosed'
    BY <2>6, <2>15 DEF IsClosed
  <2>17. ASSUME Undisturbed'
         PROVE  /\ seen \subseteq Candidates
                /\ Candidates \subseteq seen \/ Cardinality(seen) = ask.max
                /\ \A a \in seen : nodes[a].risk = Score(ctx.ds, ctx.run, a)
                /\ \A a \in seen, b \in Candidates \ seen :
                     AtLeast(Score(ctx.ds, ctx.run, a), Score(ctx.ds, ctx.run, b))
    <3>1. Undisturbed
      BY <2>2, <2>17 DEF Undisturbed, database
    <3> QED
      BY <1>1, <3>1 DEF IInv, SelectInv
  <2>18. ASSUME Undisturbed', NEW a \in Candidates \ N
         PROVE  Cardinality(N) = ask.max /\ \A b \in N : b \in Candidates /\ AtLeast(nodes'[b].risk, Score(ctx.ds, ctx.run, a))
    <3>1. Cardinality(seen) = ask.max /\ N = seen
      BY <2>14, <2>17, <2>18
    <3>2. \A b \in seen : nodes'[b] = nodes[b]
      BY <2>1
    <3>3. ASSUME NEW b \in N PROVE b \in Candidates /\ AtLeast(nodes'[b].risk, Score(ctx.ds, ctx.run, a))
      <4>1. b \in seen /\ a \in Candidates \ seen
        BY <2>18, <3>1, <3>3
      <4>2. nodes'[b].risk = Score(ctx.ds, ctx.run, b) /\ b \in Candidates
        BY <2>17, <2>18, <3>2, <4>1
      <4>3. AtLeast(Score(ctx.ds, ctx.run, b), Score(ctx.ds, ctx.run, a))
        BY <2>17, <2>18, <4>1
      <4> QED
        BY <4>2, <4>3
    <3> QED
      BY <3>1, <3>3
  <2>19. ASSUME Undisturbed', NEW a \in N, NEW b \in N, a # b, {a, b} \cap Candidates # {},
                NEW shown, shown = {e \in edges' : e.source = a /\ e.target = b}
         PROVE  /\ SumFunctionOnSet([e \in shown |-> e.total], shown) = Amount(PaidBy(ctx.ds, a, b))
                /\ Cardinality(shown) <= 1
    <3>1. {a, b} \cap seen # {}
      BY <2>14, <2>17, <2>19
    <3>2. <<a, b>> \in wanted
      <4>1. CASE ask.neighbors
        BY <2>5, <2>15, <3>1, <4>1
      <4>2. CASE ~ask.neighbors
        BY <2>5, <2>10, <2>11, <4>2
      <4> QED
        BY <4>1, <4>2
    <3>3. ASSUME NEW e \in shown PROVE e = EdgeOf(ctx.ds, a, b) /\ PaidBy(ctx.ds, a, b) # {}
      <4>1. e \in all /\ e.source = a /\ e.target = b
        BY <2>15, <2>19
      <4> QED
        BY <2>6, <4>1
    <3>4. PaidBy(ctx.ds, a, b) # {} => EdgeOf(ctx.ds, a, b) \in shown
      <4>1. PaidBy(ctx.ds, a, b) # {} => EdgeOf(ctx.ds, a, b) \in all
        <5>1. <<a, b>>[1] = a /\ <<a, b>>[2] = b
          OBVIOUS
        <5> QED
          BY <2>7, <2>19, <3>2, <5>1
      <4>2. EdgeOf(ctx.ds, a, b).source = a /\ EdgeOf(ctx.ds, a, b).target = b
        BY DEF EdgeOf, Edge
      <4> QED
        BY <2>15, <2>19, <4>1, <4>2
    <3>5. EdgeOf(ctx.ds, a, b).total = Amount(PaidBy(ctx.ds, a, b))
      BY DEF EdgeOf, Edge
    <3>6. Amount(PaidBy(ctx.ds, a, b)) \in Int /\ (PaidBy(ctx.ds, a, b) = {} => Amount(PaidBy(ctx.ds, a, b)) = 0)
      BY Amounts DEF IInv
    <3>7. CASE PaidBy(ctx.ds, a, b) = {}
      <4>1. shown = {}
        BY <3>3, <3>7
      <4> DEFINE e == EdgeOf(ctx.ds, a, b)
      <4>2. e.total \in Int
        BY <3>5, <3>6
      <4> HIDE DEF e
      <4>3. SumFunctionOnSet([x \in {} |-> x.total], {}) = 0 /\ Cardinality({}) = 0
        BY <4>2, TotalOfOne, FS_EmptySet
      <4> QED
        BY <3>6, <3>7, <4>1, <4>3
    <3>8. CASE PaidBy(ctx.ds, a, b) # {}
      <4>1. shown = {EdgeOf(ctx.ds, a, b)}
        BY <3>3, <3>4, <3>8
      <4> DEFINE e == EdgeOf(ctx.ds, a, b)
      <4>2. e.total = Amount(PaidBy(ctx.ds, a, b)) /\ e.total \in Int /\ shown = {e}
        BY <3>5, <3>6, <4>1
      <4> HIDE DEF e
      <4>3. SumFunctionOnSet([x \in {e} |-> x.total], {e}) = e.total /\ Cardinality({e}) = 1
        BY <4>2, TotalOfOne, FS_Singleton
      <4> QED
        BY <4>2, <4>3
    <3> QED
      BY <3>7, <3>8
  <2>20. /\ Candidates' = Candidates /\ ctx' = ctx /\ db' = db
         /\ \A a : Score(ctx.ds, ctx.run, a)' = Score(ctx.ds, ctx.run, a)
    BY <2>2, SameView DEF database
  <2> HIDE DEF N
  <2>21. ASSUME Undisturbed' PROVE
          \A a \in Candidates' \ DOMAIN nodes' :
              /\ Cardinality(DOMAIN nodes') = ask.max
              /\ \A b \in DOMAIN nodes' : b \in Candidates' /\ AtLeast(nodes[b].risk, Score(ctx.ds, ctx.run, a))'
    <3>1. \A a, b : AtLeast(nodes[b].risk, Score(ctx.ds, ctx.run, a))' = AtLeast(nodes'[b].risk, Score(ctx.ds, ctx.run, a))
      BY <2>20 DEF AtLeast
    <3> QED
      BY <2>15, <2>18, <2>20, <2>21, <3>1
  <2>22. \A a, b : PaidBy(ctx.ds, a, b)' = PaidBy(ctx.ds, a, b) /\ Amount(PaidBy(ctx.ds, a, b))' = Amount(PaidBy(ctx.ds, a, b))
    BY <2>20 DEF PaidBy, Of, Amount
  <2>23. ASSUME Undisturbed', NEW a \in DOMAIN nodes', NEW b \in DOMAIN nodes', a # b, {a, b} \cap Candidates' # {}
         PROVE  LET shown == {e \in edges' : e.source = a /\ e.target = b} IN
                /\ SumFunctionOnSet([e \in shown |-> e.total], shown) = Amount(PaidBy(ctx.ds, a, b))'
                /\ Cardinality(shown) <= 1
    BY <2>15, <2>19, <2>20, <2>22, <2>23
  <2> QED
    BY <1>1, <2>13, <2>15, <2>16, <2>21, <2>23 DEF ExportIsSound
<1> QED
  BY <1>2, <1>3
-----------------------------------------------------------------------------
(* The walk begins. *)

\* What was found as an address is one.
LEMMA FoundAsAddress ==
  ASSUME DbInv, ask.entity \in Ids, NEW row \in db.addrs \cup db.ins \cup db.outs, row.addr = ask.entity
  PROVE  ask.entity \in Addrs
  BY Rows, IdsAssumption DEF Ids

\* A walk that begins has visited its centre, whose row is there.
LEMMA BeginStep ==
  ASSUME IInv, stage = "resolve", ask.op # "export", NEW context, Begin(context), UNCHANGED database,
         ask.op = "subgraph" => ask.entity \in Addrs,
         ask.entity \in Txs => [ds |-> context.ds, id |-> ask.entity] \in db.tx
  PROVE  SelectInv' /\ SeenInv' /\ LevelsInv' /\ FoundInv' /\ ExportIsSound' /\ WalkIsSound'
<1>1. /\ stage' = "hop" /\ ctx' = context /\ ask' = ask /\ db' = db /\ hop' = 0 /\ outcome' # "answered"
      /\ seen' = {ask.entity} /\ front' = {ask.entity}
  BY DEF Begin, IInv, AskInv, database
<1>2. ask.entity \in Ids /\ ask.depth \in Nat
  BY DEF IInv, AskInv, IsRequest
<1>3. SelectInv' /\ ExportIsSound' /\ WalkIsSound'
  BY <1>1 DEF SelectInv, ExportIsSound, WalkIsSound
<1>4. SeenInv'
  <2>1. IsFiniteSet({ask.entity})
    BY FS_Singleton
  <2>2. 0 \in 0..ask.depth
    BY <1>2
  <2> QED
    BY <1>1, <1>2, <2>1, <2>2 DEF SeenInv
<1>5. LevelsInv'
  <2> DEFINE lev == [x \in {ask.entity} |-> 0]
  <2>1. lev \in [{ask.entity} -> 0..0]
    OBVIOUS
  <2>2. \E l \in [seen' -> 0..hop'] : Hangs(l)'
    <3>1. Hangs(lev)'
      BY <1>1 DEF Hangs
    <3> QED
      BY <1>1, <2>1, <3>1
  <2>3. seen' \subseteq Present'
    BY <1>1 DEF Present
  <2> QED
    BY <1>1, <2>2, <2>3 DEF LevelsInv
<1>6. FoundInv'
  <2>1. Ball(hop)' = {ask.entity}
    BY <1>1, AroundGrows DEF Ball
  <2> QED
    BY <1>1, <2>1 DEF FoundInv
<1> QED
  BY <1>3, <1>4, <1>5, <1>6

\* Until a walk has begun, nothing is claimed.
LEMMA NothingYet ==
  ASSUME stage' \in {"resolve", "end"}, outcome' # "answered"
  PROVE  SelectInv' /\ SeenInv' /\ LevelsInv' /\ FoundInv' /\ ExportIsSound' /\ WalkIsSound'
  BY DEF SelectInv, SeenInv, LevelsInv, FoundInv, ExportIsSound, WalkIsSound, Walking

LEMMA ResolveSubgraphStep ==
  ASSUME IInv, ResolveSubgraph
  PROVE  SelectInv' /\ SeenInv' /\ LevelsInv' /\ FoundInv' /\ ExportIsSound' /\ WalkIsSound'
<1> DEFINE runs == {r \in db.runs : r.run = ask.run}
           Having(table) == Homes({row \in table : row.addr = ask.entity})
           home == IF ask.run # Null THEN Homes(runs) \cap AddrHomes(ask.entity)
                   ELSE FirstOf(Having(db.addrs), FirstOf(Having(db.ins), Having(db.outs)))
<1>1. stage = "resolve" /\ ask.op = "subgraph" /\ outcome # "answered" /\ UNCHANGED database
  BY DEF ResolveSubgraph, IInv, AskInv
<1>2. \/ \E ds \in home : Begin([ds |-> ds, run |-> ask.run, kind |-> "address"])
      \/ stage' \in {"resolve", "end"} /\ outcome' # "answered"
  BY <1>1 DEF ResolveSubgraph, Raise
<1>3. ask.entity \in Ids
  BY <1>1 DEF IInv, AskInv, IsRequest
<1>4. ASSUME NEW ds \in home PROVE ask.entity \in Addrs
  <2>1. \E row \in db.addrs \cup db.ins \cup db.outs : row.addr = ask.entity
    <3>1. CASE ds \in AddrHomes(ask.entity)
      BY <3>1 DEF AddrHomes, Homes
    <3>2. CASE ds \in Having(db.addrs) \cup Having(db.ins) \cup Having(db.outs)
      BY <3>2 DEF Homes
    <3> QED
      BY <1>4, <3>1, <3>2 DEF FirstOf
  <2> QED
    BY <1>3, <2>1, FoundAsAddress DEF IInv
<1> HIDE DEF home
<1>5. CASE \E ds \in home : Begin([ds |-> ds, run |-> ask.run, kind |-> "address"])
  <2>1. PICK ds \in home : Begin([ds |-> ds, run |-> ask.run, kind |-> "address"])
    BY <1>5
  <2>2. ask.entity \in Addrs /\ ask.entity \notin Txs
    BY <1>4, IdsAssumption
  <2> QED
    BY <1>1, <2>1, <2>2, BeginStep
<1> QED
  BY <1>2, <1>5, NothingYet

LEMMA ResolveNeighborhoodStep ==
  ASSUME IInv, ResolveNeighborhood
  PROVE  SelectInv' /\ SeenInv' /\ LevelsInv' /\ FoundInv' /\ ExportIsSound' /\ WalkIsSound'
<1>1. stage = "resolve" /\ ask.op = "neighborhood" /\ outcome # "answered" /\ UNCHANGED database
  BY DEF ResolveNeighborhood, IInv, AskInv
<1>2. \/ stage' = "end" /\ outcome' # "answered"
      \/ \E ds, run, kind : /\ Begin([ds |-> ds, run |-> run, kind |-> kind])
                            /\ ds \in TxHomes(ask.entity) \/ ds \in AddrHomes(ask.entity)
  BY DEF ResolveNeighborhood, Raise
<1>3. ask.entity \in Ids
  BY <1>1 DEF IInv, AskInv, IsRequest
<1>4. CASE \E ds, run, kind : /\ Begin([ds |-> ds, run |-> run, kind |-> kind])
                              /\ ds \in TxHomes(ask.entity) \/ ds \in AddrHomes(ask.entity)
  <2>1. PICK ds, run, kind : /\ Begin([ds |-> ds, run |-> run, kind |-> kind])
                             /\ ds \in TxHomes(ask.entity) \/ ds \in AddrHomes(ask.entity)
    BY <1>4
  <2>2. ask.entity \in Txs => [ds |-> ds, id |-> ask.entity] \in db.tx
    <3>1. CASE ds \in TxHomes(ask.entity)
      <4>1. PICK row \in db.tx : row.id = ask.entity /\ row.ds = ds
        BY <3>1 DEF TxHomes, Homes
      <4>2. row = [ds |-> row.ds, id |-> row.id]
        BY Rows DEF IInv
      <4> QED
        BY <4>1, <4>2
    <3>2. CASE ds \in AddrHomes(ask.entity)
      <4>1. PICK row \in db.addrs \cup db.ins \cup db.outs : row.addr = ask.entity
        BY <3>2 DEF AddrHomes, Homes
      <4>2. ask.entity \in Addrs
        BY <1>3, <4>1, FoundAsAddress DEF IInv
      <4> QED
        BY <4>2, IdsAssumption
    <3> QED
      BY <2>1, <3>1, <3>2
  <2> DEFINE context == [ds |-> ds, run |-> run, kind |-> kind]
  <2>3. context.ds = ds /\ Begin(context)
    BY <2>1
  <2> HIDE DEF context
  <2> QED
    BY <1>1, <2>2, <2>3, BeginStep
<1> QED
  BY <1>2, <1>4, NothingYet
-----------------------------------------------------------------------------
(* The walk goes on. *)

\* A hop from the frontier to what is tied to it.
LEMMA HopStep ==
  ASSUME IInv, stage = "hop", hop # ask.depth,
         stage' = "hop", UNCHANGED <<database, ask, ctx, outcome>>,
         hop' = hop + 1, seen' = seen \cup front',
         IsFiniteSet(front'), front' \subseteq Ids, front' \cap seen = {},
         ask.op = "subgraph" => front' \subseteq Addrs,
         Undisturbed =>
           \A x \in front' : /\ \E y \in front : {x, y} \in Ties
                             /\ x \in Txs => [ds |-> ctx.ds, id |-> x] \in db.tx,
         Undisturbed /\ ~limited' =>
           ~limited /\ \A x \in front, y \in Ids : {x, y} \in Ties => y \in seen'
  PROVE  SelectInv' /\ SeenInv' /\ LevelsInv' /\ FoundInv' /\ ExportIsSound' /\ WalkIsSound'
<1>1. outcome' # "answered" /\ ask.op # "export" /\ ask.depth \in Nat
  BY DEF IInv, AskInv, Walking, IsRequest
<1>2. SelectInv' /\ ExportIsSound' /\ WalkIsSound'
  BY <1>1 DEF SelectInv, ExportIsSound, WalkIsSound
<1>3. /\ IsFiniteSet(seen) /\ seen \subseteq Ids /\ front \subseteq seen
      /\ ask.entity \in seen /\ hop \in 0..ask.depth
      /\ ask.op = "subgraph" => seen \subseteq Addrs
  BY DEF IInv, SeenInv, Walking
<1>4. hop' \in 0..ask.depth /\ hop \in Nat /\ hop' \in Nat
  BY <1>1, <1>3
<1>5. SeenInv'
  <2>1. IsFiniteSet(seen')
    BY <1>3, FS_Union
  <2> QED
    BY <1>3, <1>4, <2>1 DEF SeenInv
<1>6. Ties' = Ties /\ \A n : Ball(n)' = Ball(n)
  BY SameView DEF database
<1>7. LevelsInv'
  <2> SUFFICES ASSUME Undisturbed' PROVE LevelsInv'
    BY DEF LevelsInv
  <2>1. Undisturbed
    BY DEF Undisturbed, database
  <2>2. seen \subseteq Present /\ \E l \in [seen -> 0..hop] : Hangs(l)
    BY <2>1 DEF IInv, LevelsInv, Walking
  <2>3. PICK l \in [seen -> 0..hop] : Hangs(l)
    BY <2>2
  <2>4. seen' \subseteq Present'
    BY <2>1, <2>2 DEF Present, database
  <2>l. PICK lev : lev = [x \in seen' |-> IF x \in seen THEN l[x] ELSE hop + 1]
    OBVIOUS
  <2>5. lev \in [seen' -> 0..hop']
    BY <1>4, <2>l
  <2>6. ASSUME NEW x \in seen', x # ask.entity
        PROVE  \E y \in seen' : lev[y] < lev[x] /\ {x, y} \in Ties
    <3>1. CASE x \in seen
      <4>1. PICK y \in seen : l[y] < l[x] /\ {x, y} \in Ties
        BY <2>3, <2>6, <3>1 DEF Hangs
      <4>2. lev[y] = l[y] /\ lev[x] = l[x]
        BY <2>l, <3>1
      <4> QED
        BY <4>1, <4>2
    <3>2. CASE x \notin seen
      <4>1. PICK y \in front : {x, y} \in Ties
        BY <2>1, <2>6, <3>2
      <4>2. y \in seen /\ lev[y] = l[y] /\ lev[x] = hop + 1 /\ l[y] <= hop /\ l[y] \in Int
        BY <1>3, <1>4, <2>l, <3>2
      <4>3. lev[y] < lev[x]
        BY <1>4, <4>2
      <4> QED
        BY <4>1, <4>2, <4>3
    <3> QED
      BY <3>1, <3>2
  <2>7. Hangs(lev)'
    <3>1. \A x \in seen' : x = ask'.entity \/ \E y \in seen' : lev[y] < lev[x] /\ {x, y} \in Ties'
      BY <1>6, <2>6
    <3> QED
      BY <3>1 DEF Hangs
  <2>8. \E m \in [seen' -> 0..hop'] : Hangs(m)'
    BY <2>5, <2>7
  <2> QED
    BY <2>4, <2>8 DEF LevelsInv
<1>8. FoundInv'
  <2> SUFFICES ASSUME Undisturbed', ~limited' PROVE FoundInv'
    BY DEF FoundInv
  <2>1. Undisturbed
    BY DEF Undisturbed, database
  <2>2. ~limited /\ \A x \in front, y \in Ids : {x, y} \in Ties => y \in seen'
    BY <2>1
  <2>3. Ball(hop) \subseteq seen /\ \A x \in seen \ front, y \in Ids : {x, y} \in Ties => y \in seen
    BY <2>1, <2>2 DEF IInv, FoundInv, Walking
  <2>4. \A x \in seen, y \in Ids : {x, y} \in Ties => y \in seen'
    BY <2>2, <2>3
  <2>5. Ball(hop + 1) = Ball(hop) \cup Beside(Ties, Ball(hop))
    BY <1>4, AroundGrows DEF Ball
  <2>6. Ball(hop + 1) \subseteq seen'
    BY <2>3, <2>4, <2>5 DEF Beside
  <2>7. Ball(hop)' \subseteq seen'
    <3>1. Ball(hop)' = Ball(hop + 1)
      BY <1>6 DEF Ball
    <3> QED
      BY <2>6, <3>1
  <2>8. \A x \in seen' \ front', y \in Ids : {x, y} \in Ties' => y \in seen'
    BY <1>6, <2>4
  <2> QED
    BY <2>7, <2>8 DEF FoundInv
<1> QED
  BY <1>2, <1>5, <1>7, <1>8

\* A walk that stops has followed everything, or something was cut.
LEMMA StopStep ==
  ASSUME IInv, stage = "hop", Stop, UNCHANGED database, ~limited' => ~limited /\ Walked
  PROVE  SelectInv' /\ SeenInv' /\ LevelsInv' /\ FoundInv' /\ ExportIsSound' /\ WalkIsSound'
<1>1. /\ stage' = "nodes" /\ UNCHANGED <<db, deleting, ask, ctx, seen, front, hop, nodes, edges, outcome>>
      /\ outcome' # "answered" /\ ask.depth \in Nat
  BY DEF Stop, database, IInv, AskInv, Walking, IsRequest
<1>2. SelectInv' /\ ExportIsSound' /\ WalkIsSound'
  BY <1>1 DEF SelectInv, ExportIsSound, WalkIsSound
<1>3. SeenInv'
  BY <1>1 DEF IInv, SeenInv, Walking
<1>4. Ties' = Ties /\ \A n : Ball(n)' = Ball(n)
  BY <1>1, SameView
<1>5. LevelsInv'
  <2> SUFFICES ASSUME Undisturbed' PROVE LevelsInv'
    BY DEF LevelsInv
  <2>1. seen \subseteq Present /\ \E l \in [seen -> 0..hop] : Hangs(l)
    BY <1>1 DEF IInv, LevelsInv, Walking, Undisturbed
  <2>2. PICK l \in [seen -> 0..hop] : Hangs(l)
    BY <2>1
  <2>3. Hangs(l)'
    BY <1>1, <1>4, <2>2 DEF Hangs
  <2>4. seen' \subseteq Present'
    BY <1>1, <2>1 DEF Present
  <2>5. \E m \in [seen' -> 0..hop'] : Hangs(m)'
    BY <1>1, <2>3
  <2> QED
    BY <1>1, <2>4, <2>5 DEF LevelsInv
<1>6. FoundInv'
  <2> SUFFICES ASSUME Undisturbed', ~limited' PROVE FoundInv'
    BY DEF FoundInv
  <2>1. /\ Ball(hop) \subseteq seen
        /\ \A x \in seen \ front, y \in Ids : {x, y} \in Ties => y \in seen
    BY <1>1 DEF IInv, FoundInv, Walking, Undisturbed
  <2>2. Ball(ask.depth) \subseteq seen
    <3>1. CASE hop = ask.depth
      BY <2>1, <3>1
    <3>2. CASE front = {}
      <4>1. \A x \in seen, y \in Ids : {x, y} \in Ties => y \in seen
        BY <2>1, <3>2
      <4>2. ask.entity \in seen
        BY DEF IInv, SeenInv, Walking
      <4> QED
        BY <1>1, <4>1, <4>2, ClosedHoldsBalls DEF Ball
    <3> QED
      BY <3>1, <3>2 DEF Walked
  <2>3. Ball(hop)' = Ball(hop) /\ Ball(ask.depth)' = Ball(ask.depth)
    BY <1>1, <1>4 DEF Ball
  <2> QED
    BY <1>1, <1>4, <2>1, <2>2, <2>3 DEF FoundInv
<1> QED
  BY <1>2, <1>3, <1>5, <1>6

\* The addresses one hop away are those tied to the frontier.
LEMMA PaymentsAreTies ==
  ASSUME DbInv, ask.op = "subgraph", NEW S \in SUBSET Addrs
  PROVE  /\ IsFiniteSet(Payees(ctx.ds, S)) /\ IsFiniteSet(Payers(ctx.ds, S))
         /\ Payees(ctx.ds, S) \cup Payers(ctx.ds, S) \subseteq Addrs
         /\ \A x \in Payees(ctx.ds, S) \cup Payers(ctx.ds, S) : \E y \in S : {x, y} \in Ties
         /\ \A y \in S, x \in Ids : {y, x} \in Ties => x \in Payees(ctx.ds, S) \cup Payers(ctx.ds, S)
<1> DEFINE outs == {o \in Of(db.outs, ctx.ds) : o.id \in IdsOf({i \in Of(db.ins, ctx.ds) : i.addr \in S})}
           ins == {i \in Of(db.ins, ctx.ds) : i.id \in IdsOf({o \in Of(db.outs, ctx.ds) : o.addr \in S})}
<1>1. Payees(ctx.ds, S) = AddrsOf(outs) /\ Payers(ctx.ds, S) = AddrsOf(ins)
  BY DEF Payees, Payers
<1>2. /\ outs \subseteq db.outs /\ ins \subseteq db.ins
      /\ IsFiniteSet(db.outs) /\ IsFiniteSet(db.ins)
  BY Rows DEF Of
<1>3. IsFiniteSet(outs) /\ IsFiniteSet(ins)
  <2> HIDE DEF outs, ins
  <2> QED
    BY <1>2, FS_Subset
<1>4. IsFiniteSet(AddrsOf(outs)) /\ IsFiniteSet(AddrsOf(ins))
  <2> HIDE DEF outs, ins
  <2> QED
    BY <1>3, FiniteIds
<1>5. AddrsOf(outs) \cup AddrsOf(ins) \subseteq Addrs
  <2>1. \A row \in db.ins \cup db.outs : row.addr \in Addrs \cup {Null}
    BY Rows
  <2> HIDE DEF outs, ins
  <2> QED
    BY <1>2, <2>1 DEF AddrsOf
<1>6. \A i \in Of(db.ins, ctx.ds), o \in Of(db.outs, ctx.ds) :
        i.id = o.id => {i.addr, o.addr} \in Ties
  <2> SUFFICES ASSUME NEW i \in Of(db.ins, ctx.ds), NEW o \in Of(db.outs, ctx.ds), i.id = o.id
               PROVE  {i.addr, o.addr} \in Ties
    OBVIOUS
  <2>1. <<i, o>> \in {q \in Of(db.ins, ctx.ds) \X Of(db.outs, ctx.ds) : q[1].id = q[2].id}
    OBVIOUS
  <2> QED
    BY <2>1 DEF Ties
<1>7. \A tie \in Ties : \E i \in Of(db.ins, ctx.ds), o \in Of(db.outs, ctx.ds) :
        i.id = o.id /\ tie = {i.addr, o.addr}
  BY DEF Ties
<1>8. ASSUME NEW x \in AddrsOf(outs) PROVE \E y \in S : {x, y} \in Ties
  <2>1. PICK o \in Of(db.outs, ctx.ds) : o.addr = x /\ \E i \in Of(db.ins, ctx.ds) : i.addr \in S /\ i.id = o.id
    BY DEF AddrsOf, IdsOf
  <2>2. PICK i \in Of(db.ins, ctx.ds) : i.addr \in S /\ i.id = o.id
    BY <2>1
  <2>3. {i.addr, o.addr} \in Ties /\ {i.addr, o.addr} = {x, i.addr}
    BY <1>6, <2>1, <2>2
  <2> QED
    BY <2>2, <2>3
<1>9. ASSUME NEW x \in AddrsOf(ins) PROVE \E y \in S : {x, y} \in Ties
  <2>1. PICK i \in Of(db.ins, ctx.ds) : i.addr = x /\ \E o \in Of(db.outs, ctx.ds) : o.addr \in S /\ i.id = o.id
    BY DEF AddrsOf, IdsOf
  <2>2. PICK o \in Of(db.outs, ctx.ds) : o.addr \in S /\ i.id = o.id
    BY <2>1
  <2>3. {i.addr, o.addr} \in Ties /\ {i.addr, o.addr} = {x, o.addr}
    BY <1>6, <2>1, <2>2
  <2> QED
    BY <2>2, <2>3
<1>10. ASSUME NEW y \in S, NEW x \in Ids, {y, x} \in Ties PROVE x \in AddrsOf(outs) \cup AddrsOf(ins)
  <2>1. PICK i \in Of(db.ins, ctx.ds), o \in Of(db.outs, ctx.ds) : i.id = o.id /\ {y, x} = {i.addr, o.addr}
    BY <1>7, <1>10
  <2>2. x # Null
    BY IdsAssumption
  <2>3. (i.addr = y /\ o.addr = x) \/ (i.addr = x /\ o.addr = y)
    BY <2>1
  <2>4. CASE i.addr = y /\ o.addr = x
    <3>1. o \in outs
      BY <2>1, <2>4 DEF IdsOf
    <3> QED
      BY <2>2, <2>4, <3>1 DEF AddrsOf
  <2>5. CASE i.addr = x /\ o.addr = y
    <3>1. i \in ins
      BY <2>1, <2>5 DEF IdsOf
    <3> QED
      BY <2>2, <2>5, <3>1 DEF AddrsOf
  <2> QED
    BY <2>3, <2>4, <2>5
<1> HIDE DEF outs, ins
<1> QED
  BY <1>1, <1>4, <1>5, <1>8, <1>9, <1>10

LEMMA HopOverAddressesStep ==
  ASSUME IInv, HopOverAddresses
  PROVE  SelectInv' /\ SeenInv' /\ LevelsInv' /\ FoundInv' /\ ExportIsSound' /\ WalkIsSound'
<1>1. stage = "hop" /\ ask.op = "subgraph" /\ UNCHANGED database
  BY DEF HopOverAddresses
<1>2. CASE Walked \/ Full
  <2>1. Stop /\ limited' = (limited \/ ~Walked)
    BY <1>2 DEF HopOverAddresses
  <2> QED
    BY <1>1, <2>1, StopStep
<1>3. CASE ~(Walked \/ Full)
  <2>f. PICK fwd : fwd = Payees(ctx.ds, front)
    OBVIOUS
  <2>b. PICK bwd : bwd = Payers(ctx.ds, front)
    OBVIOUS
  <2>r. PICK room : room = Limits.visited - Cardinality(seen)
    OBVIOUS
  <2>1. \E to \in Some(fwd, Limits.hop), by \in Some(bwd, Limits.hop) :
        \E first \in Some(to \ seen, room) :
        \E last \in Some((by \ seen) \ first, room - Cardinality(first)) :
          /\ front' = first \cup last
          /\ limited' = (limited \/ Cut(fwd, Limits.hop) \/ Cut(bwd, Limits.hop)
                           \/ Cut((to \cup by) \ seen, room))
    BY <1>3, <2>f, <2>b, <2>r DEF HopOverAddresses
  <2>2. /\ stage' = "hop" /\ UNCHANGED <<ask, ctx, outcome>>
        /\ hop' = hop + 1 /\ seen' = seen \cup front'
    BY <1>1, <1>3 DEF HopOverAddresses
  <2>3. PICK to \in Some(fwd, Limits.hop), by \in Some(bwd, Limits.hop) :
          \E first \in Some(to \ seen, room) :
          \E last \in Some((by \ seen) \ first, room - Cardinality(first)) :
            /\ front' = first \cup last
            /\ limited' = (limited \/ Cut(fwd, Limits.hop) \/ Cut(bwd, Limits.hop)
                             \/ Cut((to \cup by) \ seen, room))
    BY <2>1
  <2>p. PICK first \in Some(to \ seen, room) :
          \E last \in Some((by \ seen) \ first, room - Cardinality(first)) :
            /\ front' = first \cup last
            /\ limited' = (limited \/ Cut(fwd, Limits.hop) \/ Cut(bwd, Limits.hop)
                             \/ Cut((to \cup by) \ seen, room))
    BY <2>3
  <2>4. PICK last \in Some((by \ seen) \ first, room - Cardinality(first)) :
            /\ front' = first \cup last
            /\ limited' = (limited \/ Cut(fwd, Limits.hop) \/ Cut(bwd, Limits.hop)
                             \/ Cut((to \cup by) \ seen, room))
    BY <2>p
  <2>5. IsFiniteSet(seen) /\ seen \subseteq Addrs /\ front \subseteq seen /\ ask.depth \in Nat
    BY <1>1 DEF IInv, SeenInv, Walking, AskInv, IsRequest
  <2>6. /\ IsFiniteSet(fwd) /\ IsFiniteSet(bwd) /\ fwd \cup bwd \subseteq Addrs
        /\ \A x \in fwd \cup bwd : \E y \in front : {x, y} \in Ties
        /\ \A y \in front, x \in Ids : {y, x} \in Ties => x \in fwd \cup bwd
    BY <1>1, <2>f, <2>b, <2>5, PaymentsAreTies DEF IInv
  <2>7. Limits.hop \in Nat /\ Limits.visited \in Nat
    BY LimitsAssumption
  <2>8. room \in Nat
    <3>1. Cardinality(seen) \in Nat
      BY <2>5, FS_CardinalityType
    <3> QED
      BY <1>3, <2>7, <2>r, <3>1 DEF Full
  <2>9. /\ to \subseteq fwd /\ IsFiniteSet(to) /\ (~Cut(fwd, Limits.hop) => to = fwd)
        /\ by \subseteq bwd /\ IsFiniteSet(by) /\ (~Cut(bwd, Limits.hop) => by = bwd)
    BY <2>3, <2>6, <2>7, SomeIsPart
  <2>10. IsFiniteSet(to \ seen) /\ IsFiniteSet((by \ seen) \ first) /\ IsFiniteSet((to \cup by) \ seen)
    <3>1. IsFiniteSet(to \cup by)
      BY <2>9, FS_Union
    <3>2. to \ seen \subseteq to /\ (by \ seen) \ first \subseteq by /\ (to \cup by) \ seen \subseteq to \cup by
      OBVIOUS
    <3> QED
      BY <2>9, <3>1, <3>2, FS_Subset
  <2>11. /\ first \subseteq to \ seen /\ IsFiniteSet(first) /\ Cardinality(first) <= room
         /\ ~Cut(to \ seen, room) => first = to \ seen
    BY <2>8, <2>10, SomeIsPart
  <2>12. Cardinality(first) \in Nat
    BY <2>11, FS_CardinalityType
  <2>13. room - Cardinality(first) \in Nat
    BY <2>8, <2>11, <2>12
  <2>14. /\ last \subseteq (by \ seen) \ first /\ IsFiniteSet(last)
         /\ ~Cut((by \ seen) \ first, room - Cardinality(first)) => last = (by \ seen) \ first
    BY <2>10, <2>13, SomeIsPart
  <2>15. IsFiniteSet(front')
    BY <2>4, <2>11, <2>14, FS_Union
  <2>16. front' \subseteq fwd \cup bwd /\ front' \cap seen = {} /\ front' \subseteq Addrs
    BY <2>4, <2>6, <2>9, <2>11, <2>14
  <2>17. front' \cap Txs = {} /\ front' \subseteq Ids
    BY <2>16, IdsAssumption DEF Ids
  <2>18. ASSUME ~limited' PROVE ~limited /\ front' = (fwd \cup bwd) \ seen
    <3>1. ~limited /\ ~Cut(fwd, Limits.hop) /\ ~Cut(bwd, Limits.hop) /\ ~Cut((to \cup by) \ seen, room)
      BY <2>4, <2>18
    <3>2. to = fwd /\ by = bwd
      BY <2>9, <3>1
    <3> DEFINE all == (to \cup by) \ seen
               rest == (by \ seen) \ (to \ seen)
    <3>3. Cardinality(all) \in Nat /\ Cardinality(all) <= room
      <4>1. Cardinality(all) \in Nat
        BY <2>10, FS_CardinalityType
      <4> QED
        BY <2>8, <3>1, <4>1 DEF Cut
    <3>4. Cardinality(to \ seen) \in Nat /\ Cardinality(to \ seen) <= Cardinality(all)
      <4>1. to \ seen \subseteq all
        OBVIOUS
      <4> QED
        BY <2>10, <4>1, FS_Subset, FS_CardinalityType
    <3>5. first = to \ seen
      <4>1. ~Cut(to \ seen, room)
        BY <2>8, <3>3, <3>4 DEF Cut
      <4> QED
        BY <2>11, <4>1
    <3>6. IsFiniteSet(rest) /\ Cardinality(rest) \in Nat
      BY <2>10, <3>5, FS_CardinalityType
    <3>7. Cardinality(all) = Cardinality(to \ seen) + Cardinality(rest)
      <4>1. all = (to \ seen) \cup rest /\ (to \ seen) \cap rest = {}
        OBVIOUS
      <4> DEFINE one == to \ seen
      <4>2. IsFiniteSet(one)
        BY <2>10
      <4> HIDE DEF one, rest, all
      <4>3. Cardinality(one \cup rest) = Cardinality(one) + Cardinality(rest) - Cardinality(one \cap rest)
        BY <3>6, <4>2, FS_Union
      <4>4. Cardinality(one \cap rest) = 0 /\ Cardinality(one) \in Nat
        BY <4>1, <4>2, FS_EmptySet, FS_CardinalityType DEF one
      <4>5. Cardinality(one \cup rest) = Cardinality(one) + Cardinality(rest)
        BY <3>6, <4>3, <4>4
      <4> QED
        BY <4>1, <4>5 DEF one
    <3>8. last = rest
      <4>1. ~(Cardinality(rest) > room - Cardinality(to \ seen))
        <5> HIDE DEF all, rest
        <5> QED
          BY <2>8, <3>3, <3>4, <3>6, <3>7
      <4>2. ~Cut((by \ seen) \ first, room - Cardinality(first))
        BY <3>5, <4>1 DEF Cut
      <4> QED
        BY <2>14, <3>5, <4>2
    <3> QED
      BY <2>4, <3>1, <3>2, <3>5, <3>8
  <2>19. ASSUME ~limited', NEW x \in front, NEW y \in Ids, {x, y} \in Ties PROVE y \in seen'
    <3>1. y \in fwd \cup bwd
      BY <2>6, <2>19
    <3> QED
      BY <2>2, <2>18, <2>19, <3>1
  <2>20. \A x \in front' : /\ \E y \in front : {x, y} \in Ties
                           /\ x \in Txs => [ds |-> ctx.ds, id |-> x] \in db.tx
    BY <2>6, <2>16, <2>17
  <2>21. hop # ask.depth
    BY <1>3 DEF Walked
  <2> QED
    BY <1>1, <2>2, <2>15, <2>16, <2>17, <2>18, <2>19, <2>20, <2>21, HopStep
<1> QED
  BY <1>2, <1>3

\* What is linked to a set is what is tied to it, and its transactions have
\* their rows.
LEMMA LinksAreTies ==
  ASSUME DbInv, ask.op # "subgraph", NEW S \in SUBSET Ids
  PROVE  /\ IsFiniteSet(Linked(ctx.ds, S)) /\ Linked(ctx.ds, S) \subseteq Ids
         /\ \A x \in Linked(ctx.ds, S) : \E y \in S : {x, y} \in Ties
         /\ \A y \in S, x \in Ids : {y, x} \in Ties => x \in Linked(ctx.ds, S)
         /\ Undisturbed => \A x \in Linked(ctx.ds, S) : x \in Txs => [ds |-> ctx.ds, id |-> x] \in db.tx
<1> DEFINE rows == Of(db.ins \cup db.outs, ctx.ds)
           byId == {row \in rows : row.id \in S}
           byAddr == {row \in rows : row.addr \in S}
<1>1. Linked(ctx.ds, S) = AddrsOf(byId) \cup IdsOf(byAddr)
  BY DEF Linked
<1>2. Ties = {{row.id, row.addr} : row \in rows}
  BY DEF Ties
<1>3. \A row \in rows : /\ row \in db.ins \cup db.outs /\ row.ds = ctx.ds
                        /\ row.id \in Txs /\ row.addr \in Addrs \cup {Null}
  BY Rows DEF Of
<1>4. IsFiniteSet(byId) /\ IsFiniteSet(byAddr)
  <2>1. IsFiniteSet(db.ins) /\ IsFiniteSet(db.outs)
    BY Rows
  <2>2. IsFiniteSet(db.ins \cup db.outs)
    BY <2>1, FS_Union
  <2>3. byId \subseteq db.ins \cup db.outs /\ byAddr \subseteq db.ins \cup db.outs
    BY <1>3
  <2> HIDE DEF byId, byAddr
  <2> QED
    BY <2>2, <2>3, FS_Subset
<1> HIDE DEF rows
<1>5. AddrsOf(byId) \subseteq Addrs /\ IdsOf(byAddr) \subseteq Txs
  BY <1>3 DEF AddrsOf, IdsOf
<1>6. IsFiniteSet(Linked(ctx.ds, S)) /\ Linked(ctx.ds, S) \subseteq Ids
  <2>1. Linked(ctx.ds, S) \subseteq Ids
    BY <1>1, <1>5 DEF Ids
  <2> HIDE DEF byId, byAddr
  <2>2. IsFiniteSet(AddrsOf(byId)) /\ IsFiniteSet(IdsOf(byAddr))
    BY <1>4, FiniteIds
  <2>3. IsFiniteSet(AddrsOf(byId) \cup IdsOf(byAddr))
    BY <2>2, FS_Union
  <2> QED
    BY <1>1, <2>1, <2>3
<1>7. ASSUME NEW x \in Linked(ctx.ds, S) PROVE \E y \in S : {x, y} \in Ties
  <2>1. CASE x \in AddrsOf(byId)
    <3>1. PICK row \in rows : row.id \in S /\ row.addr = x
      BY <2>1 DEF AddrsOf
    <3>2. {row.id, row.addr} \in Ties /\ {row.id, row.addr} = {x, row.id}
      BY <1>2, <3>1
    <3> QED
      BY <3>1, <3>2
  <2>2. CASE x \in IdsOf(byAddr)
    <3>1. PICK row \in rows : row.addr \in S /\ row.id = x
      BY <2>2 DEF IdsOf
    <3>2. {row.id, row.addr} \in Ties /\ {row.id, row.addr} = {x, row.addr}
      BY <1>2, <3>1
    <3> QED
      BY <3>1, <3>2
  <2> QED
    BY <1>1, <1>7, <2>1, <2>2
<1>8. ASSUME NEW y \in S, NEW x \in Ids, {y, x} \in Ties PROVE x \in Linked(ctx.ds, S)
  <2>1. PICK row \in rows : {y, x} = {row.id, row.addr}
    BY <1>2, <1>8
  <2>2. x # Null
    BY IdsAssumption
  <2>3. CASE row.id = y /\ row.addr = x
    <3>1. x \in AddrsOf(byId)
      BY <2>2, <2>3 DEF AddrsOf
    <3> QED
      BY <1>1, <3>1
  <2>4. CASE row.id = x /\ row.addr = y
    <3>1. x \in IdsOf(byAddr)
      BY <2>4 DEF IdsOf
    <3> QED
      BY <1>1, <3>1
  <2> QED
    BY <2>1, <2>3, <2>4
<1>9. ASSUME Undisturbed, NEW x \in Linked(ctx.ds, S), x \in Txs PROVE [ds |-> ctx.ds, id |-> x] \in db.tx
  <2>1. x \in IdsOf(byAddr)
    BY <1>1, <1>5, <1>9, IdsAssumption
  <2>2. PICK row \in rows : row.id = x
    BY <2>1 DEF IdsOf
  <2>3. [ds |-> row.ds, id |-> row.id] \in db.tx
    BY <1>3, <1>9, Rows
  <2> QED
    BY <1>3, <2>2, <2>3
<1> QED
  BY <1>6, <1>7, <1>8, <1>9

LEMMA HopOverBothStep ==
  ASSUME IInv, HopOverBoth
  PROVE  SelectInv' /\ SeenInv' /\ LevelsInv' /\ FoundInv' /\ ExportIsSound' /\ WalkIsSound'
<1>1. stage = "hop" /\ ask.op = "neighborhood" /\ UNCHANGED database
  BY DEF HopOverBoth
<1>2. CASE Walked
  <2>1. Stop /\ UNCHANGED limited
    BY <1>2 DEF HopOverBoth
  <2> QED
    BY <1>1, <1>2, <2>1, StopStep
<1>3. CASE ~Walked
  <2>1. PICK from \in Some(front, FromLimit) :
          LET found == Linked(ctx.ds, from) IN
          IF hop = 0 /\ found = {} THEN Raise("GraphNotAvailable")
          ELSE /\ \E some \in Some(found, FoundLimit(found)) : front' = some \ seen
               /\ limited' = (limited \/ Cut(front, FromLimit) \/ Cut(found, FoundLimit(found)))
               /\ seen' = seen \cup front'
               /\ hop' = hop + 1
               /\ UNCHANGED <<ask, stage, ctx, nodes, edges, outcome>>
    BY <1>3 DEF HopOverBoth
  <2>2. PICK found : found = Linked(ctx.ds, from)
    OBVIOUS
  <2>3. CASE hop = 0 /\ found = {}
    BY <2>1, <2>2, <2>3, NothingYet DEF Raise
  <2>4. CASE ~(hop = 0 /\ found = {})
    <3>1. /\ \E some \in Some(found, FoundLimit(found)) : front' = some \ seen
          /\ limited' = (limited \/ Cut(front, FromLimit) \/ Cut(found, FoundLimit(found)))
          /\ seen' = seen \cup front'
          /\ hop' = hop + 1
          /\ UNCHANGED <<ask, stage, ctx, nodes, edges, outcome>>
      BY <2>1, <2>2, <2>4
    <3>2. PICK some \in Some(found, FoundLimit(found)) : front' = some \ seen
      BY <3>1
    <3>3. IsFiniteSet(seen) /\ seen \subseteq Ids /\ front \subseteq seen /\ IsFiniteSet(front)
      BY <1>1, FS_Subset DEF IInv, SeenInv, Walking
    <3>4. FromLimit \in Nat
      BY LimitsAssumption DEF FromLimit
    <3>5. from \subseteq front /\ (~Cut(front, FromLimit) => from = front)
      BY <3>3, <3>4, SomeIsPart
    <3>6. from \in SUBSET Ids
      BY <3>3, <3>5
    <3>7. /\ IsFiniteSet(found) /\ found \subseteq Ids
          /\ \A x \in found : \E y \in from : {x, y} \in Ties
          /\ \A y \in from, x \in Ids : {y, x} \in Ties => x \in found
          /\ Undisturbed => \A x \in found : x \in Txs => [ds |-> ctx.ds, id |-> x] \in db.tx
      BY <1>1, <2>2, <3>6, LinksAreTies DEF IInv
    <3>8. FoundLimit(found) \in Nat
      <4>1. Cardinality(found) \in Nat
        BY <3>7, FS_CardinalityType
      <4> QED
        BY <4>1, LimitsAssumption DEF FoundLimit
    <3>9. /\ some \subseteq found /\ IsFiniteSet(some)
          /\ ~Cut(found, FoundLimit(found)) => some = found
      BY <3>7, <3>8, SomeIsPart
    <3>10. IsFiniteSet(front') /\ front' \subseteq Ids /\ front' \cap seen = {}
      <4>1. front' \subseteq some
        BY <3>2
      <4> QED
        BY <3>2, <3>7, <3>9, <4>1, FS_Subset
    <3>11. Undisturbed =>
             \A x \in front' : /\ \E y \in front : {x, y} \in Ties
                               /\ x \in Txs => [ds |-> ctx.ds, id |-> x] \in db.tx
      BY <3>2, <3>5, <3>7, <3>9
    <3>12. ASSUME ~limited' PROVE ~limited /\ \A x \in front, y \in Ids : {x, y} \in Ties => y \in seen'
      BY <3>1, <3>2, <3>5, <3>7, <3>9, <3>12
    <3>13. hop # ask.depth /\ stage' = "hop" /\ UNCHANGED <<ask, ctx, outcome>>
      BY <1>1, <1>3, <3>1 DEF Walked
    <3> QED
      BY <1>1, <3>1, <3>10, <3>11, <3>12, <3>13, HopStep
  <2> QED
    BY <2>3, <2>4
<1> QED
  BY <1>2, <1>3

-----------------------------------------------------------------------------
(* Nodes and edges are drawn. *)

LEMMA DescribeStep ==
  ASSUME IInv, DescribeNodes
  PROVE  SelectInv' /\ SeenInv' /\ LevelsInv' /\ FoundInv' /\ ExportIsSound' /\ WalkIsSound'
<1>1. /\ stage = "nodes" /\ stage' = "edges"
      /\ UNCHANGED <<db, deleting, ask, ctx, seen, front, hop, limited, edges, outcome>>
  BY DEF DescribeNodes, database
<1>2. DOMAIN nodes' = Present
  BY DEF DescribeNodes
<1>3. outcome' # "answered" /\ Present' = Present /\ Present \subseteq seen
  BY <1>1 DEF IInv, AskInv, Present
<1>4. SelectInv' /\ ExportIsSound' /\ WalkIsSound'
  BY <1>1, <1>3 DEF SelectInv, ExportIsSound, WalkIsSound
<1>5. SeenInv'
  BY <1>1, <1>2, <1>3 DEF IInv, SeenInv, Walking
<1>6. Ties' = Ties /\ \A n : Ball(n)' = Ball(n)
  BY <1>1, SameView
<1>7. LevelsInv'
  <2> SUFFICES ASSUME Undisturbed' PROVE LevelsInv'
    BY DEF LevelsInv
  <2>1. seen \subseteq Present /\ \E l \in [seen -> 0..hop] : Hangs(l)
    BY <1>1 DEF IInv, LevelsInv, Walking, Undisturbed
  <2>2. PICK l \in [seen -> 0..hop] : Hangs(l)
    BY <2>1
  <2>3. Hangs(l)'
    BY <1>1, <1>6, <2>2 DEF Hangs
  <2>4. seen' \subseteq Present' /\ DOMAIN nodes' = seen'
    BY <1>1, <1>2, <1>3, <2>1
  <2>5. \E m \in [seen' -> 0..hop'] : Hangs(m)'
    BY <1>1, <2>3
  <2> QED
    BY <1>1, <2>4, <2>5 DEF LevelsInv
<1>8. FoundInv'
  <2> SUFFICES ASSUME Undisturbed', ~limited' PROVE FoundInv'
    BY DEF FoundInv
  <2>1. /\ Ball(hop) \subseteq seen /\ Ball(ask.depth) \subseteq seen
        /\ \A x \in seen \ front, y \in Ids : {x, y} \in Ties => y \in seen
    BY <1>1 DEF IInv, FoundInv, Walking, Undisturbed
  <2>2. Ball(hop)' = Ball(hop) /\ Ball(ask.depth)' = Ball(ask.depth)
    BY <1>1, <1>6 DEF Ball
  <2> QED
    BY <1>1, <1>6, <2>1, <2>2 DEF FoundInv
<1> QED
  BY <1>4, <1>5, <1>7, <1>8

\* By ties that hold at least those among the visited, every visited node is
\* within the hops asked for.
LEMMA VisitedIsAround ==
  ASSUME seen \in SUBSET Ids, ask.depth \in Nat, hop \in 0..ask.depth,
         \E lev \in [seen -> 0..hop] : Hangs(lev),
         NEW ties, \A x, y \in seen : x # y /\ {x, y} \in Ties => {x, y} \in ties
  PROVE  seen \subseteq Around(ask.entity, ties, ask.depth)
<1>1. PICK lev \in [seen -> 0..hop] : Hangs(lev)
  OBVIOUS
<1>2. lev \in [seen -> 0..ask.depth]
  OBVIOUS
<1>3. ASSUME NEW x \in seen, x # ask.entity
      PROVE  \E y \in seen : lev[y] < lev[x] /\ {x, y} \in ties
  <2>1. PICK y \in seen : lev[y] < lev[x] /\ {x, y} \in Ties
    BY <1>1, <1>3 DEF Hangs
  <2>2. x # y
    BY <1>2, <2>1
  <2> QED
    BY <2>1, <2>2
<1> QED
  BY <1>2, <1>3, HangingIsAround

\* Ties between visited addresses are drawn.
LEMMA AddressTiesAreDrawn ==
  ASSUME DbInv, Undisturbed, ask.op = "subgraph", seen \subseteq Addrs,
         NEW x \in seen, NEW y \in seen, x # y, {x, y} \in Ties
  PROVE  \E e \in WalkEdges : {e.source, e.target} = {x, y}
<1>1. PICK i \in Of(db.ins, ctx.ds), o \in Of(db.outs, ctx.ds) : i.id = o.id /\ {x, y} = {i.addr, o.addr}
  BY DEF Ties
<1>2. [ds |-> ctx.ds, id |-> o.id] \in db.tx
  <2>1. o \in db.outs /\ o.ds = ctx.ds
    BY DEF Of
  <2>2. [ds |-> o.ds, id |-> o.id] \in db.tx
    BY <2>1, Rows
  <2> QED
    BY <2>1, <2>2
<1>3. o \in PaidBy(ctx.ds, i.addr, o.addr)
  BY <1>1, <1>2 DEF PaidBy
<1>4. i.addr \in seen /\ o.addr \in seen /\ i.addr # o.addr
  BY <1>1
<1> DEFINE p == <<i.addr, o.addr>>
<1>5. p \in seen \X seen /\ p[1] = i.addr /\ p[2] = o.addr
  BY <1>4
<1> HIDE DEF p
<1>6. EdgeOf(ctx.ds, p[1], p[2]) \in WalkEdges
  BY <1>3, <1>4, <1>5, EdgesOfAddresses DEF WalkEdges
<1>7. EdgeOf(ctx.ds, p[1], p[2]).source = p[1] /\ EdgeOf(ctx.ds, p[1], p[2]).target = p[2]
  BY DEF EdgeOf, Edge
<1> QED
  BY <1>1, <1>5, <1>6, <1>7

\* An edge of a neighborhood joins a visited transaction, which has its row,
\* and a visited address.
LEMMA EdgesOfTransactions ==
  ASSUME NEW e \in BipartiteEdges
  PROVE  \E t \in seen \cap Txs, a \in seen \cap Addrs :
           /\ {e.source, e.target} = {t, a}
           /\ [ds |-> ctx.ds, id |-> t] \in db.tx
<1> DEFINE Rws(table, t, a) ==
             {row \in Of(table, ctx.ds) : row.id = t /\ row.addr = a /\ [ds |-> ctx.ds, id |-> t] \in db.tx}
           pairs == (seen \cap Txs) \X (seen \cap Addrs)
           In(p) == Rws(db.ins, p[1], p[2])
           Out(p) == Rws(db.outs, p[1], p[2])
<1>1. \E p \in pairs : \/ In(p) # {} /\ e = Edge(p[2], p[1], In(p), Cardinality(In(p)))
                       \/ Out(p) # {} /\ e = Edge(p[1], p[2], Out(p), Cardinality(Out(p)))
  BY DEF BipartiteEdges
<1>2. PICK p \in pairs : \/ In(p) # {} /\ e = Edge(p[2], p[1], In(p), Cardinality(In(p)))
                         \/ Out(p) # {} /\ e = Edge(p[1], p[2], Out(p), Cardinality(Out(p)))
  BY <1>1
<1>3. [ds |-> ctx.ds, id |-> p[1]] \in db.tx
  BY <1>2
<1>4. {e.source, e.target} = {p[1], p[2]}
  <2> HIDE DEF In, Out
  <2> QED
    BY <1>2 DEF Edge
<1> QED
  BY <1>3, <1>4

\* Ties between a visited transaction and a visited address are drawn.
LEMMA TransactionTiesAreDrawn ==
  ASSUME DbInv, Undisturbed, ask.op # "subgraph", seen \subseteq Ids,
         NEW x \in seen, NEW y \in seen, {x, y} \in Ties
  PROVE  \E e \in BipartiteEdges : {e.source, e.target} = {x, y}
<1> DEFINE Rws(table, t, a) ==
             {row \in Of(table, ctx.ds) : row.id = t /\ row.addr = a /\ [ds |-> ctx.ds, id |-> t] \in db.tx}
           pairs == (seen \cap Txs) \X (seen \cap Addrs)
           In(p) == Rws(db.ins, p[1], p[2])
           Out(p) == Rws(db.outs, p[1], p[2])
<1>1. PICK row \in Of(db.ins \cup db.outs, ctx.ds) : {x, y} = {row.id, row.addr}
  BY DEF Ties
<1>2. row \in db.ins \cup db.outs /\ row.ds = ctx.ds
  BY DEF Of
<1>3. row.id \in Txs /\ row.addr \in Addrs \cup {Null} /\ [ds |-> row.ds, id |-> row.id] \in db.tx
  BY <1>2, Rows
<1>4. row.id \in seen \cap Txs /\ row.addr \in seen \cap Addrs
  BY <1>1, <1>3, IdsAssumption
<1>p. PICK p : p = <<row.id, row.addr>>
  OBVIOUS
<1>5. p \in pairs /\ p[1] = row.id /\ p[2] = row.addr
  BY <1>4, <1>p
<1>6. row \in In(p) \/ row \in Out(p)
  BY <1>2, <1>3, <1>5 DEF Of
<1>7. BipartiteEdges = {Edge(q[2], q[1], In(q), Cardinality(In(q))) : q \in {r \in pairs : In(r) # {}}}
         \cup {Edge(q[1], q[2], Out(q), Cardinality(Out(q))) : q \in {r \in pairs : Out(r) # {}}}
  BY DEF BipartiteEdges
<1> HIDE DEF In, Out
<1>8. CASE row \in In(p)
  <2>1. Edge(p[2], p[1], In(p), Cardinality(In(p))) \in BipartiteEdges
    BY <1>5, <1>7, <1>8
  <2> QED
    BY <1>1, <1>5, <2>1 DEF Edge
<1>9. CASE row \in Out(p)
  <2>1. Edge(p[1], p[2], Out(p), Cardinality(Out(p))) \in BipartiteEdges
    BY <1>5, <1>7, <1>9
  <2> QED
    BY <1>1, <1>5, <2>1 DEF Edge
<1> QED
  BY <1>6, <1>8, <1>9

\* What a walk that has not been disturbed has visited.
LEMMA VisitedIsSound ==
  ASSUME IInv, stage \in {"edges", "annotate"}, Undisturbed
  PROVE  /\ DOMAIN nodes = seen /\ ask.entity \in seen
         /\ seen \subseteq Ball(ask.depth)
         /\ limited \/ Ball(ask.depth) \subseteq seen
<1>1. /\ seen \in SUBSET Ids /\ ask.entity \in seen /\ hop \in 0..ask.depth /\ ask.depth \in Nat
      /\ DOMAIN nodes = seen /\ \E lev \in [seen -> 0..hop] : Hangs(lev)
  BY DEF IInv, SeenInv, LevelsInv, AskInv, IsRequest, Walking
<1>2. seen \subseteq Ball(ask.depth)
  <2>1. \A x, y \in seen : x # y /\ {x, y} \in Ties => {x, y} \in Ties
    OBVIOUS
  <2> QED
    BY <1>1, <2>1, VisitedIsAround DEF Ball
<1>3. limited \/ Ball(ask.depth) \subseteq seen
  BY DEF IInv, FoundInv, Walking
<1> QED
  BY <1>1, <1>2, <1>3

LEMMA DrawStep ==
  ASSUME IInv, DrawEdges
  PROVE  SelectInv' /\ SeenInv' /\ LevelsInv' /\ FoundInv' /\ ExportIsSound' /\ WalkIsSound'
<1>1. /\ stage = "edges" /\ outcome # "answered" /\ ask.op # "export" /\ ask.depth \in Nat
      /\ UNCHANGED <<db, deleting, ask, ctx, seen, front, hop, limited, nodes>>
  BY DEF DrawEdges, database, IInv, AskInv, Walking, IsRequest
<1>2. /\ IsFiniteSet(seen) /\ seen \subseteq Ids /\ front \subseteq seen /\ ask.entity \in seen
      /\ hop \in 0..ask.depth /\ (ask.op = "subgraph" => seen \subseteq Addrs)
      /\ Present \subseteq DOMAIN nodes /\ DOMAIN nodes \subseteq seen
  BY <1>1 DEF IInv, SeenInv, Walking
<1>3. CASE ask.op = "subgraph"
  <2>1. edges' = WalkEdges /\ stage' = "end" /\ outcome' = "answered"
    BY <1>3 DEF DrawEdges
  <2>2. SelectInv' /\ SeenInv' /\ LevelsInv' /\ FoundInv' /\ ExportIsSound'
    BY <1>1, <1>3, <2>1 DEF SelectInv, SeenInv, LevelsInv, FoundInv, ExportIsSound, Walking
  <2>3. IsClosed'
    <3>1. seen \subseteq DOMAIN nodes
      BY <1>2, <1>3, IdsAssumption DEF Present
    <3>2. ASSUME NEW e \in WalkEdges PROVE {e.source, e.target} \subseteq seen /\ e.source # e.target
      <4>1. PICK p \in seen \X seen : p[1] # p[2] /\ e.source = p[1] /\ e.target = p[2]
        BY EdgesOfAddresses DEF WalkEdges
      <4> QED
        BY <4>1
    <3> QED
      BY <1>1, <2>1, <3>1, <3>2 DEF IsClosed
  <2>4. ASSUME Undisturbed' PROVE
          /\ ask.entity \in DOMAIN nodes /\ DOMAIN nodes \subseteq Ball(ask.depth)
          /\ DOMAIN nodes \subseteq Reached(ask.depth)'
          /\ limited \/ Ball(ask.depth) \subseteq DOMAIN nodes
    <3>1. Undisturbed
      BY <1>1, <2>4 DEF Undisturbed
    <3>2. /\ DOMAIN nodes = seen /\ ask.entity \in seen /\ seen \subseteq Ball(ask.depth)
          /\ limited \/ Ball(ask.depth) \subseteq seen
      BY <1>1, <3>1, VisitedIsSound
    <3> DEFINE ties == {{e.source, e.target} : e \in edges'}
    <3>3. \A x, y \in seen : x # y /\ {x, y} \in Ties => {x, y} \in ties
      <4> SUFFICES ASSUME NEW x \in seen, NEW y \in seen, x # y, {x, y} \in Ties PROVE {x, y} \in ties
        OBVIOUS
      <4>1. PICK e \in WalkEdges : {e.source, e.target} = {x, y}
        BY <1>2, <1>3, <3>1, AddressTiesAreDrawn DEF IInv
      <4> QED
        BY <2>1, <4>1
    <3>4. Reached(ask.depth)' = Around(ask.entity, ties, ask.depth)
      BY <1>1 DEF Reached
    <3>5. \E lev \in [seen -> 0..hop] : Hangs(lev)
      BY <1>1, <3>1 DEF IInv, LevelsInv, Walking
    <3> HIDE DEF ties
    <3>6. seen \subseteq Around(ask.entity, ties, ask.depth)
      BY <1>1, <1>2, <3>3, <3>5, VisitedIsAround
    <3> QED
      BY <3>2, <3>4, <3>6
  <2>5. Ball(ask.depth)' = Ball(ask.depth)
    BY <1>1, SameView DEF Ball
  <2> QED
    BY <1>1, <1>3, <2>2, <2>3, <2>4, <2>5 DEF WalkIsSound
<1>4. CASE ask.op # "subgraph"
  <2>1. edges' = BipartiteEdges /\ stage' = "annotate" /\ UNCHANGED outcome
    BY <1>4 DEF DrawEdges
  <2>2. SelectInv' /\ ExportIsSound' /\ WalkIsSound'
    BY <1>1, <2>1 DEF SelectInv, ExportIsSound, WalkIsSound
  <2>3. IsClosed'
    <3>1. ASSUME NEW e \in BipartiteEdges
          PROVE  {e.source, e.target} \subseteq DOMAIN nodes /\ e.source # e.target
      <4>1. PICK t \in seen \cap Txs, a \in seen \cap Addrs :
              {e.source, e.target} = {t, a} /\ [ds |-> ctx.ds, id |-> t] \in db.tx
        BY EdgesOfTransactions
      <4>2. t \in Present /\ a \in Present /\ t # a
        BY <4>1, IdsAssumption DEF Present
      <4> QED
        BY <1>2, <4>1, <4>2
    <3> QED
      BY <1>1, <2>1, <3>1 DEF IsClosed
  <2>4. SeenInv'
    BY <1>1, <1>2, <2>1, <2>3 DEF SeenInv
  <2>5. Ties' = Ties /\ \A n : Ball(n)' = Ball(n)
    BY <1>1, SameView
  <2>6. LevelsInv'
    <3> SUFFICES ASSUME Undisturbed' PROVE LevelsInv'
      BY DEF LevelsInv
    <3>1. seen \subseteq Present /\ DOMAIN nodes = seen /\ \E l \in [seen -> 0..hop] : Hangs(l)
      BY <1>1 DEF IInv, LevelsInv, Walking, Undisturbed
    <3>2. PICK l \in [seen -> 0..hop] : Hangs(l)
      BY <3>1
    <3>3. Hangs(l)'
      BY <1>1, <2>5, <3>2 DEF Hangs
    <3>4. seen' \subseteq Present' /\ BipartiteEdges' = BipartiteEdges
      BY <1>1, <3>1 DEF Present, BipartiteEdges, Of
    <3>5. \E m \in [seen' -> 0..hop'] : Hangs(m)'
      BY <1>1, <3>3
    <3> QED
      BY <1>1, <2>1, <3>1, <3>4, <3>5 DEF LevelsInv
  <2>7. FoundInv'
    <3> SUFFICES ASSUME Undisturbed', ~limited' PROVE FoundInv'
      BY DEF FoundInv
    <3>1. /\ Ball(hop) \subseteq seen /\ Ball(ask.depth) \subseteq seen
          /\ \A x \in seen \ front, y \in Ids : {x, y} \in Ties => y \in seen
      BY <1>1 DEF IInv, FoundInv, Walking, Undisturbed
    <3>2. Ball(hop)' = Ball(hop) /\ Ball(ask.depth)' = Ball(ask.depth)
      BY <1>1, <2>5 DEF Ball
    <3> QED
      BY <1>1, <2>1, <2>5, <3>1, <3>2 DEF FoundInv
  <2> QED
    BY <2>2, <2>4, <2>6, <2>7
<1> QED
  BY <1>3, <1>4

LEMMA AnnotateStep ==
  ASSUME IInv, Annotate
  PROVE  SelectInv' /\ SeenInv' /\ LevelsInv' /\ FoundInv' /\ ExportIsSound' /\ WalkIsSound'
<1>1. /\ stage = "annotate" /\ ask.op = "neighborhood" /\ stage' = "end" /\ outcome' = "answered"
      /\ ask.depth \in Nat /\ ask.high \in BOOLEAN
      /\ UNCHANGED <<db, deleting, ask, ctx, seen, front, hop, limited>>
  BY DEF Annotate, database, IInv, AskInv, Walking, IsRequest
<1>2. /\ seen \subseteq Ids /\ ask.entity \in seen /\ hop \in 0..ask.depth /\ IsClosed
  BY <1>1 DEF IInv, SeenInv, Walking
<1>3. SelectInv' /\ SeenInv' /\ LevelsInv' /\ FoundInv' /\ ExportIsSound'
  BY <1>1 DEF SelectInv, SeenInv, LevelsInv, FoundInv, ExportIsSound, Walking
<1>4. /\ DOMAIN nodes' = Left /\ (\A x \in Left : nodes'[x].risk = nodes[x].risk)
      /\ edges' = IF ask.high THEN Kept(edges, Left) ELSE edges
  BY DEF Annotate
<1>5. Left \subseteq DOMAIN nodes /\ (~ask.high => Left = DOMAIN nodes)
  BY DEF Left
<1>6. IsClosed'
  BY <1>2, <1>4, <1>5 DEF IsClosed, Kept
<1>7. Ball(ask.depth)' = Ball(ask.depth)
  BY <1>1, SameView DEF Ball
<1>8. ASSUME Undisturbed' PROVE
        /\ DOMAIN nodes = seen /\ seen \subseteq Ball(ask.depth)
        /\ limited \/ Ball(ask.depth) \subseteq seen
        /\ edges = BipartiteEdges /\ \E lev \in [seen -> 0..hop] : Hangs(lev)
        /\ Undisturbed
  <2>1. Undisturbed
    BY <1>1, <1>8 DEF Undisturbed
  <2> QED
    BY <1>1, <2>1, VisitedIsSound DEF IInv, LevelsInv, Walking
<1>9. ASSUME Undisturbed' PROVE ask.entity \in DOMAIN nodes' /\ DOMAIN nodes' \subseteq Ball(ask.depth)
  <2>1. ask.entity \in Left
    BY <1>2, <1>8, <1>9 DEF Left
  <2> QED
    BY <1>4, <1>5, <1>8, <1>9, <2>1
<1>10. ASSUME Undisturbed', ~ask.high PROVE
         /\ DOMAIN nodes' \subseteq Reached(ask.depth)'
         /\ limited \/ Ball(ask.depth) \subseteq DOMAIN nodes'
  <2> DEFINE ties == {{e.source, e.target} : e \in edges'}
  <2>1. \A x, y \in seen : x # y /\ {x, y} \in Ties => {x, y} \in ties
    <3> SUFFICES ASSUME NEW x \in seen, NEW y \in seen, {x, y} \in Ties PROVE {x, y} \in ties
      OBVIOUS
    <3>1. PICK e \in BipartiteEdges : {e.source, e.target} = {x, y}
      BY <1>1, <1>2, <1>8, <1>10, TransactionTiesAreDrawn DEF IInv
    <3>2. e \in edges'
      BY <1>4, <1>8, <1>10
    <3> QED
      BY <3>1, <3>2
  <2>2. Reached(ask.depth)' = Around(ask.entity, ties, ask.depth)
    BY <1>1 DEF Reached
  <2> HIDE DEF ties
  <2>3. seen \subseteq Around(ask.entity, ties, ask.depth)
    BY <1>1, <1>2, <1>8, <1>10, <2>1, VisitedIsAround
  <2> QED
    BY <1>4, <1>5, <1>8, <1>10, <2>2, <2>3
<1>11. ASSUME ask.high, NEW x \in Left, x # ask.entity
       PROVE  \/ x \in HighRisk
              \/ \E e \in edges' : x \in {e.source, e.target} /\ (e.source \in HighRisk \/ e.target \in HighRisk)
  <2>1. HighRisk \subseteq Left
    BY <1>11 DEF Left, HighRisk
  <2>2. CASE \E e \in edges : e.source \in HighRisk /\ e.target = x
    BY <1>4, <1>11, <2>1, <2>2 DEF Kept
  <2>3. CASE \E e \in edges : e.target \in HighRisk /\ e.source = x
    BY <1>4, <1>11, <2>1, <2>3 DEF Kept
  <2> QED
    BY <1>11, <2>2, <2>3 DEF Left
<1>12. ASSUME NEW t \in HighRisk, ask.high
       PROVE  t \in Txs /\ nodes'[t].risk # Null /\ nodes'[t].risk >= 50
  <2>1. t \in Left /\ t \in Txs /\ AtLeast(nodes[t].risk, 50) /\ nodes[t].risk # Null
    BY <1>12 DEF HighRisk, Left
  <2>2. 50 # Null
    BY IdsAssumption
  <2> QED
    BY <1>4, <2>1, <2>2 DEF AtLeast
<1>13. ASSUME ask.high, NEW x \in DOMAIN nodes' \ {ask.entity}
       PROVE  LET Risky(y) == y \in Txs /\ nodes'[y].risk # Null /\ nodes'[y].risk >= 50 IN
                \/ Risky(x)
                \/ \E e \in edges' : x \in {e.source, e.target} /\ (Risky(e.source) \/ Risky(e.target))
  BY <1>4, <1>11, <1>12, <1>13
<1> QED
  BY <1>1, <1>3, <1>4, <1>6, <1>7, <1>9, <1>10, <1>13 DEF WalkIsSound

-----------------------------------------------------------------------------
(* Everything together. *)

\* A step that changes nothing.
LEMMA NothingHappens ==
  ASSUME IInv, UNCHANGED vars
  PROVE  SelectInv' /\ SeenInv' /\ LevelsInv' /\ FoundInv' /\ ExportIsSound' /\ WalkIsSound'
<1>1. /\ db' = db /\ deleting' = deleting /\ ask' = ask /\ stage' = stage /\ ctx' = ctx /\ seen' = seen
      /\ front' = front /\ hop' = hop /\ limited' = limited /\ nodes' = nodes /\ edges' = edges
      /\ outcome' = outcome
  BY DEF vars
<1>2. /\ Candidates' = Candidates /\ Ties' = Ties /\ \A n : Ball(n)' = Ball(n)
      /\ \A a : Score(ctx.ds, ctx.run, a)' = Score(ctx.ds, ctx.run, a)
  BY <1>1, SameView
<1>3. /\ Undisturbed' = Undisturbed /\ IsClosed' = IsClosed
      /\ Present' = Present /\ BipartiteEdges' = BipartiteEdges
      /\ \A n : Reached(n)' = Reached(n)
      /\ \A a, b : PaidBy(ctx.ds, a, b)' = PaidBy(ctx.ds, a, b)
  <2>1. Undisturbed' = Undisturbed /\ IsClosed' = IsClosed /\ Present' = Present
    BY <1>1 DEF Undisturbed, IsClosed, Present
  <2>2. BipartiteEdges' = BipartiteEdges
    BY <1>1 DEF BipartiteEdges, Of
  <2>3. \A n : Reached(n)' = Reached(n)
    BY <1>1 DEF Reached
  <2>4. \A a, b : PaidBy(ctx.ds, a, b)' = PaidBy(ctx.ds, a, b)
    BY <1>1 DEF PaidBy, Of
  <2> QED
    BY <2>1, <2>2, <2>3, <2>4
<1>4. SelectInv'
  <2>1. \A a, b : AtLeast(Score(ctx.ds, ctx.run, a), Score(ctx.ds, ctx.run, b))'
                   = AtLeast(Score(ctx.ds, ctx.run, a), Score(ctx.ds, ctx.run, b))
    BY <1>2 DEF AtLeast
  <2> QED
    BY <1>1, <1>2, <1>3, <2>1 DEF IInv, SelectInv
<1>5. SeenInv'
  BY <1>1, <1>3 DEF IInv, SeenInv
<1>6. LevelsInv'
  <2>1. \A l : Hangs(l)' = Hangs(l)
    BY <1>1, <1>2 DEF Hangs
  <2> QED
    BY <1>1, <1>3, <2>1 DEF IInv, LevelsInv
<1>7. FoundInv'
  <2>1. Ball(hop)' = Ball(hop) /\ Ball(ask.depth)' = Ball(ask.depth)
    BY <1>1, <1>2 DEF Ball
  <2> QED
    BY <1>1, <1>2, <1>3, <2>1 DEF IInv, FoundInv
<1>8. ExportIsSound'
  <2>1. \A a, b : AtLeast(nodes[b].risk, Score(ctx.ds, ctx.run, a))'
                   = AtLeast(nodes[b].risk, Score(ctx.ds, ctx.run, a))
    BY <1>1, <1>2 DEF AtLeast
  <2>2. \A a, b : Amount(PaidBy(ctx.ds, a, b))' = Amount(PaidBy(ctx.ds, a, b))
    BY <1>3 DEF Amount
  <2> SUFFICES ASSUME ask'.op = "export", outcome' = "answered" PROVE ExportIsSound'
    BY DEF ExportIsSound
  <2>3. ExportIsSound /\ ask.op = "export" /\ outcome = "answered"
    BY <1>1 DEF IInv
  <2>4. IsClosed' /\ Cardinality(DOMAIN nodes') <= ask'.max
    BY <1>1, <1>3, <2>3 DEF ExportIsSound
  <2>5. ASSUME Undisturbed'
        PROVE  \A a \in Candidates' \ DOMAIN nodes' :
                 /\ Cardinality(DOMAIN nodes') = ask'.max
                 /\ \A b \in DOMAIN nodes' : b \in Candidates'
                      /\ AtLeast(nodes[b].risk, Score(ctx.ds, ctx.run, a))'
    <3>1. \A a \in Candidates \ DOMAIN nodes :
            /\ Cardinality(DOMAIN nodes) = ask.max
            /\ \A b \in DOMAIN nodes : b \in Candidates
                 /\ AtLeast(nodes[b].risk, Score(ctx.ds, ctx.run, a))
      BY <1>3, <2>3, <2>5 DEF ExportIsSound
    <3> QED
      BY <1>1, <1>2, <2>1, <3>1
  <2>6. ASSUME Undisturbed', NEW a \in DOMAIN nodes', NEW b \in DOMAIN nodes', a # b,
               {a, b} \cap Candidates' # {}
        PROVE  LET shown == {e \in edges' : e.source = a /\ e.target = b} IN
               /\ SumFunctionOnSet([e \in shown |-> e.total], shown) = Amount(PaidBy(ctx.ds, a, b))'
               /\ Cardinality(shown) <= 1
    <3>1. PICK shown : shown = {e \in edges : e.source = a /\ e.target = b}
      OBVIOUS
    <3>2. /\ SumFunctionOnSet([e \in shown |-> e.total], shown) = Amount(PaidBy(ctx.ds, a, b))
          /\ Cardinality(shown) <= 1
      BY <1>1, <1>2, <1>3, <2>3, <2>6, <3>1 DEF ExportIsSound
    <3> QED
      BY <1>1, <2>2, <3>1, <3>2
  <2> QED
    BY <2>4, <2>5, <2>6 DEF ExportIsSound
<1>9. WalkIsSound'
  <2>1. Ball(ask.depth)' = Ball(ask.depth) /\ Reached(ask.depth)' = Reached(ask.depth)
    BY <1>1, <1>2 DEF Ball, Reached
  <2> SUFFICES ASSUME ask'.op # "export", outcome' = "answered" PROVE WalkIsSound'
    BY DEF WalkIsSound
  <2>2. WalkIsSound /\ ask.op # "export" /\ outcome = "answered"
    BY <1>1 DEF IInv
  <2>3. IsClosed'
    BY <1>3, <2>2 DEF WalkIsSound
  <2>4. ASSUME Undisturbed'
        PROVE  /\ ask'.entity \in DOMAIN nodes'
               /\ DOMAIN nodes' \subseteq Ball(ask.depth)'
               /\ ask'.op = "subgraph" \/ ~ask'.high =>
                    /\ DOMAIN nodes' \subseteq Reached(ask.depth)'
                    /\ limited' \/ Ball(ask.depth)' \subseteq DOMAIN nodes'
    BY <1>1, <1>3, <2>1, <2>2, <2>4 DEF WalkIsSound
  <2>5. ASSUME Undisturbed', ask'.op = "neighborhood", ask'.high
        PROVE  LET Risky(x) == x \in Txs /\ nodes'[x].risk # Null /\ nodes'[x].risk >= 50 IN
               \A x \in DOMAIN nodes' \ {ask'.entity} :
                 \/ Risky(x)
                 \/ \E e \in edges' : x \in {e.source, e.target} /\ (Risky(e.source) \/ Risky(e.target))
    <3>1. Undisturbed /\ ask.op = "neighborhood" /\ ask.high
      BY <1>1, <1>3, <2>5
    <3> QED
      BY <1>1, <2>2, <3>1 DEF WalkIsSound
  <2> QED
    BY <2>3, <2>4, <2>5 DEF WalkIsSound
<1> QED
  BY <1>4, <1>5, <1>6, <1>7, <1>8, <1>9

LEMMA Steps == IInv /\ [Next]_vars => IInv'
<1> SUFFICES ASSUME IInv, [Next]_vars PROVE IInv'
  OBVIOUS
<1>1. DbInv' /\ AskInv'
  BY DbStep, AskStep DEF IInv
<1>2. SelectInv' /\ SeenInv' /\ LevelsInv' /\ FoundInv' /\ ExportIsSound' /\ WalkIsSound'
  <2>1. CASE DeleteDataset \/ EraseTable
    BY <2>1, DeletionStep
  <2>2. CASE ResolveExport
    BY <2>2, ResolveExportStep
  <2>3. CASE SelectRiskiest
    BY <2>3, SelectStep
  <2>4. CASE ConnectSelected
    BY <2>4, ConnectStep
  <2>5. CASE ResolveSubgraph
    BY <2>5, ResolveSubgraphStep
  <2>6. CASE HopOverAddresses
    BY <2>6, HopOverAddressesStep
  <2>7. CASE ResolveNeighborhood
    BY <2>7, ResolveNeighborhoodStep
  <2>8. CASE HopOverBoth
    BY <2>8, HopOverBothStep
  <2>9. CASE DescribeNodes
    BY <2>9, DescribeStep
  <2>10. CASE DrawEdges
    BY <2>10, DrawStep
  <2>11. CASE Annotate
    BY <2>11, AnnotateStep
  <2>12. CASE UNCHANGED vars
    BY <2>12, NothingHappens
  <2> QED
    BY <2>1, <2>2, <2>3, <2>4, <2>5, <2>6, <2>7, <2>8, <2>9, <2>10, <2>11, <2>12 DEF Next, Service
<1> QED
  BY <1>1, <1>2 DEF IInv

LEMMA Invariance == Spec => []IInv
  BY Starts, Steps, PTL DEF Spec

(* An exported graph is sound: no edge without its ends, no more nodes than *)
(* asked for and, unless a deletion ran meanwhile, the riskiest addresses   *)
(* and all the payments of those selected (graph_service.py:58-283).        *)
THEOREM ExportsAreSound == Spec => []ExportIsSound
<1>1. IInv => ExportIsSound
  BY DEF IInv
<1> QED
  BY <1>1, Invariance, PTL

(* A walked graph is sound: no edge without its ends and, unless a deletion *)
(* ran meanwhile, nothing beyond the hops asked for, nothing that its own   *)
(* edges do not reach, and nothing missing that no limit has cut off        *)
(* (graph_service.py:284-1234).                                             *)
THEOREM WalksAreSound == Spec => []WalkIsSound
<1>1. IInv => WalkIsSound
  BY DEF IInv
<1> QED
  BY <1>1, Invariance, PTL
=============================================================================
