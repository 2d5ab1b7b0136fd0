---------------------------- MODULE AlertProofs ----------------------------
(***************************************************************************)
(* Proofs about alerts: what the engine makes of an analysis, for every    *)
(* set of results and every number of them (AlertRules), and what becomes  *)
(* of the alerts, for any number of alerts, of generations and of patches  *)
(* in flight (AlertTriage).                                                *)
(***************************************************************************)
EXTENDS AlertRules, AlertTriage, TLAPS, FiniteSetTheorems, WellFoundedInduction

-----------------------------------------------------------------------------
(* One result. *)

LEMMA LeastElement ==
  ASSUME NEW T \in SUBSET Nat, T # {}
  PROVE  \E m \in T : \A n \in T : m <= n
<1>1. PICK m \in T : \A n \in T : ~(<<n, m>> \in OpToRel(<, Nat))
  BY NatLessThanWellFounded, WFMin
<1>2. ASSUME NEW n \in T, ~(m <= n) PROVE FALSE
  <2>1. <<n, m>> \in Nat \X Nat /\ n < m
    BY <1>2
  <2>2. <<n, m>> \in OpToRel(<, Nat)
    BY <2>1 DEF OpToRel
  <2> QED
    BY <1>1, <2>2
<1> QED
  BY <1>2

\* A result fires two kinds of signal exactly when it is compound.
LEMMA CompoundMeansTwo ==
  ASSUME NEW r
  PROVE  Compound(r) <=> Cardinality(Signals(r)) >= 2
<1> DEFINE S == Signals(r)
<1>1. IsFiniteSet(Categories)
  <2>1. IsFiniteSet({})
    BY FS_EmptySet
  <2>2. Categories = (((((({} \cup {"ml_xgboost"}) \cup {"catboost_typology"})
          \cup {"temporal_engine"}) \cup {"graph_topology"})
          \cup {"network_telemetry"}) \cup {"entity_cluster"})
    BY DEF Categories
  <2> QED
    BY <2>1, <2>2, FS_AddElement
<1>2. IsFiniteSet(S) /\ Cardinality(S) \in Nat
  BY <1>1, FS_Subset, FS_CardinalityType DEF Signals
<1>3. ASSUME NEW c \in S, NEW d \in S, c # d PROVE Cardinality(S) >= 2
  <2>1. IsFiniteSet({c}) /\ Cardinality({c}) = 1
    BY FS_Singleton
  <2>2. {c} \subseteq S /\ {c} # S
    BY <1>3
  <2>3. Cardinality({c}) <= Cardinality(S) /\ Cardinality({c}) # Cardinality(S)
    BY <1>2, <2>1, <2>2, FS_Subset
  <2> QED
    BY <1>2, <2>1, <2>3
<1>4. ASSUME Cardinality(S) >= 2 PROVE \E c, d \in S : c # d
  <2>1. S # {}
    BY <1>2, <1>4, FS_EmptySet
  <2>2. PICK c \in S : TRUE
    BY <2>1
  <2>3. S # {c}
    BY <1>4, FS_Singleton
  <2> QED
    BY <2>1, <2>2, <2>3
<1> QED
  BY <1>3, <1>4 DEF Compound

\* A suspicious result has one of the seven types.
LEMMA TypeOfResult ==
  ASSUME NEW r, Signals(r) # {}
  PROVE  /\ AlertType(r) \in AlertTypes
         /\ AlertType(r) = "MULTI_SIGNAL" <=> Compound(r)
<1>1. (CHOOSE c \in Signals(r) : TRUE) \in Categories
  BY DEF Signals
<1>2. \A c \in Categories : LoneType[c] \in AlertTypes /\ LoneType[c] # "MULTI_SIGNAL"
  BY DEF LoneType, AlertTypes, Categories
<1> QED
  BY <1>1, <1>2 DEF AlertType, AlertTypes

\* Severity and priority of a result depend on its type and risk alone, and
\* only the critical band makes a lone result critical.
LEMMA SeverityOfResult ==
  ASSUME NEW r \in Result
  PROVE  /\ Severity(r) \in Severities
         /\ Severity(r) = "critical" => r.risk >= 67
         /\ Priority(r) \in Priorities
         /\ Priority(r) = "P1" =>
              AlertType(r) = "MULTI_SIGNAL" \/ r.risk >= 85
         /\ AlertType(r) = "MULTI_SIGNAL" => Priority(r) = "P1"
  BY DEF Severity, Severities, Priority, Priorities

LEMMA AlikeResults ==
  ASSUME NEW r, NEW s, AlertType(r) = AlertType(s), r.risk = s.risk
  PROVE  Severity(r) = Severity(s) /\ Priority(r) = Priority(s)
  BY DEF Severity, Priority

-----------------------------------------------------------------------------
(* One group. *)

\* Results arrive in descending order of risk.
Sorted == \A i, j \in DOMAIN rows : i <= j => rows[j].risk <= rows[i].risk

RowsOK == rows \in Seq(Results) /\ Sorted

LEMMA RowFacts ==
  ASSUME RowsOK, NEW i \in DOMAIN rows
  PROVE  i \in Nat /\ rows[i] \in Result /\ rows[i].risk \in 0..100
<1>1. i \in 1..Len(rows) /\ rows[i] \in Results
  BY DEF RowsOK
<1> QED
  BY <1>1, ResultsAssumption DEF Result

LEMMA GroupFacts ==
  ASSUME RowsOK, NEW g \in Groups
  PROVE  /\ g # {} /\ g \subseteq Suspicious /\ g \subseteq DOMAIN rows
         /\ \A i \in g : g = {j \in Suspicious : Together(i, j)}
         /\ \A i, j \in g : AlertType(rows[i]) = AlertType(rows[j])
<1>1. PICK k \in Suspicious : g = {j \in Suspicious : Together(k, j)}
  BY DEF Groups
<1>2. k \in g
  BY <1>1 DEF Together
<1> QED
  BY <1>1, <1>2 DEF Together, Suspicious

\* Sorting leaves an anchor: a row of highest risk.
LEMMA AnchorFacts ==
  ASSUME RowsOK, NEW g \in Groups
  PROVE  Anchor(g) \in Tops(g) /\ Anchor(g) \in g
<1>1. g # {} /\ g \subseteq DOMAIN rows /\ DOMAIN rows \subseteq Nat
  BY GroupFacts, RowFacts
<1>2. PICK m \in g : \A n \in g : m <= n
  BY <1>1, LeastElement
<1>3. m \in Tops(g)
  BY <1>1, <1>2 DEF Tops, RowsOK, Sorted
<1>4. Tops(g) \in SUBSET Nat /\ Tops(g) # {}
  BY <1>1, <1>3 DEF Tops
<1>5. \E i \in Tops(g) : \A j \in Tops(g) : i <= j
  BY <1>4, LeastElement
<1> QED
  BY <1>5 DEF Anchor, Tops

-----------------------------------------------------------------------------
(* One alert. *)

LEMMA AlertTyped ==
  ASSUME RowsOK, NEW g \in Groups
  PROVE  Alert(g, Anchor(g)) \in
           [members: SUBSET Nat, type: AlertTypes, risk: 0..100,
            behavior: Labels, severity: Severities, priority: Priorities]
<1> DEFINE a == Anchor(g)
<1>1. a \in g /\ g \subseteq Suspicious /\ g \subseteq DOMAIN rows
  BY AnchorFacts, GroupFacts
<1>2. g \in SUBSET Nat /\ rows[a] \in Result /\ rows[a].risk \in 0..100
  BY <1>1, RowFacts
<1>3. AlertType(rows[a]) \in AlertTypes
  BY <1>1, TypeOfResult DEF Suspicious
<1>4. Severity(rows[a]) \in Severities /\ Priority(rows[a]) \in Priorities
  BY <1>2, SeverityOfResult
<1>5. rows[a].label \in Labels
  BY <1>2 DEF Result
<1> QED
  BY <1>2, <1>3, <1>4, <1>5 DEF Alert, Severities, Priorities

LEMMA AlertCritical ==
  ASSUME RowsOK, NEW g \in Groups
  PROVE  Alert(g, Anchor(g)).severity = "critical" <=> \E i \in g : rows[i].risk >= 67
<1> DEFINE a == Anchor(g)
<1>1. a \in g /\ rows[a] \in Result
  BY AnchorFacts, GroupFacts, RowFacts
<1>2. Severity(rows[a]) = "critical" => rows[a].risk >= 67
  BY <1>1, SeverityOfResult
<1> QED
  BY <1>1, <1>2 DEF Alert

LEMMA AlertTopPriority ==
  ASSUME RowsOK, NEW g \in Groups
  PROVE  Alert(g, Anchor(g)).priority = "P1" <=>
           \/ Alert(g, Anchor(g)).severity = "critical"
           \/ \A i \in g : Cardinality(Signals(rows[i])) >= 2
<1> DEFINE a == Anchor(g)
<1>1. /\ a \in g /\ g \subseteq Suspicious /\ rows[a] \in Result
      /\ rows[a].risk \in 0..100
      /\ \A i \in g : AlertType(rows[i]) = AlertType(rows[a])
  BY AnchorFacts, GroupFacts, RowFacts
<1>2. (\A i \in g : Cardinality(Signals(rows[i])) >= 2)
        <=> AlertType(rows[a]) = "MULTI_SIGNAL"
  BY <1>1, TypeOfResult, CompoundMeansTwo DEF Suspicious
<1>3. rows[a].risk >= 85 => Alert(g, a).severity = "critical"
  BY <1>1, AlertCritical
<1>4. /\ Priority(rows[a]) = "P1" =>
           AlertType(rows[a]) = "MULTI_SIGNAL" \/ rows[a].risk >= 85
      /\ AlertType(rows[a]) = "MULTI_SIGNAL" => Priority(rows[a]) = "P1"
  BY <1>1, SeverityOfResult
<1>5. Alert(g, a).priority =
        IF Alert(g, a).severity = "critical" THEN "P1" ELSE Priority(rows[a])
  BY DEF Alert
<1> QED
  BY <1>2, <1>3, <1>4, <1>5

LEMMA AlertTies ==
  ASSUME RowsOK, NEW g \in Groups, NEW t \in Tops(g)
  PROVE  [Alert(g, t) EXCEPT !.behavior = rows[Anchor(g)].label] = Alert(g, Anchor(g))
<1> DEFINE a == Anchor(g)
<1>1. a \in g /\ t \in g
  BY AnchorFacts DEF Tops
<1>2. AlertType(rows[t]) = AlertType(rows[a])
  BY <1>1, GroupFacts
<1>3. rows[t].risk = rows[a].risk
  <2>1. rows[t].risk \in 0..100 /\ rows[a].risk \in 0..100
    BY <1>1, GroupFacts, RowFacts
  <2>2. a \in Tops(g)
    BY AnchorFacts
  <2>3. rows[a].risk <= rows[t].risk /\ rows[t].risk <= rows[a].risk
    BY <1>1, <2>2 DEF Tops
  <2>4. \A x, y \in 0..100 : x <= y /\ y <= x => x = y
    OBVIOUS
  <2> QED
    BY <2>1, <2>3, <2>4
<1>4. Severity(rows[t]) = Severity(rows[a]) /\ Priority(rows[t]) = Priority(rows[a])
  BY <1>2, <1>3, AlikeResults
<1> DEFINE critical == {i \in g : rows[i].risk >= 67}
           severity == IF critical # {} THEN "critical" ELSE Severity(rows[a])
           told(x) == [members |-> g, type |-> AlertType(rows[a]),
                       risk |-> rows[a].risk, behavior |-> rows[x].label,
                       severity |-> severity,
                       priority |-> IF severity = "critical" THEN "P1"
                                    ELSE Priority(rows[a])]
<1>5. Alert(g, t) = told(t) /\ Alert(g, a) = told(a)
  BY <1>2, <1>3, <1>4, Zenon DEF Alert
<1>6. [told(t) EXCEPT !.behavior = rows[a].label] = told(a)
  <2> HIDE DEF severity
  <2> QED
    OBVIOUS
<1> QED
  BY <1>5, <1>6

-----------------------------------------------------------------------------
(* The specification. *)

LEMMA RowsInductive ==
  /\ Init => RowsOK
  /\ RowsOK /\ [Next]_vars => RowsOK'
<1>1. Init => RowsOK
  BY DEF Init, RowsOK, Sorted
<1>2. ASSUME RowsOK, EvaluateRow PROVE RowsOK'
  <2>1. PICK r \in Results : /\ \A i \in DOMAIN rows : r.risk <= rows[i].risk
                             /\ rows' = Append(rows, r)
    BY <1>2 DEF EvaluateRow
  <2>2. r.risk \in 0..100
    BY ResultsAssumption DEF Result
  <2>3. /\ rows' \in Seq(Results) /\ DOMAIN rows' = 1..(Len(rows) + 1)
        /\ \A i \in DOMAIN rows : rows'[i] = rows[i]
        /\ rows'[Len(rows) + 1] = r
        /\ DOMAIN rows = 1..Len(rows) /\ Len(rows) \in Nat
    BY <1>2, <2>1 DEF RowsOK
  <2>4. ASSUME NEW i \in DOMAIN rows', NEW j \in DOMAIN rows', i <= j
        PROVE  rows'[j].risk <= rows'[i].risk
    <3>1. CASE j \in DOMAIN rows
      BY <1>2, <2>3, <2>4, <3>1 DEF RowsOK, Sorted
    <3>2. CASE j = Len(rows) + 1 /\ i \in DOMAIN rows
      BY <2>1, <2>3, <3>2
    <3>3. CASE j = Len(rows) + 1 /\ i = Len(rows) + 1
      <4>1. r.risk <= r.risk
        BY <2>2
      <4> QED
        BY <4>1, <2>3, <3>3
    <3> QED
      BY <2>3, <2>4, <3>1, <3>2, <3>3
  <2> QED
    BY <2>3, <2>4 DEF RowsOK, Sorted
<1>3. ASSUME RowsOK, StoreAlerts \/ UNCHANGED vars PROVE RowsOK'
  BY <1>3 DEF StoreAlerts, vars, RowsOK, Sorted
<1> QED
  BY <1>1, <1>2, <1>3 DEF Next

\* What a step stores is the alerts of the groups of the rows, which it leaves.
LEMMA StepStores ==
  ASSUME [Next]_vars
  PROVE  \/ alerts' = {}
         \/ alerts' = alerts /\ rows' = rows
         \/ /\ rows' = rows
            /\ \A a \in alerts' : \E g \in Groups : a = Alert(g, Anchor(g))
  BY DEF Next, EvaluateRow, StoreAlerts, vars

\* Every reachable state is well typed.
THEOREM TypeCorrect == Spec => []TypeOK
<1>1. Init => RowsOK /\ TypeOK
  BY RowsInductive DEF Init, TypeOK
<1>2. ASSUME RowsOK, TypeOK, [Next]_vars PROVE RowsOK' /\ TypeOK'
  <2>1. RowsOK'
    BY <1>2, RowsInductive
  <2>2. alerts' \subseteq
          [members: SUBSET Nat, type: AlertTypes, risk: 0..100,
           behavior: Labels, severity: Severities, priority: Priorities]
    BY <1>2, StepStores, AlertTyped DEF TypeOK
  <2> QED
    BY <2>1, <2>2 DEF TypeOK, RowsOK
<1> QED
  BY <1>1, <1>2, PTL DEF Spec

\* For every analysis, an alert is critical exactly when one of its results
\* reaches the critical band: the engine's escalation covers every member.
THEOREM CriticalAlerts == Spec => []CriticalIffCriticalRisk
<1>1. Init => RowsOK /\ CriticalIffCriticalRisk
  BY RowsInductive DEF Init, CriticalIffCriticalRisk
<1>2. ASSUME RowsOK, CriticalIffCriticalRisk, [Next]_vars
      PROVE  RowsOK' /\ CriticalIffCriticalRisk'
  <2>1. \A g \in Groups : Alert(g, Anchor(g)).members = g
    BY DEF Alert
  <2>2. RowsOK'
    BY <1>2, RowsInductive
  <2> QED
    BY <1>2, <2>1, <2>2, StepStores, AlertCritical DEF CriticalIffCriticalRisk
<1> QED
  BY <1>1, <1>2, PTL DEF Spec

\* For every analysis, priority P1 is given to critical alerts and to groups
\* of compound results, and to nothing else.
THEOREM TopPriorities == Spec => []TopPriorityIsEarned
<1>1. Init => RowsOK /\ TopPriorityIsEarned
  BY RowsInductive DEF Init, TopPriorityIsEarned
<1>2. ASSUME RowsOK, TopPriorityIsEarned, [Next]_vars
      PROVE  RowsOK' /\ TopPriorityIsEarned'
  <2>1. \A g \in Groups : Alert(g, Anchor(g)).members = g
    BY DEF Alert
  <2>2. RowsOK'
    BY <1>2, RowsInductive
  <2>3. CASE alerts' = {} \/ (alerts' = alerts /\ rows' = rows)
    BY <1>2, <2>2, <2>3 DEF TopPriorityIsEarned
  <2>4. CASE /\ rows' = rows
             /\ \A a \in alerts' : \E g \in Groups : a = Alert(g, Anchor(g))
    <3> SUFFICES ASSUME NEW a \in alerts'
                 PROVE  a.priority = "P1" <=>
                          \/ a.severity = "critical"
                          \/ \A i \in a.members : Cardinality(Signals(rows[i])) >= 2
      BY <2>2, <2>4 DEF TopPriorityIsEarned
    <3>1. PICK g \in Groups : a = Alert(g, Anchor(g))
      BY <2>4
    <3> QED
      BY <1>2, <3>1, <2>1, AlertTopPriority
  <2> QED
    BY <1>2, <2>2, <2>3, <2>4, StepStores
<1> QED
  BY <1>1, <1>2, PTL DEF Spec

\* For every analysis, severity and priority agree with each other and with
\* the results the alert stands for.
THEOREM BandsCorrect == Spec => []BandsAgree
<1>1. CriticalIffCriticalRisk /\ TopPriorityIsEarned => BandsAgree
  BY DEF BandsAgree
<1> QED
  BY <1>1, CriticalAlerts, TopPriorities, PTL

\* The alerts that hold a given suspicious row are one: groups do not overlap.
LEMMA OneAlertPerRow ==
  ASSUME RowsOK, NEW i \in Suspicious
  PROVE  \E alert : {a \in {Alert(g, Anchor(g)) : g \in Groups} : i \in a.members} = {alert}
<1> DEFINE h == {j \in Suspicious : Together(i, j)}
<1>1. h \in Groups /\ i \in h
  BY DEF Groups, Together
<1>2. \A g \in Groups : i \in g => g = h
  BY GroupFacts
<1>3. \A g : Alert(g, Anchor(g)).members = g
  BY DEF Alert
<1> HIDE DEF h
<1>4. {a \in {Alert(g, Anchor(g)) : g \in Groups} : i \in a.members} = {Alert(h, Anchor(h))}
  BY <1>1, <1>2, <1>3
<1> QED
  BY <1>4

\* For every analysis, each result of high risk is in exactly one alert.
THEOREM HighRiskAlerted == Spec => []HighRiskAlertedOnce
<1>1. Init => RowsOK /\ HighRiskAlertedOnce
  BY RowsInductive DEF Init, HighRiskAlertedOnce
<1>2. ASSUME RowsOK, HighRiskAlertedOnce, [Next]_vars
      PROVE  RowsOK' /\ HighRiskAlertedOnce'
  <2>1. RowsOK'
    BY <1>2, RowsInductive
  <2>2. CASE alerts' = {} \/ (alerts' = alerts /\ rows' = rows)
    BY <1>2, <2>1, <2>2 DEF HighRiskAlertedOnce
  <2>3. CASE /\ rows' = rows
             /\ alerts' = {Alert(g, Anchor(g)) : g \in Groups}
    <3> SUFFICES ASSUME NEW i \in DOMAIN rows, rows[i].risk >= 50
                 PROVE  Cardinality({a \in alerts' : i \in a.members}) = 1
      BY <2>1, <2>3 DEF HighRiskAlertedOnce
    <3>1. "ml_xgboost" \in Signals(rows[i])
      BY DEF Signals, Categories, Fires
    <3>2. i \in Suspicious
      BY <3>1 DEF Suspicious
    <3>3. PICK alert : {a \in alerts' : i \in a.members} = {alert}
      BY <1>2, <2>3, <3>2, OneAlertPerRow
    <3> QED
      BY <3>3, FS_Singleton
  <2> QED
    BY <1>2, <2>2, <2>3 DEF Next, EvaluateRow, StoreAlerts, vars
<1> QED
  BY <1>1, <1>2, PTL DEF Spec

\* For every analysis, the order in which SQL returns tied results decides
\* neither the severity nor the priority of an alert.
THEOREM TiesAreHarmless == Spec => []TiesDoNotMatter
<1>1. Init => RowsOK /\ TiesDoNotMatter
  BY RowsInductive DEF Init, TiesDoNotMatter
<1>2. ASSUME RowsOK, TiesDoNotMatter, [Next]_vars PROVE RowsOK' /\ TiesDoNotMatter'
  <2>1. \A g \in Groups : /\ Alert(g, Anchor(g)).members = g
                           /\ Alert(g, Anchor(g)).behavior = rows[Anchor(g)].label
    BY DEF Alert
  <2>2. RowsOK'
    BY <1>2, RowsInductive
  <2>3. CASE alerts' = {} \/ (alerts' = alerts /\ rows' = rows)
    BY <1>2, <2>2, <2>3 DEF TiesDoNotMatter, Tops, Alert
  <2>4. CASE /\ rows' = rows
             /\ \A a \in alerts' : \E g \in Groups : a = Alert(g, Anchor(g))
    <3>1. \A a \in alerts' : \A t \in Tops(a.members) :
            [Alert(a.members, t) EXCEPT !.behavior = a.behavior] = a
      <4> SUFFICES ASSUME NEW a \in alerts', NEW t \in Tops(a.members)
                   PROVE  [Alert(a.members, t) EXCEPT !.behavior = a.behavior] = a
        OBVIOUS
      <4>1. PICK g \in Groups : a = Alert(g, Anchor(g))
        BY <2>4
      <4> QED
        BY <1>2, <4>1, <2>1, AlertTies
    <3> QED
      BY <2>2, <3>1, <2>4 DEF TiesDoNotMatter, Tops, Alert
  <2> QED
    BY <1>2, <2>2, <2>3, <2>4, StepStores
<1> QED
  BY <1>1, <1>2, PTL DEF Spec

-----------------------------------------------------------------------------
(* Generation, patches and restarts. *)

LEMMA RowsAreRows == NoRow \notin Row
  BY DEF NoRow, Row

LEMMA PatchesDiffer ==
  /\ \A x \in StatusPatch : x.field = "status" /\ x # Idle
  /\ \A x \in PriorityPatch : x.field = "priority" /\ x # Idle
  /\ Idle.field = "none"
  BY DEF StatusPatch, PriorityPatch, Idle

LEMMA TriageTypeInit == TriageInit => TriageTypeOK
  BY RestartAssumption DEF TriageInit, TriageTypeOK, Generators

\* What a patch computes from a stored row is made of a status and two flags.
LEMMA PatchedType ==
  ASSUME NEW read \in Row, NEW s \in ALL_VALID_STATUSES
  PROVE  /\ Patched(read, s).status = s
         /\ Patched(read, s).acked \in BOOLEAN
         /\ Patched(read, s).resolved \in BOOLEAN
  BY DEF Patched, Row

\* No step of a generation, a patch or a restart leaves the types.
LEMMA TriageTypeStep == TriageTypeOK /\ [TriageNext]_triageVars => TriageTypeOK'
<1> SUFFICES ASSUME TriageTypeOK, [TriageNext]_triageVars PROVE TriageTypeOK'
  OBVIOUS
<1> USE DEF TriageTypeOK, Generators, generation
<1>1. ASSUME NEW g \in Generators, BeginGeneration(g) PROVE TriageTypeOK'
  BY <1>1 DEF BeginGeneration
<1>2. ASSUME NEW g \in Generators, DeleteOld(g) PROVE TriageTypeOK'
  BY <1>2 DEF DeleteOld
<1>3. ASSUME NEW g \in Generators, InsertNew(g) PROVE TriageTypeOK'
  <2>1. \A a \in Alerts : [status |-> "NEW", priority |-> BasePriority[a],
                           acked |-> FALSE, resolved |-> FALSE] \in Row
    BY PriorityAssumption DEF Row, ALL_VALID_STATUSES, ACTIVE_STATUSES
  <2> QED
    BY <1>3, <2>1 DEF InsertNew, Ended
<1>4. ASSUME NEW p \in Patchers, ReadForStatus(p) PROVE TriageTypeOK'
  <2>1. PICK a \in Alerts, s \in Asked :
          /\ Stored(a)
          /\ patch' = [patch EXCEPT ![p] = [field |-> "status", alert |-> a,
                                            to |-> s, read |-> table[a]]]
    BY <1>4 DEF ReadForStatus
  <2>2. [field |-> "status", alert |-> a, to |-> s, read |-> table[a]] \in StatusPatch
    BY <2>1 DEF Stored, StatusPatch
  <2> QED
    BY <1>4, <2>1, <2>2 DEF ReadForStatus
<1>5. ASSUME NEW p \in Patchers, WriteStatus(p) PROVE TriageTypeOK'
  <2> DEFINE a == patch[p].alert
             new == Patched(patch[p].read, patch[p].to)
  <2>1. patch[p] \in StatusPatch
    BY <1>5, PatchesDiffer DEF WriteStatus
  <2>2. /\ a \in Alerts
        /\ patch[p].read \in Row
        /\ patch[p].to \in ALL_VALID_STATUSES
    BY <2>1, AskedAssumption DEF StatusPatch
  <2>3. /\ new.status \in ALL_VALID_STATUSES
        /\ new.acked \in BOOLEAN
        /\ new.resolved \in BOOLEAN
    BY <2>2, PatchedType
  <2>4. table' \in [Alerts -> Row \cup {NoRow}]
    <3>1. CASE Stored(a)
      <4>1. table[a] \in Row
        BY <2>2, <3>1 DEF Stored
      <4> HIDE DEF new
      <4>2. [table[a] EXCEPT !.status = new.status, !.acked = new.acked,
                             !.resolved = new.resolved] \in Row
        BY <4>1, <2>3 DEF Row
      <4>3. table' = [table EXCEPT ![a] =
                        [table[a] EXCEPT !.status = new.status, !.acked = new.acked,
                                         !.resolved = new.resolved]]
        BY <1>5, <3>1, <4>1 DEF WriteStatus, new, Row
      <4> QED
        BY <4>2, <4>3
    <3>2. CASE ~Stored(a)
      BY <1>5, <3>2 DEF WriteStatus
    <3> QED
      BY <3>1, <3>2
  <2> QED
    BY <1>5, <2>2, <2>4 DEF WriteStatus
<1>6. ASSUME NEW p \in Patchers, CheckForPriority(p) PROVE TriageTypeOK'
  <2>1. PICK a \in Alerts, q \in Levels :
          patch' = [patch EXCEPT ![p] = [field |-> "priority", alert |-> a, to |-> q]]
    BY <1>6 DEF CheckForPriority
  <2>2. [field |-> "priority", alert |-> a, to |-> q] \in PriorityPatch
    BY DEF PriorityPatch
  <2> QED
    BY <1>6, <2>1, <2>2 DEF CheckForPriority
<1>7. ASSUME NEW p \in Patchers, WritePriority(p) PROVE TriageTypeOK'
  <2> DEFINE a == patch[p].alert
  <2>1. patch[p] \in PriorityPatch
    BY <1>7, PatchesDiffer DEF WritePriority
  <2>2. a \in Alerts /\ patch[p].to \in Levels
    BY <2>1 DEF PriorityPatch
  <2>3. table' \in [Alerts -> Row \cup {NoRow}]
    <3>1. CASE Stored(a)
      <4>1. [table[a] EXCEPT !.priority = patch[p].to] \in Row
        BY <2>2, <3>1 DEF Stored, Row
      <4> QED
        BY <1>7, <2>2, <3>1, <4>1 DEF WritePriority
    <3>2. CASE ~Stored(a)
      BY <1>7, <3>2 DEF WritePriority
    <3> QED
      BY <3>1, <3>2
  <2> QED
    BY <1>7, <2>3 DEF WritePriority
<1>8. CASE Restart
  BY <1>8, RestartAssumption DEF Restart, Ended
<1>9. CASE UNCHANGED triageVars
  BY <1>9 DEF triageVars
<1> QED
  BY <1>1, <1>2, <1>3, <1>4, <1>5, <1>6, <1>7, <1>8, <1>9 DEF TriageNext

\* Every reachable state is well typed.
THEOREM TriageTypeCorrect == TriageSpec => []TriageTypeOK
  BY TriageTypeInit, TriageTypeStep, PTL DEF TriageSpec
-----------------------------------------------------------------------------
(* Timestamps agree with the status, whatever row a patch has read. *)

\* A row of alert a, stored or only remembered by a patch: what its status
\* says about its two timestamps and about the past of the alert.
Agrees(row, a) ==
  /\ row.resolved <=> row.status \in INACTIVE_STATUSES
  /\ row.status \in INACTIVE_STATUSES => a \in closed
  /\ row.status \in InProgress /\ a \notin closed => row.acked

RowsAgree == \A a \in Alerts : Stored(a) => Agrees(table[a], a)

\* A stale row is still a row that was once stored, so it agrees as well: this
\* is what makes the invariant inductive.
ReadsAgree ==
  \A p \in Patchers : patch[p] \in StatusPatch => Agrees(patch[p].read, patch[p].alert)

TimestampInv == TriageTypeOK /\ RowsAgree /\ ReadsAgree

\* Patched turns a row that agrees into one that agrees.
LEMMA PatchedAgrees ==
  ASSUME NEW read \in Row, NEW s \in ALL_VALID_STATUSES, NEW a \in Alerts, Agrees(read, a)
  PROVE  LET new == Patched(read, s) IN
         /\ new.status = s
         /\ new.resolved <=> s \in INACTIVE_STATUSES
         /\ s \in InProgress /\ a \notin closed => new.acked
  BY DEF Agrees, Patched, Row, ALL_VALID_STATUSES, ACTIVE_STATUSES, InProgress,
     INACTIVE_STATUSES

\* closed only grows, so what agrees keeps agreeing.
LEMMA AgreesMonotone ==
  ASSUME NEW row \in Row, NEW a \in Alerts, Agrees(row, a), closed \subseteq closed'
  PROVE  Agrees(row, a)'
  BY DEF Agrees

LEMMA ClosedGrows == [TriageNext]_triageVars => closed \subseteq closed'
  BY DEF TriageNext, triageVars, BeginGeneration, DeleteOld, InsertNew, ReadForStatus, WriteStatus,
     CheckForPriority, WritePriority, Restart

LEMMA TimestampStep == TimestampInv /\ [TriageNext]_triageVars => TimestampInv'
<1> SUFFICES ASSUME TimestampInv, [TriageNext]_triageVars PROVE RowsAgree' /\ ReadsAgree'
  BY TriageTypeStep DEF TimestampInv
<1> closed \subseteq closed'
  BY ClosedGrows
<1>a. ASSUME UNCHANGED <<table, closed>> PROVE RowsAgree'
  BY <1>a DEF TimestampInv, RowsAgree, Agrees, Stored
<1>b. ASSUME \A p \in Patchers : patch'[p] \in {patch[p]} \cup {Idle} \cup PriorityPatch
      PROVE ReadsAgree'
  <2> SUFFICES ASSUME NEW p \in Patchers, patch'[p] \in StatusPatch
               PROVE  Agrees(patch[p].read, patch[p].alert)' 
    BY DEF ReadsAgree
  <2>1. patch'[p] = patch[p]
    BY <1>b, PatchesDiffer
  <2>2. patch[p].read \in Row /\ patch[p].alert \in Alerts
    BY <2>1 DEF StatusPatch
  <2>3. Agrees(patch[p].read, patch[p].alert)
    BY <2>1 DEF TimestampInv, ReadsAgree
  <2> QED
    BY <2>1, <2>3 DEF Agrees
<1>1. ASSUME NEW g \in Generators, BeginGeneration(g) PROVE RowsAgree' /\ ReadsAgree'
  BY <1>1, <1>a, <1>b DEF BeginGeneration
<1>2. ASSUME NEW g \in Generators, DeleteOld(g) PROVE RowsAgree' /\ ReadsAgree'
  <2>1. \A a \in Alerts : table'[a] \in {table[a], NoRow}
    BY <1>2 DEF DeleteOld, TimestampInv, TriageTypeOK
  <2>2. UNCHANGED closed
    BY <1>2 DEF DeleteOld
  <2>3. RowsAgree'
    BY <2>1, <2>2 DEF TimestampInv, RowsAgree, Agrees, Stored
  <2> QED
    BY <1>2, <2>3, <1>b DEF DeleteOld
<1>3. ASSUME NEW g \in Generators, InsertNew(g) PROVE RowsAgree' /\ ReadsAgree'
  <2>1. \A a \in Alerts :
          \/ table'[a] = table[a]
          \/ table'[a] = [status |-> "NEW", priority |-> BasePriority[a],
                          acked |-> FALSE, resolved |-> FALSE]
    BY <1>3 DEF InsertNew, TimestampInv, TriageTypeOK
  <2>2. UNCHANGED closed
    BY <1>3 DEF InsertNew
  <2>3. ASSUME NEW a \in Alerts, Stored(a)' PROVE Agrees(table[a], a)'
    <3>1. CASE table'[a] = table[a]
      BY <2>2, <2>3, <3>1 DEF TimestampInv, RowsAgree, Agrees, Stored
    <3>2. CASE table'[a] # table[a]
      <4>1. table'[a] = [status |-> "NEW", priority |-> BasePriority[a],
                         acked |-> FALSE, resolved |-> FALSE]
        BY <2>1, <3>2
      <4>2. table'[a].status = "NEW"
        BY <4>1
      <4>3. table'[a].resolved = FALSE
        BY <4>1
      <4> QED
        BY <4>2, <4>3 DEF Agrees, InProgress, INACTIVE_STATUSES
    <3> QED
      BY <3>1, <3>2
  <2>4. RowsAgree'
    BY <2>3 DEF RowsAgree
  <2> QED
    BY <1>3, <2>4, <2>3, <1>b DEF InsertNew
<1>4. ASSUME NEW p \in Patchers, ReadForStatus(p) PROVE RowsAgree' /\ ReadsAgree'
  <2>1. RowsAgree'
    BY <1>4, <1>a DEF ReadForStatus
  <2>2. PICK a \in Alerts, s \in Asked :
          /\ Stored(a)
          /\ patch' = [patch EXCEPT ![p] = [field |-> "status", alert |-> a,
                                            to |-> s, read |-> table[a]]]
    BY <1>4 DEF ReadForStatus
  <2>3. Agrees(table[a], a)
    BY <2>2 DEF TimestampInv, RowsAgree
  <2>4. UNCHANGED closed
    BY <1>4 DEF ReadForStatus
  <2>5. ASSUME NEW q \in Patchers, patch'[q] \in StatusPatch
        PROVE  Agrees(patch[q].read, patch[q].alert)'
    <3>1. CASE q = p
      <4>1. patch'[q].read = table[a] /\ patch'[q].alert = a
        BY <2>2, <3>1 DEF TimestampInv, TriageTypeOK
      <4> QED
        BY <2>3, <2>4, <4>1 DEF Agrees
    <3>2. CASE q # p
      <4>1. patch'[q] = patch[q]
        BY <2>2, <3>2 DEF TimestampInv, TriageTypeOK
      <4> QED
        BY <2>4, <2>5, <4>1 DEF TimestampInv, ReadsAgree, Agrees
    <3> QED
      BY <3>1, <3>2
  <2> QED
    BY <2>1, <2>5 DEF ReadsAgree
<1>5. ASSUME NEW p \in Patchers, WriteStatus(p) PROVE RowsAgree' /\ ReadsAgree'
  <2> DEFINE new == Patched(patch[p].read, patch[p].to)
  <2>1. patch[p] \in StatusPatch
    BY <1>5, PatchesDiffer DEF WriteStatus, TimestampInv, TriageTypeOK
  <2>a. PICK a \in Alerts : a = patch[p].alert
    BY <2>1 DEF StatusPatch
  <2>2. patch[p].read \in Row /\ patch[p].to \in ALL_VALID_STATUSES
    BY <2>1, AskedAssumption DEF StatusPatch
  <2>3. /\ new.status = patch[p].to
        /\ new.resolved <=> new.status \in INACTIVE_STATUSES
        /\ new.status \in InProgress /\ a \notin closed => new.acked
    BY <2>1, <2>a, <2>2, PatchedAgrees DEF TimestampInv, ReadsAgree
  <2> HIDE DEF new
  <2>4. RowsAgree'
    <3>1. CASE Stored(a)
      <4>1. table[a] \in Row
        BY <3>1 DEF Stored, TimestampInv, TriageTypeOK
      <4>2. /\ table'[a].status = new.status
            /\ table'[a].acked = new.acked
            /\ table'[a].resolved = new.resolved
            /\ \A b \in Alerts \ {a} : table'[b] = table[b]
            /\ new.resolved => a \in closed'
        BY <1>5, <2>a, <3>1, <4>1 DEF WriteStatus, new, TimestampInv, TriageTypeOK, Row
      <4>3. Agrees(table[a], a)'
        BY <2>3, <4>2 DEF Agrees
      <4>4. \A b \in Alerts \ {a} : Stored(b)' => Agrees(table[b], b)'
        BY <4>2 DEF TimestampInv, RowsAgree, Agrees, Stored
      <4> QED
        BY <4>3, <4>4 DEF RowsAgree
    <3>2. CASE ~Stored(a)
      BY <1>5, <2>a, <3>2, <1>a DEF WriteStatus
    <3> QED
      BY <3>1, <3>2
  <2>5. ReadsAgree'
    BY <1>5, <1>b DEF WriteStatus, TimestampInv, TriageTypeOK
  <2> QED
    BY <2>4, <2>5
<1>6. ASSUME NEW p \in Patchers, CheckForPriority(p) PROVE RowsAgree' /\ ReadsAgree'
  <2>1. PICK a \in Alerts, q \in Levels :
          patch' = [patch EXCEPT ![p] = [field |-> "priority", alert |-> a, to |-> q]]
    BY <1>6 DEF CheckForPriority
  <2>2. [field |-> "priority", alert |-> a, to |-> q] \in PriorityPatch
    BY DEF PriorityPatch
  <2>3. ReadsAgree'
    BY <2>1, <2>2, <1>b DEF TimestampInv, TriageTypeOK
  <2> QED
    BY <1>6, <2>3, <1>a DEF CheckForPriority
<1>7. ASSUME NEW p \in Patchers, WritePriority(p) PROVE RowsAgree' /\ ReadsAgree'
  <2>1. ASSUME NEW b \in Alerts, Stored(b)' PROVE Agrees(table[b], b)'
    <3>1. CASE table'[b] = table[b]
      BY <1>7, <2>1, <3>1 DEF WritePriority, TimestampInv, RowsAgree, Agrees, Stored
    <3>2. CASE table'[b] # table[b]
      <4>1. b = patch[p].alert /\ Stored(b)
        BY <1>7, <3>2 DEF WritePriority, TimestampInv, TriageTypeOK
      <4>2. table[b] \in Row
        BY <4>1 DEF Stored, TimestampInv, TriageTypeOK
      <4>3. /\ table'[b].status = table[b].status
            /\ table'[b].acked = table[b].acked
            /\ table'[b].resolved = table[b].resolved
        BY <1>7, <4>1, <4>2 DEF WritePriority, TimestampInv, TriageTypeOK, Row
      <4> QED
        BY <1>7, <4>1, <4>3 DEF WritePriority, TimestampInv, RowsAgree, Agrees
    <3> QED
      BY <3>1, <3>2
  <2>2. ReadsAgree'
    BY <1>7, <1>b DEF WritePriority, TimestampInv, TriageTypeOK
  <2> QED
    BY <2>1, <2>2 DEF RowsAgree
<1>8. CASE Restart
  BY <1>8, <1>a, <1>b DEF Restart
<1>9. CASE UNCHANGED triageVars
  BY <1>9, <1>a, <1>b DEF triageVars
<1> QED
  BY <1>1, <1>2, <1>3, <1>4, <1>5, <1>6, <1>7, <1>8, <1>9 DEF TriageNext

LEMMA TimestampInit == TriageInit => TimestampInv
<1> SUFFICES ASSUME TriageInit PROVE RowsAgree /\ ReadsAgree
  BY TriageTypeInit DEF TimestampInv
<1> QED
  BY PatchesDiffer DEF TriageInit, RowsAgree, ReadsAgree, Stored

\* resolved_at is set exactly while an alert is resolved or dismissed, for any
\* number of patches and regenerations in flight.
THEOREM ResolvedExactlyWhenClosed == TriageSpec => []ResolvedIffInactive
<1>1. TimestampInv => ResolvedIffInactive
  BY DEF TimestampInv, RowsAgree, Agrees, ResolvedIffInactive
<1> QED
  BY TimestampInit, TimestampStep, <1>1, PTL DEF TriageSpec

\* An alert being worked on has been acknowledged, or closed before.
THEOREM WorkIsAcknowledged == TriageSpec => []WorkedOnIsAcknowledged
<1>1. TimestampInv => WorkedOnIsAcknowledged
  BY DEF TimestampInv, RowsAgree, Agrees, WorkedOnIsAcknowledged
<1> QED
  BY TimestampInit, TimestampStep, <1>1, PTL DEF TriageSpec
-----------------------------------------------------------------------------
(* No alert is lost between its DELETE and its INSERT. *)

\* A generation replaces one alert at a time, so the INSERT that closes its gap
\* restores all that its DELETE removed.
SingleGaps == \A g \in Generators : \A a, b \in gap[g] : a = b

LossInv == TriageTypeOK /\ SingleGaps /\ NoAlertLost

LEMMA SingleGapsStep == TriageTypeOK /\ SingleGaps /\ [TriageNext]_triageVars => SingleGaps'
<1> SUFFICES ASSUME TriageTypeOK, SingleGaps, [TriageNext]_triageVars, NEW h \in Generators
             PROVE  \A a, b \in gap'[h] : a = b
  BY DEF SingleGaps
<1> USE DEF TriageTypeOK, SingleGaps, generation
<1>1. ASSUME NEW g \in Generators, DeleteOld(g) PROVE \A a, b \in gap'[h] : a = b
  BY <1>1 DEF DeleteOld
<1>2. ASSUME NEW g \in Generators, InsertNew(g) PROVE \A a, b \in gap'[h] : a = b
  BY <1>2 DEF InsertNew
<1>3. ASSUME \/ \E g \in Generators : BeginGeneration(g)
             \/ \E p \in Patchers : \/ ReadForStatus(p) \/ WriteStatus(p)
                                    \/ CheckForPriority(p) \/ WritePriority(p)
             \/ UNCHANGED triageVars
      PROVE  gap' = gap
  BY <1>3 DEF BeginGeneration, ReadForStatus, WriteStatus, CheckForPriority,
     WritePriority, triageVars
<1>4. CASE Restart
  BY <1>4 DEF Restart
<1> QED
  BY <1>1, <1>2, <1>3, <1>4 DEF TriageNext

\* Only DeleteOld makes a row disappear, and it opens the gap it leaves; a gap
\* closes over a stored row or is remembered in cut.
LEMMA LossStep == LossInv /\ [TriageNext]_triageVars => NoAlertLost'
<1> SUFFICES ASSUME LossInv, [TriageNext]_triageVars, NEW a \in made'
             PROVE  \/ table'[a] # NoRow
                    \/ a \in cut'
                    \/ \E g \in Generators : a \in gap'[g]
  BY DEF NoAlertLost, Stored
<1> USE DEF LossInv, TriageTypeOK, NoAlertLost, Stored, generation
<1>1. ASSUME NEW g \in Generators, DeleteOld(g)
      PROVE  \/ table'[a] # NoRow
             \/ a \in cut'
             \/ \E h \in Generators : a \in gap'[h]
  <2>1. PICK b \in todo[g] : /\ table' = [table EXCEPT ![b] = NoRow]
                             /\ gap' = [gap EXCEPT ![g] = {b}]
    BY <1>1 DEF DeleteOld
  <2>2. a \in made /\ a \in Alerts /\ cut' = cut /\ gap[g] = {}
    BY <1>1 DEF DeleteOld
  <2>3. CASE a = b
    BY <2>1, <2>3
  <2>4. CASE a # b
    BY <2>1, <2>2, <2>4
  <2> QED
    BY <2>3, <2>4
<1>2. ASSUME NEW g \in Generators, InsertNew(g)
      PROVE  \/ table'[a] # NoRow
             \/ a \in cut'
             \/ \E h \in Generators : a \in gap'[h]
  <2> DEFINE fresh(b) == [status |-> "NEW", priority |-> BasePriority[b],
                          acked |-> FALSE, resolved |-> FALSE]
  <2>1. PICK b \in gap[g] :
          \/ table' = [table EXCEPT ![b] = fresh(b)] /\ made' = made \cup {b}
          \/ table[b] # NoRow /\ UNCHANGED <<table, made>>
    BY <1>2 DEF InsertNew
  <2>2. gap' = [gap EXCEPT ![g] = {}] /\ cut' = cut
    BY <1>2 DEF InsertNew
  <2>3. \A x \in gap[g] : x = b
    BY <2>1 DEF SingleGaps
  <2>4. fresh(b) # NoRow
    BY DEF NoRow
  <2> HIDE DEF fresh
  <2>5. b \in Alerts /\ table'[b] # NoRow
    BY <2>1, <2>4
  <2>6. CASE a = b
    BY <2>5, <2>6
  <2>7. CASE a # b
    <3>1. a \in made /\ table'[a] = table[a]
      BY <2>1, <2>7
    <3>2. ASSUME NEW h \in Generators, a \in gap[h] PROVE a \in gap'[h]
      BY <2>2, <2>3, <2>7, <3>2
    <3> QED
      BY <2>2, <3>1, <3>2
  <2> QED
    BY <2>6, <2>7
<1>3. ASSUME NEW p \in Patchers, WriteStatus(p) \/ WritePriority(p)
      PROVE  \/ table'[a] # NoRow
             \/ a \in cut'
             \/ \E h \in Generators : a \in gap'[h]
  <2>1. UNCHANGED <<gap, made, cut>>
    BY <1>3 DEF WriteStatus, WritePriority
  <2>2. table[a] # NoRow => table'[a] # NoRow
    <3>1. TriageTypeOK'
      BY TriageTypeStep
    <3>2. CASE table'[a] = table[a]
      BY <3>2
    <3>3. CASE table'[a] # table[a]
      <4>1. /\ a = patch[p].alert
            /\ DOMAIN table'[a] = DOMAIN table[a]
            /\ table[a] # NoRow
        BY <1>3, <2>1, <3>3 DEF WriteStatus, WritePriority, Row
      <4>2. table[a] \in Row
        BY <2>1, <4>1
      <4> QED
        BY <4>1, <4>2 DEF Row, NoRow
    <3> QED
      BY <3>2, <3>3
  <2> QED
    BY <2>1, <2>2
<1>4. ASSUME \/ \E g \in Generators : BeginGeneration(g)
             \/ \E p \in Patchers : ReadForStatus(p) \/ CheckForPriority(p)
             \/ UNCHANGED triageVars
      PROVE  UNCHANGED <<table, gap, made, cut>>
  BY <1>4 DEF BeginGeneration, ReadForStatus, CheckForPriority, triageVars
<1>5. CASE Restart
  BY <1>5 DEF Restart
<1> QED
  BY <1>1, <1>2, <1>3, <1>4, <1>5 DEF TriageNext

\* A stored alert goes missing only inside a replacement that is under way, or
\* when a restart cuts one short.
THEOREM AlertsSurvive == TriageSpec => []NoAlertLost
<1>1. TriageInit => LossInv
  <2> SUFFICES ASSUME TriageInit PROVE SingleGaps /\ NoAlertLost
    BY TriageTypeInit DEF LossInv
  <2> QED
    BY DEF TriageInit, SingleGaps, NoAlertLost
<1>2. LossInv /\ [TriageNext]_triageVars => LossInv'
  BY TriageTypeStep, SingleGapsStep, LossStep DEF LossInv
<1>3. LossInv => NoAlertLost
  BY DEF LossInv
<1> QED
  BY <1>1, <1>2, <1>3, PTL DEF TriageSpec
-----------------------------------------------------------------------------
(* Patches of status and priority leave each other's fields alone. *)

\* What a step may do to a row that is there before and after it.
KeepsAField(a) ==
  Stored(a) /\ table'[a] # NoRow =>
    \/ table'[a].priority = table[a].priority
    \/ table'[a] = [table[a] EXCEPT !.priority = table'[a].priority]

\* A generation can only remove a row or store one that is missing, and the two
\* UPDATEs write their own columns.
LEMMA FieldsStep ==
  ASSUME TriageTypeOK, [TriageNext]_triageVars, NEW a \in Alerts
  PROVE  KeepsAField(a)
<1> SUFFICES ASSUME Stored(a), table'[a] # NoRow
             PROVE  \/ table'[a].priority = table[a].priority
                    \/ table'[a] = [table[a] EXCEPT !.priority = table'[a].priority]
  BY DEF KeepsAField
<1> USE DEF TriageTypeOK, Stored
<1>0. table[a] \in Row
  OBVIOUS
<1>1. ASSUME NEW g \in Generators, DeleteOld(g)
      PROVE  table'[a].priority = table[a].priority
  BY <1>1 DEF DeleteOld
<1>2. ASSUME NEW g \in Generators, InsertNew(g)
      PROVE  table'[a].priority = table[a].priority
  BY <1>2 DEF InsertNew
<1>3. ASSUME NEW p \in Patchers, WriteStatus(p)
      PROVE  table'[a].priority = table[a].priority
  <2>1. CASE Stored(patch[p].alert)
    <3> DEFINE new == Patched(patch[p].read, patch[p].to)
    <3> HIDE DEF new
    <3>1. table' = [table EXCEPT ![patch[p].alert].status = new.status,
                                 ![patch[p].alert].acked = new.acked,
                                 ![patch[p].alert].resolved = new.resolved]
      BY <1>3, <2>1 DEF WriteStatus, new
    <3>2. CASE patch[p].alert = a
      BY <3>1, <3>2, <1>0 DEF Row
    <3>3. CASE patch[p].alert # a
      BY <3>1, <3>3
    <3> QED
      BY <3>2, <3>3
  <2>2. CASE ~Stored(patch[p].alert)
    BY <1>3, <2>2 DEF WriteStatus
  <2> QED
    BY <2>1, <2>2
<1>4. ASSUME NEW p \in Patchers, WritePriority(p)
      PROVE  table'[a] = [table[a] EXCEPT !.priority = table'[a].priority]
  <2>1. \/ table' = [table EXCEPT ![patch[p].alert].priority = patch[p].to]
        \/ table' = table
    BY <1>4 DEF WritePriority
  <2> QED
    BY <2>1, <1>0 DEF Row
<1>5. ASSUME UNCHANGED table
      PROVE  table'[a].priority = table[a].priority
  BY <1>5
<1> QED
  BY <1>1, <1>2, <1>3, <1>4, <1>5
     DEF TriageNext, triageVars, BeginGeneration, ReadForStatus, CheckForPriority, Restart

\* Two analysts working on one alert at a time do not undo each other's fields.
THEOREM AnalystsDoNotCollide == TriageSpec => FieldsAreIndependent
<1>1. TriageTypeOK /\ [TriageNext]_triageVars =>
        [\A a \in Alerts : Stored(a) /\ table'[a] # NoRow =>
           \/ table'[a].priority = table[a].priority
           \/ table'[a] = [table[a] EXCEPT !.priority = table'[a].priority]]_triageVars
  BY FieldsStep DEF KeepsAField
<1> QED
  BY TriageTypeInit, TriageTypeStep, <1>1, PTL DEF TriageSpec, FieldsAreIndependent
=============================================================================
