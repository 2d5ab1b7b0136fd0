----------------------------- MODULE AlertRules -----------------------------
(***************************************************************************)
(* The rules by which the alert engine turns the results of an analysis    *)
(* into alerts: which signals a result fires, how they are classified,     *)
(* which results share an alert, and what an alert says of its group.      *)
(*                                                                         *)
(* Results arrive from SQL in descending order of risk, ties in any order. *)
(* Risk is in hundredths.  A feature is abstracted to whether it reaches   *)
(* its threshold where only that matters.                                  *)
(***************************************************************************)
EXTENDS Integers, Sequences, FiniteSets

CONSTANTS
  Results,     \* the results a model may produce
  Buckets,     \* five-minute buckets a transaction may fall in
  Origins,     \* country and network a transaction may come from
  Clusters,    \* behavioural clusters
  MaxResults   \* bound on the results of an analysis

FROZEN_SUSPICIOUS_CATBOOST_CLASSES ==
  {"peeling_chain", "mixing_like", "rapid_multihop", "coordinated_activity",
   "amount_anomaly"}
Labels == FROZEN_SUSPICIOUS_CATBOOST_CLASSES \cup
  {"normal", "benign_high_volume", "transaction_burst", "high_fan_in",
   "high_fan_out", "temporal_anomaly"}

NoCluster == "none"

\* One row of ml_results with what the engine reads of its features.
Result == [risk: 0..100,
           label: Labels,
           confident: BOOLEAN,            \* label confidence at least 0.55
           burst: BOOLEAN,                \* 5 tx in a minute or 12 in five
           hub: BOOLEAN,                  \* component, fan or reuse threshold
           oddPort: BOOLEAN,              \* not the standard peer port
           clusterSize: Nat,
           clusterBusy: BOOLEAN,          \* at least 8 transactions
           cluster: Clusters \cup {NoCluster},
           bucket: Buckets,
           origin: Origins]

ASSUME ResultsAssumption == Results \subseteq Result
ASSUME MaxAssumption == MaxResults \in Nat

VARIABLES
  rows,    \* results evaluated so far, in the order they were read
  alerts   \* alerts stored once every result has been evaluated

vars == <<rows, alerts>>

-----------------------------------------------------------------------------
(* Signals and classification *)

Categories == {"ml_xgboost", "catboost_typology", "temporal_engine",
               "graph_topology", "network_telemetry", "entity_cluster"}

Fires(r, category) ==
  CASE category = "ml_xgboost" -> r.risk >= 50
    [] category = "catboost_typology" ->
         r.label \in FROZEN_SUSPICIOUS_CATBOOST_CLASSES /\ r.confident
    [] category = "temporal_engine" -> r.burst \/ r.label = "transaction_burst"
    [] category = "graph_topology" -> r.hub \/ r.label \in {"high_fan_in", "high_fan_out"}
    [] category = "network_telemetry" -> r.oddPort
    [] OTHER -> r.clusterSize >= 5 \/ r.clusterBusy

\* (Plausible bug.) A risk score counts only with a suspicious typology.
SignalsTypologyFirst(r) ==
  {c \in Categories : Fires(r, c) /\ (c = "ml_xgboost" => Fires(r, "catboost_typology"))}

Signals(r) == {c \in Categories : Fires(r, c)}

\* Two kinds of signal make a compound alert; a lone one has a type of its own.
LoneType == [entity_cluster |-> "ENTITY_CLUSTER_ACTIVITY",
             catboost_typology |-> "BEHAVIOR_ANOMALY",
             ml_xgboost |-> "HIGH_RISK_TRANSACTION",
             temporal_engine |-> "TEMPORAL_BURST",
             graph_topology |-> "GRAPH_ANOMALY",
             network_telemetry |-> "NETWORK_ANOMALY"]

Compound(r) == \E c, d \in Signals(r) : c # d

AlertType(r) ==
  IF Compound(r) THEN "MULTI_SIGNAL" ELSE LoneType[CHOOSE c \in Signals(r) : TRUE]

\* (Plausible bug.) Cluster activity is always critical.
SeverityClusterCritical(r) ==
  LET type == AlertType(r) IN
  IF \/ type \in {"MULTI_SIGNAL", "HIGH_RISK_TRANSACTION"} /\ r.risk >= 67
     \/ type = "ENTITY_CLUSTER_ACTIVITY"
    THEN "critical"
  ELSE IF \/ type \in {"MULTI_SIGNAL", "HIGH_RISK_TRANSACTION", "BEHAVIOR_ANOMALY"}
          \/ type = "TEMPORAL_BURST" /\ r.risk >= 50
    THEN "high"
  ELSE "medium"

Severity(r) ==
  LET type == AlertType(r) IN
  IF type \in {"MULTI_SIGNAL", "HIGH_RISK_TRANSACTION"} /\ r.risk >= 67
    THEN "critical"
  ELSE IF \/ type \in {"MULTI_SIGNAL", "HIGH_RISK_TRANSACTION",
                       "ENTITY_CLUSTER_ACTIVITY", "BEHAVIOR_ANOMALY"}
          \/ type = "TEMPORAL_BURST" /\ r.risk >= 50
    THEN "high"
  ELSE "medium"

\* (Plausible bug.) A benign label demotes an alert on risk alone.
PriorityBenignDemoted(r) ==
  LET type == AlertType(r) IN
  IF \/ type = "MULTI_SIGNAL"
     \/ type = "HIGH_RISK_TRANSACTION" /\ r.risk >= 85
    THEN "P1"
  ELSE IF \/ type \in {"ENTITY_CLUSTER_ACTIVITY", "BEHAVIOR_ANOMALY"}
          \/ type = "HIGH_RISK_TRANSACTION" /\ r.label # "benign_high_volume"
          \/ type = "TEMPORAL_BURST" /\ r.risk >= 50
    THEN "P2"
  ELSE "P3"

Priority(r) ==
  LET type == AlertType(r) IN
  IF \/ type = "MULTI_SIGNAL"
     \/ type = "HIGH_RISK_TRANSACTION" /\ r.risk >= 85
    THEN "P1"
  ELSE IF \/ type \in {"HIGH_RISK_TRANSACTION", "ENTITY_CLUSTER_ACTIVITY",
                       "BEHAVIOR_ANOMALY"}
          \/ type = "TEMPORAL_BURST" /\ r.risk >= 50
    THEN "P2"
  ELSE "P3"

-----------------------------------------------------------------------------
(* Grouping *)

\* What the i-th row is grouped by, within its alert type.
GroupingKey(i) ==
  LET r == rows[i] IN
  CASE r.clusterSize >= 3 /\ r.cluster # NoCluster -> <<"cluster", r.cluster>>
    [] AlertType(r) = "TEMPORAL_BURST" -> <<"burst", r.bucket, r.label>>
    [] AlertType(r) = "NETWORK_ANOMALY" -> <<"net", r.origin>>
    [] OTHER -> <<"tx", i>>

Suspicious == {i \in DOMAIN rows : Signals(rows[i]) # {}}

Together(i, j) == /\ AlertType(rows[i]) = AlertType(rows[j])
                  /\ GroupingKey(i) = GroupingKey(j)

Groups == {{j \in Suspicious : Together(i, j)} : i \in Suspicious}

\* Sorting by risk is stable, so the anchor is the first row of highest risk.
Tops(group) == {i \in group : \A j \in group : rows[j].risk <= rows[i].risk}
Anchor(group) == CHOOSE i \in Tops(group) : \A j \in Tops(group) : i <= j

\* The alert of a group, told from one of its rows.
Alert(group, anchor) ==
  LET a == rows[anchor]
      critical == {i \in group : rows[i].risk >= 67}
      severity == IF critical # {} THEN "critical" ELSE Severity(a)
  IN [members |-> group,
      type |-> AlertType(a),
      risk |-> a.risk,
      behavior |-> a.label,
      severity |-> severity,
      priority |-> IF severity = "critical" THEN "P1" ELSE Priority(a)]

-----------------------------------------------------------------------------
Init == rows = <<>> /\ alerts = {}

\* The next row of SELECT ... ORDER BY risk_score DESC.
EvaluateRow ==
  /\ alerts = {}
  /\ Len(rows) < MaxResults
  /\ \E r \in Results :
       /\ \A i \in DOMAIN rows : r.risk <= rows[i].risk
       /\ rows' = Append(rows, r)
  /\ UNCHANGED alerts

\* One insert_alert per group, after the last row.
StoreAlerts ==
  /\ alerts = {}
  /\ alerts' = {Alert(g, Anchor(g)) : g \in Groups}
  /\ UNCHANGED rows

Next == EvaluateRow \/ StoreAlerts
Spec == Init /\ [][Next]_vars
-----------------------------------------------------------------------------
Severities == {"critical", "high", "medium"}
Priorities == {"P1", "P2", "P3"}
AlertTypes == {"MULTI_SIGNAL", "ENTITY_CLUSTER_ACTIVITY", "BEHAVIOR_ANOMALY",
               "HIGH_RISK_TRANSACTION", "TEMPORAL_BURST", "GRAPH_ANOMALY",
               "NETWORK_ANOMALY"}

TypeOK ==
  /\ rows \in Seq(Results)
  /\ alerts \subseteq [members: SUBSET Nat, type: AlertTypes, risk: 0..100,
                       behavior: Labels, severity: Severities, priority: Priorities]

\* An alert is critical exactly when one of its results reaches the critical
\* band: the severities of the lone signals never say critical on their own,
\* and no group hides a critical result.
CriticalIffCriticalRisk ==
  \A a \in alerts : a.severity = "critical" <=> \E i \in a.members : rows[i].risk >= 67

\* Every critical alert is P1, and an alert is P1 only for a critical result
\* or for results that fired at least two kinds of signal.
TopPriorityIsEarned ==
  \A a \in alerts : a.priority = "P1" <=>
    \/ a.severity = "critical"
    \/ \A i \in a.members : Cardinality(Signals(rows[i])) >= 2

\* The two scales of an alert agree with each other and with its results,
\* whichever of the four ways to reach an alert of that type was taken.
BandsAgree == CriticalIffCriticalRisk /\ TopPriorityIsEarned

\* Every result of high risk is in exactly one alert.
HighRiskAlertedOnce ==
  alerts # {} => \A i \in DOMAIN rows : rows[i].risk >= 50 =>
                   Cardinality({a \in alerts : i \in a.members}) = 1

\* Results tied for the highest risk of a group come from SQL in any order:
\* whichever becomes the anchor, the alert is as severe and as urgent.  (The
\* behaviour it reports is the anchor's own.)
TiesDoNotMatter ==
  \A a \in alerts : \A t \in Tops(a.members) :
    [Alert(a.members, t) EXCEPT !.behavior = a.behavior] = a
=============================================================================
