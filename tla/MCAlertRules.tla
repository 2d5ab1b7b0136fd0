---------------------------- MODULE MCAlertRules ----------------------------
(* Small instances of AlertRules for TLC. *)
EXTENDS AlertRules

\* Both sides of every threshold of risk, one label of each kind, and the
\* cluster sizes below grouping, at grouping and at activity.  A feature whose
\* only effect is a signal another field fires as well keeps one value.
SomeResults ==
  {r \in [risk: {49, 50, 67, 85},
          label: {"normal", "benign_high_volume", "peeling_chain", "transaction_burst"},
          confident: {TRUE}, burst: {FALSE}, hub: BOOLEAN, oddPort: BOOLEAN,
          clusterSize: {2, 3, 5}, clusterBusy: {FALSE},
          cluster: {"c1", NoCluster}, bucket: {1}, origin: {"o1"}] :
     /\ r.clusterSize = 2 <=> r.cluster = NoCluster
     /\ ~(r.hub /\ r.oddPort)}
=============================================================================
