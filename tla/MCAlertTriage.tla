--------------------------- MODULE MCAlertTriage ---------------------------
(* Small instances of AlertTriage for TLC. *)
EXTENDS AlertTriage, TLC

TwoLevels == {"P1", "P2"}
AllSecond == [a \in Alerts |-> "P2"]

TriageSymmetry == Permutations(Alerts) \cup Permutations(Manual) \cup Permutations(Patchers)
===========================================================================
