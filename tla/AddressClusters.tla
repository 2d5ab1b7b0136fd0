-------------------------- MODULE AddressClusters --------------------------
(***************************************************************************)
(* What entity clustering promises, whatever forest it keeps: the          *)
(* addresses seen so far are divided into clusters, and a cluster is       *)
(* created with one address or by joining two.  Nothing is ever split.     *)
(***************************************************************************)
CONSTANT Addresses

VARIABLE clusters   \* the clusters of the addresses seen so far

Init == clusters = {}

\* An address is seen for the first time and is a cluster of its own.
See(a) ==
  /\ a \notin UNION clusters
  /\ clusters' = clusters \cup {{a}}

\* Two clusters turn out to be one entity.
Merge(c, d) ==
  /\ c # d
  /\ clusters' = (clusters \ {c, d}) \cup {c \cup d}

Next ==
  \/ \E a \in Addresses : See(a)
  \/ \E c, d \in clusters : Merge(c, d)

Spec == Init /\ [][Next]_clusters
=============================================================================
