------------------------ MODULE MCDatasetLifecycle ------------------------
(* Small instances of DatasetLifecycle for TLC. *)
EXTENDS DatasetLifecycle, TLC

\* Every run competes for one dataset whose file fills every table.
TheDataset == CHOOSE d \in Datasets : TRUE
OneDatasetTarget == [r \in Runs |-> TheDataset]
OneDatasetContent == [d \in Datasets |-> Tables]

EntitySymmetry == Permutations(Entities)
===========================================================================
