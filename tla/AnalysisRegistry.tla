-------------------------- MODULE AnalysisRegistry --------------------------
(***************************************************************************)
(* What the analysis service promises its clients, without requests,       *)
(* locks, tables or workers: a run is submitted when its dataset has no    *)
(* other run in progress, starts, publishes its results in one step and    *)
(* only then completes; a failed run has published nothing; removing a     *)
(* dataset withdraws results and runs.                                     *)
(***************************************************************************)
CONSTANTS Datasets, Runs, Target

VARIABLES
  status,     \* what polling the run returns
  published,  \* runs whose results can be read
  withdrawn   \* datasets whose removal has begun

regVars == <<status, published, withdrawn>>

InProgress(r) == status[r] \in {"pending", "running"}
SiblingsOf(d) == {r \in Runs : Target[r] = d}

RegistryInit ==
  /\ status = [r \in Runs |-> "absent"]
  /\ published = {}
  /\ withdrawn = {}

Submit(r) ==
  /\ status[r] = "absent"
  /\ \A s \in SiblingsOf(Target[r]) : ~InProgress(s)
  /\ status' = [status EXCEPT ![r] = "pending"]
  /\ UNCHANGED <<published, withdrawn>>

Start(r) ==
  /\ status[r] = "pending"
  /\ status' = [status EXCEPT ![r] = "running"]
  /\ UNCHANGED <<published, withdrawn>>

\* A removal does not stop a worker: it may still publish, unseen by pollers.
Publish(r) ==
  /\ r \notin published
  /\ \/ status[r] = "running"
     \/ status[r] = "absent" /\ Target[r] \in withdrawn
  /\ published' = published \cup {r}
  /\ UNCHANGED <<status, withdrawn>>

Complete(r) ==
  /\ status[r] = "running"
  /\ r \in published \/ Target[r] \in withdrawn
  /\ status' = [status EXCEPT ![r] = "completed"]
  /\ UNCHANGED <<published, withdrawn>>

Fail(r) ==
  /\ InProgress(r)
  /\ r \notin published
  /\ status' = [status EXCEPT ![r] = "failed"]
  /\ UNCHANGED <<published, withdrawn>>

Remove(d) ==
  /\ withdrawn' = withdrawn \cup {d}
  /\ published' \in {published, published \ SiblingsOf(d)}
  /\ status' \in {status, [r \in Runs |-> IF Target[r] = d THEN "absent" ELSE status[r]]}

RegistryNext ==
  \/ \E r \in Runs : Submit(r) \/ Start(r) \/ Publish(r) \/ Complete(r) \/ Fail(r)
  \/ \E d \in Datasets : Remove(d)

RegistrySpec == RegistryInit /\ [][RegistryNext]_regVars
=============================================================================
