----------------------- MODULE DatasetLifecycleProofs -----------------------
(***************************************************************************)
(* Proofs about DatasetLifecycle, for any number of datasets, runs,        *)
(* entities and restarts.                                                  *)
(***************************************************************************)
EXTENDS DatasetLifecycle, TLAPS

\* What the worker's place says about the status column of its run.  A run
\* whose worker is gone ("done") may have any status: a restart forgets the
\* worker and keeps the row.
PhaseTellsStatus ==
  \A r \in Runs :
    /\ phase[r] \in {"idle", "checked"} => run[r] = "absent"
    /\ phase[r] \in {"inserted", "queued"} => run[r] \in {"pending", "absent"}
    /\ phase[r] \in Executing => run[r] \in {"running", "absent"}
    /\ phase[r] = "fail" => run[r] \in {"pending", "running", "absent"}
    /\ phase[r] = "alert" => run[r] \in {"completed", "absent"}

\* The places of a run before its results are committed.
Unpublished == {"idle", "checked", "inserted", "queued", "check", "infer",
                "persist", "persisting"} \cup Loading

\* What the worker's place says about the rows of ml_results.
PhaseTellsResults ==
  \A r \in Runs :
    /\ phase[r] \in Unpublished => results[r] = {}
    /\ phase[r] \in {"persist", "persisting", "complete"} => output[r] # {}
    /\ phase[r] = "complete" =>
         \/ results[r] = output[r]
         \/ results[r] = {} /\ Target[r] \in erased
    /\ phase[r] = "fail" /\ run[r] # "absent" => results[r] = {}
    /\ Target[r] \notin erased /\ run[r] = "absent" =>
         phase[r] \in {"idle", "checked", "done"} /\ results[r] = {}

IInv ==
  /\ TypeOK
  /\ PhaseTellsStatus
  /\ OneActiveRun
  /\ PhaseTellsResults
  /\ ResultsMatchOutcome
-----------------------------------------------------------------------------
(* Type correctness. *)

LEMMA TypeInit == Init => TypeOK
  BY BoundAssumption DEF Init, TypeOK, DatasetStatus, RunStatus, UploadPhases,
     RemovalPhases, RunPhases

\* No step of any request, worker, deletion or restart leaves the types.
LEMMA TypeStep == TypeOK /\ [Next]_vars => TypeOK'
<1> SUFFICES ASSUME TypeOK, [Next]_vars PROVE TypeOK'
  OBVIOUS
<1> USE DEF TypeOK, DatasetStatus, RunStatus, Active, UploadPhases, IngestPhases,
       RemovalPhases, Erasing, RunPhases, Executing, Loading, Tables, durable
<1>1. ASSUME NEW d \in Datasets, StoreFile(d) PROVE TypeOK'
  BY <1>1 DEF StoreFile
<1>2. ASSUME NEW d \in Datasets, RegisterDataset(d) PROVE TypeOK'
  BY <1>2 DEF RegisterDataset
<1>3. ASSUME NEW d \in Datasets, BeginIngest(d) PROVE TypeOK'
  BY <1>3 DEF BeginIngest
<1>4. ASSUME NEW d \in Datasets, IngestTable(d) PROVE TypeOK'
  BY <1>4 DEF IngestTable, NextIngest
<1>5. ASSUME NEW d \in Datasets, IngestFails(d) PROVE TypeOK'
  BY <1>5 DEF IngestFails
<1>6. ASSUME NEW d \in Datasets, FinishIngest(d) PROVE TypeOK'
  BY <1>6 DEF FinishIngest
<1>7. ASSUME NEW d \in Datasets, CleanupIngest(d) PROVE TypeOK'
  BY <1>7 DEF CleanupIngest
<1>8. ASSUME NEW d \in Datasets, RequestDelete(d) PROVE TypeOK'
  BY <1>8 DEF RequestDelete
<1>9. ASSUME NEW d \in Datasets, RemoveFiles(d) PROVE TypeOK'
  BY <1>9 DEF RemoveFiles
<1>10. ASSUME NEW d \in Datasets, LookupDataset(d) PROVE TypeOK'
  BY <1>10 DEF LookupDataset
<1>11. ASSUME NEW d \in Datasets, EraseTable(d) PROVE TypeOK'
  BY <1>11 DEF EraseTable, NextErase
<1>12. ASSUME NEW r \in Runs, CheckDataset(r) PROVE TypeOK'
  BY <1>12, TargetAssumption, ContentAssumption DEF CheckDataset
<1>13. ASSUME NEW r \in Runs, InsertRun(r) PROVE TypeOK'
  BY <1>13, TargetAssumption, ContentAssumption DEF InsertRun
<1>14. ASSUME NEW r \in Runs, RespondTrigger(r) PROVE TypeOK'
  BY <1>14, TargetAssumption, ContentAssumption DEF RespondTrigger
<1>15. ASSUME NEW r \in Runs, StartRun(r) PROVE TypeOK'
  BY <1>15, TargetAssumption, ContentAssumption DEF StartRun, SetRunStatus
<1>16. ASSUME NEW r \in Runs, LoadTable(r) PROVE TypeOK'
  BY <1>16, TargetAssumption, ContentAssumption DEF LoadTable, LoadedTable, NextLoad, AnalysisTables
<1>17. ASSUME NEW r \in Runs, LoadFails(r) PROVE TypeOK'
  BY <1>17, TargetAssumption, ContentAssumption DEF LoadFails
<1>18. ASSUME NEW r \in Runs, CheckLoaded(r) PROVE TypeOK'
  BY <1>18, TargetAssumption, ContentAssumption DEF CheckLoaded, AnalysisTables
<1>19. ASSUME NEW r \in Runs, Infer(r) PROVE TypeOK'
  BY <1>19, TargetAssumption, ContentAssumption DEF Infer
<1>20. ASSUME NEW r \in Runs, RunRaises(r) PROVE TypeOK'
  BY <1>20, TargetAssumption, ContentAssumption DEF RunRaises
<1>21. ASSUME NEW r \in Runs, BeginPersist(r) PROVE TypeOK'
  BY <1>21, TargetAssumption, ContentAssumption DEF BeginPersist
<1>22. ASSUME NEW r \in Runs, PersistResult(r) PROVE TypeOK'
  BY <1>22, TargetAssumption, ContentAssumption DEF PersistResult
<1>23. ASSUME NEW r \in Runs, CommitResults(r) PROVE TypeOK'
  BY <1>23, TargetAssumption, ContentAssumption DEF CommitResults
<1>24. ASSUME NEW r \in Runs, RollbackResults(r) PROVE TypeOK'
  BY <1>24, TargetAssumption, ContentAssumption DEF RollbackResults
<1>25. ASSUME NEW r \in Runs, CompleteRun(r) PROVE TypeOK'
  BY <1>25, TargetAssumption, ContentAssumption DEF CompleteRun, SetRunStatus
<1>26. ASSUME NEW r \in Runs, GenerateAlerts(r) PROVE TypeOK'
  BY <1>26, TargetAssumption, ContentAssumption DEF GenerateAlerts
<1>27. ASSUME NEW r \in Runs, FailRun(r) PROVE TypeOK'
  BY <1>27, TargetAssumption, ContentAssumption DEF FailRun
<1>28. CASE Crash
  BY <1>28, BoundAssumption DEF Crash
<1>29. CASE UNCHANGED vars
  BY <1>29 DEF vars
<1> QED
  BY <1>1, <1>2, <1>3, <1>4, <1>5, <1>6, <1>7, <1>8, <1>9, <1>10, <1>11, <1>12, <1>13, <1>14, <1>15, <1>16, <1>17, <1>18, <1>19, <1>20, <1>21, <1>22, <1>23, <1>24, <1>25, <1>26, <1>27, <1>28, <1>29 DEF Next, UploadStep, DeleteStep, RunStep

\* Every reachable state is well typed.
THEOREM TypeCorrect == Spec => []TypeOK
<1>1. TypeOK /\ [Next]_vars => TypeOK'
  BY TypeStep
<1> QED
  BY TypeInit, <1>1, PTL DEF Spec
-----------------------------------------------------------------------------
(* One active run per dataset. *)

StatusInv == TypeOK /\ PhaseTellsStatus /\ OneActiveRun

LEMMA StatusInit == Init => StatusInv
<1> SUFFICES ASSUME Init PROVE PhaseTellsStatus /\ OneActiveRun
  BY TypeInit DEF StatusInv
<1> QED
  BY DEF Init, PhaseTellsStatus, OneActiveRun, Active, Executing, Loading

\* Steps that touch neither a run's status nor its worker's place.
LEMMA DatasetStepsKeepRuns ==
  ASSUME NEW d \in Datasets,
         \/ StoreFile(d) \/ UploadStep(d) \/ RequestDelete(d)
         \/ RemoveFiles(d) \/ LookupDataset(d)
  PROVE  UNCHANGED <<run, results, phase, output, txn, erased>>
  BY DEF StoreFile, UploadStep, RegisterDataset, BeginIngest, IngestTable, IngestFails,
     FinishIngest, CleanupIngest, RequestDelete, RemoveFiles, LookupDataset, durable

\* Every step keeps each worker in agreement with the status of its run, and
\* the dataset with at most one active run: a worker only moves its own run
\* forward, a delete only makes runs disappear.
LEMMA StatusStep == StatusInv /\ [Next]_vars => PhaseTellsStatus' /\ OneActiveRun'
<1> SUFFICES ASSUME StatusInv, [Next]_vars PROVE PhaseTellsStatus' /\ OneActiveRun'
  OBVIOUS
<1> USE DEF StatusInv, TypeOK, PhaseTellsStatus, OneActiveRun, Active, RunStatus,
       RunPhases, Executing, Loading, durable
<1>1. ASSUME NEW d \in Datasets,
             \/ StoreFile(d) \/ UploadStep(d) \/ RequestDelete(d)
             \/ RemoveFiles(d) \/ LookupDataset(d)
      PROVE PhaseTellsStatus' /\ OneActiveRun'
  <2>1. UNCHANGED <<run, phase>>
    BY <1>1, DatasetStepsKeepRuns
  <2> QED BY <2>1
<1>2. ASSUME NEW d \in Datasets, EraseTable(d) PROVE PhaseTellsStatus' /\ OneActiveRun'
  <2>1. /\ \A r \in Runs : run'[r] \in {run[r], "absent"}
        /\ UNCHANGED phase
    BY <1>2 DEF EraseTable
  <2> QED BY <2>1
<1>3. ASSUME NEW r \in Runs, CheckDataset(r) PROVE PhaseTellsStatus' /\ OneActiveRun'
  BY <1>3, TargetAssumption DEF CheckDataset
<1>4. ASSUME NEW r \in Runs, InsertRun(r) PROVE PhaseTellsStatus' /\ OneActiveRun'
  BY <1>4, TargetAssumption DEF InsertRun, RunsOn
<1>5. ASSUME NEW r \in Runs, RespondTrigger(r) PROVE PhaseTellsStatus' /\ OneActiveRun'
  BY <1>5, TargetAssumption DEF RespondTrigger
<1>6. ASSUME NEW r \in Runs, StartRun(r) PROVE PhaseTellsStatus' /\ OneActiveRun'
  BY <1>6, TargetAssumption DEF StartRun, SetRunStatus
<1>7. ASSUME NEW r \in Runs, LoadTable(r) PROVE PhaseTellsStatus' /\ OneActiveRun'
  BY <1>7, TargetAssumption DEF LoadTable, NextLoad
<1>8. ASSUME NEW r \in Runs, LoadFails(r) PROVE PhaseTellsStatus' /\ OneActiveRun'
  BY <1>8, TargetAssumption DEF LoadFails
<1>9. ASSUME NEW r \in Runs, CheckLoaded(r) PROVE PhaseTellsStatus' /\ OneActiveRun'
  BY <1>9, TargetAssumption DEF CheckLoaded
<1>10. ASSUME NEW r \in Runs, Infer(r) PROVE PhaseTellsStatus' /\ OneActiveRun'
  BY <1>10, TargetAssumption DEF Infer
<1>11. ASSUME NEW r \in Runs, RunRaises(r) PROVE PhaseTellsStatus' /\ OneActiveRun'
  BY <1>11, TargetAssumption DEF RunRaises
<1>12. ASSUME NEW r \in Runs, BeginPersist(r) PROVE PhaseTellsStatus' /\ OneActiveRun'
  BY <1>12, TargetAssumption DEF BeginPersist
<1>13. ASSUME NEW r \in Runs, PersistResult(r) PROVE PhaseTellsStatus' /\ OneActiveRun'
  BY <1>13, TargetAssumption DEF PersistResult
<1>14. ASSUME NEW r \in Runs, CommitResults(r) PROVE PhaseTellsStatus' /\ OneActiveRun'
  BY <1>14, TargetAssumption DEF CommitResults
<1>15. ASSUME NEW r \in Runs, RollbackResults(r) PROVE PhaseTellsStatus' /\ OneActiveRun'
  BY <1>15, TargetAssumption DEF RollbackResults
<1>16. ASSUME NEW r \in Runs, CompleteRun(r) PROVE PhaseTellsStatus' /\ OneActiveRun'
  BY <1>16, TargetAssumption DEF CompleteRun, SetRunStatus
<1>17. ASSUME NEW r \in Runs, GenerateAlerts(r) PROVE PhaseTellsStatus' /\ OneActiveRun'
  BY <1>17, TargetAssumption DEF GenerateAlerts
<1>18. ASSUME NEW r \in Runs, FailRun(r) PROVE PhaseTellsStatus' /\ OneActiveRun'
  BY <1>18, TargetAssumption DEF FailRun
<1>19. CASE Crash
  BY <1>19 DEF Crash
<1>20. CASE UNCHANGED vars
  BY <1>20 DEF vars
<1> QED
  BY <1>1, <1>2, <1>3, <1>4, <1>5, <1>6, <1>7, <1>8, <1>9, <1>10, <1>11, <1>12, <1>13, <1>14, <1>15, <1>16, <1>17, <1>18, <1>19, <1>20 DEF Next, DeleteStep, RunStep

\* At most one run of a dataset is pending or running at any time, for any
\* number of concurrent triggers, workers, deletions and restarts.
THEOREM OneRunAtATime == Spec => []OneActiveRun
<1>1. Init => StatusInv
  BY StatusInit
<1>2. StatusInv /\ [Next]_vars => StatusInv'
  BY TypeStep, StatusStep DEF StatusInv
<1>3. StatusInv => OneActiveRun
  BY DEF StatusInv
<1> QED
  BY <1>1, <1>2, <1>3, PTL DEF Spec
-----------------------------------------------------------------------------
(* Outcomes are final. *)

\* Only a worker that still owns an unfinished run writes an outcome.
LEMMA OutcomeStep ==
  ASSUME StatusInv, [Next]_vars, NEW r \in Runs, run[r] \in {"completed", "failed"}
  PROVE  run'[r] \in {run[r], "absent"}
<1> USE DEF StatusInv, TypeOK, PhaseTellsStatus, RunStatus, Active, Executing, durable
<1>1. ASSUME NEW d \in Datasets,
             \/ StoreFile(d) \/ UploadStep(d) \/ RequestDelete(d)
             \/ RemoveFiles(d) \/ LookupDataset(d)
      PROVE run'[r] = run[r]
  BY <1>1, DatasetStepsKeepRuns
<1>2. ASSUME NEW d \in Datasets, EraseTable(d) PROVE run'[r] \in {run[r], "absent"}
  BY <1>2 DEF EraseTable
<1>3. ASSUME NEW q \in Runs, InsertRun(q) PROVE run'[r] = run[r]
  BY <1>3 DEF InsertRun
<1>4. ASSUME NEW q \in Runs, StartRun(q) \/ CompleteRun(q) PROVE run'[r] = run[r]
  BY <1>4 DEF StartRun, CompleteRun, SetRunStatus
<1>5. ASSUME NEW q \in Runs, FailRun(q) PROVE run'[r] = run[r]
  BY <1>5 DEF FailRun
<1>6. ASSUME NEW q \in Runs,
             \/ CheckDataset(q) \/ RespondTrigger(q) \/ LoadTable(q) \/ LoadFails(q)
             \/ CheckLoaded(q) \/ Infer(q) \/ RunRaises(q) \/ BeginPersist(q)
             \/ PersistResult(q) \/ CommitResults(q) \/ RollbackResults(q)
             \/ GenerateAlerts(q)
      PROVE run' = run
  BY <1>6 DEF CheckDataset, RespondTrigger, LoadTable, LoadFails, CheckLoaded, Infer,
     RunRaises, BeginPersist, PersistResult, CommitResults, RollbackResults, GenerateAlerts
<1>7. Crash \/ UNCHANGED vars => run' = run
  BY DEF Crash, vars
<1> QED
  BY <1>1, <1>2, <1>3, <1>4, <1>5, <1>6, <1>7 DEF Next, DeleteStep, RunStep
-----------------------------------------------------------------------------
(* Results are stored whole, and exactly for the runs that complete. *)

LEMMA ResultsInit == Init => IInv
<1> SUFFICES ASSUME Init PROVE PhaseTellsResults /\ ResultsMatchOutcome
  BY StatusInit DEF IInv, StatusInv, ResultsMatchOutcome
<1> QED
  BY DEF Init, PhaseTellsResults, ResultsMatchOutcome, ResultsAllOrNothing,
     CompletedHasResults, FailedHasNoResults

\* Each step keeps the stored rows in agreement with the worker's place and
\* with the run's outcome.
LEMMA ResultsStep == IInv /\ [Next]_vars => PhaseTellsResults' /\ ResultsMatchOutcome'
<1> SUFFICES ASSUME IInv, [Next]_vars PROVE PhaseTellsResults' /\ ResultsMatchOutcome'
  OBVIOUS
<1> USE DEF IInv, TypeOK, PhaseTellsStatus, PhaseTellsResults, ResultsMatchOutcome,
       ResultsAllOrNothing, CompletedHasResults, FailedHasNoResults, Active, RunStatus,
       RunPhases, Executing, Loading, Unpublished, durable
<1>1. ASSUME NEW d \in Datasets,
             \/ StoreFile(d) \/ UploadStep(d) \/ RequestDelete(d)
             \/ RemoveFiles(d) \/ LookupDataset(d)
      PROVE PhaseTellsResults' /\ ResultsMatchOutcome'
  <2>1. UNCHANGED <<run, results, phase, output, txn, erased>>
    BY <1>1, DatasetStepsKeepRuns
  <2> QED BY <2>1
<1>2. ASSUME NEW d \in Datasets, EraseTable(d) PROVE PhaseTellsResults' /\ ResultsMatchOutcome'
  <2>1. /\ \A r \in Runs : Target[r] = d => run'[r] \in {run[r], "absent"}
                                          /\ results'[r] \in {results[r], {}}
        /\ \A r \in Runs : Target[r] # d => run'[r] = run[r] /\ results'[r] = results[r]
        /\ erased' = erased \cup {d}
        /\ UNCHANGED <<phase, output, txn>>
    BY <1>2 DEF EraseTable
  <2> QED BY <2>1
<1>3. ASSUME NEW r \in Runs, CheckDataset(r) PROVE PhaseTellsResults' /\ ResultsMatchOutcome'
  BY <1>3, TargetAssumption DEF CheckDataset
<1>4. ASSUME NEW r \in Runs, InsertRun(r) PROVE PhaseTellsResults' /\ ResultsMatchOutcome'
  BY <1>4, TargetAssumption DEF InsertRun, RunsOn
<1>5. ASSUME NEW r \in Runs, RespondTrigger(r) PROVE PhaseTellsResults' /\ ResultsMatchOutcome'
  BY <1>5, TargetAssumption DEF RespondTrigger
<1>6. ASSUME NEW r \in Runs, StartRun(r) PROVE PhaseTellsResults' /\ ResultsMatchOutcome'
  BY <1>6, TargetAssumption DEF StartRun, SetRunStatus
<1>7. ASSUME NEW r \in Runs, LoadTable(r) PROVE PhaseTellsResults' /\ ResultsMatchOutcome'
  BY <1>7, TargetAssumption DEF LoadTable, NextLoad
<1>8. ASSUME NEW r \in Runs, LoadFails(r) PROVE PhaseTellsResults' /\ ResultsMatchOutcome'
  BY <1>8, TargetAssumption DEF LoadFails
<1>9. ASSUME NEW r \in Runs, CheckLoaded(r) PROVE PhaseTellsResults' /\ ResultsMatchOutcome'
  BY <1>9, TargetAssumption DEF CheckLoaded
<1>10. ASSUME NEW r \in Runs, Infer(r) PROVE PhaseTellsResults' /\ ResultsMatchOutcome'
  BY <1>10, TargetAssumption DEF Infer
<1>11. ASSUME NEW r \in Runs, RunRaises(r) PROVE PhaseTellsResults' /\ ResultsMatchOutcome'
  BY <1>11, TargetAssumption DEF RunRaises
<1>12. ASSUME NEW r \in Runs, BeginPersist(r) PROVE PhaseTellsResults' /\ ResultsMatchOutcome'
  BY <1>12, TargetAssumption DEF BeginPersist
<1>13. ASSUME NEW r \in Runs, PersistResult(r) PROVE PhaseTellsResults' /\ ResultsMatchOutcome'
  BY <1>13, TargetAssumption DEF PersistResult
<1>14. ASSUME NEW r \in Runs, CommitResults(r) PROVE PhaseTellsResults' /\ ResultsMatchOutcome'
  BY <1>14, TargetAssumption DEF CommitResults
<1>15. ASSUME NEW r \in Runs, RollbackResults(r) PROVE PhaseTellsResults' /\ ResultsMatchOutcome'
  BY <1>15, TargetAssumption DEF RollbackResults
<1>16. ASSUME NEW r \in Runs, CompleteRun(r) PROVE PhaseTellsResults' /\ ResultsMatchOutcome'
  BY <1>16, TargetAssumption DEF CompleteRun, SetRunStatus
<1>17. ASSUME NEW r \in Runs, GenerateAlerts(r) PROVE PhaseTellsResults' /\ ResultsMatchOutcome'
  BY <1>17, TargetAssumption DEF GenerateAlerts
<1>18. ASSUME NEW r \in Runs, FailRun(r) PROVE PhaseTellsResults' /\ ResultsMatchOutcome'
  BY <1>18, TargetAssumption DEF FailRun
<1>19. CASE Crash
  BY <1>19 DEF Crash
<1>20. CASE UNCHANGED vars
  BY <1>20 DEF vars
<1> QED
  BY <1>1, <1>2, <1>3, <1>4, <1>5, <1>6, <1>7, <1>8, <1>9, <1>10, <1>11, <1>12, <1>13, <1>14, <1>15, <1>16, <1>17, <1>18, <1>19, <1>20 DEF Next, DeleteStep, RunStep

LEMMA InvStep == IInv /\ [Next]_vars => IInv'
<1> SUFFICES ASSUME IInv, [Next]_vars PROVE IInv'
  OBVIOUS
<1>1. StatusInv
  BY DEF IInv, StatusInv
<1>2. TypeOK' /\ PhaseTellsStatus' /\ OneActiveRun'
  BY <1>1, TypeStep, StatusStep DEF StatusInv
<1>3. PhaseTellsResults' /\ ResultsMatchOutcome'
  BY ResultsStep
<1> QED
  BY <1>2, <1>3 DEF IInv, ResultsMatchOutcome

\* The inductive invariant holds in every reachable state.
THEOREM Invariance == Spec => []IInv
  BY ResultsInit, InvStep, PTL DEF Spec

\* Stored results are all of the model's scores or none, whatever fails and
\* whenever the process stops; a completed run has them until its dataset is
\* deleted, and a failed one has none.
THEOREM ResultsAreWhole == Spec => []ResultsMatchOutcome
<1>1. IInv => ResultsMatchOutcome
  BY DEF IInv
<1> QED
  BY Invariance, <1>1, PTL

\* The rows of a finished run change only by vanishing with a delete: the one
\* step that adds rows belongs to a worker whose run is still in progress.
LEMMA FrozenStep ==
  ASSUME IInv, [Next]_vars, NEW r \in Runs,
         run[r] \in {"completed", "failed"}, results'[r] # results[r]
  PROVE  results'[r] = {} /\ Target[r] \in erased'
<1> USE DEF IInv, TypeOK, PhaseTellsStatus, Executing, durable
<1>1. ASSUME NEW d \in Datasets,
             \/ StoreFile(d) \/ UploadStep(d) \/ RequestDelete(d)
             \/ RemoveFiles(d) \/ LookupDataset(d)
      PROVE FALSE
  BY <1>1, DatasetStepsKeepRuns
<1>2. ASSUME NEW d \in Datasets, EraseTable(d)
      PROVE results'[r] = {} /\ Target[r] \in erased'
  BY <1>2 DEF EraseTable
<1>3. ASSUME NEW q \in Runs, CommitResults(q) PROVE FALSE
  BY <1>3 DEF CommitResults
<1>4. ASSUME NEW q \in Runs,
             \/ CheckDataset(q) \/ InsertRun(q) \/ RespondTrigger(q) \/ StartRun(q)
             \/ LoadTable(q) \/ LoadFails(q) \/ CheckLoaded(q) \/ Infer(q)
             \/ RunRaises(q) \/ BeginPersist(q) \/ PersistResult(q)
             \/ RollbackResults(q) \/ CompleteRun(q) \/ GenerateAlerts(q) \/ FailRun(q)
      PROVE FALSE
  BY <1>4 DEF CheckDataset, InsertRun, RespondTrigger, StartRun, LoadTable, LoadFails,
     CheckLoaded, Infer, RunRaises, BeginPersist, PersistResult, RollbackResults,
     CompleteRun, GenerateAlerts, FailRun
<1>5. ~Crash /\ ~UNCHANGED vars
  BY DEF Crash, vars
<1> QED
  BY <1>1, <1>2, <1>3, <1>4, <1>5 DEF Next, DeleteStep, RunStep

\* No step rewrites the outcome of a finished run or its results; only a
\* delete of its dataset ends them.
THEOREM FinishedRunsStay == Spec => FinishedRunsAreFrozen
<1>1. ASSUME IInv, [Next]_vars
      PROVE  \A r \in Runs : run[r] \in {"completed", "failed"} =>
               /\ run'[r] \in {run[r], "absent"}
               /\ results'[r] # results[r] => results'[r] = {} /\ Target[r] \in erased'
  <2>1. StatusInv
    BY <1>1 DEF IInv, StatusInv
  <2> QED
    BY <1>1, <2>1, OutcomeStep, FrozenStep
<1>2. IInv /\ [Next]_vars =>
        [\A r \in Runs : run[r] \in {"completed", "failed"} =>
            /\ run'[r] \in {run[r], "absent"}
            /\ results'[r] # results[r] => results'[r] = {} /\ Target[r] \in erased']_vars
  BY <1>1
<1> QED
  BY ResultsInit, InvStep, <1>2, PTL DEF Spec, FinishedRunsAreFrozen
-----------------------------------------------------------------------------
(* What the place of an upload and of a deletion says about the tables.     *)

\* The tables ingestion has been through at each of its phases.
Filled == [registered |-> {}, transactions |-> {}, outputs |-> {"transactions"},
           inputs |-> {"transactions", "outputs"},
           network |-> {"transactions", "outputs", "inputs"},
           addresses |-> {"transactions", "outputs", "inputs", "network"},
           finish |-> Tables]

\* A dataset has no row before it is registered, is processing until it is
\* finished or deleted, and has exactly the rows ingestion has got to.
UploadTellsRows ==
  \A d \in Datasets :
    /\ upload[d] \in {"idle", "stored"} =>
         dataset[d] = "absent" /\ rows[d] = {} /\ d \notin erased /\ removal[d] = "idle"
    /\ upload[d] \in {"registered"} \cup IngestPhases =>
         \/ dataset[d] = "processing"
         \/ dataset[d] = "absent" /\ d \in erased
    /\ upload[d] \in DOMAIN Filled => rows[d] = Content[d] \cap Filled[upload[d]]

\* The phases of a deletion after the network events are gone.
PastNetwork == {"inputs", "outputs", "transactions", "addresses", "datasets"}

\* A deletion takes the file before it looks at the rows, so ingestion has got
\* nowhere when one overtakes it; and the network events are the first rows to
\* go: while they are there, everything is.  A directory that survives its
\* deletion breaks both.
DeletionTellsRows ==
  \A d \in Datasets \ faulted :
    /\ removal[d] \in {"lookup"} \cup Erasing \/ d \in erased => ~files[d]
    /\ removal[d] \in Erasing \/ d \in erased =>
         /\ upload[d] \notin {"outputs", "inputs", "network", "addresses", "finish"}
         /\ upload[d] = "cleanup" => rows[d] = {}
    /\ removal[d] \in PastNetwork => "network" \notin rows[d]
    /\ upload[d] = "done" /\ dataset[d] \in {"ready", "absent"} /\ "network" \in rows[d]
         => rows[d] = Content[d]

TableInv == TypeOK /\ UploadTellsRows /\ DeletionTellsRows /\ DatasetStatusTellsRows

\* No step of a trigger or a worker touches a dataset.
LEMMA RunStepsKeepDatasets ==
  ASSUME NEW r \in Runs, CheckDataset(r) \/ InsertRun(r) \/ RunStep(r)
  PROVE  UNCHANGED <<dataset, rows, files, upload, removal, erased, faulted>>
  BY DEF CheckDataset, InsertRun, RunStep, RespondTrigger, StartRun, LoadTable, LoadFails,
     CheckLoaded, Infer, RunRaises, BeginPersist, PersistResult, CommitResults,
     RollbackResults, CompleteRun, GenerateAlerts, FailRun, durable

LEMMA TableInit == Init => TableInv
<1> SUFFICES ASSUME Init
             PROVE  UploadTellsRows /\ DeletionTellsRows /\ DatasetStatusTellsRows
  BY TypeInit DEF TableInv
<1> QED
  BY DEF Init, UploadTellsRows, DeletionTellsRows, DatasetStatusTellsRows, Filled,
     PastNetwork, IngestPhases, Erasing, Tables

\* Ingestion fills, the undo and deletions empty, each in its order, and the
\* status column keeps up with them.
LEMMA TableStep ==
  TableInv /\ [Next]_vars => UploadTellsRows' /\ DeletionTellsRows' /\ DatasetStatusTellsRows'
<1> DEFINE Told == UploadTellsRows /\ DeletionTellsRows /\ DatasetStatusTellsRows
<1> SUFFICES ASSUME TableInv, [Next]_vars PROVE Told'
  OBVIOUS
<1> USE ContentAssumption
    DEF TableInv, TypeOK, UploadTellsRows, DeletionTellsRows, DatasetStatusTellsRows, Filled,
        PastNetwork, DatasetStatus, UploadPhases, IngestPhases, RemovalPhases, Erasing, Tables,
        durable
<1>1. ASSUME NEW d \in Datasets, StoreFile(d) PROVE Told'
  BY <1>1 DEF StoreFile
<1>2. ASSUME NEW d \in Datasets, RegisterDataset(d) PROVE Told'
  BY <1>2 DEF RegisterDataset
<1>3. ASSUME NEW d \in Datasets, BeginIngest(d) PROVE Told'
  BY <1>3 DEF BeginIngest
<1>4. ASSUME NEW d \in Datasets, IngestTable(d) PROVE Told'
  BY <1>4 DEF IngestTable, NextIngest
<1>5. ASSUME NEW d \in Datasets, IngestFails(d) PROVE Told'
  BY <1>5 DEF IngestFails
<1>6. ASSUME NEW d \in Datasets, FinishIngest(d) PROVE Told'
  <2> upload[d] = "finish" /\ rows' = rows
    BY <1>6 DEF FinishIngest
  <2> "finish" \in DOMAIN Filled /\ Filled["finish"] = Tables
    OBVIOUS
  <2>1. rows[d] = Content[d]
    <3>1. rows[d] = Content[d] \cap Filled[upload[d]]
      BY DEF TableInv, UploadTellsRows
    <3>2. Content[d] \subseteq Tables
      BY ContentAssumption
    <3> QED
      BY <3>1, <3>2
  <2>2. CASE dataset[d] = "absent"
    BY <1>6, <2>1, <2>2 DEF FinishIngest
  <2>3. CASE dataset[d] # "absent"
    BY <1>6, <2>1, <2>3 DEF FinishIngest
  <2> QED
    BY <2>2, <2>3
<1>7. ASSUME NEW d \in Datasets, CleanupIngest(d) PROVE Told'
  BY <1>7 DEF CleanupIngest
<1>8. ASSUME NEW d \in Datasets, RequestDelete(d) PROVE Told'
  BY <1>8 DEF RequestDelete
<1>9. ASSUME NEW d \in Datasets, RemoveFiles(d) PROVE Told'
  BY <1>9 DEF RemoveFiles
<1>10. ASSUME NEW d \in Datasets, LookupDataset(d) PROVE Told'
  BY <1>10 DEF LookupDataset, LockFree
<1>11. ASSUME NEW d \in Datasets, EraseTable(d) PROVE Told'
  BY <1>11 DEF EraseTable, NextErase, LockFree
<1>12. ASSUME NEW r \in Runs, CheckDataset(r) \/ InsertRun(r) \/ RunStep(r) PROVE Told'
  BY <1>12, RunStepsKeepDatasets
<1>13. CASE Crash
  BY <1>13 DEF Crash
<1>14. CASE UNCHANGED vars
  BY <1>14 DEF vars
<1> QED
  BY <1>1, <1>2, <1>3, <1>4, <1>5, <1>6, <1>7, <1>8, <1>9, <1>10, <1>11, <1>12, <1>13, <1>14
  DEF Next, UploadStep, DeleteStep

LEMMA TableInvStep == TableInv /\ [Next]_vars => TableInv'
  BY TypeStep, TableStep DEF TableInv

\* A ready dataset holds every table its file fills until a delete begins, and
\* one in error holds nothing, whatever fails, stops or overtakes ingestion.
THEOREM StatusTellsRows == Spec => []DatasetStatusTellsRows
<1>1. TableInv => DatasetStatusTellsRows
  BY DEF TableInv
<1> QED
  BY TableInit, TableInvStep, <1>1, PTL DEF Spec
-----------------------------------------------------------------------------
(* Runs belong to ingested datasets. *)

\* From the check of its trigger on, a run's dataset has been ingested: its
\* upload is over, and it is ready until a deletion removes its row.
RunsAfterIngestion ==
  \A r \in Runs : phase[r] # "idle" =>
    upload[Target[r]] = "done" /\ dataset[Target[r]] \in {"ready", "absent"}

LEMMA RunsAfterInit == Init => RunsAfterIngestion
  BY DEF Init, RunsAfterIngestion

\* Only the check of a trigger takes a run out of idle; and a dataset whose
\* upload is over changes its status by a deletion alone.
LEMMA RunsAfterStep == TableInv /\ RunsAfterIngestion /\ [Next]_vars => RunsAfterIngestion'
<1> SUFFICES ASSUME TableInv, RunsAfterIngestion, [Next]_vars PROVE RunsAfterIngestion'
  OBVIOUS
<1> USE TargetAssumption
    DEF TableInv, TypeOK, RunsAfterIngestion, DatasetStatus, UploadPhases, IngestPhases, Tables, durable
<1>1. ASSUME NEW d \in Datasets, StoreFile(d) \/ UploadStep(d) PROVE RunsAfterIngestion'
  <2>1. upload[d] # "done" /\ UNCHANGED phase
    BY <1>1 DEF StoreFile, UploadStep, RegisterDataset, BeginIngest, IngestTable, IngestFails,
       FinishIngest, CleanupIngest
  <2>2. \A e \in Datasets : e # d => dataset'[e] = dataset[e] /\ upload'[e] = upload[e]
    BY <1>1 DEF StoreFile, UploadStep, RegisterDataset, BeginIngest, IngestTable, IngestFails,
       FinishIngest, CleanupIngest
  <2> QED
    BY <2>1, <2>2
<1>2. ASSUME NEW d \in Datasets, RequestDelete(d) \/ RemoveFiles(d) \/ LookupDataset(d)
      PROVE RunsAfterIngestion'
  BY <1>2 DEF RequestDelete, RemoveFiles, LookupDataset
<1>3. ASSUME NEW d \in Datasets, EraseTable(d) PROVE RunsAfterIngestion'
  BY <1>3 DEF EraseTable
<1>4. ASSUME NEW r \in Runs, CheckDataset(r) PROVE RunsAfterIngestion'
  BY <1>4 DEF CheckDataset, UploadTellsRows
<1>5. ASSUME NEW r \in Runs, InsertRun(r) \/ RunStep(r) PROVE RunsAfterIngestion'
  <2>1. UNCHANGED <<dataset, upload>>
    BY <1>5, RunStepsKeepDatasets
  <2>2. phase[r] # "idle" /\ \A s \in Runs : s # r => phase'[s] = phase[s]
    BY <1>5 DEF InsertRun, RunStep, RespondTrigger, StartRun, SetRunStatus, LoadTable, LoadFails,
       CheckLoaded, Infer, RunRaises, BeginPersist, PersistResult, CommitResults,
       RollbackResults, CompleteRun, GenerateAlerts, FailRun, Loading
  <2> QED
    BY <2>1, <2>2
<1>6. CASE Crash
  BY <1>6 DEF Crash
<1>7. CASE UNCHANGED vars
  BY <1>7 DEF vars
<1> QED
  BY <1>1, <1>2, <1>3, <1>4, <1>5, <1>6, <1>7 DEF Next, DeleteStep

-----------------------------------------------------------------------------
(* What a worker has loaded. *)

\* The tables the loader has read at each of its statements.
LoadedSoFar == [load_transactions |-> {}, load_inputs |-> {"transactions"},
                load_outputs |-> {"transactions", "inputs"},
                load_network |-> {"transactions", "inputs", "outputs"}]

\* While the network events are there nothing has been missed; they are read
\* last, so who has read them has read everything.
LoaderTellsRows ==
  \A r \in Runs :
    /\ phase[r] \in {"idle", "checked", "inserted", "queued", "load_transactions"} =>
         seen[r] = {}
    /\ phase[r] \in Loading => "network" \notin seen[r]
    /\ Target[r] \notin faulted =>
         /\ phase[r] \in Loading /\ "network" \in rows[Target[r]] =>
              seen[r] = Content[Target[r]] \cap LoadedSoFar[phase[r]]
         /\ phase[r] = "check" /\ "network" \in seen[r] =>
              seen[r] = Content[Target[r]] \ {"addresses"}

LoaderInv == TableInv /\ RunsAfterIngestion /\ LoaderTellsRows /\ ScoresWholeDataset

LEMMA LoaderInit == Init => LoaderInv
<1> SUFFICES ASSUME Init PROVE LoaderTellsRows /\ ScoresWholeDataset
  BY TableInit, RunsAfterInit DEF LoaderInv
<1> QED
  BY DEF Init, LoaderTellsRows, ScoresWholeDataset, Loading

\* Neither an upload, which is over, nor a deletion puts network events back.
LEMMA DatasetStepsKeepLoaders ==
  ASSUME LoaderInv, NEW d \in Datasets,
         StoreFile(d) \/ UploadStep(d) \/ RequestDelete(d) \/ DeleteStep(d)
  PROVE  LoaderTellsRows' /\ ScoresWholeDataset'
<1> USE DEF LoaderInv, TableInv, TypeOK, durable
<1>1. UNCHANGED <<phase, seen>> /\ faulted \subseteq faulted'
  BY DEF StoreFile, UploadStep, RegisterDataset, BeginIngest, IngestTable, IngestFails,
     FinishIngest, CleanupIngest, RequestDelete, DeleteStep, RemoveFiles, LookupDataset, EraseTable
<1>2. \A r \in Runs : phase[r] # "idle" => rows'[Target[r]] \subseteq rows[Target[r]]
  <2>1. CASE StoreFile(d) \/ UploadStep(d)
    <3>1. upload[d] # "done"
      BY <2>1 DEF StoreFile, UploadStep, RegisterDataset, BeginIngest, IngestTable, IngestFails,
         FinishIngest, CleanupIngest, IngestPhases, Tables
    <3>2. \A e \in Datasets : e # d => rows'[e] = rows[e]
      BY <2>1 DEF StoreFile, UploadStep, RegisterDataset, BeginIngest, IngestTable, IngestFails,
         FinishIngest, CleanupIngest
    <3> QED
      BY <3>1, <3>2, TargetAssumption DEF RunsAfterIngestion
  <2>2. CASE RequestDelete(d) \/ DeleteStep(d)
    BY <2>2, TargetAssumption DEF RequestDelete, DeleteStep, RemoveFiles, LookupDataset, EraseTable
  <2> QED
    BY <2>1, <2>2
<1> QED
  BY <1>1, <1>2, TargetAssumption DEF LoaderTellsRows, ScoresWholeDataset, Loading

\* Each statement of the loader adds what it should, as long as there is
\* something to lose; and only a complete load goes on to the model.
LEMMA LoaderStep == LoaderInv /\ [Next]_vars => LoaderTellsRows' /\ ScoresWholeDataset'
<1> SUFFICES ASSUME LoaderInv, [Next]_vars PROVE LoaderTellsRows' /\ ScoresWholeDataset'
  OBVIOUS
<1> USE TargetAssumption, ContentAssumption
    DEF LoaderInv, TableInv, TypeOK, LoaderTellsRows, ScoresWholeDataset, Loading, durable
<1>1. ASSUME NEW d \in Datasets,
             StoreFile(d) \/ UploadStep(d) \/ RequestDelete(d) \/ DeleteStep(d)
      PROVE  LoaderTellsRows' /\ ScoresWholeDataset'
  BY <1>1, DatasetStepsKeepLoaders
<1>2. ASSUME NEW r \in Runs, LoadTable(r) PROVE LoaderTellsRows' /\ ScoresWholeDataset'
  <2> DEFINE d == Target[r]
             read == {LoadedTable[phase[r]]} \cap rows[d]
  <2>1. /\ phase[r] \in Loading
        /\ seen' = [seen EXCEPT ![r] = @ \cup read]
        /\ phase' = [phase EXCEPT ![r] = NextLoad[@]]
        /\ UNCHANGED <<rows, faulted>>
    BY <1>2 DEF LoadTable
  <2>2. d \notin faulted /\ "network" \in rows[d] => rows[d] = Content[d]
    BY <2>1 DEF RunsAfterIngestion, DeletionTellsRows
  <2>3. \A s \in Runs : s # r => seen'[s] = seen[s] /\ phase'[s] = phase[s]
    BY <2>1
  <2>4. CASE phase[r] = "load_network"
    <3>1. phase'[r] = "check" /\ seen'[r] = seen[r] \cup ({"network"} \cap rows[d])
      BY <2>1, <2>4 DEF NextLoad, LoadedTable
    <3>2. d \notin faulted /\ "network" \in rows[d] => seen'[r] = Content[d] \ {"addresses"}
      BY <2>1, <2>2, <2>4, <3>1 DEF LoadedSoFar, Tables
    <3>3. "network" \notin rows[d] => "network" \notin seen'[r]
      BY <2>1, <3>1
    <3> QED
      BY <2>1, <2>3, <3>1, <3>2, <3>3
  <2>5. CASE phase[r] # "load_network"
    <3>1. phase'[r] \in {"load_inputs", "load_outputs", "load_network"}
      BY <2>1, <2>5 DEF NextLoad
    <3>2. "network" \notin seen'[r]
      BY <2>1, <2>5 DEF LoadedTable
    <3>3. d \notin faulted /\ "network" \in rows[d] =>
            seen'[r] = Content[d] \cap LoadedSoFar[phase'[r]]
      BY <2>1, <2>2, <2>5 DEF LoadedSoFar, LoadedTable, NextLoad
    <3> QED
      BY <2>1, <2>3, <3>1, <3>2, <3>3
  <2> QED
    BY <2>4, <2>5
<1>3. ASSUME NEW r \in Runs, LoadFails(r) PROVE LoaderTellsRows' /\ ScoresWholeDataset'
  BY <1>3 DEF LoadFails
<1>4. ASSUME NEW r \in Runs, CheckLoaded(r) PROVE LoaderTellsRows' /\ ScoresWholeDataset'
  BY <1>4 DEF CheckLoaded, AnalysisTables, Tables
<1>5. ASSUME NEW r \in Runs,
             \/ CheckDataset(r) \/ InsertRun(r) \/ RespondTrigger(r) \/ StartRun(r)
             \/ Infer(r) \/ RunRaises(r) \/ BeginPersist(r) \/ PersistResult(r)
             \/ CommitResults(r) \/ RollbackResults(r) \/ CompleteRun(r)
             \/ GenerateAlerts(r) \/ FailRun(r)
      PROVE LoaderTellsRows' /\ ScoresWholeDataset'
  <2>1. UNCHANGED <<rows, faulted, seen>> /\ \A s \in Runs : s # r => phase'[s] = phase[s]
    BY <1>5 DEF CheckDataset, InsertRun, RespondTrigger, StartRun, SetRunStatus, Infer, RunRaises,
       BeginPersist, PersistResult, CommitResults, RollbackResults, CompleteRun,
       GenerateAlerts, FailRun
  <2>2. /\ phase'[r] \notin {"load_inputs", "load_outputs", "load_network", "check"}
        /\ phase'[r] \in {"idle", "checked", "inserted", "queued", "load_transactions"} =>
             phase[r] \in {"idle", "checked", "inserted", "queued"}
        /\ phase'[r] \in {"infer", "persist", "persisting"} =>
             phase[r] \in {"infer", "persist", "persisting"}
    BY <1>5 DEF CheckDataset, InsertRun, RespondTrigger, StartRun, SetRunStatus, Infer, RunRaises,
       BeginPersist, PersistResult, CommitResults, RollbackResults, CompleteRun,
       GenerateAlerts, FailRun
  <2>3. phase'[r] = "load_transactions" =>
          seen[r] = {} /\ LoadedSoFar["load_transactions"] = {}
    BY <2>2 DEF LoadedSoFar
  <2>4. LoaderTellsRows'
    BY <2>1, <2>2, <2>3
  <2>5. ScoresWholeDataset'
    BY <2>1, <2>2
  <2> QED
    BY <2>4, <2>5
<1>6. CASE Crash
  BY <1>6 DEF Crash
<1>7. CASE UNCHANGED vars
  BY <1>7 DEF vars
<1> QED
  BY <1>1, <1>2, <1>3, <1>4, <1>5, <1>6, <1>7 DEF Next, RunStep

LEMMA LoaderInvStep == LoaderInv /\ [Next]_vars => LoaderInv'
  BY TableInvStep, RunsAfterStep, LoaderStep DEF LoaderInv

\* A model scores the whole dataset or is not called, however a deletion
\* falls between the loader's statements, unless a directory outlived its own
\* deletion or the undo of an ingestion failed.
THEOREM ScoresAreOfTheWhole == Spec => []ScoresWholeDataset
<1>1. LoaderInv => ScoresWholeDataset
  BY DEF LoaderInv
<1> QED
  BY LoaderInit, LoaderInvStep, <1>1, PTL DEF Spec

\* As long as its dataset exists, a run belongs to a dataset that is ready,
\* though the trigger checked it without the lock.
THEOREM RunsStayOnReadyDatasets == Spec => []RunsOnReadyDatasets
<1>1. IInv /\ LoaderInv => RunsOnReadyDatasets
  BY TargetAssumption DEF IInv, PhaseTellsStatus, LoaderInv, RunsAfterIngestion, RunsOnReadyDatasets
<1> QED
  BY Invariance, LoaderInit, LoaderInvStep, <1>1, PTL DEF Spec
-----------------------------------------------------------------------------
(* Refinement of the registry. *)

LEMMA RegistryStart == Init => Registry!RegistryInit
  BY DEF Init, Registry!RegistryInit

\* Every step of the backend is one step of the registry or a stutter.
LEMMA RegistryStep == IInv /\ [Next]_vars => [Registry!RegistryNext]_(Registry!regVars)
<1> SUFFICES ASSUME IInv, [Next]_vars
             PROVE  Registry!RegistryNext \/ UNCHANGED Registry!regVars
  OBVIOUS
<1> USE DEF IInv, TypeOK, PhaseTellsStatus, PhaseTellsResults, Executing, Unpublished,
       durable, Registry!regVars
<1>1. ASSUME NEW d \in Datasets,
             \/ StoreFile(d) \/ UploadStep(d) \/ RequestDelete(d)
             \/ RemoveFiles(d) \/ LookupDataset(d)
      PROVE UNCHANGED Registry!regVars
  BY <1>1, DatasetStepsKeepRuns
<1>2. ASSUME NEW d \in Datasets, EraseTable(d) PROVE Registry!RegistryNext
  <2>1. erased' = erased \cup {d}
    BY <1>2 DEF EraseTable
  <2>2. run' \in {run, [r \in Runs |-> IF Target[r] = d THEN "absent" ELSE run[r]]}
    BY <1>2 DEF EraseTable
  <2>3. {r \in Runs : results'[r] # {}} \in
          {{r \in Runs : results[r] # {}},
           {r \in Runs : results[r] # {}} \ {r \in Runs : Target[r] = d}}
    BY <1>2 DEF EraseTable
  <2> QED
    BY <2>1, <2>2, <2>3 DEF Registry!RegistryNext, Registry!Remove, Registry!SiblingsOf
<1>3. ASSUME NEW r \in Runs, InsertRun(r)
      PROVE Registry!Submit(r) \/ UNCHANGED Registry!regVars
  BY <1>3 DEF InsertRun, RunsOn, Active, Registry!Submit, Registry!SiblingsOf,
     Registry!InProgress
<1>4. ASSUME NEW r \in Runs, StartRun(r)
      PROVE Registry!Start(r) \/ UNCHANGED Registry!regVars
  BY <1>4 DEF StartRun, SetRunStatus, Registry!Start
<1>5. ASSUME NEW r \in Runs, CommitResults(r) PROVE Registry!Publish(r)
  <2> phase[r] = "persisting"
    BY <1>5 DEF CommitResults
  <2>1. /\ results[r] = {} /\ output[r] # {}
        /\ \/ run[r] = "running"
           \/ run[r] = "absent" /\ Target[r] \in erased
    OBVIOUS
  <2>2. results' = [results EXCEPT ![r] = output[r]]
    BY <1>5, <2>1 DEF CommitResults
  <2>3. {q \in Runs : results'[q] # {}} = {q \in Runs : results[q] # {}} \cup {r}
    BY <2>1, <2>2
  <2> QED
    BY <1>5, <2>1, <2>3 DEF CommitResults, Registry!Publish
<1>6. ASSUME NEW r \in Runs, CompleteRun(r)
      PROVE Registry!Complete(r) \/ UNCHANGED Registry!regVars
  BY <1>6 DEF CompleteRun, SetRunStatus, Registry!Complete
<1>7. ASSUME NEW r \in Runs, FailRun(r)
      PROVE Registry!Fail(r) \/ UNCHANGED Registry!regVars
  BY <1>7 DEF FailRun, Registry!Fail, Registry!InProgress
<1>8. ASSUME NEW r \in Runs,
             \/ CheckDataset(r) \/ RespondTrigger(r) \/ LoadTable(r) \/ LoadFails(r)
             \/ CheckLoaded(r) \/ Infer(r) \/ RunRaises(r) \/ BeginPersist(r)
             \/ PersistResult(r) \/ RollbackResults(r) \/ GenerateAlerts(r)
      PROVE UNCHANGED Registry!regVars
  BY <1>8 DEF CheckDataset, RespondTrigger, LoadTable, LoadFails, CheckLoaded, Infer,
     RunRaises, BeginPersist, PersistResult, RollbackResults, GenerateAlerts
<1>9. Crash \/ UNCHANGED vars => UNCHANGED Registry!regVars
  BY DEF Crash, vars
<1> QED
  BY <1>1, <1>2, <1>3, <1>4, <1>5, <1>6, <1>7, <1>8, <1>9
  DEF Next, DeleteStep, RunStep, Registry!RegistryNext

\* The backend, with all its interleavings, keeps the registry's promise.
THEOREM BackendImplementsRegistry == Spec => ImplementsRegistry
  BY Invariance, RegistryStart, RegistryStep, PTL
  DEF Spec, ImplementsRegistry, Registry!RegistrySpec
=============================================================================
