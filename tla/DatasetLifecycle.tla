-------------------------- MODULE DatasetLifecycle --------------------------
(***************************************************************************)
(* The life of a dataset in the backend: upload and ingestion, analysis    *)
(* runs and the background worker that executes them, deletion, and the    *)
(* loss of everything in memory when the process stops.                    *)
(*                                                                         *)
(* All actors share one DuckDB database and one re-entrant lock.  Every    *)
(* statement takes the lock for its own duration, so a statement is one    *)
(* step; only ingestion and result persistence keep the lock across        *)
(* several statements.  Outside those blocks each statement commits by     *)
(* itself, and the steps of two requests interleave freely.                *)
(***************************************************************************)
EXTENDS Naturals, FiniteSets

CONSTANTS
  Datasets,       \* dataset ids; an upload draws a fresh one
  Runs,           \* analysis ids; an accepted trigger draws a fresh one
  Target,         \* Target[r]: the dataset the trigger of run r names
  Content,        \* Content[d]: the tables the columns of d's file fill
  Entities,       \* entities (transactions, addresses) a model may score
  MaxCrashes      \* bound on process restarts

\* The canonical tables ingestion fills.
Tables == {"transactions", "outputs", "inputs", "network", "addresses"}

ASSUME TargetAssumption == Target \in [Runs -> Datasets]
ASSUME ContentAssumption == Content \in [Datasets -> SUBSET Tables]
ASSUME BoundAssumption == MaxCrashes \in Nat

VARIABLES
  \* In DuckDB and on disk: survive a restart.
  dataset,  \* status column of the datasets row, or "absent"
  rows,     \* canonical tables that hold rows of the dataset
  files,    \* does the dataset's directory exist?
  run,      \* status column of the analysis_runs row, or "absent"
  results,  \* entities with a committed ml_results row of the run
  alerts,   \* runs that have rows in the alerts table
  \* In memory: lost at a restart.
  upload,   \* where the upload request of the dataset is
  removal,  \* where the delete request of the dataset is
  phase,    \* where the trigger request and then the worker of the run is
  seen,     \* tables the worker has loaded rows from
  output,   \* entities scored by the model for the run
  txn,      \* ml_results rows written in the worker's open transaction
  \* History.
  erased,   \* datasets on which a delete has issued its first statement
  faulted,  \* datasets on which an I/O error was swallowed
  crashes

durable == <<dataset, rows, files, run, results, alerts>>
vars == <<dataset, rows, files, run, results, alerts,
          upload, removal, phase, seen, output, txn, erased, faulted, crashes>>

-----------------------------------------------------------------------------
(* The places a request can be in, and the order it visits them. *)

\* Ingestion names its phase after the table whose INSERT comes next.
IngestPhases == Tables \cup {"finish", "cleanup"}
UploadPhases == IngestPhases \cup {"idle", "stored", "registered", "done"}

NextIngest == [transactions |-> "outputs", outputs |-> "inputs",
               inputs |-> "network", network |-> "addresses",
               addresses |-> "finish"]

\* Deletion names its phase after the statement that comes next.
Erasing == Tables \cup {"ml_results", "analysis_runs", "datasets"}
RemovalPhases == Erasing \cup {"idle", "files", "lookup"}

\* (Plausible bug.) The delete drops network events after the transactions.
NextEraseNetworkLast ==
  [ml_results |-> "analysis_runs", analysis_runs |-> "inputs",
   inputs |-> "outputs", outputs |-> "transactions",
   transactions |-> "network", network |-> "addresses",
   addresses |-> "datasets", datasets |-> "idle"]

NextErase == [ml_results |-> "analysis_runs", analysis_runs |-> "network",
              network |-> "inputs", inputs |-> "outputs",
              outputs |-> "transactions", transactions |-> "addresses",
              addresses |-> "datasets", datasets |-> "idle"]

\* The worker reads these tables in turn.
Loading == {"load_transactions", "load_inputs", "load_outputs", "load_network"}
LoadedTable == [load_transactions |-> "transactions", load_inputs |-> "inputs",
                load_outputs |-> "outputs", load_network |-> "network"]
NextLoad == [load_transactions |-> "load_inputs", load_inputs |-> "load_outputs",
             load_outputs |-> "load_network", load_network |-> "check"]
AnalysisTables == Tables \ {"addresses"}

Executing == Loading \cup {"check", "infer", "persist", "persisting", "complete"}
RunPhases == Executing \cup {"idle", "checked", "inserted", "queued",
                             "alert", "fail", "done"}

Active == {"pending", "running"}
RunStatus == Active \cup {"absent", "completed", "failed"}
DatasetStatus == {"absent", "processing", "ready", "error"}

RunsOn(d) == {r \in Runs : Target[r] = d}

\* Nobody is inside a multi-statement locked block, so a statement can run.
LockFree == /\ \A d \in Datasets : upload[d] \notin IngestPhases
            /\ \A r \in Runs : phase[r] # "persisting"

TypeOK ==
  /\ dataset \in [Datasets -> DatasetStatus]
  /\ rows \in [Datasets -> SUBSET Tables]
  /\ files \in [Datasets -> BOOLEAN]
  /\ run \in [Runs -> RunStatus]
  /\ results \in [Runs -> SUBSET Entities]
  /\ alerts \subseteq Runs
  /\ upload \in [Datasets -> UploadPhases]
  /\ removal \in [Datasets -> RemovalPhases]
  /\ phase \in [Runs -> RunPhases]
  /\ seen \in [Runs -> SUBSET AnalysisTables]
  /\ output \in [Runs -> SUBSET Entities]
  /\ txn \in [Runs -> SUBSET Entities]
  /\ erased \subseteq Datasets
  /\ faulted \subseteq Datasets
  /\ crashes \in 0..MaxCrashes

Init ==
  /\ dataset = [d \in Datasets |-> "absent"]
  /\ rows = [d \in Datasets |-> {}]
  /\ files = [d \in Datasets |-> FALSE]
  /\ run = [r \in Runs |-> "absent"]
  /\ results = [r \in Runs |-> {}]
  /\ alerts = {}
  /\ upload = [d \in Datasets |-> "idle"]
  /\ removal = [d \in Datasets |-> "idle"]
  /\ phase = [r \in Runs |-> "idle"]
  /\ seen = [r \in Runs |-> {}]
  /\ output = [r \in Runs |-> {}]
  /\ txn = [r \in Runs |-> {}]
  /\ erased = {}
  /\ faulted = {}
  /\ crashes = 0

-----------------------------------------------------------------------------
(* Plausible bugs: variants of the definitions below, never part of Next.  *)
(* Substituting one for its original breaks the property it is aimed at.   *)

\* A run's failure recorded in the vocabulary of dataset statuses.
FailRunAsError(r) ==
  /\ phase[r] = "fail"
  /\ LockFree
  /\ run' = [run EXCEPT ![r] = IF @ = "absent" THEN @ ELSE "error"]
  /\ phase' = [phase EXCEPT ![r] = "done"]
  /\ UNCHANGED <<dataset, rows, files, results, alerts,
                 upload, removal, seen, output, txn, erased, faulted, crashes>>

\* The trigger counts only running runs, as the delete does.
InsertRunPastPending(r) ==
  /\ phase[r] = "checked"
  /\ LockFree
  /\ \A s \in RunsOn(Target[r]) : run[s] # "running"
  /\ phase' = [phase EXCEPT ![r] = "inserted"]
  /\ run' = [run EXCEPT ![r] = "pending"]
  /\ UNCHANGED <<dataset, rows, files, results, alerts,
                 upload, removal, seen, output, txn, erased, faulted, crashes>>

\* Results written without BEGIN: each row commits by itself.
PersistResultAutocommit(r) ==
  /\ phase[r] = "persisting"
  /\ \E e \in output[r] \ txn[r] : /\ txn' = [txn EXCEPT ![r] = @ \cup {e}]
                                  /\ results' = [results EXCEPT ![r] = @ \cup {e}]
  /\ UNCHANGED <<dataset, rows, files, run, alerts,
                 upload, removal, phase, seen, output, erased, faulted, crashes>>

\* The trigger only asks whether the dataset exists.
CheckDatasetExists(r) ==
  /\ phase[r] = "idle"
  /\ LockFree
  /\ dataset[Target[r]] # "absent"
  /\ phase' = [phase EXCEPT ![r] = "checked"]
  /\ UNCHANGED <<durable, upload, removal, seen, output, txn, erased, faulted, crashes>>

\* The undo forgets the derived addresses.
CleanupIngestPartly(d) ==
  /\ upload[d] = "cleanup"
  /\ rows' = [rows EXCEPT ![d] = @ \cap {"addresses"}]
  /\ dataset' = [dataset EXCEPT ![d] = IF @ = "absent" THEN @ ELSE "error"]
  /\ upload' = [upload EXCEPT ![d] = "done"]
  /\ UNCHANGED <<files, run, results, alerts,
                 removal, phase, seen, output, txn, erased, faulted, crashes>>

\* The undo does not record the error.
CleanupIngestSilently(d) ==
  /\ upload[d] = "cleanup"
  /\ rows' = [rows EXCEPT ![d] = {}]
  /\ upload' = [upload EXCEPT ![d] = "done"]
  /\ UNCHANGED <<dataset, files, run, results, alerts,
                 removal, phase, seen, output, txn, erased, faulted, crashes>>

\* An exception of the alert engine reaches the worker's handler.
GenerateAlertsRaises(r) ==
  /\ phase[r] = "alert"
  /\ LockFree
  /\ phase' = [phase EXCEPT ![r] = "fail"]
  /\ UNCHANGED <<durable, upload, removal, seen, output, txn, erased, faulted, crashes>>

\* A status update that inserts the row when it is missing.
SetRunStatusUpsert(r, status, next) ==
  /\ phase' = [phase EXCEPT ![r] = next]
  /\ run' = [run EXCEPT ![r] = status]

\* The worker's handler logs the exception and forgets the run.
RunRaisesUnrecorded(r) ==
  /\ phase[r] \in {"queued", "load_transactions", "check", "infer"}
  /\ phase' = [phase EXCEPT ![r] = "done"]
  /\ UNCHANGED <<durable, upload, removal, seen, output, txn, erased, faulted, crashes>>

-----------------------------------------------------------------------------
(* Upload: POST /datasets/upload *)

\* The file is written under the dataset's directory.  An empty or oversized
\* file is unlinked and refused, but its directory stays.
StoreFile(d) ==
  /\ upload[d] = "idle"
  /\ files' = [files EXCEPT ![d] = TRUE]
  /\ \E next \in {"stored", "done"} : upload' = [upload EXCEPT ![d] = next]
  /\ UNCHANGED <<dataset, rows, run, results, alerts,
                 removal, phase, seen, output, txn, erased, faulted, crashes>>

\* The row is inserted before the ingestion lock is taken: from here on other
\* requests can see, and delete, a dataset in status processing.
RegisterDataset(d) ==
  /\ upload[d] = "stored"
  /\ LockFree
  /\ dataset' = [dataset EXCEPT ![d] = "processing"]
  /\ upload' = [upload EXCEPT ![d] = "registered"]
  /\ UNCHANGED <<rows, files, run, results, alerts,
                 removal, phase, seen, output, txn, erased, faulted, crashes>>

BeginIngest(d) ==
  /\ upload[d] = "registered"
  /\ LockFree
  /\ upload' = [upload EXCEPT ![d] = "transactions"]
  /\ UNCHANGED <<durable, removal, phase, seen, output, txn, erased, faulted, crashes>>

\* Each table is filled by one statement that reads the uploaded file again,
\* the derived addresses by one that reads only the database.
IngestTable(d) ==
  /\ upload[d] \in Tables
  /\ upload[d] # "addresses" => files[d]
  /\ rows' = [rows EXCEPT ![d] = @ \cup ({upload[d]} \cap Content[d])]
  /\ upload' = [upload EXCEPT ![d] = NextIngest[@]]
  /\ UNCHANGED <<dataset, files, run, results, alerts,
                 removal, phase, seen, output, txn, erased, faulted, crashes>>

\* A statement that fails leaves no rows of its own; earlier ones stay.
IngestFails(d) ==
  /\ upload[d] \in Tables \cup {"finish"}
  /\ upload' = [upload EXCEPT ![d] = "cleanup"]
  /\ UNCHANGED <<durable, removal, phase, seen, output, txn, erased, faulted, crashes>>

\* update_dataset re-reads the row it wrote and raises when it is gone, which
\* sends the request to its exception handler.
FinishIngest(d) ==
  /\ upload[d] = "finish"
  /\ IF dataset[d] = "absent"
       THEN /\ upload' = [upload EXCEPT ![d] = "cleanup"]
            /\ UNCHANGED dataset
       ELSE /\ upload' = [upload EXCEPT ![d] = "done"]
            /\ dataset' = [dataset EXCEPT ![d] = "ready"]
  /\ UNCHANGED <<rows, files, run, results, alerts,
                 removal, phase, seen, output, txn, erased, faulted, crashes>>

\* The handler undoes the ingestion, swallowing a failure of its own DELETEs,
\* records the error and gives the lock back.
CleanupIngest(d) ==
  /\ upload[d] = "cleanup"
  /\ \/ rows' = [rows EXCEPT ![d] = {}] /\ UNCHANGED faulted
     \/ UNCHANGED rows /\ faulted' = faulted \cup {d}
  /\ dataset' = [dataset EXCEPT ![d] = IF @ = "absent" THEN @ ELSE "error"]
  /\ upload' = [upload EXCEPT ![d] = "done"]
  /\ UNCHANGED <<files, run, results, alerts,
                 removal, phase, seen, output, txn, erased, crashes>>

-----------------------------------------------------------------------------
(* Deletion: DELETE /datasets/{datasetId} *)

\* A client can name a dataset once its row has been listed or returned.
\* Refused with 409 while a run is in status running; pending does not count.
RequestDelete(d) ==
  /\ removal[d] = "idle"
  /\ upload[d] \notin {"idle", "stored"}
  /\ LockFree
  /\ \A r \in RunsOn(d) : run[r] # "running"
  /\ removal' = [removal EXCEPT ![d] = "files"]
  /\ UNCHANGED <<durable, upload, phase, seen, output, txn, erased, faulted, crashes>>

\* The directory is removed with ignore_errors: a fault leaves it in place.
RemoveFiles(d) ==
  /\ removal[d] = "files"
  /\ \/ files' = [files EXCEPT ![d] = FALSE] /\ UNCHANGED faulted
     \/ UNCHANGED files /\ faulted' = faulted \cup {d}
  /\ removal' = [removal EXCEPT ![d] = "lookup"]
  /\ UNCHANGED <<dataset, rows, run, results, alerts,
                 upload, phase, seen, output, txn, erased, crashes>>

\* An unknown dataset ends the request with 404.
LookupDataset(d) ==
  /\ removal[d] = "lookup"
  /\ LockFree
  /\ removal' = [removal EXCEPT ![d] =
                   IF dataset[d] = "absent" THEN "idle" ELSE "ml_results"]
  /\ UNCHANGED <<durable, upload, phase, seen, output, txn, erased, faulted, crashes>>

\* One autocommitted DELETE.  No statement touches the alerts table.
EraseTable(d) ==
  LET table == removal[d] IN
  /\ table \in Erasing
  /\ LockFree
  /\ results' = [r \in Runs |-> IF table = "ml_results" /\ Target[r] = d
                                  THEN {} ELSE results[r]]
  /\ run' = [r \in Runs |-> IF table = "analysis_runs" /\ Target[r] = d
                              THEN "absent" ELSE run[r]]
  /\ rows' = [rows EXCEPT ![d] = @ \ {table}]
  /\ dataset' = [dataset EXCEPT ![d] = IF table = "datasets" THEN "absent" ELSE @]
  /\ removal' = [removal EXCEPT ![d] = NextErase[@]]
  /\ erased' = erased \cup {d}
  /\ UNCHANGED <<files, alerts, upload, phase, seen, output, txn, faulted, crashes>>

-----------------------------------------------------------------------------
(* Trigger: POST /datasets/{datasetId}/analyses *)

\* The dataset's status is looked up before the lock is taken.
CheckDataset(r) ==
  /\ phase[r] = "idle"
  /\ LockFree
  /\ dataset[Target[r]] = "ready"
  /\ phase' = [phase EXCEPT ![r] = "checked"]
  /\ UNCHANGED <<durable, upload, removal, seen, output, txn, erased, faulted, crashes>>

\* Count and insert in one locked block; 409 drops the unused id.
InsertRun(r) ==
  /\ phase[r] = "checked"
  /\ LockFree
  /\ IF \E s \in RunsOn(Target[r]) : run[s] \in Active
       THEN /\ phase' = [phase EXCEPT ![r] = "idle"]
            /\ UNCHANGED run
       ELSE /\ phase' = [phase EXCEPT ![r] = "inserted"]
            /\ run' = [run EXCEPT ![r] = "pending"]
  /\ UNCHANGED <<dataset, rows, files, results, alerts,
                 upload, removal, seen, output, txn, erased, faulted, crashes>>

\* The response re-reads the row; when a delete has removed it the request
\* ends in 404 and its background task is dropped.
RespondTrigger(r) ==
  /\ phase[r] = "inserted"
  /\ LockFree
  /\ phase' = [phase EXCEPT ![r] = IF run[r] = "absent" THEN "done" ELSE "queued"]
  /\ UNCHANGED <<durable, upload, removal, seen, output, txn, erased, faulted, crashes>>

-----------------------------------------------------------------------------
(* The background worker: _execute_analysis_run *)

\* Every status update re-reads the row and raises when it is gone.
SetRunStatus(r, status, next) ==
  IF run[r] = "absent"
    THEN /\ phase' = [phase EXCEPT ![r] = "fail"]
         /\ UNCHANGED run
    ELSE /\ phase' = [phase EXCEPT ![r] = next]
         /\ run' = [run EXCEPT ![r] = status]

StartRun(r) ==
  /\ phase[r] = "queued"
  /\ LockFree
  /\ SetRunStatus(r, "running", "load_transactions")
  /\ UNCHANGED <<dataset, rows, files, results, alerts,
                 upload, removal, seen, output, txn, erased, faulted, crashes>>

\* One SELECT per table, without a common snapshot.
LoadTable(r) ==
  /\ phase[r] \in Loading
  /\ LockFree
  /\ seen' = [seen EXCEPT ![r] = @ \cup ({LoadedTable[phase[r]]} \cap rows[Target[r]])]
  /\ phase' = [phase EXCEPT ![r] = NextLoad[@]]
  /\ UNCHANGED <<durable, upload, removal, output, txn, erased, faulted, crashes>>

\* A SELECT that raises is logged: on network events it counts as no rows, on
\* the others it discards what the earlier ones returned.
LoadFails(r) ==
  /\ phase[r] \in Loading
  /\ seen' = [seen EXCEPT ![r] = IF phase[r] = "load_network" THEN @ ELSE {}]
  /\ phase' = [phase EXCEPT ![r] = "check"]
  /\ UNCHANGED <<durable, upload, removal, output, txn, erased, faulted, crashes>>

\* Without transactions the tables are rebuilt from the uploaded file; without
\* a file, or without network events, the analysis is refused.
CheckLoaded(r) ==
  LET fromDisk == "transactions" \notin seen[r] /\ files[Target[r]]
      loaded == CASE fromDisk -> Content[Target[r]] \cap AnalysisTables
                  [] "transactions" \in seen[r] -> seen[r]
                  [] OTHER -> {}
  IN
  /\ phase[r] = "check"
  /\ seen' = [seen EXCEPT ![r] = loaded]
  /\ phase' = [phase EXCEPT ![r] =
                 IF {"transactions", "network"} \subseteq loaded
                   THEN "infer" ELSE "fail"]
  /\ UNCHANGED <<durable, upload, removal, output, txn, erased, faulted, crashes>>

\* The model's scores, all of them validated before any is stored.
Infer(r) ==
  /\ phase[r] = "infer"
  /\ \E scored \in (SUBSET Entities) \ {{}} :
       output' = [output EXCEPT ![r] = scored]
  /\ phase' = [phase EXCEPT ![r] = "persist"]
  /\ UNCHANGED <<durable, upload, removal, seen, txn, erased, faulted, crashes>>

\* Any other exception before the results are stored.
RunRaises(r) ==
  /\ phase[r] \in {"queued", "load_transactions", "check", "infer"}
  /\ phase' = [phase EXCEPT ![r] = "fail"]
  /\ UNCHANGED <<durable, upload, removal, seen, output, txn, erased, faulted, crashes>>

BeginPersist(r) ==
  /\ phase[r] = "persist"
  /\ LockFree
  /\ phase' = [phase EXCEPT ![r] = "persisting"]
  /\ UNCHANGED <<durable, upload, removal, seen, output, txn, erased, faulted, crashes>>

\* DELETE then INSERT of one row, inside the transaction.
PersistResult(r) ==
  /\ phase[r] = "persisting"
  /\ \E e \in output[r] \ txn[r] : txn' = [txn EXCEPT ![r] = @ \cup {e}]
  /\ UNCHANGED <<durable, upload, removal, phase, seen, output, erased, faulted, crashes>>

CommitResults(r) ==
  /\ phase[r] = "persisting"
  /\ txn[r] = output[r]
  /\ results' = [results EXCEPT ![r] = @ \cup txn[r]]
  /\ txn' = [txn EXCEPT ![r] = {}]
  /\ phase' = [phase EXCEPT ![r] = "complete"]
  /\ UNCHANGED <<dataset, rows, files, run, alerts,
                 upload, removal, seen, output, erased, faulted, crashes>>

RollbackResults(r) ==
  /\ phase[r] = "persisting"
  /\ txn' = [txn EXCEPT ![r] = {}]
  /\ phase' = [phase EXCEPT ![r] = "fail"]
  /\ UNCHANGED <<durable, upload, removal, seen, output, erased, faulted, crashes>>

CompleteRun(r) ==
  /\ phase[r] = "complete"
  /\ LockFree
  /\ SetRunStatus(r, "completed", "alert")
  /\ UNCHANGED <<dataset, rows, files, results, alerts,
                 upload, removal, seen, output, txn, erased, faulted, crashes>>

\* Alerts follow the stored results; an exception here is swallowed.
GenerateAlerts(r) ==
  /\ phase[r] = "alert"
  /\ LockFree
  /\ alerts' \in {alerts} \cup (IF results[r] = {} THEN {} ELSE {alerts \cup {r}})
  /\ phase' = [phase EXCEPT ![r] = "done"]
  /\ UNCHANGED <<dataset, rows, files, run, results,
                 upload, removal, seen, output, txn, erased, faulted, crashes>>

\* The handler's own update raises out of the task when the row is gone.
FailRun(r) ==
  /\ phase[r] = "fail"
  /\ LockFree
  /\ run' = [run EXCEPT ![r] = IF @ = "absent" THEN @ ELSE "failed"]
  /\ phase' = [phase EXCEPT ![r] = "done"]
  /\ UNCHANGED <<dataset, rows, files, results, alerts,
                 upload, removal, seen, output, txn, erased, faulted, crashes>>

-----------------------------------------------------------------------------
(* Restart: start-up migrates the schema and repairs nothing. *)

Crash ==
  /\ crashes < MaxCrashes
  /\ crashes' = crashes + 1
  /\ upload' = [d \in Datasets |-> IF upload[d] = "idle" THEN "idle" ELSE "done"]
  /\ removal' = [d \in Datasets |-> "idle"]
  /\ phase' = [r \in Runs |-> IF phase[r] \in {"idle", "checked"}
                                THEN "idle" ELSE "done"]
  /\ seen' = [r \in Runs |-> {}]
  /\ txn' = [r \in Runs |-> {}]
  /\ UNCHANGED <<durable, output, erased, faulted>>

-----------------------------------------------------------------------------
UploadStep(d) == \/ RegisterDataset(d) \/ BeginIngest(d) \/ IngestTable(d)
                 \/ IngestFails(d) \/ FinishIngest(d) \/ CleanupIngest(d)

DeleteStep(d) == RemoveFiles(d) \/ LookupDataset(d) \/ EraseTable(d)

RunStep(r) == \/ RespondTrigger(r) \/ StartRun(r) \/ LoadTable(r) \/ LoadFails(r)
              \/ CheckLoaded(r) \/ Infer(r) \/ RunRaises(r) \/ BeginPersist(r) \/ PersistResult(r)
              \/ CommitResults(r) \/ RollbackResults(r) \/ CompleteRun(r)
              \/ GenerateAlerts(r) \/ FailRun(r)

Next ==
  \/ \E d \in Datasets : StoreFile(d) \/ RequestDelete(d) \/ UploadStep(d) \/ DeleteStep(d)
  \/ \E r \in Runs : CheckDataset(r) \/ InsertRun(r) \/ RunStep(r)
  \/ Crash

Spec == Init /\ [][Next]_vars

\* Threads that have begun a request keep running; nobody has to send one.
Fairness == /\ \A d \in Datasets : WF_vars(UploadStep(d)) /\ WF_vars(DeleteStep(d))
            /\ \A r \in Runs : WF_vars(RunStep(r))

FairSpec == Spec /\ Fairness
-----------------------------------------------------------------------------
(* Safety. *)

\* At most one run of a dataset is pending or running: trigger_analysis counts
\* and inserts in one locked block, and the worker moves a run's status only
\* forward, whatever deletions and restarts happen in between.
OneActiveRun ==
  \A r, s \in Runs : Target[r] = Target[s] /\ run[r] \in Active /\ run[s] \in Active
                      => r = s

\* A run's stored results are all the model's scores or none of them, even
\* when the process stops or a row fails while they are being written.
ResultsAllOrNothing ==
  \A r \in Runs : results[r] \in {{}, output[r]}

\* A completed run has its results, until a delete of its dataset begins.
CompletedHasResults ==
  \A r \in Runs : run[r] = "completed" /\ Target[r] \notin erased
                    => results[r] # {} /\ results[r] = output[r]

\* A failed run has no stored results at all.
FailedHasNoResults ==
  \A r \in Runs : run[r] = "failed" => results[r] = {}

\* What is stored and what the status column says agree: the pipeline writes
\* the results in one transaction (pipeline_service.py) and the worker sets the
\* outcome in a statement of its own (analysis_service.py), with failures,
\* deletions and restarts in between.
ResultsMatchOutcome == ResultsAllOrNothing /\ CompletedHasResults /\ FailedHasNoResults

\* As long as its dataset exists, a run belongs to a dataset that is ready:
\* neither the unlocked status check of the trigger nor a deletion that races
\* ingestion puts a run on a dataset that is processing or in error.
RunsOnReadyDatasets ==
  \A r \in Runs : run[r] # "absent" /\ dataset[Target[r]] # "absent"
                    => dataset[Target[r]] = "ready"

\* A ready dataset holds every table its file fills, until a delete begins; one
\* in error holds no rows, so that a failed ingestion leaves nothing behind that
\* a later query could count, unless the undo itself failed.
DatasetStatusTellsRows ==
  \A d \in Datasets :
    /\ dataset[d] = "ready" /\ d \notin erased => rows[d] = Content[d]
    /\ dataset[d] = "error" /\ d \notin faulted => rows[d] = {}

\* A model scores the whole dataset or nothing.  The loader takes no snapshot
\* while a delete may run; what saves it is that the delete drops network
\* events first and the loader reads them last and refuses to go on without.
\* (A directory that outlives its own deletion lets ingestion and deletion of
\* one dataset overlap, and breaks this.)
ScoresWholeDataset ==
  \A r \in Runs : phase[r] \in {"infer", "persist", "persisting"} /\ Target[r] \notin faulted
                    => seen[r] = Content[Target[r]] \ {"addresses"}

-----------------------------------------------------------------------------
(* What a step may never do. *)

\* A finished run is frozen until a delete of its dataset: its outcome is never
\* rewritten and its results neither grow, shrink nor change.  The exception
\* handler of the worker must not turn a completed run into a failed one, nor a
\* late start revive a run that has ended, nor a second worker write its rows.
FinishedRunsAreFrozen ==
  [][\A r \in Runs : run[r] \in {"completed", "failed"} =>
        /\ run'[r] \in {run[r], "absent"}
        /\ results'[r] # results[r] => results'[r] = {} /\ Target[r] \in erased']_vars

-----------------------------------------------------------------------------
(* The promise of AnalysisRegistry, kept. *)

Registry == INSTANCE AnalysisRegistry WITH
              status <- run,
              published <- {r \in Runs : results[r] # {}},
              withdrawn <- erased

\* Every step of requests, workers, deletions and restarts is one step of the
\* registry or leaves what its clients see unchanged.
ImplementsRegistry == Registry!RegistrySpec

-----------------------------------------------------------------------------
(* Liveness, while the process stays up. *)

\* Every accepted run reaches an outcome or disappears with its dataset, so
\* that a client polling its status stops and the dataset is freed.
RunsSettle ==
  \A r \in Runs : run[r] \in Active ~> run[r] \notin Active

\* Every registered dataset leaves status processing, and every delete that was
\* admitted ends with the datasets row gone, however ingestion, deletions and
\* workers compete for the lock.
RequestsSettle ==
  \A d \in Datasets : /\ dataset[d] = "processing" ~> dataset[d] # "processing"
                      /\ removal[d] = "ml_results" ~> dataset[d] = "absent"

-----------------------------------------------------------------------------
(* What the documentation says and the code does not do. *)

\* delete_dataset: "Delete dataset and all related records".  Once the row is
\* gone and no request is at work, the dataset's alerts are gone too.
Quiet(d) == /\ upload[d] = "done"
            /\ removal[d] = "idle"
            /\ \A r \in RunsOn(d) : phase[r] \in {"idle", "done"}

AlertsGoWithDataset ==
  \A d \in Datasets : dataset[d] = "absent" /\ Quiet(d) => alerts \cap RunsOn(d) = {}
=============================================================================
