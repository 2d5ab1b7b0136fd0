# Verification of AquaSynex

AquaSynex (TraceGrid) analyses Bitcoin transaction traffic: a client uploads a
dataset, the backend ingests it into DuckDB, a background worker scores its
transactions with pre-trained models, an alert engine turns scores into alerts,
and analysts triage them and walk the graph of payments. Offline, scripts turn a
delivered sample into canonical tables, features, graph features and a modelling
dataset, and two generators make synthetic samples. This directory holds TLA+ models of the parts where
order, failure and shared state matter, TLC configurations that check them on
small instances, and proofs, checked by TLAPS, that hold for every size.

## 1. The system

| component | state it keeps | operations | what is hard |
|---|---|---|---|
| upload and ingestion (`dataset_service.py`) | directory on disk, `datasets` row, five canonical tables | store file, register, fill each table, finish, undo | row visible before ingestion holds the lock; a failure at any statement; undo that itself fails |
| deletion (`dataset_service.py`, `queries/datasets.py`) | the same, and `analysis_runs`, `ml_results` | check, remove files, eight DELETEs | unlocked check; table by table, each committed |
| trigger and worker (`analysis_service.py`) | `analysis_runs`; the task in memory | check, count and insert, start, load, infer, persist, complete, fail | stale check; deletion under a running worker; restart |
| pipeline service (`pipeline_service.py`) | `ml_results` in one transaction | validate, BEGIN, write, COMMIT or ROLLBACK | partial failure |
| inference (`pipeline/ml/model_inference.py`) | none | four SELECTs, fallback to files, alignment, validation, features, scores | no snapshot across SELECTs; several forms of one dataset |
| connection manager (`connection.py`) | one connection, cursors per thread, a re-entrant lock | execute, begin, commit, init, close | lock per statement or per block; generations |
| alert engine (`alert_engine.py`) | none | signals, classification, grouping | thresholds that must agree; ties |
| alert storage and triage (`queries/alerts.py`) | `alerts` | replace an alert, patch status, patch priority | read before write; replacement in two statements; regeneration |
| graph service (`graph_service.py`) | none | export, subgraph, neighborhood | caps on nodes and hops; many statements, no snapshot |
| lists and maps (`queries/*`, `network_service.py`) | GeoIP cache | lists, pages, maps | COUNT and SELECT apart |
| model registry, converters, errors | none | lookups, formatting | |
| entity clustering (`entity_clustering.py`) | union-find with members and counts | one pass over the stream | look-back must exclude the present |
| data pipeline (`ml/data_pipeline`) | canonical files and tables | ingest, validate, clean, normalize, export | duplicates under several spellings; empty tables |
| features (`ml/feature_engineering`) | histories per address and time; files | five extractors, join, audit | leakage; equal timestamps |
| graph tables (`ml/graph_analysis`) | disjoint sets, degrees; files | bipartite graph, streaming features, metrics | two ways to the same component |
| modelling dataset (`ml/modeling_dataset`) | files | join of four inputs, split | inputs of different runs |
| dataset generator and validator (`scripts`) | pool, wallets, address book, six tables | twelve scenarios, cut, checks | two books of the same outputs |
| streaming generator (`tools/synthetic_data`) | bounded pool, buffer, counters | a row, a chunk, the manifest | pool at its limit; integer shares |
| training, notebooks | files | external learners | |
| frontend (`frontend/src`) | the client's context | upload, trigger, poll | time-out while the run goes on |

Requests run in threads of the server's pool; a worker runs after the response
of its trigger, in the same pool. They meet in one database behind one
re-entrant lock. `ThreadSafeConnection.execute` takes the lock for a single
statement, and outside an explicit transaction every statement commits by
itself. Only three blocks keep the lock for several statements: ingestion with
its undo, persistence of results, and the worker's generation of alerts (and,
shorter, the trigger's count-and-insert). Everything else interleaves at the
level of statements, and that is the granularity of the models.

## 2. Modules

| module | models | built on |
|---|---|---|
| `DatasetLifecycle` | upload, ingestion, deletion, trigger, worker, persistence, restart | |
| `AnalysisRegistry` | abstract specification: what clients are promised about runs and results | |
| `AlertTriage` | the `alerts` table of one analysis under generation, regeneration, patches and restarts | |
| `AlertRules` | the engine's rules: results in, alerts out | |
| `EntityClusters` | clustering of addresses over the stream of transactions, down to the loop of `UnionFind.find` | |
| `AddressClusters` | abstract specification: a partition whose clusters are created and joined, never split | |
| `CanonicalTables` | the data pipeline as functions on tables: `Ingest`, `Errors`, `Clean`, `Normalize` | |
| `FeatureTables` | the extractors and the feature matrix | `CanonicalTables` |
| `GraphTables` | bipartite graph, component tracker, streaming degrees, summary | `FeatureTables` |
| `OfflinePipeline` | the four scripts and the files and tables between them | `GraphTables` |
| `ModelInference` | one call of `run_analysis` against a deletion | `GraphTables` |
| `GraphExplorer` | one request to the graph service against a deletion | |
| `SyntheticLedger` | the scenarios of the dataset generator and its export | |
| `DatasetValidator` | the validator's checks of keys, references, sums, amounts and benign labels, on that export | `SyntheticLedger` |
| `StreamingLedger` | the streaming generator | |
| `CoinBook` | abstract specification: an output is spent or given up once and never comes back | |
| `MC...` | constants and symmetries for TLC | the module of the same name |
| `...Proofs` | theorems | the module of the same name; `PipelineProofs`: `OfflinePipeline` and `ModelInference`; `AlertProofs`: `AlertRules` and `AlertTriage` |
| `SumTheorems` | lemmas on induction over finite sets, sums and folds | |

### DatasetLifecycle

Durable state is `dataset` and `run` (status columns, or `"absent"`), `rows`
(which canonical tables hold rows of the dataset), `files` (its directory),
`results` (entities with a committed row) and `alerts`. Memory is where each
request and worker is (`upload`, `removal`, `phase`), what the loader has `seen`,
the model's `output` and the rows of the open transaction `txn`; a restart
(`Crash`) loses it. `erased` and `faulted` are history: a delete has issued its
first statement; an I/O error was swallowed (`rmtree(ignore_errors=True)`, the
`except` around the undo). `LockFree` says that no multi-statement block is
open, and guards every step that executes a statement.

| actions | code |
|---|---|
| `StoreFile`, `RegisterDataset`, `BeginIngest`, `IngestTable`, `IngestFails`, `FinishIngest`, `CleanupIngest` | `DatasetService.upload_dataset`, `_ingest_file` |
| `RequestDelete`, `RemoveFiles`, `LookupDataset`, `EraseTable` | `DatasetService.delete_dataset`, `queries/datasets.delete_dataset` |
| `CheckDataset`, `InsertRun`, `RespondTrigger` | `AnalysisService.trigger_analysis` |
| `StartRun`, `LoadTable`, `LoadFails`, `CheckLoaded`, `Infer`, `RunRaises` | `_execute_analysis_run`, `_load_dataset_records` |
| `BeginPersist`, `PersistResult`, `CommitResults`, `RollbackResults`, `CompleteRun`, `GenerateAlerts`, `FailRun` | `PipelineService.run_analysis`, `_execute_analysis_run` |
| `Crash` | `init_db`, which migrates and repairs nothing |

The order in which ingestion fills the tables, the delete empties them and the
loader reads them is kept (`NextIngest`, `NextErase`, `NextLoad`), because a
property depends on it. A file is abstracted to the set of tables its columns
fill, a model to a nonempty set of scored entities.

Uploads draw a fresh id, so a dataset is uploaded at most once; datasets hold
disjoint rows (see section 6).

### AnalysisRegistry

Six steps: submit, start, publish, complete, fail, remove. A run is submitted
only when its dataset has no other run in progress; results appear in one step
and before completion; a failed run has published nothing. `DatasetLifecycle`
implements it under `status <- run`, `published <- runs with stored results`,
`withdrawn <- erased`.

### AlertTriage

`insert_alert` is a DELETE by fingerprint and an INSERT (`DeleteOld`,
`InsertNew`), for every alert of the analysis in turn; the worker holds the lock
for all of them (`Locked`), a manual `POST /alerts/generate` does not. A status
patch reads the row (`ReadForStatus`), computes the timestamps from it
(`Patched`) and updates (`WriteStatus`); a priority patch only checks that the
row exists. Timestamps are abstracted to whether they are set. `made`, `cut`
and `closed` are history.

### AlertRules

`rows` receives results in descending order of risk with ties in any order, as
the SELECT returns them; `StoreAlerts` groups them and builds one alert per
group. Risk is in hundredths, so that the bands 0.50, 0.67 and 0.85 are exact; a
feature that is only compared with a threshold is a Boolean.

### EntityClusters

`stream` is what the sort by time and id has delivered so far; any transaction
may come next. `parent`, `rank`, `members` and `txCount` are the dictionaries of
`UnionFind`, functions whose domain is the set of keys. `stage` says what the
pass does with the transaction in hand, `linked` how many of its addresses are
in the cluster of `active`.

| actions | code |
|---|---|
| `Insert`, `Climb`, `Compressed` | `UnionFind.find`: a new key, one turn of the loop, the second loop |
| `TakeInputless`, `TakeSpending`, `ReadHistory` | step A: features before the transaction |
| `BeginUnion`, `SameRoot`, `Join` (`Attach`) | steps B and C: `UnionFind.union` with the next input or change output |
| `CountTx` | step D: `increment_tx_count` |

Calls of `find` on a root or right after another `find` of the same address
change nothing and are not steps of their own (`get_size`, `get_tx_count`, the
first argument of `union`); that `active` is a root is part of the invariant.
`AddressClusters` is implemented under
`clusters <- {members[r] : r \in DOMAIN members}`.

### CanonicalTables, FeatureTables, GraphTables

The offline code works on data frames from start to end, so these modules are
functions on records of tables, one per class of the code: `Ingest`
(`DataIngestor`), `Errors` (`DataValidator`), `Clean`, `Normalize`;
`AddressFeatures`, `TemporalFeatures`, `NetworkFeatures`, `TransactionFeatures`,
`RelationalFeatures`, `FeatureMatrix`; `NodeRows`, `EdgeRows`, `Summary`,
`Union`, `GraphFeatures`. What the code does in a loop over sorted rows is a
fold with the loop's variables as its state, in the code's order of reading
and updating. An id is a place in the alphabet and a spelling, so that
normalising spellings and dropping duplicates can come in the wrong order. A
transaction carries its size, which may be missing: `Decompose` estimates one
from the numbers of inputs and outputs, and the extractor takes 250 for a missing
one. The fee rate is the ratio of fee and size and no column of its own.
Validation does not stop the pipeline and neither does its model.

### OfflinePipeline

`store` maps every file and every DuckDB table that exists to its content.
Samples are typed (`IsSample`) and otherwise arbitrary: rows under one id, without
an id, orphans, nonsense amounts. A script is a
step: it reads, computes, and does its writes in the code's order, all of them
or, when it is interrupted, the first few. Nothing records which files belong
together; `Deliver` replaces the sample between two scripts. `computed` is
history: what a finished script had computed. Script by script: `RunPipeline`
(`run_pipeline.py`; an empty table is not exported), `RunFeatures`
(`feature_pipeline.py`), `RunGraph` (`graph_analysis/run_pipeline.py`, which
reads tables where the others read files), `RunModeling` (`builder.py`). `Part` cuts at exact percentages; the code's
`int(total * 0.70)` is one less for a few totals (90, 170, 180), and what is said
of the parts holds for any two cuts.

### ModelInference

One call, stage by stage: `ResolveModelPaths`, `ReadTable` and `ReadFails` (four
SELECTs, each on its own), `LoadFallback`, `Align`, `Validate`, `Predict`. The
environment is a deletion of the dataset, directory first and then table by
table in the order of `queries/datasets.py`, and the loss of a model file. A
dataset may have been uploaded as separate tables, as a consolidated parquet or
CSV file, or with events in a file of their own, and may lack columns. The two
sources of a load hold the same transactions and not the same sizes: ingestion
stores none (`IsDataset`), a table on disk has its own and a consolidated file
gets estimates (`Files`), so that the size and the fee rate a transaction is
scored by depend on where the load got it from. `Sources` are the two. A result
is the transaction and the features it is scored by, computed by the modules
above, so "the right features" means the features of the whole dataset.

### GraphExplorer

One request, `export`, `subgraph` or `neighborhood`, while a dataset is deleted
table by table. Statements that read for the same stage (the forward and
backward query of a hop, the details of a node) are one step. A LIMIT without an
ORDER BY returns any subset of that size. Actions: `ResolveExport`,
`SelectRiskiest`, `ConnectSelected`; `ResolveSubgraph`, `HopOverAddresses`;
`ResolveNeighborhood`, `HopOverBoth`; `DescribeNodes`, `DrawEdges`, `Annotate`.
`limited` records whether a walk was cut anywhere: a LIMIT, a slice of the
frontier, or the cap on visited addresses, at which a walk over addresses also
stops before its last hop. `IsDatabase` says what ingestion leaves: inputs and
outputs refer to a transaction of their dataset, because they come from the same
rows and transactions are stored first.

### SyntheticLedger, DatasetValidator

`book` is the generator's pool of unspent outputs, the wallets of its entities
and its map from addresses to entities; `tables` are the six lists of records.
A scenario that makes one transaction is one action; one that makes several
(bursts, chains, coordinated payments) is a first action and one per
transaction, with `scen` in between. `CreateTransaction` is the code's function
of that name: its assertion of conservation, the removal of what is spent from
both books, the recipients' new outputs, and a row in every table. A wallet is read in the order in which its
outputs came (`Older`, `Oldest`, `SomeCoins`), because that decides who spends
dust: a batch takes the first outputs of a wallet whatever they are worth, where a
participant of a mixing transaction gets a new output if its oldest does not
cover its share. Scenarios that draw an amount for each of their rows
do so here too. `Export` cuts
every table at the length asked for. Random amounts are drawn at a few points of
the code's ranges; random names are fresh.

`DatasetValidator` has one operator per group of checks: `KeysUnique` (five
keys), `RowsBelong`, `SumsAgree`, `Positive` (amounts of inputs and outputs) and
`BenignIsBenign`. Left out are the formats of network fields, timestamps and
columns, the presence of both classes, and the sample graph of the last check. An event's id holds the first 16
digits of its txid and is taken for as distinct as the txid; which of a
transaction's inputs has which index decides nothing and is any numbering.

### StreamingLedger

`Transaction` makes one row: it replenishes the pool below its reserve, takes
outputs in any order, raises the input of a whale or of a row that cannot pay,
computes the fee, splits the rest and adds the new outputs, which evict others
when the pool is full. `Store` buffers rows and writes full chunks, `Finish`
writes the rest and the manifest.

## 3. Runs

| run | instance | shows |
|---|---|---|
| `lifecycle_safety` | 1 dataset, 2 runs, 2 entities, 1 restart | 6 invariants, an action property, refinement of the registry |
| `lifecycle_live` | 1 dataset, 2 runs, 1 entity, no restart | runs, uploads and deletes settle |
| `lifecycle_alerts_left` | 1 dataset, 1 run | *violated:* a delete leaves the dataset's alerts |
| `triage` | 2 alerts, worker, 1 manual generation, 2 patches, 1 restart | 4 invariants, 1 action property |
| `rules` | 3 results | 3 invariants |
| `clusters` | 3 transactions, 4 addresses | 4 invariants, refinement of the partition |
| `analysis` | 2 transactions, 12 forms of the dataset, 1 deletion, 1 lost artifact | a scored dataset is scored whole, by sizes of one source; a valid one is scored |
| `analysis_asn` | the same | *violated:* a valid dataset with an unknown ASN cannot be analysed |
| `offline` | 8 samples, 5 script runs, 1 interruption | 5 invariants |
| `ledger` | 3 entities, 2 transactions exported, up to 3 per scenario | 4 invariants |
| `stream` | 2 rows, pool of 5, chunks of 2 and 3 | 3 invariants, refinement of `CoinBook` |
| `explorer` | 3 databases, every request over 5 addresses and 4 transactions | what is returned is sound, by export and by walk |

Why the bounds are enough. Every property of the lifecycle is about one dataset
and at most two of its runs; actors of different datasets share only the lock,
which serialises them, and the proofs cover any number. Two entities
distinguish all results from some. Two alerts let one be in the gap while the
other is stored; two generators and two patchers make every pairwise race;
`Asked` has one status of each kind that `Patched` tells apart. Three results
make groups of up to three, with and without ties, and the values of
`SomeResults` lie on both sides of every band. Three transactions on four
addresses build trees of three levels, so that `find` climbs twice, compresses,
and unions meet equal and unequal ranks; the inputs may repeat an address and
change may return to an input. `MaxCrashes` and `MaxRestarts` bound restarts; a
second one finds a state the first could have left.

The samples of `offline` are one whole dataset with two equal timestamps, one
sender twice and an address on both sides of a transaction, and seven
variations that each have one thing that can go wrong (other rows under the same
ids, three spellings of an id, missing fees, orphans, missing tables, missing
events, no ids at all, consolidated form); five script runs are the four scripts
and one repeated, with a delivery or an interruption anywhere. Two transactions
are enough in `analysis` for a history of one and for every table to be erased
before, between and after its reads. In `explorer` money goes round a cycle, a
second dataset shares a transaction and may have taken over its inputs and
outputs (their keys have no dataset, `migrations.py:55`), another database has
almost nothing, and `Limits` are small enough for every cap to cut and large
enough for walks that are not cut; the fifth address is one more than may be
visited, so that a walk stops at the cap with hops left. Two rows fill, overfill and drain a pool of
five; a chunk of three is never full. In `ledger` two transactions are reached in
one scenario or two, and overshot by bursts and chains of three; a wallet starts
with one output, so that scenarios have to fund it, and all amounts lie at the
lower end of the code's ranges (`Quarters = {0}`).

`CHECK_DEADLOCK FALSE` is set where a model ends: the lifecycle, whose ids run
out, the rules, the inference call, a graph request, both generators and, at
`MaxRuns`, the scripts. Triage never stops and is checked for deadlock, and so is
clustering, whose only idle step is the end of the stream (`Finish`). In the
dataset generator `Hop` and `Peel` follow an output that has to be in the pool:
`BooksAgree` holds it there.

### What the properties say

Lifecycle: `OneActiveRun` (no two runs in progress on a dataset, although its
status is read outside the lock); `ResultsMatchOutcome` (all results or none, a
completed run has them until a delete begins, a failed one has none, through
failures, deletions and restarts); `RunsOnReadyDatasets`,
`DatasetStatusTellsRows` (status and rows agree although a delete may run
between registration and ingestion); `ScoresWholeDataset` (a worker never scores
half a dataset, because the delete drops network events first and the loader
reads them last); `FinishedRunsAreFrozen`, `ImplementsRegistry`; liveness
`RunsSettle`, and `RequestsSettle` for uploads and deletes.

`DatasetStatusTellsRows` and `ScoresWholeDataset` exempt datasets in `faulted`:
with a directory that outlives its deletion, ingestion and deletion of one
dataset can overlap, and TLC finds a half-scored dataset. So neither says anything
of the rows a failing undo leaves behind, nor of those that a restart leaves
under `processing`: the code keeps both, and what is checked is that no run is
ever put on such a dataset (`RunsOnReadyDatasets`).

Triage: `ResolvedIffInactive`, `WorkedOnIsAcknowledged` (timestamps agree with
status under stale reads; reopening a closed alert does not acknowledge it),
`NoAlertLost` (the generation that loses a race never leaves an alert deleted;
only a restart can), `FieldsAreIndependent`.

Rules: `BandsAgree` (an alert is critical exactly for a critical result; P1
exactly for that or for several kinds of signal), `HighRiskAlertedOnce`,
`TiesDoNotMatter` (the reported behaviour, though, is that of whichever tied
result comes first).

Clusters: `ForestIsSound` (forest, member sets and counts have the same roots, a
node is in the same member set as its parent, and ranks rise, so that there is
no cycle and `find` ends), `ClustersAreComponents` (the clusters are the
connected components of co-spending and change, neither finer nor coarser, in
the middle of a transaction too), `HistoryIsPrior` (features of a transaction,
the count that survived all merges among them, are computed from those before it
in the order of the sort), `ImplementsClusters`.

Offline: `CanonicalIsConsistent` (one spelling, unique keys, no orphans, no
transaction lost, all fees known, and cleaning again changes nothing);
`FeaturesAreHistory` (every historical feature equals its definition over the
transactions before, not only for one run of the pipeline but for any mixture of
files); `SnapshotsMatchTheGraph` (the component size the tracker keeps is that of
the graph, and its last one that of the summary); `ModelingIsWhole` (what
`builder.py` accepts has every transaction once, with its own features and
label, in chronological parts); `TypeOK` (a table never without its file).
`FeaturesAreHistory` and `SnapshotsMatchTheGraph` compare the folds with
reference definitions that use neither order of processing nor a forest.

Analysis: `ScoresTheWholeDataset` (whatever a deletion had taken when the tables
were read: all transactions by the features of the whole dataset, or an error
and no results; the sizes are those of one source for all transactions, and of the
directory only when a deletion or a failed read got in the way, so that two calls
may well score one dataset by different sizes), `ValidDatasetsAreScored` (no other stage refuses what the
validator accepts, in any form of upload, when all ASNs are known).

Graphs: `ExportIsSound` (no edge to a node that was cut, never more nodes than
asked for, no riskier address missing while a less risky one or a mere neighbour
is shown, complete totals), `WalkIsSound` (all nodes within the hops asked for
and connected by the edges returned; nothing within reach missing unless a limit
was met; the high-risk filter keeps what it promises).

Generators: `BooksAgree` (no output spent twice; pool and wallets hold the same
outputs, each once; every recorded output is held or spent),
`ExportIsConsistent` (the cut export has the length asked for and passes the
validator's checks of keys, references, sums and fees, and benign labels; not
those of amounts, which batches of dust fail, nor that of both classes, which a
short export or a mix of benign scenarios fails), `OnlyBatchesOverdraw` (no other
scenario creates an output of nothing or less, whoever holds dust: the property
fails as soon as one of the three kinds of batches is not exempt);
`RowsAreSound` (conservation, minimal fee and outputs, and no output spent by two
rows of the file), `ManifestMatchesFile`,
`ImplementsCoinBook` (no output under the name of one that was spent or
evicted).

### Fairness

`FairSpec` assumes weak fairness of the steps of each upload, each delete and
each worker: a thread that has begun a request is scheduled again, and the
lock is given to a waiter in the end, since every block that holds it is
finite. Weak fairness per request is enough because a request that waits for
the lock is enabled again whenever a block ends and blocks are finitely many.
Nothing obliges a client to upload, delete or trigger. The run with fairness
has no restart: after one, a run that was in progress stays so for ever
(section 4).

## 4. Disagreements between documents and code

Two are runs that TLC ends with a violation:

* a delete promises "all related records" and leaves the alerts
  (`lifecycle_alerts_left`);
* an event without a known ASN is stored as NULL, as a test asks for, and taken
  for valid by the validator, but the loader has turned it into 0 by then, which
  the validator refuses, and the analysis of the whole dataset fails
  (`analysis_asn`).

The others were found while modelling; the models follow the code, and none of
the properties above promises what only a document does:

* `synthetic-dataset.md:176` says that all amounts are strictly positive and the
  validator demands it (`validate_synthetic_dataset.py:152-155`). A benign batch, a
  fan-in or a fan-out whose wallet has dust in front shares out less than nothing
  (`generate_synthetic_dataset.py:518-542, 616-632, 662-684`), and the row is
  recorded, since only conservation and the fee are asserted; the ledger model
  reaches such exports;
* `assert avail > 0` (`generate_synthetic_dataset.py:474`) fails in a normal payment
  of two or three inputs when these are dust, and the generator stops without an
  export, which `synthetic-dataset.md:189` does not expect; the model has the
  phase `failed`;
* `model-output-contract.md:133` says that a value which was missing and imputed
  is marked `is_imputed`. The size that ingestion does not store
  (`dataset_service.py:283-303`) is taken to be 250 (`transaction_features.py:46`)
  without a mark, in every result from the database;
* a delete promises that no analysis is running and removes one that was pending
  when it looked (`dataset_service.py:535-545`);
* `backend-ml-contract.md:138` says a run ends in `completed` or `failed`; after
  a restart it stays `running`, and every new analysis and the deletion of its
  dataset are refused;
* generation of alerts is said to be atomic under the lock
  (`current-state-project-context.md:488`) and is so only in the worker
  (`alert_service.py:26`);
* a comment asks for three critical results to escalate and the code for one
  (`alert_engine.py:289-291`);
* `graph-clustering.md:18` says that the inputs of collaborative transactions
  are not joined, and they are (`entity_clustering.py:178`);
* `address_features.py:15-17` promises t < T, and of two transactions with one
  timestamp the second, by id, sees the first; the reference definitions say so;
* a whale's output is given a new amount before it is spent
  (`generate_synthetic_dataset.py:910`), so an input can be worth something else
  than the output it names, which `synthetic-dataset.md:90-91` excludes; no check
  of the validator looks at it;
* the change of a mixing transaction goes to the entity that sends it, whoever
  put the input in (`generate_synthetic_dataset.py:337`), where
  `synthetic-dataset-audit.md:171` says that no entity holds another's outputs.

## 5. Proofs

All for every value of the constants.

**DatasetLifecycleProofs.** `TypeCorrect`, `OneRunAtATime`, `ResultsAreWhole`,
`FinishedRunsStay`, `BackendImplementsRegistry`. The properties are not inductive
by themselves: whether a worker's next status update is legal depends on what
earlier steps left. `IInv` adds `PhaseTellsStatus` (where a worker stands
determines which statuses its run may have) and `PhaseTellsResults` (where it
stands determines whether results are stored, and that before any deletion a
run without a row has no worker and no results). `IInv` is preserved by every
action; the action properties and the step of the refinement follow from `IInv`
and one action at a time.

`StatusTellsRows`, `ScoresAreOfTheWhole` and `RunsStayOnReadyDatasets` relate
three actors. `UploadTellsRows` and `DeletionTellsRows` say which tables are filled
at each place of an upload and of a delete, as long as no I/O error was
swallowed; with `DatasetStatusTellsRows` they are inductive (`TableInv`).
`LoaderInv` adds `RunsAfterIngestion` (the dataset of a run that was checked has
been ingested, and is ready until its row is deleted) and `LoaderTellsRows`: the
delete takes the network events first and the loader reads them last, so while
they are stored nothing has been missed, and who has read them has read
everything.

**AlertProofs**, on `AlertTriage`: `TriageTypeCorrect`, `ResolvedExactlyWhenClosed`,
`WorkIsAcknowledged`, `AlertsSurvive`, `AnalystsDoNotCollide`. The timestamp
theorems need that the row
a patch has read satisfied the same property when it was read, since the
UPDATE combines it with a newer row (`TimestampInv`); `AlertsSurvive` needs that a
generation has at most one alert in its gap (`LossInv`); `AnalystsDoNotCollide` is
an action property, of each patch in turn.

And on `AlertRules`: `TypeCorrect` (which is proved and needs no run), `CriticalAlerts`, `TopPriorities`,
`BandsCorrect`, `HighRiskAlerted`, `TiesAreHarmless`. `RowsOK` (rows are typed and sorted by
risk) gives every group an anchor of highest risk; groups are the classes of an
equivalence, so a row is in one alert; severity and priority of a result depend
on its type and risk alone.

**EntityClustersProofs.** `TypeCorrect`, `TreesAreTheClusters`, `NoCycles`,
`ForestCorrect`, `ClustersCorrect`, `NoLeakage`, `Refinement`, for streams of any length. Lemmas show that an
insertion, a compression and an attachment each keep `ForestOK` (forest,
dictionaries and ranks agree) given `WalkOK` (a walk has not left its cluster and
ranks have risen on it). `PassOK` adds where the pass is: `active` is a root whose
cluster holds all that has been linked. Components are defined without paths, by
sets that no group of addresses crosses, so no induction over paths is needed:
a step that extends the group in hand by one address joins exactly the two
clusters that the group and the address are in (`OneJoined`). `NoLeakage` counts:
in `HistoryInv` the number a root carries is the number of transactions whose
sender ended in its cluster (`CountsOK`), through every merge, and a recorded
feature speaks of the stream before its transaction only.

**SumTheorems.** Induction over numbers and over finite sets, stated of a set
that is closed under a step, since the library's forms take an operator that no
prover here can instantiate; from it, that the folds of the community modules
compute sums in any order, and what a sum does when an element comes, goes or
changes.

**StreamingLedgerProofs.** `TypeCorrect`, `RowsPay`, `NoDoubleSpend`,
`RowsSound`, `ManifestCounts`, `KeepsTheBook`, for files, chunks and pools of any
size. `IInv` has six parts: outputs in the pool are within its capacity and named
once (`PoolInv`, `NamesInv`), every row on its way or on file conserves value
(`LinesInv`), the counters are those of the rows made so far, in the file and in
the buffer together (`CountsInv`, `BurstsInv`), and what the stage says of the
buffer (`StageInv`). One row is followed through refill, choice, raise, fee,
split and eviction; conservation is arithmetic with integer shares, the sum of
the outputs being an induction on their number. `NoDoubleSpend` and the
refinement rest on `NamesInv`: a name that is given out is above all before.

**SyntheticLedgerProofs.** `TypeCorrect`, `BooksKept`, `ExportPasses`, for any
number of entities, any amounts and scenarios of any length. `ExportPasses` claims
the checks that `ExportIsConsistent` names, those of five keys among them, and
neither positive amounts nor both classes. Between two updates
of the books a scenario works on a book of its own, so what is inductive is said
of a book (`BookOK`, `Accounted`: nothing in it is spent, every recorded output is
in it or spent) and shown for every book that a scenario can hold in hand
(`Usable`). Every action is then one of three turns: it creates transactions from
usable books, it aborts, or it moves on within its scenario (`Turns`).
`LedgerInv` adds that no two recorded inputs name the same output (`InputsInv`)
and the shapes of rows and scenes. For the export, `TablesInv` says that the
tables are aligned (keys of their own in each of them, one label and one event per transaction, totals
that are the sums of its inputs and outputs) and `CutOK` that a cut at any length keeps this,
because the cut takes the first transactions and only their rows.

**GraphExplorerProofs.** `ExportsAreSound`, `WalksAreSound`, for any database that
ingestion can leave, any request, any limits and depth, and a deletion at any
moment. A deletion only takes rows away (`DbInv`), and what the service has in
hand stays (`DeletionStep`). For an export, `SelectInv` says that the selected
addresses are as many as there was room for and none less risky than one left
out; every pair of them has at most one edge, with the sum of its payments
(`EdgesOfAddresses`). For a walk, `LevelsInv` gives every visited node a level and a
tie to a node of a lower level, which puts it within the hops made
(`HangingIsAround`) and, since every tie between visited nodes is drawn
(`AddressTiesAreDrawn`, `TransactionTiesAreDrawn`), within reach of the edges
returned; `FoundInv` says that, as long as nothing was cut, the ball of the hops
made has been visited and only the frontier has ties that were not followed, so
that a walk that runs dry early has everything (`ClosedHoldsBalls`). `SeenInv` covers
a deletion in between: a transaction that has lost its row has no node and gets
no edge. Balls are recursive functions; that they exist and grow by one hop is
shown by induction over their radius (`BallExists`, `AroundGrows`). `limited` has to
count a stop at the cap on visited addresses: a walk that stops there with hops
left does leave out addresses within its hops.

**PipelineProofs**, on `OfflinePipeline`. `TypeCorrect`, `CanonicalConsistent`, `ModelingWhole`,
`FeaturesOfThePast`, `SnapshotsOfTheGraph`, for any samples, any number of script runs and interruptions anywhere. Tables are
rearranged by masks and sorts, so the lemmas come first: `InOrder` lists a finite
set without repetition (`OrderEnumerates`), `Where` keeps exactly the rows of its
mask, in order (`WhereIs`, `WhereThins`; `WhereAll`: an unselective mask changes
nothing), the first row of every key makes the keys unique (`DistinctRows`), a sort
by time and id is a permutation and ascending (`ChronologicalSorts`). From them
`CleanIs` says what cleaning returns and that cleaning its result changes nothing,
and `PipelineComputes` carries it through ingestion and normalization. `IInv` is
`TypeOK` and `StoreOK` (the tables of transactions have one typed row for every
id, stored inputs, outputs and features are sequences, and graph features have
finitely many ids), which every prefix of every script's
writes preserves (`OrderlyWrites`: a table is registered after its file, whatever the
script). `ModelingWhole` is a counting argument (`JoinedIds`): the builder compares
sizes only, but ids of the join are unique and among those of each input, so equal
sizes make them the ids of each.

`FeaturesOfThePast` is the anti-leakage promise, and says it of two passes over the
rows in order of time and id. A `FoldLeft` is the recursive function that a
`CHOOSE` picks; that there is one (`PassesExist`) and what its steps are
(`PassTurns`) is shown once for all passes. The address pass keeps `AddressPass`:
what it holds of every address is what the transactions so far tell of it
(`Tells`: counts and sums over sets, the first time seen), a claim without order that
one more transaction changes as `Update` does (`TellsMore`), and every row made so
far is the history of its transaction. The temporal pass keeps `TemporalPass` (when
each sender sent last, `LastSent`); its windows, differences of two positions found
by binary search, are counted off by `WindowIs`. As the transactions so far are
exactly those that come before the next one (`PriorIs`), each row speaks of the
past alone; ties of time are ordered by id, which the theorem spells out in
`Prior`.

`SnapshotsOfTheGraph` is about the graph pipeline, and relates three things that are
computed in different ways: the disjoint-set forest of the feature extractor, the
components of a graph of links, and the summary of the graph built from all rows.

* *Components.* As in `EntityClustersProofs` a component needs no paths: it is the
  least set with the node in it that no arc crosses (`IsComponent`). `ComponentIs`
  shows that growing a set `2 * Cardinality(arcs)` times gives it, since every
  round adds an end of an arc or has found a set that no arc crosses.
* *The forest.* Trees have no ranks here, so an induction over heights has nothing to
  hold on to. `Rooted` says instead that a set of nodes which contains the roots,
  and a node whenever it contains the node's parent, contains all: no cycle, in the form
  in which it is used. `Leads(parent, r)` gives every node its root. Hanging a path from
  its root changes no root and hanging a root from another renames one
  (`GraftedLeads`, `UnionTracks`), so `Tracks` holds: sizes are the numbers of nodes of the
  classes.
* *Both together.* `Matches`: the classes of the forest divide the nodes of the links
  as the components do. `UnionMatches` adds one link. Which tree is hung from which
  does not matter to it; which size is updated does, and only there.
* *The pass.* `GraphPass` says that after `k` transactions the tracker matches the
  links of the first `k`, the degrees count their rows, and every row made so far is
  a `Snapshot`. `RestrictedIs` carries this over to the graph of arcs that the builder
  makes of the same rows.
* *The giant component.* A component of the whole graph contains a transaction if no row
  is an orphan (`TransactionInComponent`); the last of its transactions has seen all
  of it (`LastSeesAll`), and none has seen more than its component has
  (`SnapshotWithin`). So the greatest of the sizes seen is that of the giant
  component (`GiantIs`). With orphans it need not be, and the property says so.

**PipelineProofs**, on `ModelInference`, which cleans and scores by the same
functions: `ScoredWhole` and `ValidAreScored`. What a call may hold at a stage is
`Expects`: while it reads, each table as it is stored or not at all; before alignment
no transactions, or all of them with what was there of the rest (`OfDatabase`), or
everything from the directory, with its own sizes (`OfDirectory`); after alignment
the transactions of a source in `Sources`, their fees as stored or as derived
(`Prepared`), and of the database if the call is `Calm`. That is not yet the
dataset: inputs or outputs may be missing, and a derived fee, which is cut at
0, may be wrong. Two later stages rule that out, each without meaning to. The
extractors raise when a table is empty, so a call that gets through has had inputs
and outputs (`NothingStaysNothing`); with both, validation has checked that fees
balance (`ConservationHolds`), so a derived fee is the one that cleaning would
have filled in (`Alike`, `CleanAlike`), and what is scored is the cleaned dataset
itself (`PreparedIsWhole`). Without either check, `ScoresTheWholeDataset` would not
hold. `SmoothInv` follows an undisturbed call table by table; that nothing is
refused at its end needs that cleaning leaves a row of every table of a valid
dataset (`ValidSurvivesCleaning`).

The proofs assume only the named assumptions of the modules, which TLC
evaluates in the runs: `TargetAssumption`, `ContentAssumption`,
`BoundAssumption`; `AlertsAssumption`, `WorkerAssumption`, `PriorityAssumption`,
`AskedAssumption`, `RestartAssumption`; `ResultsAssumption`, `MaxAssumption`; `RowsAssumption`, `NoneAssumption`;
`SizesAssumption`; `EntitiesAssumption`, `InitialAssumption`, `DrawsAssumption`;
`IdsAssumption` (no transaction is an address, NULL is neither), `DatabasesAssumption`,
`RequestsAssumption`, `LimitsAssumption`; `NullAssumption` (a missing value is not an
id or a number), `SamplesAssumption` (delivered tables have typed columns),
`BoundsAssumption`; `DatasetsAssumption` (the directory of a dataset holds the rows
that were ingested from it, and sizes, of which ingestion stored none; of a column its tables lack, ingestion stored the counts
of the inputs and outputs, and the difference of the totals or no fee; a file of
events holds the same events, or is used only when there are no others).

Only model-checked:

* the liveness properties `RunsSettle` and `RequestsSettle`, which are out of the
  prover's reach;
* `OnlyBatchesOverdraw`: it rests on the ranges of the code, up to 28 outputs of dust
  from 20,000,000 satoshis for example, and not on their being numbers, which is
  all that `DrawsAssumption` says of `Many`.

Every other property of a passing run has its theorem.

## 6. What is not modelled

* A database error in a single-row status UPDATE. With it, a run could be marked
  failed after its results were committed. The models let such an update fail
  only because the row is gone.
* Ingestion of rows that another dataset holds, as a process: `DatasetLifecycle`
  has datasets with disjoint rows, and `GraphExplorer` starts from a database in
  which rows have been taken over.
* The connection manager below the lock: cursors per thread, generations, the
  transaction flag. All handles are cursors of one connection.
* The predictors' arithmetic, explanations, ratios and logarithms, page rank and
  communities, wording, logging, formats.
* Lists and pages, maps and GeoIP, the model registry: they store nothing, and
  what they compute is SQL with plain conditions.
* Training, benchmarks and notebooks: calls of external learners on a finished
  table.
* Deployment and the frontend, apart from what a client may send and when.

## 7. Plan

Done: the modules and proofs above; the tracker of `GraphTables` is written with
recursive functions, so that it can be proved about, and the extractors of `FeatureTables` by their turns. What is
left is a module for ingestion across datasets.
