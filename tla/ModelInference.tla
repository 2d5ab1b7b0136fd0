--------------------------- MODULE ModelInference ---------------------------
(***************************************************************************)
(* run_analysis of pipeline/ml/model_inference.py: one call, from the      *)
(* model's artifacts to a result per transaction, while the dataset it     *)
(* reads may be deleted and the artifacts may be replaced.                 *)
(*                                                                         *)
(* The tables are read by one statement each, without a transaction, so a  *)
(* deletion of the dataset may fall between them.  What a model predicts   *)
(* is left out: a result is the transaction and the features it is scored  *)
(* and explained by.                                                       *)
(***************************************************************************)
EXTENDS GraphTables

CONSTANTS
  Datasets,   \* what a dataset may consist of: its tables, files and columns
  Limits      \* values of max_entities, 0 and Null among them

Tables == {"tx", "ins", "outs", "net"}

(* What loader and ingestion make of a missing ASN and of missing counts. *)
WithAsns(events) ==
  [i \in DOMAIN events |-> [events[i] EXCEPT !.asn = IF @ = Null THEN 0 ELSE @]]
Count(rows, id) == Max({1, Len(Of(rows, id))})

(* A directory holds what was ingested, except for sizes: ingestion stores   *)
(* none, whether the files have them or they are estimated when they are     *)
(* read.  Of another column that its tables lack, it has stored what can be  *)
(* derived, or no fee at all.                                                *)
Files(d) ==
  IF d.disk = "parquet" THEN Decompose(d.files.sih) ELSE Ingest(d.files).observed

StoredAs(row, t, rows, absent) ==
  /\ row \in TransactionRow
  /\ row = [t EXCEPT !.size = row.size,
                     !.fee = IF "fee" \in absent THEN row.fee ELSE @,
                     !.nin = IF "counts" \in absent THEN row.nin ELSE @,
                     !.nout = IF "counts" \in absent THEN row.nout ELSE @]
  /\ "fee" \in absent => t.fee \in {Null, t.inSum - t.outSum}
  /\ "counts" \in absent => t.nin = Count(rows.ins, t.id) /\ t.nout = Count(rows.outs, t.id)

IsDataset(d) ==
  LET addrs == {row.addr : row \in Range(d.db.ins) \cup Range(d.db.outs)}
      hosts == {row.src : row \in Range(d.db.net)}
      onDisk == Files(d)
  IN /\ d.db \in [tx : Seq(TransactionRow), ins : Seq(CoinRow(addrs)), outs : Seq(CoinRow(addrs)),
                  net : Seq(EventRow(hosts))]
     /\ \A t \in Range(d.db.tx) : t.size = Null
     /\ d.disk = "tables" \/ d.absent = {}
     /\ d.disk \in {"tables", "parquet"} =>
          /\ \A t \in Tables \ {"tx"} : onDisk[t] = d.db[t]
          /\ DOMAIN onDisk.tx = DOMAIN d.db.tx
          /\ \A i \in DOMAIN d.db.tx : StoredAs(onDisk.tx[i], d.db.tx[i], d.db, d.absent)
     /\ <<>> \in {d.netFile, d.db.net} \/ WithAsns(d.netFile) = WithAsns(d.db.net)

ASSUME DatasetsAssumption == \A d \in Datasets : IsDataset(d)

Supported == {"aquasynex"}   \* VALID_SUPPORTED_MODELS
Models == Supported \cup {"other"}
Artifacts == {"metadata", "xgb", "cat", "prep"}

VARIABLES
  dataset,    \* the dataset, as it was ingested; no step changes it
  db,         \* its rows in the database
  disk,       \* its directory: "gone" when it was removed
  deleting,   \* how far its deletion is
  artifacts,  \* the files in the models directory
  call,       \* the arguments of the call: model and limit
  stage,      \* what the call does next
  obs,        \* what it has loaded: tables, and the columns they lack
  faulted,    \* history: a statement has failed
  outcome,    \* "running", "scored" or the exception raised
  results

inferenceVars == <<dataset, db, disk, deleting, artifacts, call, stage, obs, faulted, outcome, results>>
backend == <<dataset, db, disk, deleting, artifacts>>

Loaded(d, absent) ==
  [tx |-> d.tx, ins |-> d.ins, outs |-> d.outs, net |-> d.net, tagged |-> {}, absent |-> absent]
Nothing == Loaded([t \in Tables |-> <<>>], {})

InferenceInit ==
  /\ dataset \in Datasets
  /\ db = dataset.db
  /\ disk = dataset.disk
  /\ deleting = "no"
  /\ artifacts \in {Artifacts, Artifacts \ {"metadata"}, Artifacts \ {"cat"}}
  /\ call \in [model: Models, limit: Limits]
  /\ stage = "artifacts"
  /\ obs = Nothing
  /\ faulted = FALSE
  /\ outcome = "running"
  /\ results = <<>>

----------------------------------------------------------------------------
(* The environment.  The deletion removes the directory, an error of which  *)
(* is only logged, and then the rows, table by table.                       *)
Step == [no |-> "net", net |-> "ins", ins |-> "outs", outs |-> "tx", tx |-> "done", done |-> "done"]

RemoveFiles ==
  /\ deleting = "no"
  /\ disk' \in {disk, "gone"}
  /\ deleting' = "net"
  /\ UNCHANGED <<dataset, db, artifacts, call, stage, obs, faulted, outcome, results>>

EraseTable ==
  /\ deleting \in Tables
  /\ db' = [db EXCEPT ![deleting] = <<>>]
  /\ deleting' = Step[deleting]
  /\ UNCHANGED <<dataset, disk, artifacts, call, stage, obs, faulted, outcome, results>>

DropArtifact ==
  /\ artifacts = Artifacts
  /\ \E lost \in {"xgb", "cat", "prep"} : artifacts' = artifacts \ {lost}
  /\ UNCHANGED <<dataset, db, disk, deleting, call, stage, obs, faulted, outcome, results>>

----------------------------------------------------------------------------
RaiseError(error) == stage' = "end" /\ outcome' = error /\ UNCHANGED <<obs, results>>
Proceed(next) == stage' = next /\ UNCHANGED <<outcome, results>>

ResolveModelPaths ==
  /\ stage = "artifacts"
  /\ IF call.model \in Supported /\ artifacts = Artifacts
     THEN Proceed("tx") /\ UNCHANGED obs
     ELSE RaiseError("ModelLoadError")
  /\ UNCHANGED <<backend, call, faulted>>

(* The four statements.  One that fails is logged: for events as if there   *)
(* were none, for the other tables as if there was nothing at all.          *)
NextRead == [tx |-> "ins", ins |-> "outs", outs |-> "net", net |-> "fallback"]

ReadTable ==
  /\ stage \in Tables
  /\ obs' = [obs EXCEPT ![stage] = db[stage]]
  /\ Proceed(NextRead[stage])
  /\ UNCHANGED <<backend, call, faulted>>

ReadFails ==
  /\ stage \in Tables
  /\ obs' = IF stage = "net" THEN obs ELSE Nothing
  /\ faulted' = TRUE
  /\ Proceed("fallback")
  /\ UNCHANGED <<backend, call>>

(* Without transactions nothing that was read counts, and the files of the  *)
(* directory are loaded: its tables, or else a consolidated file.  Arrays   *)
(* in a CSV are text, and to add their amounts up is a TypeError.  Events,  *)
(* when there are none, come from a file of their own.                      *)
FromDisk ==
  IF disk \in {"tables", "parquet"} THEN Loaded(Files(dataset), dataset.absent) ELSE Nothing

LoadFallback ==
  /\ stage = "fallback"
  /\ IF obs.tx = <<>> /\ disk = "csv" THEN RaiseError("TypeError")
     ELSE LET found == IF obs.tx # <<>> THEN obs ELSE FromDisk
          IN /\ obs' = IF found.net = <<>> /\ disk # "gone"
                       THEN [found EXCEPT !.net = dataset.netFile] ELSE found
             /\ Proceed("align")
  /\ UNCHANGED <<backend, call, faulted>>

(* (Plausible bug.) No ASN is recognised. *)
AlignedWithoutAsns ==
  [obs EXCEPT !.net = [i \in DOMAIN obs.net |-> [obs.net[i] EXCEPT !.asn = 0]]]

(* Columns that are missing: a fee is the difference of the totals, and the *)
(* counts are those of the inputs and outputs.  An ASN that is missing      *)
(* becomes 0.                                                               *)
Aligned ==
  LET Complete(t) ==
        [t EXCEPT !.fee = IF "fee" \in obs.absent THEN Max({t.inSum - t.outSum, 0}) ELSE @,
                  !.nin = IF "counts" \in obs.absent THEN Count(obs.ins, t.id) ELSE @,
                  !.nout = IF "counts" \in obs.absent THEN Count(obs.outs, t.id) ELSE @]
  IN [obs EXCEPT !.tx = [i \in DOMAIN obs.tx |-> Complete(obs.tx[i])],
                 !.net = WithAsns(@)]

Align ==
  /\ stage = "align"
  /\ IF obs.tx = <<>> THEN RaiseError("DatasetError")
     ELSE IF \/ obs.net = <<>>
             \/ "size" \in obs.absent
             \/ "counts" \in obs.absent /\ <<>> \in {obs.ins, obs.outs}
     THEN RaiseError("InvalidFeaturesError")
     ELSE obs' = Aligned /\ Proceed("validate")
  /\ UNCHANGED <<backend, call, faulted>>

Validate ==
  /\ stage = "validate"
  /\ IF Errors(obs) # {} THEN RaiseError("InvalidFeaturesError")
     ELSE Proceed("predict") /\ UNCHANGED obs
  /\ UNCHANGED <<backend, call, faulted>>

(* Features, joined to the graph features by id, of the first max_entities  *)
(* transactions.  What an absent event leaves open is filled.               *)
Limit == IF call.limit \in {0, Null} THEN 10000 ELSE call.limit

Rows(c) ==
  LET matrix == FeatureMatrix(c)
      graph == GraphFeatures(c)
      Filled(net) == IF net = Null THEN [asn |-> Null, ips |-> 0] ELSE net
  IN [i \in 1..Min({Len(matrix), Limit}) |->
        [id |-> matrix[i].id, graph |-> graph[matrix[i].id],
         tab |-> [matrix[i] EXCEPT !.net = Filled(@)]]]

(* A result: the transaction, all its features, those of them that were     *)
(* filled in by the loader, and the evidence of the graph.                  *)
Envelope(row) ==
  [id |-> row.id, features |-> row,
   imputed |-> obs.absent \cap {"counts"},
   evidence |-> [component |-> row.graph.component, reused |-> row.graph.reused,
                 fanIn |-> row.tab.rel.fanIn, fanOut |-> row.tab.rel.fanOut]]

Predict ==
  /\ stage = "predict"
  /\ LET c == Normalize(Clean(obs)) IN
     IF ~CanExtract(c) THEN RaiseError("InvalidFeaturesError")
     ELSE IF "prep" \notin artifacts THEN RaiseError("ModelLoadError")
     ELSE IF {"xgb", "cat"} \cap artifacts # {"xgb", "cat"} THEN RaiseError("MLError")
     ELSE stage' = "end" /\ outcome' = "scored" /\ UNCHANGED obs
          /\ results' = [i \in DOMAIN Rows(c) |-> Envelope(Rows(c)[i])]
  /\ UNCHANGED <<backend, call, faulted>>

Call == \/ ResolveModelPaths \/ ReadTable \/ ReadFails \/ LoadFallback
        \/ Align \/ Validate \/ Predict

InferenceNext ==
  \/ RemoveFiles
  \/ EraseTable
  \/ DropArtifact
  \/ Call

InferenceSpec == InferenceInit /\ [][InferenceNext]_inferenceVars

----------------------------------------------------------------------------
(* The transactions of a dataset as its database has them, without sizes,   *)
(* or with the sizes of its directory.                                      *)
Sized(d) ==
  [i \in DOMAIN d.db.tx |-> [d.db.tx[i] EXCEPT !.size = Files(d).tx[i].size]]
Sources(d) ==
  {d.db.tx} \cup (IF d.disk \in {"tables", "parquet"} THEN {Sized(d)} ELSE {})

(* The canonical dataset, with events from a file if the database has none. *)
Content(tx) ==
  LET net == IF dataset.db.net = <<>> THEN dataset.netFile ELSE dataset.db.net
  IN Clean(Loaded([dataset.db EXCEPT !.tx = tx, !.net = WithAsns(net)], {}))

Calm == deleting = "no" /\ ~faulted

(* Whatever part of the dataset a concurrent deletion had taken away when   *)
(* the tables were read: an analysis that returns has scored the            *)
(* transactions of the whole dataset, up to the limit, by the features of   *)
(* the whole dataset; one that does not returns nothing.  There is no       *)
(* transaction around the reads (model_inference.py:209-221), and size and  *)
(* fee rate differ between the sources (normalization.py:202 estimates what *)
(* ingestion leaves NULL): they are all the database's or all the           *)
(* directory's, and the directory's only after a deletion or an error.      *)
ScoresTheWholeDataset ==
  /\ outcome = "scored" =>
       \E tx \in Sources(dataset) :
         /\ [i \in DOMAIN results |-> results[i].features] = Rows(Content(tx))
         /\ Calm => tx = dataset.db.tx
  /\ outcome # "scored" => results = <<>>

Undisturbed ==
  /\ Calm
  /\ artifacts = Artifacts
  /\ call.model \in Supported

Valid(d) == Errors(d) = {} /\ \A t \in Tables : d[t] # <<>>

(* An undisturbed analysis of a dataset that is valid and whose events all  *)
(* have an ASN does not fail.                                               *)
ValidDatasetsAreScored ==
  /\ Undisturbed
  /\ Valid(dataset.db)
  /\ \A e \in Range(dataset.db.net) : e.asn # Null
  => outcome \in {"running", "scored"}

(* The validator takes a missing ASN for valid, and ingestion stores one as *)
(* NULL (validation.py:175-177, test_geoip_and_network_map.py:261): such a  *)
(* dataset can be analysed.  It cannot: the loader has made the NULL a 0.   *)
MissingAsnIsTolerated ==
  Undisturbed /\ Valid(dataset.db) => outcome \in {"running", "scored"}
=============================================================================
