------------------------- MODULE DatasetValidator -------------------------
(***************************************************************************)
(* DatasetValidator.run_all_checks on the exported tables: the checks that *)
(* relate them to each other, and those of amounts and benign labels.  The *)
(* formats of network fields (4), timestamps (5) and columns (6), the      *)
(* presence of both classes (7, which the length decides) and the sample   *)
(* graph (8) are left out.  An event's id holds the first 16 digits of its *)
(* txid, and is taken for as distinct as it.                               *)
(***************************************************************************)
EXTENDS SyntheticLedger

Distinct(seq) == \A i, j \in DOMAIN seq : seq[i] = seq[j] => i = j
Column(rows, field) == [i \in DOMAIN rows |-> rows[i][field]]
Values(rows, field) == {rows[i][field] : i \in DOMAIN rows}
Txids == Values(tables.tx, "txid")
InputsOf(id) == {r \in tables.input : r.txid = id}
OutputsOf(id) == {r \in tables.output : r.txid = id}
Worth(rows) == SumFunction([r \in rows |-> r.amt])

(* 1: the keys of the five tables; a row's index is within its transaction. *)
KeysUnique ==
  /\ Distinct(Column(tables.tx, "txid"))
  /\ Distinct(Column(tables.event, "event"))
  /\ \A r \in EntityRows : \A q \in EntityRows : r.entity = q.entity => r = q
  /\ \A r \in tables.input : \A q \in tables.input :
       r.txid = q.txid /\ r.index = q.index => r = q
  /\ \A r \in tables.output : \A q \in tables.output :
       r.txid = q.txid /\ r.out = q.out => r = q

(* 2: no orphans in any table; one event and one label per transaction. *)
RowsBelong ==
  /\ {r.txid : r \in tables.input} \subseteq Txids
  /\ {r.txid : r \in tables.output} \subseteq Txids
  /\ Distinct(Column(tables.event, "txid")) /\ Values(tables.event, "txid") = Txids
  /\ Distinct(Column(tables.label, "txid")) /\ Values(tables.label, "txid") = Txids

(* 3: in = out + fee, both are the sums of the rows, and the fee is no less than 0. *)
SumsAgree ==
  \A i \in DOMAIN tables.tx :
    LET t == tables.tx[i]
    IN /\ t.in = t.out + t.fee
       /\ InputsOf(t.txid) # {} /\ t.in = Worth(InputsOf(t.txid))
       /\ OutputsOf(t.txid) # {} /\ t.out = Worth(OutputsOf(t.txid))
       /\ t.fee >= 0

(* 3, the other check of signs, made of inputs and of outputs. *)
Positive(rows) == \A r \in rows : r.amt > 0

(* 7: what is normal or merely voluminous is labelled benign. *)
BenignIsBenign ==
  \A i \in DOMAIN tables.label :
    tables.label[i].kind \in {"benign_high_volume", "normal"} => tables.label[i].truth = 0

(* Whatever scenarios were played, and wherever in the last of them the    *)
(* length asked for was reached, what is exported passes the validator's   *)
(* checks of keys, of references, of sums and fees, and of benign labels.  *)
(* It need not pass the check of amounts (see below), nor that of classes: *)
(* a short export, or one of benign scenarios, has one class only.         *)
ExportIsConsistent ==
  phase = "exported" =>
    Len(tables.tx) = Total /\ KeysUnique /\ RowsBelong /\ SumsAgree /\ BenignIsBenign

Batches == {"benign_high_volume", "high_fan_in", "high_fan_out"}
OfBatch(r) ==
  \E i \in DOMAIN tables.label :
    tables.label[i].txid = r.txid /\ tables.label[i].kind \in Batches

(* "All amounts in satoshis are strictly positive integers"                *)
(* (docs/data/synthetic-dataset.md:176), and so the validator demands.     *)
(* They are not: a batch takes the first outputs of a wallet whatever they *)
(* are worth, and when they are dust its fee exceeds them, so that what it *)
(* shares among the recipients is negative.  But only batches create       *)
(* outputs of nothing or less: every other scenario funds itself before it *)
(* pays, or stops on an assertion, whatever it finds in the wallet.        *)
OnlyBatchesOverdraw == Positive({r \in tables.output : ~OfBatch(r)})
============================================================================
