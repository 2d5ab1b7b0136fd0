-------------------------- MODULE MCModelInference --------------------------
(***************************************************************************)
(* Two transactions of one address, uploaded in every form the loader      *)
(* knows, whole or with one thing missing.  The database has no sizes.     *)
(***************************************************************************)
EXTENDS ModelInference, TLC

CONSTANTS alice, bob

Id(n) == [n |-> n, as |-> "plain"]
Row(n, time, ins, outs, asn) ==
  [id |-> Id(n), time |-> time, ins |-> ins, outs |-> outs, fee |-> 1000,
   src |-> "ip1", asn |-> asn, sane |-> TRUE]
Pair(addr, amt) == [addr |-> addr, amt |-> amt]

Consolidated(asn) ==
  <<Row(2, 60, <<Pair(bob, 1500), Pair(alice, 1500)>>, <<Pair(bob, 2000)>>, 7),
    Row(1, 0, <<Pair(alice, 4000)>>, <<Pair(bob, 1500), Pair(alice, 1500)>>, asn)>>

Unsized(tx) == [i \in DOMAIN tx |-> [tx[i] EXCEPT !.size = Null]]
Dataset(asn, form) ==
  LET sih == Consolidated(asn)  rows == Decompose(sih) IN
  [db |-> [t \in Tables |-> IF t = "tx" THEN Unsized(rows.tx) ELSE rows[t]], disk |-> form,
   files |-> rows @@ [sih |-> sih, labels |-> <<>>],
   netFile |-> IF form = "tables" THEN rows.net ELSE <<>>, absent |-> {}]

Whole == {Dataset(7, form) : form \in {"tables", "parquet", "csv"}}
Partial == {[Dataset(7, "tables") EXCEPT !.absent = gap] : gap \in {{"fee"}, {"counts"}}}
Sizeless(d, gap) == [d EXCEPT !.absent = gap, !.files.tx = Unsized(@)]
Feeless(d) == [d EXCEPT !.absent = {"fee"}, !.db.tx[1].fee = Null, !.db.tx[2].fee = Null]
Eventless(d) == [d EXCEPT !.db.net = <<>>, !.files.net = <<>>, !.netFile = <<>>]
Separate(d) == [Eventless(d) EXCEPT !.netFile = d.db.net]
Unbalanced(d) == [d EXCEPT !.db.tx[1].fee = 1, !.files.tx[1].fee = 1]

MCDatasets ==
  Whole \cup Partial
    \cup {Sizeless(Dataset(7, "tables"), gap) : gap \in {{}, {"size"}}}
    \cup {Feeless(Dataset(7, "tables")), Dataset(Null, "parquet"), Eventless(Dataset(7, "csv")),
          Separate(Dataset(7, "tables")), Unbalanced(Dataset(7, "tables"))}
MCLimits == {Null, 0, 1, 2}
=============================================================================
