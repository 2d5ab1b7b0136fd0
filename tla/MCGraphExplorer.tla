-------------------------- MODULE MCGraphExplorer --------------------------
(***************************************************************************)
(* Two datasets: in one, money goes round among four addresses; the other  *)
(* holds one of its transactions as well, whose inputs and outputs belong  *)
(* to the dataset that was ingested last.                                  *)
(***************************************************************************)
EXTENDS GraphExplorer

CONSTANTS a, b, c, e, f, t1, t2, t3, t4, d1, d2, r1, r2, r3

Coin(ds, id, index, addr, amt) == [ds |-> ds, id |-> id, index |-> index, addr |-> addr, amt |-> amt]
Result(run, ds, entity, score, at) ==
  [run |-> run, ds |-> ds, entity |-> entity, score |-> score, at |-> at]

Shared ==
  [tx |-> {[ds |-> d1, id |-> t] : t \in {t1, t2, t3}} \cup {[ds |-> d2, id |-> t1]},
   ins |-> {Coin(d1, t1, 0, a, 5), Coin(d1, t2, 0, b, 3), Coin(d1, t2, 1, a, 4), Coin(d1, t3, 0, c, 2)},
   outs |-> {Coin(d1, t1, 0, b, 3), Coin(d1, t1, 1, a, 2), Coin(d1, t1, 2, f, 1), Coin(d1, t2, 0, c, 2), Coin(d1, t2, 1, c, 4),
             Coin(d1, t3, 0, a, 1), Coin(d1, t3, 1, e, 1)},
   addrs |-> {[ds |-> d1, addr |-> x] : x \in {a, b, c, e, f}} \cup {[ds |-> d2, addr |-> a]},
   runs |-> {[run |-> r1, ds |-> d1, at |-> 1], [run |-> r2, ds |-> d1, at |-> 0],
             [run |-> r3, ds |-> d1, at |-> 2]},
   results |-> {Result(r1, d1, t1, 70, 1), Result(r1, d1, t2, 30, 1), Result(r1, d1, b, 45, 1),
                Result(r3, d1, t3, 60, 2), Result(r3, d1, b, 20, 2)},
   alerts |-> {[id |-> 1, entity |-> t1, run |-> r1], [id |-> 2, entity |-> b, run |-> r3]}]

(* The other dataset was ingested last. *)
Taken ==
  [Shared EXCEPT !.ins = {IF row.id = t1 THEN [row EXCEPT !.ds = d2] ELSE row : row \in @},
                 !.outs = {IF row.id = t1 THEN [row EXCEPT !.ds = d2] ELSE row : row \in @},
                 !.addrs = @ \cup {[ds |-> d2, addr |-> b]},
                 !.runs = {[run |-> r1, ds |-> d1, at |-> 1]}
                            \cup {[run |-> r, ds |-> d2, at |-> 0] : r \in {r2, r3}},
                 !.results = {x \in @ : x.run = r1}
                            \cup {Result(r2, d2, t1, 80, 1), Result(r3, d2, t1, 10, 2)}]

Blank == [t \in DOMAIN Shared |-> IF t = "runs" THEN {[run |-> r1, ds |-> d1, at |-> 1]} ELSE {}]

MCDatabases == {Shared, Taken, Blank}

MCRequests ==
  [op : {"export"}, run : {r1, r2, r3}, min : {Null, 40}, max : {1, 2, 3, 5}, neighbors : BOOLEAN]
  \cup [op : {"subgraph"}, entity : {a, e, t1, t4}, run : {Null, r1, r3}, depth : 1..3]
  \cup [op : {"neighborhood"}, entity : {a, e, t1, t2, t4}, run : {Null, r1}, ds : {Null, d1, d2},
        type : {Null, "transaction", "address"}, depth : 1..3, high : BOOLEAN]

MCLimits ==
  [hop |-> 2, visited |-> 4, firstTxs |-> 2, fromTxs |-> 2, addrs |-> 3, fromAddrs |-> 2, txs |-> 2]
=============================================================================
