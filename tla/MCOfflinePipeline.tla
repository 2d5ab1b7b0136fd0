------------------------- MODULE MCOfflinePipeline -------------------------
(***************************************************************************)
(* Three transactions among three addresses, two of them at one time and   *)
(* two by one sender, delivered in ways that differ in what can go wrong.  *)
(***************************************************************************)
EXTENDS OfflinePipeline

CONSTANTS alice, bob, carol

Id(n) == [n |-> n, as |-> "plain"]
Upper(n) == [n |-> n, as |-> "upper"]
Spaced(n) == [n |-> n, as |-> "spaced"]

Tx(id, time, in, out, nin, nout) ==
  [id |-> id, time |-> time, inSum |-> in, outSum |-> out, fee |-> in - out,
   size |-> 200 + 40 * nout, nin |-> nin, nout |-> nout]
Coin(id, index, addr, amt, change) ==
  [id |-> id, index |-> index, addr |-> addr, amt |-> amt, change |-> change]
Event(event, id, time, src, asn) ==
  [event |-> event, id |-> id, time |-> time, src |-> src, asn |-> asn, sane |-> TRUE]
Label(id, class) == [id |-> id, class |-> class]

Whole ==
  [tx |-> <<Tx(Id(3), 60, 5000, 4000, 2, 1), Tx(Id(1), 0, 3000, 2500, 1, 2), Tx(Id(2), 60, 2000, 1500, 1, 2)>>,
   ins |-> <<Coin(Id(1), 0, alice, 3000, FALSE), Coin(Id(2), 0, alice, 2000, FALSE),
             Coin(Id(3), 1, bob, 2000, FALSE), Coin(Id(3), 0, alice, 3000, FALSE)>>,
   outs |-> <<Coin(Id(1), 0, bob, 1500, FALSE), Coin(Id(1), 1, alice, 1000, TRUE),
              Coin(Id(2), 0, bob, 900, FALSE), Coin(Id(2), 1, bob, 600, FALSE),
              Coin(Id(3), 0, carol, 4000, FALSE)>>,
   net |-> <<Event(1, Id(1), 0, "ip1", 7), Event(2, Id(2), 50, "ip2", Null),
             Event(3, Id(2), 61, "ip1", 7), Event(4, Id(3), 60, "ip1", 7)>>,
   labels |-> <<Label(Id(1), "normal"), Label(Id(2), "burst"), Label(Id(3), "normal")>>,
   sih |-> <<>>, tagged |-> {}]

(* Another sample with the same ids: other times and payments. *)
Restated ==
  [Whole EXCEPT !.tx = <<Tx(Id(1), 4000, 3000, 2500, 1, 1), Tx(Id(2), 400, 2000, 1500, 1, 1)>>,
                !.ins = <<Coin(Id(1), 0, bob, 3000, FALSE), Coin(Id(2), 0, carol, 2000, FALSE)>>,
                !.outs = <<Coin(Id(1), 0, alice, 2500, FALSE), Coin(Id(2), 0, bob, 1500, FALSE)>>,
                !.net = <<Event(1, Id(1), 0, "ip1", 7), Event(2, Id(2), 0, "ip2", 7)>>,
                !.labels = SubSeq(@, 1, 2)]

(* One transaction under three spellings, a fee that is missing, rows of    *)
(* transactions nobody knows, and columns of the generator.                 *)
Dirty ==
  [Whole EXCEPT !.tx = <<Tx(Upper(1), 0, 3000, 2500, 1, 2), [Tx(Id(1), 9, 1, 1, 1, 1) EXCEPT !.fee = Null],
                         [Tx(Spaced(2), 60, 2000, 1500, 1, 2) EXCEPT !.fee = Null, !.size = Null],
                         Tx(Id(3), 60, 5000, 4000, 2, 1), Tx(Null, 0, 1, 1, 1, 1)>>,
                !.ins = @ \o <<Coin(Upper(1), 0, carol, 3000, FALSE), Coin(Id(9), 0, carol, 1, FALSE)>>,
                !.outs = @ \o <<Coin(Null, 0, carol, 1, FALSE)>>,
                !.net = @ \o <<Event(1, Id(2), 0, "ip9", 0), Event(9, Id(9), 0, "ip9", -1)>>,
                !.tagged = {"tx", "labels"}]

(* A later delivery without files of inputs and outputs. *)
Foreign == [Whole EXCEPT !.tx = <<Tx(Id(7), 0, 3000, 2500, 1, 1)>>, !.ins = <<>>, !.outs = <<>>,
                         !.net = <<Event(1, Id(7), 0, "ip1", 7)>>,
                         !.labels = <<Label(Id(7), "normal")>>]
Eventless == [Whole EXCEPT !.net = <<>>]
Unseen == [Whole EXCEPT !.net = SubSeq(@, 1, 1)]
Nameless == [Whole EXCEPT !.tx = <<Tx(Null, 0, 1, 1, 1, 1)>>]
Consolidated ==
  [Whole EXCEPT !.tx = <<>>, !.ins = <<>>, !.outs = <<>>, !.net = <<>>, !.labels = Append(@, @[1]),
     !.sih = <<[id |-> Upper(1), time |-> 0, ins |-> <<[addr |-> alice, amt |-> 3000]>>,
                outs |-> <<[addr |-> bob, amt |-> 2000]>>, fee |-> 1000, src |-> "ip1", asn |-> 0,
                sane |-> TRUE]>>]

MCSamples == {Whole, Restated, Dirty, Foreign, Eventless, Unseen, Nameless, Consolidated}
============================================================================
