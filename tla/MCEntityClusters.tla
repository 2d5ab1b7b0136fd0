------------------------- MODULE MCEntityClusters -------------------------
(***************************************************************************)
(* Streams of MaxTxs transactions over a few addresses.                    *)
(***************************************************************************)
EXTENDS EntityClusters, TLC

SeqsUpTo(S, n) == UNION {[1..k -> S] : k \in 0..n}

\* Up to two inputs, the same address twice too, and a change output, which
\* may go back to an input: enough for a tree of three levels.
MCRows ==
  {row \in [inputs: SeqsUpTo(Addresses, 2), change: SeqsUpTo(Addresses, 1)] :
     Spends(row) \/ row.change = <<>>}

MCSymmetry == Permutations(Addresses)
=============================================================================
