------------------------ MODULE MCSyntheticLedger ------------------------
EXTENDS DatasetValidator, TLC
CONSTANTS e1, e2, e3
MCEntities == {e1, e2, e3}
MCExchanges == {e3}
MCInitial == [e \in MCEntities |-> IF e = e3 THEN <<4000000>> ELSE <<20000>>]
MCSymmetry == Permutations({e1, e2})
==========================================================================
