----------------------------- MODULE MCLogRing -----------------------------
(* LogRing with a short ring and entries of one to three sectors.          *)
EXTENDS LogRing

Zero(p) == [kind |-> "zero", page |-> p]
Data(p) == [kind |-> "data", page |-> p]
MCShapes == {<<Zero(1)>>, <<Data(1)>>, <<Data(1), Zero(2), Data(2)>>}
MCLogGuids == <<"log1", "log2">>
============================================================================
