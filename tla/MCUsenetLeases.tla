--------------------------- MODULE MCUsenetLeases ---------------------------
(* Small instances of UsenetLeases.                                         *)
EXTENDS UsenetLeases

CONSTANTS w1, w2, crawl, backfill, k1

\* The crawl and the backfill overlap on one group.
BothOnOne == [j \in Job |-> {k1}]
=============================================================================
