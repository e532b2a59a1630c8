---------------------------- MODULE MCUsenetCrawl ----------------------------
(* Small instances of UsenetCrawl.                                          *)
EXTENDS UsenetCrawl, TLC

CONSTANTS w1, w2

\* Watermarks inherited from a previous crawler.
NoneAdopted == {}
MidAdopted  == {<<1, 1>>, <<2, 2>>}

Interchangeable == Permutations(Worker)
=============================================================================
