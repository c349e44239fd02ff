---------------------------- MODULE MCRecordStore ----------------------------
EXTENDS RecordStore, TLC

NumberSymmetry == Permutations(Numbers)

Batch(n, d, s, far) ==
    [patent |-> n, docs |-> d, stubs |-> s, edges |-> {<<n, t, k>> : t \in far, k \in Kinds},
     bibs |-> IF n = NoNumber THEN {} ELSE Sources]

\* What a crawl hands over: the fetched record with at most one more document and
\* at most one neighbour, which comes with a stub or without; or a lone stub.
CrawlBatches ==
    {Batch(n, {n, x}, {}, {}) : n, x \in Numbers}
    \union {Batch(n, {n, x}, {}, {t}) : n, x, t \in Numbers}
    \union {Batch(n, {n, x}, {t}, {t}) : n, x, t \in Numbers}
    \union {Batch(NoNumber, {}, {t}, {}) : t \in Numbers}
=============================================================================
