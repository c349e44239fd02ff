---------------------------- MODULE MCProjectWork ----------------------------
EXTENDS ProjectWork

\* 1 and 2 are numbers of one invention; 3 is cited by it.
OneInvention == [n \in Numbers |-> IF n \in {1, 2} THEN {1, 2} ELSE {n}]
OneNeighbour == [n \in Numbers |-> IF n \in {1, 2} THEN {3} ELSE {}]
NoExact      == [n \in Numbers |-> {}]
SearchedOnce == [n \in Numbers |-> IF n = 2 THEN {1} ELSE {}]

Adds(p, n, source)  == [op |-> "add", project |-> p, patents |-> <<n>>, source |-> source,
                        confirm |-> FALSE]
Reviews(p, ns, to)  == [op |-> "review", project |-> p, patents |-> ns, target |-> to,
                        stamp |-> Len(ns) = 1]
Relates(p, n)       == [op |-> "related", project |-> p, patents |-> <<n>>]
Deletes(ns)         == [op |-> "delete", patents |-> ns]
CrawlsFor(p, n)     == [op |-> "crawl", project |-> p, patents |-> <<n>>]

Two(a, b) == [c \in Clients |-> IF c = "a" THEN a ELSE b]

WorkPlans ==
    {Two(<<Adds("p", 1, TRUE)>>, <<Adds("q", 1, FALSE)>>),
     Two(<<Adds("p", 1, FALSE)>>, <<Adds("p", 1, TRUE)>>),
     Two(<<Adds("p", 1, FALSE)>>, <<Reviews("p", <<1>>, "under_review")>>),
     Two(<<Adds("p", 1, TRUE)>>, <<Reviews("p", <<3, 1>>, "needs_triage")>>),
     Two(<<Adds("p", 1, FALSE)>>, <<Deletes(<<1>>)>>),
     Two(<<Adds("p", 1, FALSE), Adds("p", 2, FALSE)>>, <<>>),
     Two(<<Adds("p", 1, FALSE)>>, <<Relates("p", 1), Deletes(<<1, 3>>)>>),
     Two(<<Adds("p", 3, FALSE)>>, <<CrawlsFor("p", 1)>>)}
=============================================================================
