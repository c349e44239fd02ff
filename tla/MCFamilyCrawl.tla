---------------------------- MODULE MCFamilyCrawl ----------------------------
EXTENDS FamilyCrawl, FamilyGraph

AllKinds == {"cites", "cited_by", "parent", "child"}

Rel(to, kind) == [to |-> to, kind |-> kind]

\* 1 and 2 are the application and the grant of one invention; providers name the
\* record after the number they were asked for.  3 is cited by it.
SmallWorld ==
    (1 :> [number |-> 1, docs |-> {1, 2}, rels |-> <<Rel(3, "cites")>>]) @@
    (2 :> [number |-> 2, docs |-> {1, 2}, rels |-> <<Rel(3, "cites")>>]) @@
    (3 :> [number |-> 3, docs |-> {3}, rels |-> <<Rel(2, "cited_by")>>])

\* 1 is a number under which a provider finds 2, but none of the documents it lists; 3
\* mentions it, and is the parent of 2.  Its own parent 4 turns out to be an earlier
\* number of 3.  The budget ends before 2 is asked for.
FamilyWorld ==
    (1 :> [number |-> 2, docs |-> {2}, rels |-> <<Rel(3, "cites")>>]) @@
    (2 :> [number |-> 2, docs |-> {2}, rels |-> <<Rel(3, "cites")>>]) @@
    (3 :> [number |-> 3, docs |-> {3},
           rels |-> <<Rel(1, "cited_by"), Rel(4, "parent"), Rel(2, "child")>>]) @@
    (4 :> [number |-> 4, docs |-> {3, 4}, rels |-> <<Rel(3, "child")>>])

\* The same invention; 3 is its parent, which the grant cites as well.
ParentWorld ==
    (1 :> [number |-> 1, docs |-> {1}, rels |-> <<Rel(3, "parent")>>]) @@
    (2 :> [number |-> 2, docs |-> {1, 2}, rels |-> <<Rel(3, "cites"), Rel(3, "parent")>>]) @@
    (3 :> [number |-> 3, docs |-> {3}, rels |-> <<Rel(2, "child")>>])

\* A continuation that also cites the patent it continues.
CitingWorld ==
    (1 :> [number |-> 1, docs |-> {1}, rels |-> <<Rel(2, "cites"), Rel(2, "parent")>>]) @@
    (2 :> [number |-> 2, docs |-> {2}, rels |-> <<Rel(1, "cited_by"), Rel(1, "child")>>])

\* Providers that agree: 1 and 2 are one invention whichever of them is asked for, no
\* patent is its own neighbour, and 3 is cited by the one and the parent of the other.
AgreedWorld ==
    (1 :> [number |-> 1, docs |-> {1, 2}, rels |-> <<Rel(3, "cites")>>]) @@
    (2 :> [number |-> 2, docs |-> {1, 2}, rels |-> <<Rel(3, "parent")>>]) @@
    (3 :> [number |-> 3, docs |-> {3}, rels |-> <<Rel(1, "cited_by"), Rel(2, "child")>>])

\* The first job starts from r, the others from t.
Roots(r, t) == [c \in Crawls |-> IF c = CHOOSE d \in Crawls : TRUE THEN r ELSE t]

Given(root, world, depth, budget) ==
    [root |-> root, world |-> world, profile |-> "all", depth |-> depth, budget |-> budget,
     force |-> BOOLEAN, edits |-> {"curate"}, most |-> 2,
     stored |-> EmptyDatabase]

\* Alone in the family, and two jobs from the two numbers of one invention among people
\* who delete and add.
OneJob  == {Given(Roots(1, NoNumber), FamilyWorld, 2, 3)}
TwoJobs == {[Given(Roots(1, 2), ParentWorld, 1, 3)
                EXCEPT !.edits = {"curate", "soft_delete", "stub"}, !.most = 1]}
EndJobs == {[Given(Roots(1, 2), SmallWorld, 1, 2)
                EXCEPT !.force = {TRUE}, !.edits = {"soft_delete", "stub"}]}
Citing  == {[Given(Roots(1, NoNumber), CitingWorld, 2, 3)
                EXCEPT !.profile = "family", !.force = {TRUE}, !.edits = {}]}

\* Nobody crawls; the tables hold any family of the four numbers in which parents are
\* smaller, with any of them fetched, or any three in circles.  Either end may tell of
\* an edge, and a citation runs beside it.
Upwards == {e \in Numbers \X Numbers : e[1] < e[2]}
Circles == {e \in (1..3) \X (1..3) : e[1] # e[2]}

Tells(e) == IF (e[1] + e[2]) % 2 = 0 THEN <<e[2], e[1], "parent">> ELSE <<e[1], e[2], "child">>

Family(edges, fetched) ==
    [EmptyDatabase EXCEPT !.rec = Numbers, !.cached = fetched,
                          !.doc = [n \in Numbers |-> n],
                          !.edge = {Tells(e) : e \in edges} \union {<<4, 1, "cites">>}]

Families ==
    {Family(edges, fetched) : edges \in SUBSET Upwards, fetched \in SUBSET Numbers}
    \union {Family(edges, Numbers) : edges \in SUBSET Circles}

Library == {[Given(Roots(NoNumber, NoNumber), <<>>, 0, 1) EXCEPT !.edits = {}, !.stored = d] :
               d \in Families}

AgreedJobs == {Given(Roots(3, NoNumber), AgreedWorld, 2, 3),
               [Given(Roots(3, 2), AgreedWorld, 1, 2)
                   EXCEPT !.edits = {"curate", "soft_delete"}, !.force = {TRUE}, !.most = 1]}
AllJobs == OneJob \union AgreedJobs \union TwoJobs \union Library

\* Whatever family the tables hold, the engine's walk around each of its patents, the
\* diagram and the outline made of it show it (engine_family_graph.go:45,
\* family_graph_export.go:851, pane/family_graph.go:704).
StoredFamilyIsShown == Root = Roots(NoNumber, NoNumber) => FamilyIsShown(db, 1..3, {3, 8})
=============================================================================
