----------------------------- MODULE FamilyGraph -----------------------------
(***************************************************************************)
(* What the engine and the terminal make of the family that crawls have    *)
(* stored: the bounded walk around one patent (engine.FamilyGraph), the    *)
(* edges a diagram keeps (transitivelyReduced), and the outline of         *)
(* predecessors and successors that the family pane and the text export    *)
(* both lay out (rebuildRows, FamilyGraphASCII).                           *)
(*                                                                         *)
(* The walk reads the tables of one moment; a node is a record number, the *)
(* countries of a request are the set of numbers it lets through.          *)
(***************************************************************************)
EXTENDS Records, Naturals, Sequences, SequencesExt, FiniteSetsExt

(***************************************************************************)
(* The walk.  nodes: depth of each node in the answer; links: the edges    *)
(* (parent, child) recorded at both their nodes; edges: those seen.        *)
(***************************************************************************)
FamilyKinds == {"parent", "child"}

\* A child edge runs from the parent, a parent edge from the child.
FamilyEdge(e) == IF e[3] = "parent" THEN <<e[2], e[1]>> ELSE <<e[1], e[2]>>

\* AllRelations comes back ordered by both ends; those of other kinds are passed over.
FamilyRows(db, n) ==
    LET rows == {e \in db.edge : n \in {e[1], e[2]} /\ e[3] \in FamilyKinds}
    IN  SetToSortSeq(rows, LAMBDA e, f : e[1] < f[1] \/ (e[1] = f[1] /\ e[2] < f[2]))

Visible(n, root, allowed) == n = root \/ n \in allowed

\* No place is left once the nodes and the queue together fill the answer.
Full(s, maxNodes) == Cardinality(DOMAIN s.nodes) + Len(s.queue) >= maxNodes

AtDepth(nodes, n, depth) ==
    [x \in DOMAIN nodes \union {n} |->
        IF x # n THEN nodes[x]
        ELSE IF n \in DOMAIN nodes THEN Min({nodes[n], depth}) ELSE depth]

\* ensureVisibleFamilyNode: a node there is, or one there is room for.
Refused(s, n, maxNodes) == n \notin DOMAIN s.nodes /\ Full(s, maxNodes)

\* A slip: a neighbour is put one level too near.
EnqueuedTooNear(s, n, item, root, allowed, maxNodes) ==
    IF n = item.number \/ n \in s.queued \/ ~Visible(n, root, allowed) THEN s
    ELSE IF Full(s, maxNodes) THEN [s EXCEPT !.truncated = TRUE]
    ELSE [s EXCEPT !.queue = Append(@, [number |-> n, depth |-> item.depth]),
                   !.queued = @ \union {n}]

Enqueued(s, n, item, root, allowed, maxNodes) ==
    IF n = item.number \/ n \in s.queued \/ ~Visible(n, root, allowed) THEN s
    ELSE IF Full(s, maxNodes) THEN [s EXCEPT !.truncated = TRUE]
    ELSE [s EXCEPT !.queue = Append(@, [number |-> n, depth |-> item.depth + 1]),
                   !.queued = @ \union {n}]

\* One relation of the node at hand: without room for one of its ends it is cut off.
Related(s, edge, item, root, allowed, depthLimit, maxNodes) ==
    LET parent == edge[1]
        child  == edge[2]
        depth  == Min({item.depth + 1, depthLimit})
        seen   == [s EXCEPT !.edges = @ \union {edge}]
        one    == [seen EXCEPT !.nodes = AtDepth(@, parent, depth)]
        both   == [one EXCEPT !.nodes = AtDepth(@, child, depth), !.links = @ \union {edge}]
        both_visible == Visible(parent, root, allowed) /\ Visible(child, root, allowed)
        queue(t) == Enqueued(Enqueued(t, parent, item, root, allowed, maxNodes),
                             child, item, root, allowed, maxNodes)
    IN  IF ~both_visible THEN queue(seen)
        ELSE IF Refused(seen, parent, maxNodes) THEN [seen EXCEPT !.truncated = TRUE]
        ELSE IF Refused(one, child, maxNodes) THEN [one EXCEPT !.truncated = TRUE]
        ELSE queue(both)

\* The head of the queue becomes a node, and its relations count below the limit.
Walked(db, s, root, allowed, depthLimit, maxNodes) ==
    LET item == Head(s.queue)
        t    == [s EXCEPT !.queue = Tail(@), !.nodes = AtDepth(@, item.number, item.depth)]
    IN  IF item.depth >= depthLimit THEN t
        ELSE FoldLeft(LAMBDA u, e :
                          Related(u, FamilyEdge(e), item, root, allowed, depthLimit, maxNodes),
                      t, FamilyRows(db, item.number))

\* Each number is queued once, so as many turns as there are numbers empty the queue.
Graph(db, root, allowed, depthLimit, maxNodes) ==
    LET start == [nodes |-> <<>>, links |-> {}, edges |-> {}, truncated |-> FALSE,
                  queue |-> <<[number |-> root, depth |-> 0]>>, queued |-> {root}]
        end   == FoldLeft(LAMBDA s, i : IF s.queue = <<>> THEN s
                                        ELSE Walked(db, s, root, allowed, depthLimit, maxNodes),
                          start, [i \in 1..Cardinality(Numbers) |-> i])
    IN  [end EXCEPT !.edges = {e \in @ : {e[1], e[2]} \subseteq DOMAIN end.nodes}]

(***************************************************************************)
(* The edges a diagram keeps: those no longer way makes superfluous.       *)
(***************************************************************************)
Targets(edges, u) == {e[2] : e \in {f \in edges : f[1] = u}}

\* What a walk from the numbers in from meets, if it never enters one of the barred.
Reached(edges, from, barred) ==
    LET near(S) == S \union (UNION {Targets(edges, u) : u \in S} \ barred)
    IN  FoldLeft(LAMBDA S, i : near(S), from, [i \in 1..Cardinality(Numbers) |-> i])

\* The walk of isReachableWithoutDirect starts beside the edge itself.
TransitivelyReduced(edges) ==
    {e \in edges : e[2] \notin Reached(edges, Targets(edges, e[1]) \ {e[2]}, {e[1]})}

(***************************************************************************)
(* The outline.  ParentsDAG: all ways up from the root; ChildrenDAG: all   *)
(* ways down.  A stub has no row, and nothing is read off one: its own     *)
(* edges count only where the node at the other end is not a stub.         *)
(***************************************************************************)
Reversed(edges) == {<<e[2], e[1]>> : e \in edges}

ParentsDAG(links, root)  == Reached(Reversed(links), Targets(Reversed(links), root), {})
ChildrenDAG(links, root) == Reached(links, Targets(links, root), {})

\* Fetched predecessors without a fetched parent.
SourceNodes(links, root, fetched) ==
    {n \in ParentsDAG(links, root) \intersect fetched :
        Targets(Reversed(links), n) \intersect fetched = {}}

ChildrenInParentsDAG(links, root, fetched) ==
    LET dag == ParentsDAG(links, root)
    IN  {e \in links : e[1] \in dag /\ (e[2] \in dag \intersect fetched \/ e[2] = root)}

DescendantChildren(links, root, fetched) ==
    LET dag == ChildrenDAG(links, root)
    IN  {e \in links : e[2] \in dag /\ (e[1] \in dag \intersect fetched \/ e[1] = root)}

\* A child that a sibling leads to is not listed again under their common parent.
WithoutShortcuts(edges) ==
    {e \in edges : \A w \in Targets(edges, e[1]) \ {e[2]} : e[2] \notin Reached(edges, {w}, {})}

InOrder(S) == SetToSortSeq(S, <)

\* walkParentsDAG, walkChildrenDAG: depth first; the ones still to visit are a stack.
\* A number gets one row of its own, and after that a reference wherever it turns up.
Listed(edges, hidden, s) ==
    LET t    == Head(s.todo)
        rest == [s EXCEPT !.todo = Tail(@)]
        row(kind) == [number |-> t.number, parent |-> t.parent, kind |-> kind]
        kids == InOrder(Targets(edges, t.number) \ hidden)
    IN  IF t.number \in hidden THEN rest
        ELSE IF t.number \in t.path THEN [rest EXCEPT !.rows = Append(@, row("cycle"))]
        ELSE IF t.number \in s.visited THEN [rest EXCEPT !.rows = Append(@, row("cross"))]
        ELSE [rows    |-> Append(s.rows, row("own")),
              visited |-> s.visited \union {t.number},
              todo    |-> [i \in DOMAIN kids |-> [number |-> kids[i], parent |-> t.number,
                                                  path |-> t.path \union {t.number}]]
                          \o rest.todo]

\* Every turn of the walk takes one of the first numbers or one edge.
Outline(edges, first, parent, root, hidden) ==
    LET tops  == InOrder(first)
        start == [rows |-> <<>>, visited |-> {},
                  todo |-> [i \in DOMAIN tops |-> [number |-> tops[i], parent |-> parent,
                                                   path |-> {root}]]]
    IN  FoldLeft(LAMBDA s, i : IF s.todo = <<>> THEN s ELSE Listed(edges, hidden, s),
                 start, [i \in 1..(Len(tops) + Cardinality(edges)) |-> i]).rows

ParentRows(links, root, fetched) ==
    Outline(WithoutShortcuts(ChildrenInParentsDAG(links, root, fetched)),
            SourceNodes(links, root, fetched), NoNumber, root, (Numbers \ fetched) \union {root})

ChildRows(links, root, fetched) ==
    LET edges == WithoutShortcuts(DescendantChildren(links, root, fetched))
    IN  Outline(edges, Targets(edges, root), root, root, Numbers \ fetched)

(***************************************************************************)
(* Properties of one database.                                             *)
(***************************************************************************)
Visibly(db, root, allowed) ==
    {e \in {FamilyEdge(f) : f \in {g \in db.edge : g[3] \in FamilyKinds}} :
        Visible(e[1], root, allowed) /\ Visible(e[2], root, allowed)}

\* What is at most d edges away, in either direction.
Ball(edges, root, d) ==
    LET both == edges \union Reversed(edges)
    IN  FoldLeft(LAMBDA S, i : S \union UNION {Targets(both, u) : u \in S},
                 {root}, [i \in 1..d |-> i])

\* The answer never outgrows its bound and, unless it says it was cut, holds what lies
\* within the limit, each at its distance, with every edge between two nodes of which
\* one is nearer than the limit.  With twice the room nothing is cut.
WalkIsTheBall(db, root, allowed, limit, most) ==
    LET g     == Graph(db, root, allowed, limit, most)
        edges == Visibly(db, root, allowed)
        ball  == Ball(edges, root, limit)
    IN  /\ Cardinality(DOMAIN g.nodes) <= most
        /\ DOMAIN g.nodes \subseteq ball
        /\ 2 * Cardinality(ball) <= most => ~g.truncated
        /\ ~g.truncated =>
               /\ DOMAIN g.nodes = ball
               /\ \A d \in 0..limit : {n \in ball : g.nodes[n] <= d} = Ball(edges, root, d)
               /\ g.links = {e \in edges : {e[1], e[2]} \intersect
                                           (IF limit = 0 THEN {} ELSE Ball(edges, root, limit - 1)) # {}}

Acyclic(edges) == \A e \in edges : e[1] \notin Reached(edges, {e[2]}, {})

Closure(edges) == {<<u, v>> \in Numbers \X Numbers : v \in Reached(edges, Targets(edges, u), {})}

\* A diagram keeps who descends from whom, and no edge it could do without.
ReductionIsExact(edges) ==
    LET kept == TransitivelyReduced(edges)
    IN  /\ Closure(kept) = Closure(edges)
        /\ \A e \in kept : Closure(kept \ {e}) # Closure(edges)

OwnRows(rows, n) == {i \in DOMAIN rows : rows[i].number = n /\ rows[i].kind = "own"}
RowEdges(rows)   == {<<rows[i].parent, rows[i].number>> : i \in DOMAIN rows}

\* The outline gives each fetched predecessor, and each successor that fetched ones
\* lead to, one row of its own, calls nothing a cycle, and says by its rows who
\* descends from whom among them.
OutlineIsComplete(links, root, fetched) ==
    LET up    == ParentRows(links, root, fetched)
        down  == ChildRows(links, root, fetched)
        above == ParentsDAG(links, root) \intersect fetched
        known == {e \in links : e[2] \in fetched /\ e[1] \in fetched \union {root}}
        below == Reached(known, Targets(known, root), {})
        among(S) == {e \in known : {e[1], e[2]} \subseteq S}
    IN  /\ \A n \in Numbers : Cardinality(OwnRows(up, n)) = (IF n \in above THEN 1 ELSE 0)
        /\ \A n \in Numbers : Cardinality(OwnRows(down, n)) = (IF n \in below THEN 1 ELSE 0)
        /\ \A i \in DOMAIN up : up[i].kind # "cycle"
        /\ \A i \in DOMAIN down : down[i].kind # "cycle"
        /\ Closure({e \in RowEdges(up) : e[1] # NoNumber}) = Closure(among(above))
        /\ Closure(RowEdges(down)) = Closure(among(below \union {root}) \ {e \in known : e[2] = root})

\* Whoever asks for the family of whatever record, under whatever bounds.
FamilyIsShown(db, limits, bounds) ==
    \A root \in db.rec :
        /\ \A allowed \in {Numbers, Numbers \ {Max(Numbers)}}, d \in limits, most \in bounds :
               WalkIsTheBall(db, root, allowed, d, most)
        /\ LET g == Graph(db, root, Numbers, Max(limits), Max(bounds))
           IN  Acyclic(g.links) => /\ ReductionIsExact(g.edges)
                                   /\ OutlineIsComplete(g.links, root, db.cached)
=============================================================================
