----------------------------- MODULE FamilyCrawl -----------------------------
(***************************************************************************)
(* crawl.Crawler: jobs walking the patent graph breadth first, each from   *)
(* its own root, on the one repository of module Records, while people     *)
(* curate it.  A node costs a crawl many calls of the repository: a look-  *)
(* up per candidate number, a richness read per record found, a merge per  *)
(* duplicate, a look-up per neighbour, then one SaveNode.  Every call is a *)
(* transaction of its own, so everyone else may act between two of them.   *)
(***************************************************************************)
EXTENDS Records, Naturals, Sequences, FiniteSets

CONSTANTS Crawls,      \* crawl jobs, each run by a worker of the pool
          Settings     \* what may be given: the requests, the providers, the people

EditKinds == {"stub", "curate", "soft_delete"}

(***************************************************************************)
(* root    the number each job starts from, NoNumber if it never does      *)
(* world   what the providers answer for each number                       *)
(* profile, depth, budget   which edges the jobs follow, how many of them  *)
(*         from the root, and how many records one job may save            *)
(* force   whether jobs may bypass the stored records                      *)
(* edits, most   what people do meanwhile, and a bound on how often        *)
(* stored  the tables as earlier sessions left them                        *)
(***************************************************************************)
ASSUME SettingsAssumption ==
    /\ Numbers \subseteq Nat      \* their order is that of the canonical text
    /\ IsFiniteSet(Numbers)
    /\ Kinds = {"cites", "cited_by", "parent", "child"}
    /\ \A g \in Settings :
           /\ DOMAIN g.world \subseteq Numbers
           /\ g.world \in [DOMAIN g.world -> [number : Numbers, docs : SUBSET Numbers,
                                              rels : Seq([to : Numbers, kind : Kinds])]]
           /\ g.root \in [Crawls -> DOMAIN g.world \union {NoNumber}]
           /\ g.profile \in {"citations", "citedby", "family", "all"}
           /\ g.depth \in Nat /\ g.budget \in Nat \ {0} /\ g.most \in Nat
           /\ g.force \in SUBSET BOOLEAN /\ g.edits \subseteq EditKinds
           /\ g.stored \in Databases /\ Integral(g.stored)

VARIABLES given,   \* one of the settings, never changed
          db,      \* the tables
          crawl,   \* the state of each job
          adding,  \* the number a person is adding, and the call that is next
          edits    \* edits made so far

vars   == <<db, crawl, adding, edits>>
people == <<adding, edits>>

Root       == given.root
World      == given.world
Profile    == given.profile
DepthLimit == given.depth
NodeBudget == given.budget

(***************************************************************************)
(* pc: idle - next (loop head) - relations (a stored record is read) -     *)
(* resolve, weigh, merge, link, save (one ingestNode) - unfetched, stub (a *)
(* neighbour no provider has) - read, promote (the end of crawl) - done,   *)
(* failed, aborted (a batch or a merge was rolled back)                    *)
(***************************************************************************)
Idle ==
    [pc |-> "idle", force |-> FALSE, queue |-> <<>>, seen |-> {}, ingested |-> 0,
     number |-> NoNumber, depth |-> 0,          \* the node being worked on
     docs |-> {}, rels |-> <<>>,                \* its result, what is left of it
     kinds |-> <<>>,                            \* stored relations still to be read
     left |-> {}, found |-> {},                 \* look-ups to do, records found
     keep |-> NoNumber, best |-> 0,             \* the record to save under, its richness
     stubs |-> {}, edges |-> {},                \* the batch so far
     tried |-> {}, walked |-> {}]               \* numbers dequeued; those fetched

Nothing == [number |-> NoNumber, pc |-> "none"]

Init ==
    /\ given \in Settings
    /\ db = given.stored
    /\ crawl = [c \in Crawls |-> Idle]
    /\ adding = Nothing
    /\ edits = 0

\* The job c goes on as s; the rest of the jobs stay.
Become(c, s) == crawl' = [crawl EXCEPT ![c] = s]

\* What is remembered of a job that has stopped, and of one that goes on to the next node.
Stopped(s, pc) ==
    [Idle EXCEPT !.pc = pc, !.force = s.force, !.ingested = s.ingested, !.tried = s.tried,
                 !.walked = s.walked]

ToNext(s) == [Stopped(s, "next") EXCEPT !.queue = s.queue, !.seen = s.seen]

StartCrawl(c, force) ==
    /\ crawl[c].pc = "idle" /\ Root[c] # NoNumber /\ force \in given.force
    /\ Become(c, [Idle EXCEPT !.pc = "next", !.force = force, !.seen = {Root[c]},
                              !.queue = <<[number |-> Root[c], depth |-> 0]>>])
    /\ UNCHANGED <<db, people>>

(***************************************************************************)
(* Fetching the head of the queue.                                         *)
(***************************************************************************)
HasWork(s) == s.queue # <<>> /\ s.ingested < NodeBudget

\* The rows of relation of one kind come back in the order of their far ends.
Ascending(ns) ==
    {far \in [1..Cardinality(ns) -> ns] : \A i, j \in DOMAIN far : i < j => far[i] < far[j]}

RelationRows(n, kind) ==
    {[i \in DOMAIN far |-> [to |-> far[i], kind |-> kind]] :
        far \in Ascending({e[2] : e \in {f \in db.edge : f[1] = n /\ f[3] = kind}})}

FromStore(s) == ~s.force /\ IsCached(db, Head(s.queue).number)

\* What the candidates of a result are, and what the look-ups start from.
Fetched(s, res) ==
    [s EXCEPT !.pc = "resolve", !.queue = Tail(s.queue),
              !.number = res.number, !.depth = Head(s.queue).depth,
              !.docs = res.docs, !.rels = res.rels, !.left = {res.number} \union res.docs,
              !.tried = @ \union {Head(s.queue).number},
              !.walked = @ \union {Head(s.queue).number}]

Fetch(c) ==
    LET s == crawl[c]
    IN  /\ s.pc = "next" /\ HasWork(s) /\ ~FromStore(s)
        /\ Head(s.queue).number \in DOMAIN World
        /\ Become(c, Fetched(s, World[Head(s.queue).number]))
        /\ UNCHANGED <<db, people>>

\* A stored record with a body answers in place of the providers ...
FetchStored(c) ==
    LET s == crawl[c]
        r == RecordFor(db, Head(s.queue).number)
    IN  /\ s.pc = "next" /\ HasWork(s) /\ FromStore(s)
        /\ Become(c, [s EXCEPT !.pc = "relations", !.number = r, !.docs = DocumentsOf(db, r),
                               !.kinds = <<"cites", "cited_by", "parent", "child">>])
        /\ UNCHANGED <<db, people>>

\* ... with the relations of the number that was asked for, which need not be the
\* record's own, read one kind after the other.  A read that fails counts as empty.
ReadRelations(c) ==
    LET s == crawl[c]
    IN  /\ s.pc = "relations"
        /\ \E rows \in RelationRows(Head(s.queue).number, Head(s.kinds)) \union {<<>>} :
               LET read == [s EXCEPT !.kinds = Tail(@), !.rels = @ \o rows]
               IN  Become(c, IF read.kinds # <<>> THEN read ELSE Fetched(read, read))
        /\ UNCHANGED <<db, people>>

\* No provider has it, or all of them failed: at the root that ends the job.
FetchFails(c) ==
    LET s == crawl[c]
    IN  /\ s.pc = "next" /\ HasWork(s) /\ ~FromStore(s)
        /\ Become(c, IF Head(s.queue).depth = 0 THEN Stopped(s, "failed")
                     ELSE [s EXCEPT !.pc = "unfetched", !.queue = Tail(s.queue),
                                    !.number = Head(s.queue).number,
                                    !.tried = @ \union {Head(s.queue).number}])
        /\ UNCHANGED <<db, people>>

\* stubRecord: look the number up, and put a stub there if it is not known.
LookUpUnfetched(c) ==
    LET s == crawl[c]
    IN  /\ s.pc = "unfetched"
        /\ Become(c, IF RecordOf(db, s.number) # NoNumber THEN ToNext(s)
                     ELSE [s EXCEPT !.pc = "stub"])
        /\ UNCHANGED <<db, people>>

LoneStub(n) ==
    [patent |-> NoNumber, docs |-> {}, stubs |-> {n}, edges |-> {}, bibs |-> {}]

SaveStub(c) ==
    LET s == crawl[c]
    IN  /\ s.pc = "stub"
        /\ db' = AfterSaveNode(db, LoneStub(s.number))
        /\ Become(c, ToNext(s))
        /\ UNCHANGED people

\* ctx.Err() at the head of the loop, or the fetch or a call came back cancelled or
\* failed.  Of the last write of all the error is only logged.
Cancel(c) ==
    LET s == crawl[c]
    IN  /\ s.pc \notin {"idle", "done", "failed", "aborted"}
        /\ Become(c, Stopped(s, IF s.pc = "promote" THEN "done" ELSE "failed"))
        /\ UNCHANGED <<db, people>>

(***************************************************************************)
(* resolveRecord: which records the candidate numbers belong to, which of  *)
(* them is the richest, and the others folded into it.                     *)
(***************************************************************************)
ResolveCandidate(c) ==
    LET s == crawl[c]
        n == CHOOSE x \in s.left : TRUE
    IN  /\ s.pc = "resolve" /\ s.left # {}
        /\ Become(c, [s EXCEPT !.left = @ \ {n},
                               !.found = @ \union ({RecordOf(db, n)} \ {NoNumber})])
        /\ UNCHANGED <<db, people>>

\* With nothing known yet the result's own number becomes the record.
AllResolved(c) ==
    LET s == crawl[c]
    IN  /\ s.pc = "resolve" /\ s.left = {}
        /\ Become(c, IF s.found = {} THEN [s EXCEPT !.pc = "link", !.keep = s.number]
                     ELSE [s EXCEPT !.pc = "weigh", !.left = s.found])
        /\ UNCHANGED <<db, people>>

\* A body outweighs none.  Patent(n) answers for the record n belongs to by now.
Richness(n) == IF IsCached(db, n) THEN 1 ELSE 0

\* Ties go to the smaller number.
Wins(n, richness, keep, best) ==
    keep = NoNumber \/ richness > best \/ (richness = best /\ n < keep)

\* recordRichness reads one record after the other.
Weigh(c) ==
    LET s == crawl[c]
        n == CHOOSE x \in s.left : TRUE
    IN  /\ s.pc = "weigh" /\ s.left # {}
        /\ Become(c, IF Wins(n, Richness(n), s.keep, s.best)
                     THEN [s EXCEPT !.left = @ \ {n}, !.keep = n, !.best = Richness(n)]
                     ELSE [s EXCEPT !.left = @ \ {n}])
        /\ UNCHANGED <<db, people>>

\* A slip: the duplicates are left where they are.
AllWeighedNothingFolded(c) ==
    LET s == crawl[c]
    IN  /\ s.pc = "weigh" /\ s.left = {}
        /\ Become(c, [s EXCEPT !.pc = "merge", !.left = {}])
        /\ UNCHANGED <<db, people>>

AllWeighed(c) ==
    LET s == crawl[c]
    IN  /\ s.pc = "weigh" /\ s.left = {}
        /\ Become(c, [s EXCEPT !.pc = "merge", !.left = s.found \ {s.keep}])
        /\ UNCHANGED <<db, people>>

\* One duplicate at a time; a record that is no longer there ends the job.
MergeDuplicate(c) ==
    LET s == crawl[c]
        n == CHOOSE x \in s.left : TRUE
    IN  /\ s.pc = "merge" /\ s.left # {}
        /\ IF CanMerge(db, s.keep, n)
           THEN /\ db' = AfterMerge(db, s.keep, n)
                /\ Become(c, [s EXCEPT !.left = @ \ {n}])
           ELSE /\ UNCHANGED db
                /\ Become(c, Stopped(s, "aborted"))
        /\ UNCHANGED people

AllMerged(c) ==
    LET s == crawl[c]
    IN  /\ s.pc = "merge" /\ s.left = {}
        /\ Become(c, [s EXCEPT !.pc = "link"])
        /\ UNCHANGED <<db, people>>

(***************************************************************************)
(* The neighbours: an edge to the record each belongs to, a stub for those *)
(* not known, a place in the queue for those to be followed.               *)
(***************************************************************************)
ShouldQueue(kind, depth) ==
    \/ Profile = "citations" /\ kind = "cites" /\ depth = 0
    \/ Profile = "citedby" /\ kind = "cited_by" /\ depth = 0
    \/ Profile = "family" /\ kind \in {"parent", "child"}
    \/ Profile = "all" /\ (kind \in {"parent", "child"} \/ depth = 0)

\* A number is seen once, whichever edge shows it first and whether or not that
\* edge is one to follow.
Queued(s, rel) ==
    IF rel.to \notin s.seen /\ s.depth < DepthLimit /\ ShouldQueue(rel.kind, s.depth)
    THEN Append(s.queue, [number |-> rel.to, depth |-> s.depth + 1])
    ELSE s.queue

\* An unknown neighbour is its own record.
FarEnd(n) == IF RecordOf(db, n) = NoNumber THEN n ELSE RecordOf(db, n)

LinkNeighbour(c) ==
    LET s   == crawl[c]
        rel == Head(s.rels)
    IN  /\ s.pc = "link" /\ s.rels # <<>>
        /\ Become(c, [s EXCEPT
               !.rels  = Tail(s.rels),
               !.stubs = IF RecordOf(db, rel.to) = NoNumber THEN @ \union {rel.to} ELSE @,
               !.edges = @ \union {<<s.keep, FarEnd(rel.to), rel.kind>>},
               !.queue = Queued(s, rel),
               !.seen  = @ \union {rel.to}])
        /\ UNCHANGED <<db, people>>

AllLinked(c) ==
    LET s == crawl[c]
    IN  /\ s.pc = "link" /\ s.rels = <<>>
        /\ Become(c, [s EXCEPT !.pc = "save"])
        /\ UNCHANGED <<db, people>>

Node(s) ==
    [patent |-> s.keep, docs |-> s.docs, stubs |-> s.stubs, edges |-> s.edges, bibs |-> Sources]

\* The one write of the node: all of it or, with a far end gone, none, and then
\* the error ends the job.
SaveNode(c) ==
    LET s == crawl[c]
    IN  /\ s.pc = "save"
        /\ IF CanSaveNode(db, Node(s))
           THEN /\ db' = AfterSaveNode(db, Node(s))
                /\ Become(c, [ToNext(s) EXCEPT !.ingested = @ + 1])
           ELSE /\ UNCHANGED db
                /\ Become(c, Stopped(s, "aborted"))
        /\ UNCHANGED people

(***************************************************************************)
(* The end: the root must be there, and is promoted if it is still a stub. *)
(***************************************************************************)
LookUpRoot(c) ==
    LET s == crawl[c]
    IN  /\ s.pc = "next" /\ ~HasWork(s)
        /\ Become(c, IF RecordOf(db, Root[c]) = NoNumber THEN Stopped(s, "failed")
                     ELSE [s EXCEPT !.pc = "read", !.keep = RecordOf(db, Root[c])])
        /\ UNCHANGED <<db, people>>

\* A slip: a root that is there counts as fetched.
ReadRootNoPromotion(c) ==
    LET s == crawl[c]
    IN  /\ s.pc = "read"
        /\ Become(c, Stopped(s, IF RecordFor(db, s.keep) \in db.rec THEN "done" ELSE "failed"))
        /\ UNCHANGED <<db, people>>

ReadRoot(c) ==
    LET s == crawl[c]
        r == RecordFor(db, s.keep)
    IN  /\ s.pc = "read"
        /\ Become(c, IF r \notin db.rec THEN Stopped(s, "failed")
                     ELSE IF r \in db.cached THEN Stopped(s, "done")
                     ELSE [s EXCEPT !.pc = "promote", !.keep = r])
        /\ UNCHANGED <<db, people>>

\* The record just read is written back whole, there or not.
BareRecord(n) ==
    [patent |-> n, docs |-> {}, stubs |-> {}, edges |-> {}, bibs |-> {}]

PromoteRoot(c) ==
    LET s == crawl[c]
    IN  /\ s.pc = "promote"
        /\ db' = AfterSaveNode(db, BareRecord(s.keep))
        /\ Become(c, Stopped(s, "done"))
        /\ UNCHANGED people

(***************************************************************************)
(* What people do through the engine meanwhile.                            *)
(***************************************************************************)
Edit(kind) == kind \in given.edits /\ edits < given.most /\ edits' = edits + 1

\* ensureRecord: three calls, and by the second the number may be known.
LookUpToAdd(n) ==
    /\ Edit("stub") /\ adding.pc = "none"
    /\ RecordOf(db, n) = NoNumber
    /\ adding' = [number |-> n, pc |-> "patent"]
    /\ UNCHANGED <<db, crawl>>

AddPatent ==
    /\ adding.pc = "patent"
    /\ db' = AfterSavePatent(db, adding.number, FALSE)
    /\ adding' = [adding EXCEPT !.pc = "document"]
    /\ UNCHANGED <<crawl, edits>>

AddDocument ==
    /\ adding.pc = "document"
    /\ db' = IF CanSaveDocument(db, adding.number)
             THEN AfterSaveDocument(db, adding.number, adding.number) ELSE db
    /\ adding' = Nothing
    /\ UNCHANGED <<crawl, edits>>

\* A new membership, or a decision on one there is.
Curate(p, n, state) ==
    /\ Edit("curate")
    /\ n \in db.rec
    /\ db' = AfterSetReviewStates(AfterAddMembership(db, p, n, state), p, {n}, state)
    /\ UNCHANGED <<crawl, adding>>

SoftDelete(n) ==
    /\ Edit("soft_delete")
    /\ CanDelete(db, {n})
    /\ db' = AfterSoftDelete(db, {n})
    /\ UNCHANGED <<crawl, adding>>

CrawlStep(c) ==
    \/ Fetch(c) \/ FetchFails(c) \/ FetchStored(c) \/ ReadRelations(c)
    \/ LookUpUnfetched(c) \/ SaveStub(c)
    \/ ResolveCandidate(c) \/ AllResolved(c) \/ Weigh(c) \/ AllWeighed(c)
    \/ MergeDuplicate(c) \/ AllMerged(c)
    \/ LinkNeighbour(c) \/ AllLinked(c) \/ SaveNode(c)
    \/ LookUpRoot(c) \/ ReadRoot(c) \/ PromoteRoot(c)

Next ==
    \/ \E c \in Crawls : CrawlStep(c)
    \/ \E c \in Crawls, force \in BOOLEAN : StartCrawl(c, force)
    \/ \E c \in Crawls : Cancel(c)
    \/ \E n \in DOMAIN World : LookUpToAdd(n)
    \/ AddPatent
    \/ AddDocument
    \/ \E p \in Projects, n \in Numbers, state \in ReviewStates : Curate(p, n, state)
    \/ \E n \in Numbers : SoftDelete(n)

Spec == Init /\ [][Next /\ UNCHANGED given]_<<given, vars>>

\* A worker that runs a job keeps running it; nothing obliges anyone to cancel.
FairSpec == Spec /\ \A c \in Crawls : WF_vars(CrawlStep(c))

(***************************************************************************)
(* Properties.                                                             *)
(***************************************************************************)
Phases == {"idle", "next", "relations", "unfetched", "stub", "resolve", "weigh", "merge", "link", "save",
           "read", "promote", "done", "failed", "aborted"}

JobStates ==
    [pc : Phases, force : BOOLEAN, queue : Seq([number : Numbers, depth : Nat]),
     seen : SUBSET Numbers, ingested : Nat, number : Numbers \union {NoNumber}, depth : Nat,
     docs : SUBSET Numbers, rels : Seq([to : Numbers, kind : Kinds]), kinds : Seq(Kinds),
     left : SUBSET Numbers, found : SUBSET Numbers,
     keep : Numbers \union {NoNumber}, best : {0, 1},
     stubs : SUBSET Numbers, edges : SUBSET (Numbers \X Numbers \X Kinds),
     tried : SUBSET Numbers, walked : SUBSET Numbers]

TypeOK ==
    /\ given \in Settings
    /\ db \in Databases
    /\ crawl \in [Crawls -> JobStates]
    /\ adding \in [number : Numbers, pc : {"patent", "document"}] \union {Nothing}
    /\ edits \in Nat

\* No job goes deeper than its limit or saves more nodes than its budget.
WithinLimits ==
    \A c \in Crawls :
        /\ crawl[c].ingested <= NodeBudget /\ crawl[c].depth <= DepthLimit
        /\ \A i \in DOMAIN crawl[c].queue : crawl[c].queue[i].depth <= DepthLimit

\* However the calls of the jobs and of the people interleave, every row that names
\* a record names one that exists.
ReferentialIntegrity == Integral(db)

\* One job works at a time, and people add and delete nothing meanwhile.
Alone ==
    /\ \E c \in Crawls : {d \in Crawls : Root[d] # NoNumber} = {c}
    /\ given.edits \subseteq {"curate"}

\* What one job leaves is found under its own number.  A record whose number leads to
\* another is a second record of one invention, with memberships and edges nobody
\* reaches any more: "canonicalized upstream" (schema.sql:14-15) is then no longer
\* true of them.  Two jobs on one invention, or a delete between two calls, do that.
RecordsAnswerToTheirNumber == Alone => \A r \in db.rec : RecordOf(db, r) = r

\* No batch and no merge is rolled back: "a stub is created in the same batch so the
\* edge always resolves" (crawl.go:458-459).
EveryNodeIsSaved == Alone => \A c \in Crawls : crawl[c].pc # "aborted"

\* The numbers of one invention, as the providers report them.
Inventions == {World[n].docs \union {World[n].number} : n \in DOMAIN World}

InProject(d, p, i) == \E n \in i : d.mem[<<p, n>>] # NoState
Kept(d, p, i)      == \E n \in i : d.mem[<<p, n>>] = "under_review"
Decided(d, p, i)   == \E n \in i : d.mem[<<p, n>>] \notin AutoStates \union {NoState}

\* However the look-ups and merges of several jobs and people's edits interleave, no
\* job takes an invention out of a project, and a person's decision to keep it there
\* gives way to no automatic state, only to another decision (document.go:127-132).
\* Nor does a job by itself lose a stored body: folding a record that has one into a
\* stub "would throw biblio away" (crawl.go:593-598).
CrawlsLoseNothing ==
    [][crawl' # crawl =>
        \A i \in Inventions :
            /\ Alone /\ i \intersect db.cached # {} => i \intersect db'.cached # {}
            /\ \A p \in Projects :
                   /\ InProject(db, p, i) => InProject(db', p, i)
                   /\ Kept(db, p, i) => Decided(db', p, i)]_vars

\* A job asks for each number once, though many edges lead to it.
NumbersAreTriedOnce ==
    [][\A c \in Crawls :
        crawl[c].pc = "next" /\ crawl'[c].pc \in {"resolve", "relations", "unfetched"} =>
            Head(crawl[c].queue).number \notin crawl[c].tried]_vars

Reach[d \in Nat] ==
    [c \in Crawls |->
        IF d = 0 THEN {Root[c]}
        ELSE LET near == Reach[d - 1][c]
             IN  near \union
                 UNION {{World[n].rels[i].to : i \in {j \in DOMAIN World[n].rels :
                            ShouldQueue(World[n].rels[j].kind, d - 1)}} : n \in near}]

\* Jobs that always ask the providers stay within the depth limit of their root, over
\* edges of their profile.
WithinReach == \A c \in Crawls : crawl[c].force => crawl[c].tried \subseteq Reach[DepthLimit][c]

\* A job on its own that reports success leaves its root fetched in full, as the end
\* of crawl ensures (crawl.go:381-399), unless the write that promotes it was refused.
DoneMeansCached ==
    [][\A c \in Crawls : Alone /\ crawl[c].pc # "done" /\ crawl'[c].pc = "done" =>
        IsCached(db', Root[c]) \/ Cancel(c)]_vars

\* What crawl.go:131 says of the family profile: "Follow parent/child recursion".  A
\* job that ran to its end, short of its budget and never at its depth limit, has then
\* asked for every parent and child of what it fetched.
FamilyIsFollowed ==
    \A c \in Crawls :
        crawl[c].pc = "done" /\ crawl[c].force /\ crawl[c].ingested < NodeBudget =>
            \A n \in crawl[c].walked : \A i \in DOMAIN World[n].rels :
                World[n].rels[i].kind \in {"parent", "child"} =>
                    World[n].rels[i].to \in crawl[c].tried

\* Every job that starts comes to an end, whatever the graph looks like and whatever
\* is merged or deleted under it.
JobsEnd ==
    \A c \in Crawls :
        crawl[c].pc = "next" ~> crawl[c].pc \in {"done", "failed", "aborted"}
=============================================================================
